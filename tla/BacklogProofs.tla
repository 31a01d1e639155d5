--------------------------- MODULE BacklogProofs ---------------------------
(***************************************************************************)
(* The replication backlog serves every replica the stream, for any size   *)
(* of the buffer, any commands and any interleaving of batches, sends,     *)
(* growing and trimming.                                                   *)
(***************************************************************************)
EXTENDS BacklogSafety, NatLemmas

\* Zenon proves the leaves that name no other prover.
USE ZenonT(20)

-----------------------------------------------------------------------------
(* Arithmetic of positions in the circular buffer. *)

\* Quotient and remainder.
LEMMA ModFacts ==
    ASSUME NEW a \in Int, NEW n \in Nat \ {0}
    PROVE  /\ a % n \in 0 .. (n - 1) /\ a \div n \in Int
           /\ a = n * (a \div n) + (a % n)
BY SMT

\* A multiple of n below n and above -n is 0.
LEMMA SmallMultiple ==
    ASSUME NEW k \in Int, NEW n \in Nat \ {0}, n * k < n, -n < n * k
    PROVE  k = 0
<1>1. k >= 1 => n * k >= n
  BY SMT
<1>2. k <= -1 => n * k <= -n
  BY SMT
<1> QED BY SMT, <1>1, <1>2

\* Two ways to divide by n give the same quotient if the numbers are less than n
\* apart and the remainders differ accordingly.
LEMMA SameQuotient ==
    ASSUME NEW n \in Nat \ {0}, NEW q \in Int, NEW d \in Int, NEW x \in Int,
           n * q - n * d = x, x < n, -n < x
    PROVE  q = d
<1>1. n * (q - d) = n * q - n * d
  BY SMT
<1>2. q - d = 0
  BY SMT, <1>1, SmallMultiple
<1> QED BY SMT, <1>2

\* The remainder is unique.
LEMMA ModUnique ==
    ASSUME NEW a \in Int, NEW n \in Nat \ {0}, NEW q \in Int, NEW r \in 0 .. (n - 1),
           a = n * q + r
    PROVE  a % n = r
<1>1. PICK d \in Int, s \in 0 .. (n - 1) : a = n * d + s /\ a % n = s
  BY ModFacts
<1>2. n * q \in Int /\ n * d \in Int
  BY SMT
<1>3. n * q - n * d = s - r
  BY SMT, <1>1, <1>2
<1>4. q = d
  BY SMT, <1>3, SameQuotient
<1> QED BY SMT, <1>1, <1>2, <1>4

\* Positions below the size are not changed.
LEMMA ModSmall ==
    ASSUME NEW n \in Nat \ {0}, NEW a \in 0 .. (n - 1)
    PROVE  a % n = a
<1>1. a = n * 0 + a
  BY SMT
<1> QED BY SMT, <1>1, ModUnique

\* One may move on from the remainder.
LEMMA ModAdd ==
    ASSUME NEW a \in Int, NEW b \in Int, NEW n \in Nat \ {0}
    PROVE  ((a % n) + b) % n = (a + b) % n
<1>1. PICK q \in Int, r \in 0 .. (n - 1) : a = n * q + r /\ a % n = r
  BY ModFacts
<1>2. PICK p \in Int, s \in 0 .. (n - 1) : r + b = n * p + s /\ (r + b) % n = s
  <2> DEFINE c == r + b
  <2>1. c \in Int
    BY SMT
  <2> HIDE DEF c
  <2>2. \E p \in Int, s \in 0 .. (n - 1) : c = n * p + s /\ c % n = s
    BY <2>1, ModFacts
  <2> QED BY SMT, <2>2 DEF c
<1>3. n * (q + p) = n * q + n * p /\ n * q \in Int /\ n * p \in Int
  BY SMT
<1>4. a + b = n * (q + p) + s
  BY SMT, <1>1, <1>2, <1>3
<1>5. (a + b) % n = s
  <2> DEFINE c == a + b
             k == q + p
  <2>1. c \in Int /\ k \in Int /\ c = n * k + s
    BY SMT, <1>4
  <2> HIDE DEF c, k
  <2>2. c % n = s
    BY SMT, <2>1, ModUnique
  <2> QED BY SMT, <2>2 DEF c
<1> QED BY SMT, <1>1, <1>2, <1>5

\* Equal positions stay equal.
LEMMA ModShift ==
    ASSUME NEW a \in Int, NEW c \in Int, NEW b \in Int, NEW n \in Nat \ {0}, a % n = c % n
    PROVE  (a + b) % n = (c + b) % n
<1>1. ((a % n) + b) % n = (a + b) % n
  BY ModAdd
<1>2. ((c % n) + b) % n = (c + b) % n
  BY ModAdd
<1> QED BY SMT, <1>1, <1>2

\* Offsets less than n apart have different positions.
LEMMA ModEqual ==
    ASSUME NEW a \in Int, NEW b \in Int, NEW n \in Nat \ {0},
           a <= b, b - a < n, a % n = b % n
    PROVE  a = b
<1>1. PICK q \in Int, r \in 0 .. (n - 1) : a = n * q + r /\ a % n = r
  BY ModFacts
<1>2. PICK p \in Int, s \in 0 .. (n - 1) : b = n * p + s /\ b % n = s
  BY ModFacts
<1>3. n * p \in Int /\ n * q \in Int /\ r = s
  BY SMT, <1>1, <1>2
<1>4. n * p - n * q = b - a
  BY SMT, <1>1, <1>2, <1>3
<1>5. p = q
  BY SMT, <1>4, SameQuotient
<1> QED BY SMT, <1>1, <1>2, <1>3, <1>5

\* What a replica has got after one more write.
LEMMA Appended ==
    ASSUME NEW s \in Seq(Nat), NEW t \in Seq(Nat)
    PROVE  /\ s \o t \in Seq(Nat) /\ Len(s \o t) = Len(s) + Len(t)
           /\ \A i \in 1 .. Len(s) : (s \o t)[i] = s[i]
           /\ \A i \in 1 .. Len(t) : (s \o t)[Len(s) + i] = t[i]
BY SMT

-----------------------------------------------------------------------------
(* The circular buffer. *)

\* Which of n bytes the loop of feedReplicationBacklog writes to position i.
Writes(b, n, i) == {k \in 1 .. n : (b.idx + k - 1) % b.size = i}

\* Filled writes the bytes behind the write position and leaves the rest of the
\* backlog alone.
LEMMA FilledOK ==
    ASSUME NEW b, BacklogOK(b), moff \in Nat, NEW n \in Nat \ {0}
    PROVE  /\ BacklogOK(Filled(b, n))
           /\ Filled(b, n).size = b.size /\ Filled(b, n).start = b.start
           /\ Filled(b, n).idx = (b.idx + n) % b.size
           /\ \A i \in 0 .. (b.size - 1) :
                 Filled(b, n).buf[i] = IF Writes(b, n, i) = {} THEN b.buf[i]
                                       ELSE moff + Max(Writes(b, n, i))
<1> DEFINE F == Filled(b, n)
           buf == [i \in 0 .. (b.size - 1) |->
                     LET new == {k \in 1 .. n : (b.idx + k - 1) % b.size = i}
                     IN  IF new = {} THEN b.buf[i] ELSE moff + Max(new)]
<1>1. /\ DOMAIN b = Fields /\ b.size \in Nat \ {0} /\ b.size >= MinSize
      /\ b.idx \in 0 .. (b.size - 1) /\ b.start \in Nat
      /\ b.buf \in [0 .. (b.size - 1) -> Nat]
  BY SMT, BacklogAssumption DEF BacklogOK
<1>2. /\ DOMAIN F = Fields /\ F.size = b.size /\ F.start = b.start
      /\ F.idx = (b.idx + n) % b.size /\ F.buf = buf
  BY SMT, <1>1 DEF Filled, Fields
<1>3. (b.idx + n) % b.size \in 0 .. (b.size - 1)
  <2>1. b.idx + n \in Int
    BY SMT, <1>1
  <2> QED BY <1>1, <2>1, ModFacts
<1>4. buf \in [0 .. (b.size - 1) -> Nat]
  <2> SUFFICES ASSUME NEW i \in 0 .. (b.size - 1)
               PROVE  buf[i] \in Nat
    OBVIOUS
  <2> DEFINE new == {k \in 1 .. n : (b.idx + k - 1) % b.size = i}
  <2>1. new \in SUBSET Nat /\ \A k \in new : k <= n
    BY SMT
  <2>2. new # {} => Max(new) \in Nat
    <3> HIDE DEF new
    <3> QED BY <2>1, MaxOfBounded
  <2>3. buf[i] = IF new = {} THEN b.buf[i] ELSE moff + Max(new)
    OBVIOUS
  <2> HIDE DEF new, buf
  <2> QED BY SMT, <1>1, <2>2, <2>3
<1>5. ASSUME NEW i \in 0 .. (b.size - 1)
      PROVE  buf[i] = IF Writes(b, n, i) = {} THEN b.buf[i] ELSE moff + Max(Writes(b, n, i))
  BY DEF Writes
<1> HIDE DEF F, buf
<1>6. BacklogOK(F)
  BY SMT, <1>1, <1>2, <1>3, <1>4 DEF BacklogOK
<1> QED BY <1>2, <1>5, <1>6 DEF F

\* feedReplicationBacklog keeps the last repl_backlog_size bytes in their places.
LEMMA FilledWindow ==
    ASSUME NEW b, BacklogOK(b), moff \in Nat, Window(b, moff), NEW n \in Nat \ {0}
    PROVE  Window(Filled(b, n), moff + n)
<1> DEFINE F == Filled(b, n)
<1>1. /\ b.size \in Nat \ {0} /\ b.idx \in 0 .. (b.size - 1) /\ b.start \in Nat
      /\ Start <= b.start /\ b.start <= moff /\ b.idx % b.size = (moff - b.start) % b.size
  BY SMT, BacklogAssumption DEF BacklogOK, Window
<1>2. /\ F.size = b.size /\ F.start = b.start /\ F.idx = (b.idx + n) % b.size
      /\ F.idx \in 0 .. (b.size - 1)
  BY SMT, FilledOK DEF BacklogOK
<1>3. ASSUME NEW k \in Int
      PROVE  (b.idx + k) % b.size = (moff - b.start + k) % b.size
  <2>1. b.idx \in Int /\ moff - b.start \in Int
    BY SMT, <1>1
  <2> QED BY <1>1, <2>1, ModShift
<1>4. F.idx % F.size = (moff + n - b.start) % b.size
  <2>1. F.idx % b.size = F.idx
    BY SMT, <1>1, <1>2, ModSmall
  <2>2. moff - b.start + n = moff + n - b.start
    BY SMT, <1>1
  <2> QED BY SMT, <1>2, <1>3, <2>1, <2>2
<1>5. ASSUME NEW o \in (b.start + 1) .. (moff + n), moff + n - o < b.size
      PROVE  F.buf[(o - 1 - b.start) % b.size] = o
  <2> DEFINE p == (o - 1 - b.start) % b.size
             new == Writes(b, n, p)
  <2>1. p \in 0 .. (b.size - 1)
    <3>1. o - 1 - b.start \in Int
      BY SMT, <1>1
    <3> QED BY <1>1, <3>1, ModFacts
  <2>2. F.buf[p] = IF new = {} THEN b.buf[p] ELSE moff + Max(new)
    <3> HIDE DEF p
    <3> QED BY <2>1, FilledOK
  <2>3. ASSUME NEW k \in 1 .. n
        PROVE  (b.idx + k - 1) % b.size = (moff - b.start + k - 1) % b.size
    <3>1. k - 1 \in Int /\ b.idx + (k - 1) = b.idx + k - 1
          /\ moff - b.start + (k - 1) = moff - b.start + k - 1
      BY SMT, <1>1
    <3> QED BY SMT, <3>1, <1>3
  <2>4. ASSUME NEW k \in 1 .. n, (b.idx + k - 1) % b.size = p, moff + k >= o
        PROVE  k = o - moff
    <3> DEFINE x == o - 1 - b.start
               y == moff - b.start + k - 1
    <3>1. x \in Int /\ y \in Int /\ x <= y /\ y - x < b.size
      BY SMT, <1>1, <1>5, <2>4
    <3>2. x % b.size = y % b.size
      BY SMT, <2>3, <2>4
    <3> HIDE DEF x, y
    <3>3. x = y
      BY SMT, <1>1, <3>1, <3>2, ModEqual
    <3> QED BY SMT, <1>1, <3>3 DEF x, y
  <2>5. CASE o > moff
    <3>1. o - moff \in 1 .. n /\ moff - b.start + (o - moff) - 1 = o - 1 - b.start
      BY SMT, <1>1, <2>5
    <3>2. o - moff \in new
      BY SMT, <2>3, <3>1 DEF Writes
    <3>3. new \in SUBSET Nat /\ new # {} /\ \A k \in new : k <= n
      <4>1. new \subseteq 1 .. n
        BY DEF Writes
      <4> HIDE DEF new
      <4> QED BY SMT, <3>2, <4>1
    <3>4. Max(new) \in new /\ o - moff <= Max(new)
      <4> HIDE DEF new
      <4> QED BY <3>2, <3>3, MaxOfBounded
    <3> DEFINE m == Max(new)
    <3> HIDE DEF m
    <3>5. m \in 1 .. n /\ (b.idx + m - 1) % b.size = p /\ o - moff <= m
      BY SMT, <3>4 DEF m, Writes
    <3>6. m = o - moff
      <4> HIDE DEF p
      <4>1. moff + m >= o
        BY SMT, <3>5
      <4> QED BY SMT, <2>4, <3>5, <4>1
    <3> HIDE DEF new, p
    <3> QED BY SMT, <2>2, <3>3, <3>6 DEF m, p
  <2>6. CASE ~(o > moff)
    <3>1. new = {}
      <4> SUFFICES ASSUME NEW k \in new PROVE FALSE
        BY SMT
      <4>1. k \in 1 .. n /\ (b.idx + k - 1) % b.size = p /\ moff + k >= o
        BY SMT, <2>6 DEF Writes
      <4>2. k = o - moff
        <5> HIDE DEF new, p
        <5> QED BY SMT, <2>4, <4>1
      <4> QED BY SMT, <2>6, <4>1, <4>2
    <3>2. b.buf[p] = o
      BY SMT, <1>1, <1>5, <2>6 DEF Window
    <3> HIDE DEF new, p
    <3> QED BY SMT, <2>2, <3>1, <3>2 DEF p
  <2> QED BY SMT, <2>5, <2>6
<1> HIDE DEF F
<1> DEFINE m == moff + n
<1>6. Start <= F.start /\ F.start <= m
  BY SMT, <1>1, <1>2, BacklogAssumption
<1>7. \A o \in (F.start + 1) .. m : m - o < F.size => F.buf[(o - 1 - F.start) % F.size] = o
  BY SMT, <1>2, <1>5
<1>8. F.idx % F.size = (m - F.start) % F.size
  BY SMT, <1>1, <1>2, <1>4
<1> HIDE DEF m
<1>9. Window(F, m)
  BY <1>6, <1>7, <1>8 DEF Window
<1> QED BY <1>9 DEF F, m

\* The position resizeReplicationBacklog starts to copy from, and its assertion.
LEMMA CanResizeHolds ==
    ASSUME NEW b, BacklogOK(b), moff \in Nat, Window(b, moff),
           NEW e \in Nat, b.start <= e, e <= moff, moff - e < b.size
    PROVE  CanResize(b, e)
<1> DEFINE from == (e - b.start) % b.size
           x == moff - e
<1>1. /\ b.size \in Nat \ {0} /\ b.idx \in 0 .. (b.size - 1) /\ b.start \in Nat
      /\ b.idx % b.size = (moff - b.start) % b.size
  BY SMT, BacklogAssumption DEF BacklogOK, Window
<1>2. Index(b, e) = from
  BY SMT, <1>1 DEF Index
<1>3. e - b.start \in Int /\ x \in 0 .. (b.size - 1) /\ e - b.start + x = moff - b.start
  BY SMT, <1>1
<1>4. from \in 0 .. (b.size - 1)
  BY <1>1, <1>3, ModFacts
<1>5. (from + x) % b.size = b.idx
  <2>1. b.idx % b.size = b.idx
    BY <1>1, ModSmall
  <2>2. x \in Int
    BY SMT, <1>3
  <2>3. (from + x) % b.size = (e - b.start + x) % b.size
    <3> HIDE DEF x
    <3> QED BY <1>1, <1>3, <2>2, ModAdd
  <2> HIDE DEF x, from
  <2> QED BY <1>1, <1>3, <2>1, <2>3
<1> HIDE DEF from, x
<1>6. CASE from + x < b.size
  <2>1. from + x \in 0 .. (b.size - 1)
    BY SMT, <1>1, <1>3, <1>4, <1>6
  <2>2. b.idx = from + x
    BY <1>1, <1>5, <2>1, ModSmall
  <2>3. x = b.idx - from + IF b.idx < from THEN b.size ELSE 0
    BY SMT, <1>1, <1>3, <1>4, <2>2
  <2> QED BY <1>2, <2>3 DEF CanResize, x
<1>7. CASE ~(from + x < b.size)
  <2> DEFINE y == from + x - b.size
  <2>1. y \in 0 .. (b.size - 1) /\ from + x = b.size * 1 + y /\ from + x \in Int /\ 1 \in Int
    BY SMT, <1>1, <1>3, <1>4, <1>7
  <2> HIDE DEF y
  <2>2. b.idx = y
    BY <1>1, <1>5, <2>1, ModUnique
  <2>3. x = b.idx - from + IF b.idx < from THEN b.size ELSE 0
    BY SMT, <1>1, <1>3, <1>4, <2>2 DEF y
  <2> QED BY <1>2, <2>3 DEF CanResize, x
<1> QED BY SMT, <1>6, <1>7

\* The greatest of a few sizes.
LEMMA MaxOfSizes ==
    ASSUME NEW n \in Nat, NEW k \in Nat, NEW h \in Nat
    PROVE  /\ Max({n, k, h}) \in {n, k, h} /\ Max({n, k}) \in {n, k}
           /\ n <= Max({n, k, h}) /\ k <= Max({n, k, h}) /\ h <= Max({n, k, h})
           /\ n <= Max({n, k}) /\ k <= Max({n, k})
<1> DEFINE S == {n, k, h}
           T == {n, k}
<1>1. /\ S \in SUBSET Nat /\ S # {} /\ \A x \in S : x <= n + k + h
      /\ T \in SUBSET Nat /\ T # {} /\ \A x \in T : x <= n + k + h
      /\ n + k + h \in Nat
  BY SMT
<1>2. Max(S) \in S /\ \A x \in S : x <= Max(S)
  <2> HIDE DEF S, T
  <2> QED BY <1>1, MaxOfBounded
<1>3. Max(T) \in T /\ \A x \in T : x <= Max(T)
  <2> HIDE DEF S, T
  <2> QED BY <1>1, MaxOfBounded
<1> QED BY <1>2, <1>3

\* resizeReplicationBacklog moves the stream from `earliest' on, or nothing, to the
\* start of a buffer of at least n bytes.
LEMMA ResizedOK ==
    ASSUME NEW b, BacklogOK(b), moff \in Nat, Window(b, moff),
           NEW e \in Offsets, NEW n \in Nat, n >= MinSize, b.size # n,
           e # -1 => b.start <= e /\ e <= moff /\ moff - e < b.size /\ moff - e < n
    PROVE  LET c == Resized(b, e, n)
           IN  /\ BacklogOK(c) /\ Window(c, moff)
               /\ c.size >= n /\ c.start = IF e = -1 THEN moff ELSE e
<1> DEFINE c == Resized(b, e, n)
           hot == IF e = -1 THEN 0 ELSE moff - e
           s == Max({n, MinSize, hot})
           from == Index(b, e)
           buf == [i \in 0 .. (s - 1) |-> IF i < hot THEN b.buf[(from + i) % b.size] ELSE 0]
<1>1. /\ DOMAIN b = Fields /\ b.size \in Nat \ {0} /\ b.size >= MinSize
      /\ b.idx \in 0 .. (b.size - 1) /\ b.start \in Nat
      /\ b.buf \in [0 .. (b.size - 1) -> Nat] /\ Start <= b.start /\ b.start <= moff
      /\ MinSize \in Nat \ {0} /\ Start \in Nat
  BY SMT, BacklogAssumption DEF BacklogOK, Window
<1>2. hot \in Nat /\ hot < n
  BY SMT, <1>1 DEF Offsets
<1>3. s \in Nat /\ s >= n /\ s >= MinSize
  <2> HIDE DEF hot
  <2>1. s \in {n, MinSize, hot} /\ n <= s /\ MinSize <= s
    BY <1>1, <1>2, MaxOfSizes
  <2> HIDE DEF s
  <2> QED BY SMT, <1>1, <1>2, <2>1
<1>4. b.size # Max({n, MinSize})
  <2>1. Max({n, MinSize}) \in {n, MinSize} /\ n <= Max({n, MinSize})
    BY <1>1, MaxOfSizes
  <2> HIDE DEF s
  <2> QED BY SMT, <1>1, <2>1
<1>5. /\ DOMAIN c = Fields /\ c.size = s /\ c.idx = hot /\ c.buf = buf
      /\ c.start = IF e = -1 THEN moff ELSE e
  <2> HIDE DEF hot, s, from, buf
  <2> DEFINE new == [b EXCEPT !.buf = buf, !.size = s, !.histlen = hot, !.idx = hot]
  <2>1. c = IF e = -1 THEN [new EXCEPT !.off = moff + 1, !.start = moff]
            ELSE [new EXCEPT !.start = e,
                     !.batchIdx = IF @ < 0 THEN @
                                  ELSE IF @ < from THEN @ - from + b.size ELSE @ - from]
    BY <1>4 DEF Resized, hot, s, from, buf
  <2>2. /\ DOMAIN new = Fields /\ new.size = s /\ new.idx = hot /\ new.buf = buf
    BY SMT, <1>1 DEF Fields
  <2> HIDE DEF new, c
  <2> QED BY SMT, <2>1, <2>2 DEF Fields
<1>6. from \in Int
  <2>1. ASSUME NEW x \in Int PROVE x % b.size \in Int
    <3>1. x % b.size \in 0 .. (b.size - 1)
      BY <1>1, <2>1, ModFacts
    <3> QED BY SMT, <1>1, <3>1
  <2>2. e - b.start \in Int /\ b.start - e \in Int
    BY SMT, <1>1 DEF Offsets
  <2>3. (e - b.start) % b.size \in Int /\ -((b.start - e) % b.size) \in Int
    BY SMT, <2>1, <2>2
  <2> QED BY <2>3 DEF Index
<1>7. buf \in [0 .. (s - 1) -> Nat]
  <2> SUFFICES ASSUME NEW i \in 0 .. (s - 1)
               PROVE  (IF i < hot THEN b.buf[(from + i) % b.size] ELSE 0) \in Nat
    OBVIOUS
  <2>1. from + i \in Int
    BY SMT, <1>3, <1>6
  <2>2. (from + i) % b.size \in 0 .. (b.size - 1)
    <3> HIDE DEF from
    <3> QED BY <1>1, <2>1, ModFacts
  <2>3. b.buf[(from + i) % b.size] \in Nat
    <3> HIDE DEF from
    <3> QED BY <1>1, <2>2
  <2> HIDE DEF from, hot
  <2> QED BY SMT, <2>3
<1>8. BacklogOK(c)
  <2> HIDE DEF c, hot, s, from, buf
  <2> QED BY SMT, <1>1, <1>2, <1>3, <1>5, <1>7, e \in Nat \/ e = -1 DEF BacklogOK, Offsets
<1>9. ASSUME e = -1 PROVE Window(c, moff)
  <2>1. hot = 0 /\ c.start = moff /\ c.idx = 0
    BY SMT, <1>5, <1>9
  <2> HIDE DEF c, hot, s, from, buf
  <2>2. /\ Start <= c.start /\ c.start <= moff /\ moff - c.start = 0
        /\ (c.start + 1) .. moff = {}
    BY SMT, <1>1, <2>1
  <2> QED BY SMT, <2>1, <2>2 DEF Window
<1>10. ASSUME e # -1 PROVE Window(c, moff)
  <2>1. /\ hot = moff - e /\ e \in Nat /\ c.start = e /\ b.start <= e /\ e <= moff
        /\ moff - e < b.size /\ moff - e < n
    BY SMT, <1>5, <1>10 DEF Offsets
  <2>2. from = (e - b.start) % b.size
    BY SMT, <1>1, <2>1 DEF Index
  <2>3. ASSUME NEW o \in (e + 1) .. moff
        PROVE  c.buf[(o - 1 - e) % s] = o
    <3> DEFINE i == o - 1 - e
    <3>1. i \in Nat /\ i < moff - e
      BY SMT, <2>1
    <3>2. i \in 0 .. (s - 1) /\ i < hot /\ i \in Int /\ s \in Nat \ {0}
      <4> HIDE DEF s, i, hot
      <4> QED BY SMT, <1>1, <1>3, <2>1, <3>1
    <3>3. /\ e - b.start \in Int /\ e - b.start + i = o - 1 - b.start
          /\ o \in (b.start + 1) .. moff /\ moff - o < b.size
      <4>1. o \in Int /\ e + 1 <= o /\ o <= moff
        BY SMT, <2>1
      <4>2. b.start \in Nat /\ b.size \in Nat
        BY SMT, <1>1
      <4>3. o - 1 - b.start = e - b.start + (o - 1 - e)
        BY SMT, <2>1, <4>1, <4>2
      <4>4. o \in (b.start + 1) .. moff /\ moff - o < b.size
        BY SMT, <2>1, <4>1, <4>2
      <4> QED BY SMT, <2>1, <4>2, <4>3, <4>4
    <3>4. i % s = i
      <4> HIDE DEF i, s
      <4> QED BY <3>2, ModSmall
    <3>5. c.buf[i] = b.buf[(from + i) % b.size]
      <4>1. buf[i] = b.buf[(from + i) % b.size]
        <5> HIDE DEF i, from, s, hot
        <5> QED BY <3>2
      <4> HIDE DEF i, from, s, hot, buf, c
      <4> QED BY <4>1, <1>5
    <3>6. (from + i) % b.size = (o - 1 - b.start) % b.size
      <4> HIDE DEF i, from, s, hot
      <4>1. (((e - b.start) % b.size) + i) % b.size = (e - b.start + i) % b.size
        BY <1>1, <3>2, <3>3, ModAdd
      <4> QED BY <2>2, <3>3, <4>1
    <3>7. b.buf[(o - 1 - b.start) % b.size] = o
      BY <3>3 DEF Window
    <3> HIDE DEF c, from, s, hot
    <3> QED BY <3>4, <3>5, <3>6, <3>7
  <2> HIDE DEF c, hot, s, from, buf
  <2>4. Start <= c.start /\ c.start <= moff
    BY SMT, <1>1, <2>1
  <2>5. c.idx % c.size = (moff - c.start) % c.size
    BY <1>5, <2>1
  <2>6. \A o \in (c.start + 1) .. moff :
           moff - o < c.size => c.buf[(o - 1 - c.start) % c.size] = o
    BY <1>5, <2>1, <2>3
  <2> QED BY <2>4, <2>5, <2>6 DEF Window
<1>11. c.size >= n
  <2> HIDE DEF c, s
  <2> QED BY SMT, <1>3, <1>5
<1> HIDE DEF hot, s, from, buf
<1> QED BY <1>5, <1>8, <1>9, <1>10, <1>11

-----------------------------------------------------------------------------
(* The steps. *)

\* What the invariant says of the variables of the server.
LEMMA ServerFacts ==
    ASSUME Core
    PROVE  /\ moff \in Nat /\ batchOff \in Offsets /\ lowest \in Offsets
           /\ BacklogOK(bl) /\ Window(bl, moff)
           /\ bl.size \in Nat \ {0} /\ bl.start \in Nat /\ bl.start <= moff
           /\ batchOff <= moff /\ config = set.size
           /\ lowest # -1 => /\ bl.start <= lowest /\ lowest <= moff
                             /\ moff - lowest < bl.size
<1>1. /\ moff \in Nat /\ batchOff \in Offsets /\ lowest \in Offsets /\ BacklogOK(bl)
      /\ Window(bl, moff)
  BY DEF Core, TypeOK
<1>2. bl.size \in Nat \ {0} /\ bl.start \in Nat /\ bl.start <= moff
  BY SMT, <1>1, BacklogAssumption DEF BacklogOK, Window
<1>3. /\ batchOff <= moff /\ config = set.size
      /\ lowest # -1 => bl.start <= lowest /\ lowest <= moff /\ moff - lowest < bl.size
  BY DEF Core, LowestInv
<1> QED BY <1>1, <1>2, <1>3

\* What it says of a connected replica.
LEMMA ReplicaFacts ==
    ASSUME Core, NEW r \in Listening
    PROVE  /\ r \in Replicas /\ curr[r] \in Nat /\ end[r] \in Nat
           /\ bl.start <= curr[r] /\ curr[r] <= end[r] /\ end[r] <= moff
           /\ moff - curr[r] < bl.size
           /\ lowest # -1 => lowest <= curr[r]
           /\ lowest = -1 /\ InBatch => batchOff <= curr[r]
           /\ lowest = -1 /\ ~InBatch => curr[r] = moff
           /\ InBatch => end[r] <= batchOff \/ curr[r] = end[r]
<1>1. r \in Replicas
  BY DEF Listening
<1>2. curr[r] \in Offsets /\ end[r] \in Offsets
  BY <1>1 DEF Core, TypeOK
<1>3. /\ bl.start <= curr[r] /\ curr[r] <= end[r] /\ end[r] <= moff
      /\ moff - curr[r] < bl.size
  BY DEF Core, FitInv
<1>4. bl.start \in Nat
  BY SMT, ServerFacts
<1>5. curr[r] \in Nat /\ end[r] \in Nat
  BY SMT, <1>2, <1>3, <1>4 DEF Offsets
<1>6. /\ lowest # -1 => lowest <= curr[r]
      /\ lowest = -1 /\ InBatch => batchOff <= curr[r]
      /\ lowest = -1 /\ ~InBatch => curr[r] = moff
  BY DEF Core, LowestInv
<1>7. InBatch => end[r] <= batchOff \/ curr[r] = end[r]
  BY DEF Core, EndInv
<1> QED BY <1>1, <1>3, <1>5, <1>6, <1>7

\* The least position of a nonempty set of connected replicas.
LEMMA LeastPosition ==
    ASSUME Core, NEW R \in SUBSET Listening, R # {}
    PROVE  LET min == Min({curr[r] : r \in R})
           IN  (\E r \in R : min = curr[r]) /\ \A r \in R : min <= curr[r]
<1> DEFINE S == {curr[r] : r \in R}
<1>1. S \in SUBSET Nat /\ S # {}
  <2>1. \A r \in R : curr[r] \in Nat
    BY ReplicaFacts
  <2> QED BY <2>1
<1>2. Min(S) \in S /\ \A x \in S : Min(S) <= x
  <2> HIDE DEF S
  <2> QED BY <1>1, MinOfNats
<1> QED BY <1>2

\* freeClientAsync for a set of replicas.
LEMMA Closed ==
    ASSUME TypeOK, NEW R, CloseAsap(R), state' = state
    PROVE  /\ closing' \in [Replicas -> {"no", "asap", "lost"}]
           /\ Listening' = Listening \ R
           /\ \A r \in Replicas : closing'[r] = "asap" =>
                 closing[r] = "asap" \/ (r \in R /\ closing[r] = "no")
           /\ R = {} => closing' = closing
<1>1. closing \in [Replicas -> {"no", "asap", "lost"}]
  BY DEF TypeOK
<1>2. closing' = [r \in Replicas |-> IF r \in R /\ closing[r] = "no" THEN "asap" ELSE closing[r]]
  BY DEF CloseAsap
<1>3. \A r \in Replicas :
         closing'[r] = IF r \in R /\ closing[r] = "no" THEN "asap" ELSE closing[r]
  BY <1>2
<1>4. closing' \in [Replicas -> {"no", "asap", "lost"}]
  BY SMT, <1>1, <1>2
<1>5. Listening' = Listening \ R
  BY SMT, <1>1, <1>3 DEF Listening
<1>6. R = {} => closing' = closing
  BY SMT, <1>1, <1>2
<1> QED BY <1>3, <1>4, <1>5, <1>6

\* What feedReplicationBacklog has made sure of when it starts to write n bytes into
\* the buffer b: the replicas it keeps need none of the bytes it overwrites.
Ready(b, n) ==
    /\ BacklogOK(b) /\ Window(b, moff) /\ bl' = Filled(b, n)
    /\ \A r \in Listening' : /\ r \in Listening /\ b.start <= curr[r]
                             /\ moff + n - curr[r] < b.size
    /\ lowest' \in Offsets /\ batchOff' \in Nat /\ batchOff' <= moff + n
    /\ lowest' # -1 => /\ b.start <= lowest' /\ lowest' <= moff
                       /\ moff + n - lowest' < b.size
                       /\ \A r \in Listening' : lowest' <= curr[r]
    /\ lowest' = -1 => \A r \in Listening' : batchOff' <= curr[r]
    /\ batchOff' = batchOff \/ Listening' = {}
    /\ closing' \in [Replicas -> {"no", "asap", "lost"}]
    /\ set.hardLimit = 0 => closing' = closing

\* feedReplicationBacklog gets ready: with the buffer as it is, after it has closed
\* some replicas, or with a larger one.
LEMMA FeedReady ==
    ASSUME Core, NEW n \in Nat \ {0}, Feed(n)
    PROVE  \E b : Ready(b, n)
<1> DEFINE lower == IF lowest = -1 THEN batchOff ELSE lowest
           Needs(o) == moff + n - o + 1
           over == {r \in Listening : set.hardLimit > 0 /\ Needs(curr[r]) > set.hardLimit}
           rest == Listening \ over
           min == Min({curr[r] : r \in rest})
<1>1. InBatch /\ state' = state
  BY DEF Feed
<1>2. batchOff \in Nat
  BY SMT, <1>1, ServerFacts DEF InBatch, Offsets
<1>3. /\ moff \in Nat /\ lowest \in Offsets /\ BacklogOK(bl) /\ Window(bl, moff)
      /\ bl.size \in Nat \ {0} /\ bl.start \in Nat /\ bl.start <= moff /\ batchOff <= moff
      /\ lowest # -1 => bl.start <= lowest /\ lowest <= moff /\ moff - lowest < bl.size
  BY ServerFacts
<1>4. TypeOK /\ closing \in [Replicas -> {"no", "asap", "lost"}]
  BY DEF Core, TypeOK
<1>5. CASE Needs(lower) <= bl.size
  <2>1. bl' = Filled(bl, n) /\ batchOff' = batchOff /\ lowest' = lowest /\ closing' = closing
    BY <1>5 DEF Feed
  <2>2. Listening' = Listening
    BY <1>1, <2>1 DEF Listening
  <2>3. ASSUME NEW r \in Listening
        PROVE  bl.start <= curr[r] /\ moff + n - curr[r] < bl.size
    <3>1. curr[r] \in Nat /\ bl.start <= curr[r] /\ lower <= curr[r]
      BY <1>1, ReplicaFacts
    <3>2. lower \in Nat
      BY SMT, <1>2, <1>3 DEF Offsets
    <3> HIDE DEF lower
    <3> QED BY SMT, <1>3, <1>5, <3>1, <3>2
  <2>4. lowest # -1 => moff + n - lowest < bl.size
    BY SMT, <1>3, <1>5 DEF Offsets
  <2>5. batchOff <= moff + n
    BY SMT, <1>2, <1>3
  <2>6. /\ lowest # -1 => \A r \in Listening : lowest <= curr[r]
        /\ lowest = -1 => \A r \in Listening : batchOff <= curr[r]
    BY <1>1, ReplicaFacts
  <2>7. Ready(bl, n)
    BY <1>2, <1>3, <1>4, <2>1, <2>2, <2>3, <2>4, <2>5, <2>6 DEF Ready
  <2> QED BY <2>7
<1>6. CASE ~(Needs(lower) <= bl.size)
  <2>1. CloseAsap(over)
    BY <1>6 DEF Feed
  <2>2. /\ closing' \in [Replicas -> {"no", "asap", "lost"}] /\ Listening' = rest
        /\ set.hardLimit = 0 => closing' = closing
    <3>1. set.hardLimit = 0 => over = {}
      BY SMT
    <3> HIDE DEF over
    <3> QED BY <1>1, <1>4, <2>1, <3>1, Closed
  <2>3. CASE rest = {}
    <3>1. bl' = Filled(bl, n) /\ batchOff' = moff + n /\ lowest' = -1
      BY <1>6, <2>3 DEF Feed
    <3>2. moff + n \in Nat /\ moff + n <= moff + n /\ -1 \in Offsets
      BY SMT, <1>3 DEF Offsets
    <3> HIDE DEF rest
    <3>3. Ready(bl, n)
      BY <1>3, <2>2, <2>3, <3>1, <3>2 DEF Ready
    <3> QED BY <3>3
  <2>4. CASE rest # {}
    <3>1. /\ batchOff' = batchOff /\ lowest' = min
          /\ bl' = Filled(IF Needs(min) > bl.size
                             THEN Resized(bl, min, Max({2 * bl.size, Needs(min)}))
                             ELSE bl, n)
      BY <1>6, <2>4 DEF Feed
    <3>2. (\E r \in rest : min = curr[r]) /\ \A r \in rest : min <= curr[r]
      BY <2>4, LeastPosition
    <3> HIDE DEF min
    <3>3. /\ min \in Nat /\ min \in Offsets /\ min # -1 /\ bl.start <= min /\ min <= moff
          /\ moff - min < bl.size
      <4>1. PICK r \in rest : min = curr[r]
        BY SMT, <3>2
      <4>2. /\ curr[r] \in Nat /\ bl.start <= curr[r] /\ curr[r] <= end[r] /\ end[r] <= moff
            /\ moff - curr[r] < bl.size /\ end[r] \in Nat
        BY ReplicaFacts
      <4> QED BY SMT, <1>3, <4>1, <4>2 DEF Offsets
    <3>4. \A r \in rest : r \in Listening /\ curr[r] \in Nat
      BY ReplicaFacts
    <3>5. batchOff <= moff + n
      BY SMT, <1>2, <1>3
    <3> HIDE DEF rest, over
    <3>6. ASSUME NEW b, BacklogOK(b), Window(b, moff), bl' = Filled(b, n),
                 b.start <= min, Needs(min) <= b.size
          PROVE  \E c : Ready(c, n)
      <4>1. b.start \in Nat /\ b.size \in Nat
        BY <3>6 DEF BacklogOK
      <4>2. moff + n - min < b.size
        BY SMT, <1>3, <3>3, <3>6, <4>1
      <4>3. \A r \in rest : b.start <= curr[r] /\ moff + n - curr[r] < b.size
        BY SMT, <1>3, <3>2, <3>3, <3>4, <3>6, <4>1
      <4>4. Ready(b, n)
        BY <1>2, <2>2, <3>1, <3>2, <3>3, <3>4, <3>5, <3>6, <4>2, <4>3 DEF Ready
      <4> QED BY <4>4
    <3>7. CASE Needs(min) > bl.size
      <4> DEFINE k == Max({2 * bl.size, Needs(min)})
                 b == Resized(bl, min, k)
      <4>1. 2 * bl.size \in Nat /\ Needs(min) \in Nat
        BY SMT, <1>3, <3>3
      <4>2. k \in {2 * bl.size, Needs(min)} /\ 2 * bl.size <= k /\ Needs(min) <= k
        <5> HIDE DEF Needs
        <5> QED BY <4>1, MaxOfSizes
      <4> HIDE DEF k
      <4>3. k \in Nat /\ k >= MinSize /\ bl.size # k /\ moff - min < k
        <5>1. bl.size >= MinSize
          BY <1>3 DEF BacklogOK
        <5> QED BY SMT, <1>3, <3>3, <4>1, <4>2, <5>1, BacklogAssumption
      <4>4. /\ BacklogOK(b) /\ Window(b, moff) /\ b.size >= k
            /\ b.start = IF min = -1 THEN moff ELSE min
        BY <1>3, <3>3, <4>3, ResizedOK
      <4>5. bl' = Filled(b, n)
        BY <3>1, <3>7 DEF k
      <4> HIDE DEF b
      <4>6. b.start <= min /\ Needs(min) <= b.size
        <5>1. b.size \in Nat
          BY <4>4 DEF BacklogOK
        <5> QED BY SMT, <3>3, <4>1, <4>2, <4>3, <4>4, <5>1
      <4> QED BY <3>6, <4>4, <4>5, <4>6
    <3>8. CASE ~(Needs(min) > bl.size)
      <4>1. Needs(min) <= bl.size
        BY SMT, <1>3, <3>3, <3>8
      <4>2. bl' = Filled(bl, n)
        BY <3>1, <3>8
      <4> QED BY <1>3, <3>3, <3>6, <4>1, <4>2
    <3> QED BY <3>7, <3>8
  <2> QED BY <2>3, <2>4
<1> QED BY <1>5, <1>6

\* feedReplicationBacklog preserves the invariant.
LEMMA FeedStep ==
    ASSUME Core, NEW n \in Nat \ {0}, Feed(n)
    PROVE  Core'
<1>1. PICK b : Ready(b, n)
  BY FeedReady
<1>2. /\ InBatch /\ moff' = moff + n /\ set' = set /\ config' = config /\ state' = state
      /\ curr' = curr /\ end' = end /\ base' = base /\ received' = received
  BY DEF Feed
<1>3. moff \in Nat /\ config = set.size
  BY ServerFacts
<1>4. /\ BacklogOK(b) /\ Window(b, moff) /\ bl' = Filled(b, n)
      /\ batchOff' \in Nat /\ lowest' \in Offsets /\ batchOff' <= moff + n
  BY <1>1 DEF Ready
<1>5. /\ BacklogOK(bl') /\ Window(bl', moff')
      /\ bl'.size = b.size /\ bl'.start = b.start /\ b.size \in Nat
  <2>1. b.size \in Nat
    BY <1>4 DEF BacklogOK
  <2> QED BY <1>2, <1>3, <1>4, <2>1, FilledOK, FilledWindow
<1>6. TypeOK'
  <2>1. moff' \in Nat /\ batchOff' \in Offsets
    BY SMT, <1>2, <1>3, <1>4 DEF Offsets
  <2>2. closing' \in [Replicas -> {"no", "asap", "lost"}]
    BY <1>1 DEF Ready
  <2> QED BY <1>2, <1>4, <1>5, <2>1, <2>2 DEF Core, TypeOK
<1>7. FitInv'
  <2> SUFFICES ASSUME NEW r \in Listening'
               PROVE  /\ bl'.start <= curr'[r] /\ curr'[r] <= end'[r] /\ end'[r] <= moff'
                      /\ moff' - curr'[r] < bl'.size
    BY DEF FitInv
  <2>1. r \in Listening /\ b.start <= curr[r] /\ moff + n - curr[r] < b.size
    BY <1>1 DEF Ready
  <2>2. curr[r] <= end[r] /\ end[r] <= moff /\ end[r] \in Nat /\ curr[r] \in Nat
    BY <2>1, ReplicaFacts
  <2>3. end[r] <= moff + n
    BY SMT, <1>3, <2>2
  <2>4. moff' - curr[r] < bl'.size
    <3>1. moff' - curr[r] < b.size
      BY SMT, <1>2, <1>3, <1>5, <2>1, <2>2
    <3> QED BY <1>5, <3>1
  <2>5. end[r] <= moff'
    BY <1>2, <2>3
  <2>6. bl'.start <= curr[r]
    BY <1>5, <2>1
  <2> QED BY <1>2, <2>2, <2>4, <2>5, <2>6
<1>8. LowestInv'
  <2>1. lowest' # -1 => /\ b.start <= lowest' /\ lowest' <= moff
                        /\ moff + n - lowest' < b.size
                        /\ \A r \in Listening' : lowest' <= curr[r]
    BY <1>1 DEF Ready
  <2>2. lowest' = -1 => \A r \in Listening' : batchOff' <= curr[r]
    BY <1>1 DEF Ready
  <2>3. InBatch'
    BY SMT, <1>4 DEF InBatch
  <2>4. lowest' # -1 => lowest' <= moff + n
    BY SMT, <1>3, <1>4, <2>1 DEF Offsets
  <2>5. /\ config' = set'.size /\ batchOff' <= moff'
        /\ lowest' # -1 => /\ bl'.start <= lowest' /\ lowest' <= moff'
                          /\ moff' - lowest' < bl'.size
    <3>1. config' = set'.size
      BY <1>2, <1>3
    <3>2. batchOff' <= moff'
      BY <1>2, <1>4
    <3>3. ASSUME lowest' # -1 PROVE bl'.start <= lowest'
      BY <1>5, <2>1, <3>3
    <3>4. ASSUME lowest' # -1 PROVE lowest' <= moff'
      BY <1>2, <2>4, <3>4
    <3>5. ASSUME lowest' # -1 PROVE moff' - lowest' < bl'.size
      <4>1. moff' - lowest' < b.size
        BY SMT, <1>2, <1>3, <1>4, <1>5, <2>1, <3>5 DEF Offsets
      <4> QED BY <1>5, <4>1
    <3> QED BY <3>1, <3>2, <3>3, <3>4, <3>5
  <2>6. \A r \in Listening' : /\ lowest' # -1 => lowest' <= curr'[r]
                              /\ lowest' = -1 => batchOff' <= curr'[r]
    BY <1>2, <2>1, <2>2
  <2> QED BY <2>3, <2>5, <2>6 DEF LowestInv
<1>9. EndInv'
  <2>1. \A r \in Listening' : r \in Listening
    BY <1>1 DEF Ready
  <2>2. \A r \in Listening : end[r] <= batchOff \/ curr[r] = end[r]
    BY <1>2, ReplicaFacts
  <2>3. batchOff' = batchOff \/ Listening' = {}
    BY <1>1 DEF Ready
  <2> QED BY <1>2, <2>1, <2>2, <2>3 DEF EndInv
<1>10. PositionInv'
  BY <1>2 DEF Core, PositionInv
<1>11. ClosedInv'
  <2>1. set.hardLimit = 0 => closing' = closing
    BY <1>1 DEF Ready
  <2> QED BY <1>2, <2>1 DEF Core, ClosedInv, SendsTheStream
<1> QED BY <1>5, <1>6, <1>7, <1>8, <1>9, <1>10, <1>11 DEF Core

\* An assignment to repl_batch_idxStart does not touch the buffer.
LEMMA BatchIdx ==
    ASSUME BacklogOK(bl), Window(bl, moff), moff' = moff,
           NEW x, bl' = [bl EXCEPT !.batchIdx = x]
    PROVE  /\ BacklogOK(bl') /\ Window(bl', moff') /\ bl'.size = bl.size
           /\ bl'.start = bl.start /\ bl'.off = bl.off /\ bl'.histlen = bl.histlen
<1>1. /\ DOMAIN bl' = Fields /\ bl'.size = bl.size /\ bl'.start = bl.start
      /\ bl'.idx = bl.idx /\ bl'.buf = bl.buf /\ bl'.off = bl.off /\ bl'.histlen = bl.histlen
  BY SMT DEF BacklogOK, Fields
<1>2. BacklogOK(bl')
  BY <1>1 DEF BacklogOK
<1>3. Window(bl', moff')
  BY <1>1 DEF Window
<1> QED BY <1>1, <1>2, <1>3

\* runAndPropogateToReplicas: at the start of a batch, a replica has everything, or
\* there is a lower bound.
LEMMA BatchStartStep ==
    ASSUME Core, BatchStart
    PROVE  Core'
<1>1. /\ ~InBatch /\ batchOff' = moff /\ moff' = moff /\ set' = set /\ config' = config
      /\ lowest' = lowest /\ state' = state /\ closing' = closing /\ curr' = curr
      /\ end' = end /\ base' = base /\ received' = received
      /\ bl' = [bl EXCEPT !.batchIdx = bl.idx]
  BY DEF BatchStart, replicas
<1>2. BacklogOK(bl') /\ Window(bl', moff') /\ bl'.size = bl.size /\ bl'.start = bl.start
  BY <1>1, ServerFacts, BatchIdx
<1>3. moff \in Nat /\ moff <= moff /\ moff \in Offsets
  BY SMT, ServerFacts DEF Offsets
<1>4. Listening' = Listening
  BY <1>1 DEF Listening
<1>5. TypeOK'
  BY <1>1, <1>2, <1>3 DEF Core, TypeOK
<1>6. FitInv'
  BY <1>1, <1>2, <1>4 DEF Core, FitInv
<1>7. LowestInv'
  <2>1. \A r \in Listening : lowest # -1 => lowest <= curr[r]
    BY ReplicaFacts
  <2>2. \A r \in Listening : lowest = -1 => moff <= curr[r]
    BY <1>1, <1>3, ReplicaFacts
  <2>3. InBatch'
    BY SMT, <1>1, <1>3 DEF InBatch
  <2>4. /\ config = set.size
        /\ lowest # -1 => bl.start <= lowest /\ lowest <= moff /\ moff - lowest < bl.size
    BY ServerFacts
  <2> QED BY <1>1, <1>2, <1>3, <1>4, <2>1, <2>2, <2>3, <2>4 DEF LowestInv
<1>8. EndInv'
  BY <1>1, <1>4, ReplicaFacts DEF EndInv
<1>9. PositionInv' /\ ClosedInv'
  BY <1>1 DEF Core, PositionInv, ClosedInv, SendsTheStream
<1> QED BY <1>2, <1>5, <1>6, <1>7, <1>8, <1>9 DEF Core

\* flushReplBacklogToClients: a replica that is closed because the batch does not
\* fit has nothing left to send.
LEMMA BatchEndStep ==
    ASSUME Core, BatchEnd
    PROVE  Core'
<1>1. /\ InBatch /\ batchOff' = -1 /\ moff' = moff /\ set' = set /\ config' = config
      /\ state' = state /\ curr' = curr /\ base' = base /\ received' = received
      /\ bl' = [bl EXCEPT !.batchIdx = -1]
  BY DEF BatchEnd
<1>2. BacklogOK(bl') /\ Window(bl', moff') /\ bl'.size = bl.size /\ bl'.start = bl.start
  BY <1>1, ServerFacts, BatchIdx
<1>3. /\ moff \in Nat /\ -1 \in Offsets /\ -1 <= moff /\ bl.size \in Nat /\ bl.start \in Nat
      /\ batchOff \in Nat
  BY SMT, <1>1, ServerFacts DEF Offsets, InBatch
<1>4. /\ TypeOK /\ FitInv /\ PositionInv /\ ClosedInv /\ config = set.size
      /\ end \in [Replicas -> Offsets] /\ closing \in [Replicas -> {"no", "asap", "lost"}]
  BY ServerFacts DEF Core, TypeOK
<1>5. ~InBatch' /\ EndInv'
  BY SMT, <1>1 DEF InBatch, EndInv
<1>6. PositionInv' /\ (ClosedInv' <=> (set.hardLimit = 0 =>
         SendsTheStream /\ \A r \in Replicas : closing'[r] = "asap" => curr[r] = end'[r]))
  BY <1>1, <1>4 DEF PositionInv, ClosedInv, SendsTheStream
<1>7. ASSUME end' \in [Replicas -> Offsets], lowest' \in Offsets,
             closing' \in [Replicas -> {"no", "asap", "lost"}], FitInv', LowestInv', ClosedInv'
      PROVE  Core'
  BY <1>1, <1>2, <1>3, <1>4, <1>5, <1>6, <1>7 DEF Core, TypeOK
<1>8. ASSUME NEW r \in Listening
      PROVE  /\ r \in Replicas /\ curr[r] \in Nat /\ end[r] \in Nat
             /\ bl.start <= curr[r] /\ curr[r] <= end[r] /\ end[r] <= moff
             /\ moff - curr[r] < bl.size
             /\ lowest # -1 => lowest <= curr[r]
             /\ lowest = -1 => batchOff <= curr[r]
             /\ end[r] <= batchOff \/ curr[r] = end[r]
  BY <1>1, ReplicaFacts
<1>9. CASE batchOff = moff
  <2>1. closing' = closing /\ end' = end /\ lowest' = lowest
    BY <1>9 DEF BatchEnd
  <2>2. Listening' = Listening
    BY <1>1, <2>1 DEF Listening
  <2>3. FitInv'
    BY <1>1, <1>2, <1>4, <2>1, <2>2 DEF FitInv
  <2>4. \A r \in Listening : lowest = -1 => curr[r] = moff
    <3> SUFFICES ASSUME NEW r \in Listening, lowest = -1 PROVE curr[r] = moff
      OBVIOUS
    <3>1. /\ curr[r] \in Nat /\ end[r] \in Nat /\ curr[r] <= end[r] /\ end[r] <= moff
          /\ batchOff <= curr[r]
      BY <1>8
    <3> QED BY SMT, <1>3, <1>9, <3>1
  <2>5. /\ lowest \in Offsets
        /\ lowest # -1 => bl.start <= lowest /\ lowest <= moff /\ moff - lowest < bl.size
    BY ServerFacts
  <2>6. LowestInv'
    BY <1>1, <1>2, <1>3, <1>4, <1>5, <1>8, <2>1, <2>2, <2>4, <2>5 DEF LowestInv
  <2>7. ClosedInv'
    BY <1>4, <1>6, <2>1 DEF ClosedInv
  <2> QED BY <1>4, <1>7, <2>1, <2>3, <2>5, <2>6, <2>7
<1>10. CASE batchOff # moff /\ moff - batchOff > bl.size
  <2> DEFINE R == {r \in Replicas : state[r] # "none"}
  <2>1. CloseAsap(R) /\ lowest' = -1 /\ end' = end
    BY <1>10 DEF BatchEnd
  <2>2. /\ closing' \in [Replicas -> {"no", "asap", "lost"}] /\ Listening' = Listening \ R
        /\ \A r \in Replicas : closing'[r] = "asap" =>
              closing[r] = "asap" \/ (r \in R /\ closing[r] = "no")
    <3> HIDE DEF R
    <3> QED BY <1>1, <1>4, <2>1, Closed
  <2>3. Listening' = {}
    BY <2>2 DEF Listening
  <2>4. FitInv' /\ LowestInv'
    BY <1>1, <1>3, <1>4, <2>1, <2>3 DEF FitInv, LowestInv
  <2>5. \A r \in Listening : curr[r] = end[r]
    <3> SUFFICES ASSUME NEW r \in Listening PROVE curr[r] = end[r]
      BY SMT
    <3>1. /\ curr[r] \in Nat /\ end[r] \in Nat /\ curr[r] <= end[r]
          /\ moff - curr[r] < bl.size /\ (end[r] <= batchOff \/ curr[r] = end[r])
      BY <1>8
    <3> QED BY SMT, <1>3, <1>10, <3>1
  <2>6. ClosedInv'
    BY <1>4, <1>6, <2>1, <2>2, <2>5 DEF ClosedInv, Listening
  <2> QED BY <1>3, <1>4, <1>7, <2>1, <2>2, <2>4, <2>6
<1>11. CASE batchOff # moff /\ ~(moff - batchOff > bl.size)
  <2>1. /\ end' = [r \in Replicas |-> IF r \in Listening THEN moff ELSE end[r]]
        /\ lowest' = IF Listening = {} THEN -1 ELSE Min({curr[r] : r \in Listening})
        /\ closing' = closing
    BY <1>11 DEF BatchEnd
  <2>2. Listening' = Listening
    BY <1>1, <2>1 DEF Listening
  <2>3. \A r \in Replicas : end'[r] = IF r \in Listening THEN moff ELSE end[r]
    BY <2>1
  <2>4. end' \in [Replicas -> Offsets]
    BY SMT, <1>3, <1>4, <2>1 DEF Offsets
  <2>5. FitInv'
    <3> SUFFICES ASSUME NEW r \in Listening
                 PROVE  /\ bl'.start <= curr'[r] /\ curr'[r] <= end'[r] /\ end'[r] <= moff'
                        /\ moff' - curr'[r] < bl'.size
      BY <2>2 DEF FitInv
    <3>1. /\ r \in Replicas /\ curr[r] \in Nat /\ end[r] \in Nat /\ bl.start <= curr[r]
          /\ curr[r] <= end[r] /\ end[r] <= moff /\ moff - curr[r] < bl.size
      BY <1>8
    <3>2. end'[r] = moff
      BY <2>3, <3>1
    <3>3. curr[r] <= moff /\ moff <= moff
      BY SMT, <1>3, <3>1
    <3> QED BY <1>1, <1>2, <3>1, <3>2, <3>3
  <2>6. lowest' \in Offsets /\ LowestInv'
    <3>1. CASE Listening = {}
      BY <1>1, <1>3, <1>4, <2>1, <2>2, <3>1 DEF LowestInv
    <3>2. CASE Listening # {}
      <4> DEFINE min == Min({curr[r] : r \in Listening})
      <4>1. lowest' = min
        BY <2>1, <3>2
      <4>2. (\E r \in Listening : min = curr[r]) /\ \A r \in Listening : min <= curr[r]
        BY <3>2, LeastPosition
      <4> HIDE DEF min
      <4>3. PICK r \in Listening : min = curr[r]
        BY <4>2
      <4>4. /\ curr[r] \in Nat /\ end[r] \in Nat /\ bl.start <= curr[r]
            /\ curr[r] <= end[r] /\ end[r] <= moff /\ moff - curr[r] < bl.size
        BY <1>8
      <4>5. /\ min \in Offsets /\ min # -1 /\ bl.start <= min /\ min <= moff
            /\ moff - min < bl.size
        BY SMT, <1>3, <4>3, <4>4 DEF Offsets
      <4> QED BY <1>1, <1>2, <1>3, <1>4, <2>2, <4>1, <4>2, <4>5 DEF LowestInv
    <3> QED BY <3>1, <3>2
  <2>7. ClosedInv'
    <3>1. \A r \in Replicas : closing[r] = "asap" => end'[r] = end[r]
      BY SMT, <2>3 DEF Listening
    <3> QED BY <1>4, <1>6, <2>1, <3>1 DEF ClosedInv
  <2> QED BY <1>4, <1>7, <2>1, <2>4, <2>5, <2>6, <2>7
<1> QED BY <1>9, <1>10, <1>11

\* A replica that connects starts at the end of the stream.
LEMMA FullSyncStep ==
    ASSUME OwnSnapshots, Core, NEW r \in Replicas, FullSync(r)
    PROVE  Core'
<1>1. /\ state[r] = "none" /\ set' = set /\ moff' = moff /\ bl' = bl /\ batchOff' = batchOff
      /\ lowest' = lowest /\ config' = config /\ closing' = closing
      /\ end' = [end EXCEPT ![r] = moff] /\ state' = [state EXCEPT ![r] = "wait"]
      /\ received' = [received EXCEPT ![r] = <<>>]
  BY DEF FullSync
<1>2. base' = [base EXCEPT ![r] = moff] /\ curr' = [curr EXCEPT ![r] = moff]
  <2>1. PICK offset \in {moff} \cup {base[q] : q \in {q \in Replicas : ~set.diskless /\ InBatch
                                                           /\ state[q] = "wait"}} :
           base' = [base EXCEPT ![r] = offset] /\ curr' = [curr EXCEPT ![r] = offset]
    BY DEF FullSync
  <2>2. ASSUME NEW q \in Replicas, ~set.diskless, state[q] = "wait" PROVE FALSE
    <3>1. q = r
      BY <2>2 DEF OwnSnapshots
    <3> QED BY SMT, <1>1, <2>2, <3>1
  <2>3. offset = moff
    BY <2>2
  <2> QED BY <2>1, <2>3
<1>3. TypeOK /\ FitInv /\ LowestInv /\ EndInv /\ PositionInv /\ ClosedInv /\ Window(bl, moff)
  BY DEF Core
<1>4. /\ moff \in Nat /\ bl.size \in Nat \ {0} /\ bl.start \in Nat /\ bl.start <= moff
      /\ batchOff <= moff /\ lowest \in Offsets /\ lowest # -1 => lowest <= moff
  BY ServerFacts
<1>5. moff <= moff /\ moff - moff < bl.size /\ moff \in Offsets /\ moff # -1
  BY SMT, <1>4 DEF Offsets
<1>6. /\ state \in [Replicas -> {"none", "wait", "online"}]
      /\ curr \in [Replicas -> Offsets] /\ end \in [Replicas -> Offsets]
      /\ base \in [Replicas -> Offsets] /\ received \in [Replicas -> Seq(Nat)]
  BY <1>3 DEF TypeOK
<1>7. /\ state'[r] = "wait" /\ curr'[r] = moff /\ end'[r] = moff /\ base'[r] = moff
      /\ received'[r] = <<>>
  BY <1>1, <1>2, <1>6
<1>8. \A q \in Replicas \ {r} :
         /\ state'[q] = state[q] /\ curr'[q] = curr[q] /\ end'[q] = end[q]
         /\ base'[q] = base[q] /\ received'[q] = received[q]
  BY <1>1, <1>2, <1>6
<1>9. TypeOK'
  <2>1. <<>> \in Seq(Nat)
    BY SMT
  <2>2. /\ state' \in [Replicas -> {"none", "wait", "online"}]
        /\ curr' \in [Replicas -> Offsets] /\ end' \in [Replicas -> Offsets]
        /\ base' \in [Replicas -> Offsets] /\ received' \in [Replicas -> Seq(Nat)]
    BY <1>1, <1>2, <1>5, <1>6, <2>1
  <2> QED BY <1>1, <1>3, <2>2 DEF TypeOK
<1>10. \A q \in Listening' : q = r \/ (q \in Listening /\ q \in Replicas \ {r})
  BY <1>1, <1>8 DEF Listening
<1>11. FitInv'
  <2>1. \A q \in Listening : /\ bl.start <= curr[q] /\ curr[q] <= end[q] /\ end[q] <= moff
                             /\ moff - curr[q] < bl.size
    BY <1>3 DEF FitInv
  <2> QED BY <1>1, <1>4, <1>5, <1>7, <1>8, <1>10, <2>1 DEF FitInv
<1>12. LowestInv'
  <2>1. \A q \in Listening' :
           IF lowest # -1 THEN lowest <= curr'[q]
           ELSE IF InBatch THEN batchOff <= curr'[q] ELSE curr'[q] = moff
    BY <1>3, <1>4, <1>7, <1>8, <1>10 DEF LowestInv
  <2> QED BY <1>1, <1>3, <2>1 DEF LowestInv, InBatch
<1>13. EndInv'
  BY <1>1, <1>3, <1>7, <1>8, <1>10 DEF EndInv, InBatch
<1>14. PositionInv'
  <2>1. Len(<<>>) = 0 /\ moff + 0 = moff
    BY SMT, <1>4
  <2>2. \A q \in Replicas \ {r} :
           /\ state'[q] # "none" => base'[q] # -1 /\ base'[q] + Len(received'[q]) = curr'[q]
           /\ state'[q] = "wait" => received'[q] = <<>>
    BY <1>3, <1>8 DEF PositionInv
  <2>3. base'[r] # -1 /\ base'[r] + Len(received'[r]) = curr'[r]
    BY SMT, <1>5, <1>7, <2>1
  <2> QED BY <1>7, <2>2, <2>3 DEF PositionInv
<1>15. ClosedInv'
  <2> SUFFICES ASSUME set.hardLimit = 0
               PROVE  /\ \A q \in Replicas : \A i \in 1 .. Len(received'[q]) :
                            received'[q][i] = base'[q] + i
                      /\ \A q \in Replicas : closing[q] = "asap" => curr'[q] = end'[q]
    BY <1>1 DEF ClosedInv, SendsTheStream
  <2>1. 1 .. Len(received'[r]) = {}
    BY SMT, <1>7
  <2>2. /\ \A q \in Replicas : \A i \in 1 .. Len(received[q]) : received[q][i] = base[q] + i
        /\ \A q \in Replicas : closing[q] = "asap" => curr[q] = end[q]
    BY <1>3 DEF ClosedInv, SendsTheStream
  <2>3. ASSUME NEW q \in Replicas, NEW i \in 1 .. Len(received'[q])
        PROVE  received'[q][i] = base'[q] + i
    <3>1. q # r
      BY <2>1
    <3>2. received'[q] = received[q] /\ base'[q] = base[q]
      BY <1>8, <3>1
    <3> QED BY <2>2, <3>2
  <2>4. \A q \in Replicas : closing[q] = "asap" => curr'[q] = end'[q]
    BY <1>7, <1>8, <2>2
  <2> QED BY <2>3, <2>4
<1>16. Window(bl, moff)'
  BY <1>1, <1>3
<1> QED BY <1>9, <1>11, <1>12, <1>13, <1>14, <1>15, <1>16 DEF Core

\* A step that changes replstate and the flags only, and connects nobody.
LEMMA FlagsStep ==
    ASSUME Core, set' = set, moff' = moff, bl' = bl, batchOff' = batchOff, lowest' = lowest,
           config' = config, curr' = curr, end' = end, received' = received,
           state' \in [Replicas -> {"none", "wait", "online"}],
           closing' \in [Replicas -> {"no", "asap", "lost"}],
           base' \in [Replicas -> Offsets],
           \A r \in Replicas :
              /\ state'[r] # "none" => state[r] # "none" /\ base'[r] = base[r]
              /\ state'[r] # "none" /\ closing'[r] = "no" => closing[r] = "no"
              /\ state'[r] = "wait" => state[r] = "wait"
              /\ closing'[r] = "asap" => closing[r] = "asap"
              /\ base'[r] = base[r] \/ received[r] = <<>>
    PROVE  Core'
<1>1. TypeOK /\ FitInv /\ LowestInv /\ EndInv /\ PositionInv /\ ClosedInv /\ Window(bl, moff)
  BY DEF Core
<1>2. \A r \in Listening' : r \in Listening
  BY DEF Listening
<1>3. TypeOK'
  BY <1>1 DEF TypeOK
<1>4. FitInv'
  BY <1>1, <1>2 DEF FitInv
<1>5. LowestInv'
  BY <1>1, <1>2 DEF LowestInv, InBatch
<1>6. EndInv'
  BY <1>1, <1>2 DEF EndInv, InBatch
<1>7. PositionInv'
  BY <1>1 DEF PositionInv
<1>8. ClosedInv'
  <2> SUFFICES ASSUME set.hardLimit = 0
               PROVE  /\ \A r \in Replicas : \A i \in 1 .. Len(received[r]) :
                            received[r][i] = base'[r] + i
                      /\ \A r \in Replicas : closing'[r] = "asap" => curr[r] = end[r]
    BY DEF ClosedInv, SendsTheStream
  <2>1. 1 .. Len(<<>>) = {}
    BY SMT
  <2>2. /\ \A r \in Replicas : \A i \in 1 .. Len(received[r]) : received[r][i] = base[r] + i
        /\ \A r \in Replicas : closing[r] = "asap" => curr[r] = end[r]
    BY <1>1 DEF ClosedInv, SendsTheStream
  <2>3. ASSUME NEW r \in Replicas, NEW i \in 1 .. Len(received[r])
        PROVE  received[r][i] = base'[r] + i
    <3>1. received[r] # <<>>
      BY <2>1
    <3>2. base'[r] = base[r]
      BY <3>1
    <3> QED BY <2>2, <3>2
  <2>4. \A r \in Replicas : closing'[r] = "asap" => curr[r] = end[r]
    BY <2>2
  <2> QED BY <2>3, <2>4
<1>9. Window(bl, moff)'
  BY <1>1
<1> QED BY <1>3, <1>4, <1>5, <1>6, <1>7, <1>8, <1>9 DEF Core

\* putSlaveOnline, the loss of a connection, and freeClientsInAsyncFreeQueue.
LEMMA ReplicaStep ==
    ASSUME Core, NEW r \in Replicas, PutOnline(r) \/ Lose(r) \/ Free(r)
    PROVE  Core'
<1>1. /\ state \in [Replicas -> {"none", "wait", "online"}]
      /\ closing \in [Replicas -> {"no", "asap", "lost"}] /\ base \in [Replicas -> Offsets]
      /\ PositionInv
  BY DEF Core, TypeOK
<1>2. CASE PutOnline(r)
  <2>1. /\ set' = set /\ moff' = moff /\ bl' = bl /\ batchOff' = batchOff /\ lowest' = lowest
        /\ config' = config /\ closing' = closing /\ curr' = curr /\ end' = end
        /\ base' = base /\ received' = received
        /\ state[r] = "wait" /\ state' = [state EXCEPT ![r] = "online"]
    BY <1>2 DEF PutOnline
  <2>2. \A q \in Replicas : /\ state'[q] # "none" => state[q] # "none"
                            /\ state'[q] = "wait" => state[q] = "wait"
    BY SMT, <1>1, <2>1
  <2>3. state' \in [Replicas -> {"none", "wait", "online"}]
    BY SMT, <1>1, <2>1
  <2> QED BY <1>1, <2>1, <2>2, <2>3, FlagsStep
<1>3. CASE Lose(r)
  <2>1. /\ set' = set /\ moff' = moff /\ bl' = bl /\ batchOff' = batchOff /\ lowest' = lowest
        /\ config' = config /\ state' = state /\ curr' = curr /\ end' = end
        /\ base' = base /\ received' = received
        /\ closing' = [closing EXCEPT ![r] = "lost"]
    BY <1>3 DEF Lose
  <2>2. \A q \in Replicas : /\ closing'[q] = "no" => closing[q] = "no"
                            /\ closing'[q] = "asap" => closing[q] = "asap"
    BY SMT, <1>1, <2>1
  <2>3. closing' \in [Replicas -> {"no", "asap", "lost"}]
    BY SMT, <1>1, <2>1
  <2> QED BY <1>1, <2>1, <2>2, <2>3, FlagsStep
<1>4. CASE Free(r)
  <2>1. /\ set' = set /\ moff' = moff /\ bl' = bl /\ batchOff' = batchOff /\ lowest' = lowest
        /\ config' = config /\ curr' = curr /\ end' = end /\ received' = received
        /\ closing' = [closing EXCEPT ![r] = "no"] /\ state' = [state EXCEPT ![r] = "none"]
        /\ base' = IF state[r] = "wait" THEN [base EXCEPT ![r] = -1] ELSE base
    BY <1>4 DEF Free
  <2>2. /\ state'[r] = "none" /\ closing'[r] = "no"
        /\ \A q \in Replicas \ {r} :
              state'[q] = state[q] /\ closing'[q] = closing[q] /\ base'[q] = base[q]
    BY <1>1, <2>1
  <2>3. base'[r] = base[r] \/ received[r] = <<>>
    BY <1>1, <2>1 DEF PositionInv
  <2>4. \A q \in Replicas :
           /\ state'[q] # "none" => state[q] # "none" /\ base'[q] = base[q]
           /\ state'[q] # "none" /\ closing'[q] = "no" => closing[q] = "no"
           /\ state'[q] = "wait" => state[q] = "wait"
           /\ closing'[q] = "asap" => closing[q] = "asap"
           /\ base'[q] = base[q] \/ received[q] = <<>>
    BY SMT, <2>2, <2>3
  <2>5. /\ closing' \in [Replicas -> {"no", "asap", "lost"}]
        /\ state' \in [Replicas -> {"none", "wait", "online"}]
    BY SMT, <1>1, <2>1
  <2>6. base' \in [Replicas -> Offsets]
    BY SMT, <1>1, <2>1 DEF Offsets
  <2> QED BY <1>1, <2>1, <2>4, <2>5, <2>6, FlagsStep
<1> QED BY <1>2, <1>3, <1>4

\* The bytes that writeToClient sends are the next ones of the stream, if those that
\* the replica lacks are in the buffer.
LEMMA ChunkIsStream ==
    ASSUME moff \in Nat, BacklogOK(bl), Window(bl, moff),
           NEW r, curr[r] \in Nat, end[r] \in Nat, bl.start <= curr[r], end[r] <= moff,
           moff - curr[r] < bl.size,
           NEW n \in Nat, n <= Chunk(r), curr[r] + n <= end[r], NEW i \in 1 .. n
    PROVE  ByteAt(Index(bl, curr[r]) + i - 1) = curr[r] + i
<1> DEFINE c == Index(bl, curr[r])
           e == Index(bl, end[r])
           o == curr[r] + i
<1>1. /\ bl.size \in Nat \ {0} /\ bl.start \in Nat /\ moff \in Nat /\ Window(bl, moff)
      /\ BacklogOK(bl)
  BY SMT, BacklogAssumption DEF BacklogOK
<1>2. /\ curr[r] \in Nat /\ end[r] \in Nat /\ bl.start <= curr[r] /\ curr[r] <= end[r]
      /\ end[r] <= moff /\ moff - curr[r] < bl.size
  BY SMT
<1>3. c = (curr[r] - bl.start) % bl.size /\ e = (end[r] - bl.start) % bl.size
  BY SMT, <1>1, <1>2 DEF Index
<1>4. curr[r] - bl.start \in Int /\ end[r] - bl.start \in Int
  BY SMT, <1>1, <1>2
<1>5. c \in 0 .. (bl.size - 1) /\ e \in 0 .. (bl.size - 1)
  <2> HIDE DEF c, e
  <2> QED BY <1>1, <1>3, <1>4, ModFacts
<1>6. n <= IF e >= c THEN e - c ELSE bl.size - c
  BY DEF Chunk
<1> HIDE DEF c, e
<1>7. c + i - 1 \in 0 .. (bl.size - 1) /\ i - 1 \in Int /\ c + (i - 1) = c + i - 1
  BY SMT, <1>1, <1>5, <1>6
<1>8. (c + i - 1) % bl.size = c + i - 1
  BY <1>1, <1>7, ModSmall
<1>9. (c + (i - 1)) % bl.size = (curr[r] - bl.start + (i - 1)) % bl.size
  <2>1. (((curr[r] - bl.start) % bl.size) + (i - 1)) % bl.size
           = (curr[r] - bl.start + (i - 1)) % bl.size
    BY <1>1, <1>4, <1>7, ModAdd
  <2> QED BY <1>3, <2>1
<1>10. /\ curr[r] - bl.start + (i - 1) = o - 1 - bl.start
       /\ o \in (bl.start + 1) .. moff /\ moff - o < bl.size
  BY SMT, <1>1, <1>2
<1> HIDE DEF o
<1>11. (o - 1 - bl.start) % bl.size = c + i - 1
  BY <1>7, <1>8, <1>9, <1>10
<1>12. bl.buf[(o - 1 - bl.start) % bl.size] = o
  BY <1>1, <1>10 DEF Window
<1>13. bl.buf[c + i - 1] = o
  BY <1>11, <1>12
<1>14. c + i - 1 \in DOMAIN bl.buf
  <2>1. bl.buf \in [0 .. (bl.size - 1) -> Nat]
    BY <1>1 DEF BacklogOK
  <2> QED BY <1>7, <2>1
<1> QED BY <1>13, <1>14 DEF ByteAt, c, o

\* What writeToClient changes: the position of the replica moves over the bytes that it
\* has got.
LEMMA SendFrame ==
    ASSUME TypeOK, PositionInv, NEW r \in Replicas, NEW n \in Nat \ {0}, Send(r, n)
    PROVE  /\ TypeOK' /\ PositionInv'
           /\ set' = set /\ moff' = moff /\ bl' = bl /\ batchOff' = batchOff
           /\ lowest' = lowest /\ config' = config /\ state' = state
           /\ closing' = closing /\ end' = end /\ base' = base
           /\ state[r] = "online" /\ closing[r] # "lost"
           /\ curr[r] \in Nat /\ curr'[r] = curr[r] + n /\ curr[r] + n <= end[r]
           /\ \A q \in Replicas \ {r} : received'[q] = received[q] /\ curr'[q] = curr[q]
<1> DEFINE bytes == [i \in 1 .. n |-> ByteAt(Index(bl, curr[r]) + i - 1)]
<1>1. /\ set' = set /\ moff' = moff /\ bl' = bl /\ batchOff' = batchOff /\ lowest' = lowest
      /\ config' = config /\ state' = state /\ closing' = closing /\ end' = end
      /\ base' = base /\ state[r] = "online" /\ closing[r] # "lost" /\ curr[r] # end[r]
      /\ n <= Chunk(r) /\ curr[r] + n <= end[r]
      /\ curr' = [curr EXCEPT ![r] = curr[r] + n]
      /\ received' = [received EXCEPT ![r] = received[r] \o bytes]
  BY DEF Send, Pending
<1>2. /\ curr \in [Replicas -> Offsets] /\ end \in [Replicas -> Offsets]
      /\ base \in [Replicas -> Offsets] /\ received \in [Replicas -> Seq(Nat)] /\ BacklogOK(bl)
      /\ closing \in [Replicas -> {"no", "asap", "lost"}]
  BY DEF TypeOK
<1>3. /\ base[r] # -1 /\ base[r] + Len(received[r]) = curr[r]
  <2>1. state[r] # "none"
    BY SMT, <1>1
  <2> QED BY <2>1 DEF PositionInv
<1>4. base[r] \in Nat /\ received[r] \in Seq(Nat) /\ Len(received[r]) \in Nat /\ curr[r] \in Nat
  BY SMT, <1>2, <1>3 DEF Offsets
<1>5. bytes \in Seq(Nat) /\ Len(bytes) = n
  <2>1. ASSUME NEW j PROVE ByteAt(j) \in Nat
    BY <1>2 DEF BacklogOK, ByteAt
  <2>2. bytes \in [1 .. n -> Nat]
    BY <2>1
  <2> HIDE DEF bytes
  <2> QED BY SMT, <2>2
<1> HIDE DEF bytes
<1>6. /\ received'[r] = received[r] \o bytes /\ curr'[r] = curr[r] + n
      /\ \A q \in Replicas \ {r} : received'[q] = received[q] /\ curr'[q] = curr[q]
  BY <1>1, <1>2
<1>7. received[r] \o bytes \in Seq(Nat) /\ Len(received[r] \o bytes) = Len(received[r]) + n
  BY <1>4, <1>5, Appended
<1>8. TypeOK'
  <2>1. curr[r] + n \in Offsets
    BY SMT, <1>4 DEF Offsets
  <2>2. curr' \in [Replicas -> Offsets] /\ received' \in [Replicas -> Seq(Nat)]
    BY <1>1, <1>2, <1>7, <2>1
  <2> QED BY <1>1, <2>2 DEF TypeOK
<1>9. PositionInv'
  <2>1. base[r] + (Len(received[r]) + n) = curr[r] + n
    BY SMT, <1>3, <1>4
  <2>2. base[r] + Len(received'[r]) = curr'[r] /\ state'[r] # "wait"
    BY <1>1, <1>6, <1>7, <2>1
  <2> QED BY <1>1, <1>3, <1>6, <2>2 DEF PositionInv
<1> QED BY <1>1, <1>4, <1>6, <1>8, <1>9

\* What a replica has got is the stream still, if those bytes were in the buffer.
LEMMA SendStream ==
    ASSUME TypeOK, PositionInv, Window(bl, moff), NEW r \in Replicas, NEW n \in Nat \ {0},
           Send(r, n), bl.start <= curr[r], end[r] <= moff, moff - curr[r] < bl.size,
           SendsTheStream
    PROVE  SendsTheStream'
<1> DEFINE bytes == [i \in 1 .. n |-> ByteAt(Index(bl, curr[r]) + i - 1)]
           k == Len(received[r])
<1>1. /\ base' = base /\ n <= Chunk(r) /\ curr[r] + n <= end[r] /\ state[r] = "online"
      /\ received' = [received EXCEPT ![r] = received[r] \o bytes]
  BY DEF Send, Pending
<1>2. /\ curr \in [Replicas -> Offsets] /\ end \in [Replicas -> Offsets]
      /\ base \in [Replicas -> Offsets] /\ received \in [Replicas -> Seq(Nat)] /\ BacklogOK(bl)
      /\ moff \in Nat
  BY DEF TypeOK
<1>3. /\ base[r] # -1 /\ base[r] + k = curr[r]
  <2>1. state[r] # "none"
    BY SMT, <1>1
  <2> QED BY <2>1 DEF PositionInv
<1>4. /\ base[r] \in Nat /\ received[r] \in Seq(Nat) /\ k \in Nat /\ curr[r] \in Nat
      /\ end[r] \in Nat /\ n \in Nat
  BY SMT, <1>1, <1>2, <1>3 DEF Offsets
<1>5. bytes \in Seq(Nat) /\ Len(bytes) = n
  <2>1. ASSUME NEW j PROVE ByteAt(j) \in Nat
    BY <1>2 DEF BacklogOK, ByteAt
  <2>2. bytes \in [1 .. n -> Nat]
    BY <2>1
  <2> HIDE DEF bytes
  <2> QED BY SMT, <2>2
<1>6. ASSUME NEW i \in 1 .. n PROVE bytes[i] = curr[r] + i
  <2>1. ByteAt(Index(bl, curr[r]) + i - 1) = curr[r] + i
    BY <1>1, <1>2, <1>4, ChunkIsStream
  <2> QED BY <2>1
<1> HIDE DEF bytes
<1>7. /\ received'[r] = received[r] \o bytes
      /\ \A q \in Replicas \ {r} : received'[q] = received[q]
  BY <1>1, <1>2
<1>8. /\ Len(received[r] \o bytes) = k + n
      /\ \A i \in 1 .. k : (received[r] \o bytes)[i] = received[r][i]
      /\ \A i \in 1 .. n : (received[r] \o bytes)[k + i] = bytes[i]
  BY <1>4, <1>5, Appended
<1>9. ASSUME NEW q \in Replicas, NEW i \in 1 .. Len(received[q])
      PROVE  received[q][i] = base[q] + i
  BY DEF SendsTheStream
<1>10. ASSUME NEW i \in 1 .. Len(received'[r])
       PROVE  received'[r][i] = base[r] + i
  <2>1. i \in 1 .. (k + n)
    BY <1>7, <1>8
  <2>2. \/ i \in 1 .. k
        \/ i - k \in 1 .. n /\ (base[r] + k) + (i - k) = base[r] + i /\ k + (i - k) = i
    <3> HIDE DEF k
    <3> QED BY SMTT(20), <1>4, <2>1
  <2>3. CASE i \in 1 .. k
    BY <1>7, <1>8, <1>9, <2>3
  <2>4. CASE i - k \in 1 .. n /\ (base[r] + k) + (i - k) = base[r] + i /\ k + (i - k) = i
    <3>1. (received[r] \o bytes)[k + (i - k)] = bytes[i - k]
      <4> HIDE DEF k
      <4> QED BY <1>8, <2>4
    <3>2. bytes[i - k] = curr[r] + (i - k)
      <4> HIDE DEF k
      <4> QED BY <1>6, <2>4
    <3> QED BY <1>3, <1>7, <2>4, <3>1, <3>2
  <2> QED BY <2>2, <2>3, <2>4
<1>11. ASSUME NEW q \in Replicas, NEW i \in 1 .. Len(received'[q])
       PROVE  received'[q][i] = base[q] + i
  <2>1. CASE q = r
    BY <1>10, <2>1
  <2>2. CASE q # r
    BY <1>7, <1>9, <2>2
  <2> QED BY <2>1, <2>2
<1> QED BY <1>1, <1>11 DEF SendsTheStream

\* writeToClient preserves the invariant.
LEMMA SendStep ==
    ASSUME Core, NEW r \in Replicas, NEW n \in Nat \ {0}, Send(r, n)
    PROVE  Core'
<1>1. TypeOK /\ FitInv /\ LowestInv /\ EndInv /\ PositionInv /\ ClosedInv /\ Window(bl, moff)
  BY DEF Core
<1>2. /\ TypeOK' /\ PositionInv'
      /\ set' = set /\ moff' = moff /\ bl' = bl /\ batchOff' = batchOff
      /\ lowest' = lowest /\ config' = config /\ state' = state
      /\ closing' = closing /\ end' = end /\ base' = base
      /\ state[r] = "online" /\ closing[r] # "lost"
      /\ curr[r] \in Nat /\ curr'[r] = curr[r] + n /\ curr[r] + n <= end[r]
      /\ \A q \in Replicas \ {r} : received'[q] = received[q] /\ curr'[q] = curr[q]
  BY <1>1, SendFrame
<1>3. curr[r] # end[r]
  BY DEF Send, Pending
<1>4. Listening' = Listening
  BY <1>2 DEF Listening
<1>5. ASSUME r \in Listening
      PROVE  /\ bl.start <= curr[r] + n /\ moff - (curr[r] + n) < bl.size
             /\ bl.start <= curr[r] /\ end[r] <= moff /\ moff - curr[r] < bl.size
             /\ lowest # -1 => lowest <= curr[r] + n
             /\ lowest = -1 => InBatch /\ batchOff <= curr[r] + n
             /\ InBatch => end[r] <= batchOff
  <2>1. /\ end[r] \in Nat /\ bl.start <= curr[r] /\ curr[r] <= end[r] /\ end[r] <= moff
        /\ moff - curr[r] < bl.size
        /\ lowest # -1 => lowest <= curr[r]
        /\ lowest = -1 /\ InBatch => batchOff <= curr[r]
        /\ lowest = -1 /\ ~InBatch => curr[r] = moff
        /\ InBatch => end[r] <= batchOff \/ curr[r] = end[r]
    BY <1>5, ReplicaFacts
  <2>2. /\ bl.size \in Nat /\ bl.start \in Nat /\ moff \in Nat /\ lowest \in Offsets
        /\ batchOff \in Offsets
    BY ServerFacts
  <2>3. lowest = -1 => InBatch
    BY SMT, <1>2, <1>3, <2>1, <2>2
  <2>4. InBatch => end[r] <= batchOff
    BY <1>3, <2>1
  <2>5. /\ lowest # -1 => lowest <= curr[r] + n
        /\ lowest = -1 => batchOff <= curr[r] + n
    BY SMT, <1>2, <2>1, <2>2, <2>3 DEF Offsets
  <2>6. bl.start <= curr[r] + n /\ moff - (curr[r] + n) < bl.size
    BY SMT, <1>2, <2>1, <2>2
  <2> QED BY <2>1, <2>3, <2>4, <2>5, <2>6
<1>6. \A q \in Listening : q \in Replicas
  BY DEF Listening
<1>7. FitInv'
  BY <1>1, <1>2, <1>4, <1>5, <1>6 DEF FitInv
<1>8. LowestInv'
  <2>1. \A q \in Listening :
           IF lowest # -1 THEN lowest <= curr'[q]
           ELSE IF InBatch THEN batchOff <= curr'[q] ELSE curr'[q] = moff
    BY <1>1, <1>2, <1>5, <1>6 DEF LowestInv
  <2> QED BY <1>1, <1>2, <1>4, <2>1 DEF LowestInv, InBatch
<1>9. EndInv'
  BY <1>1, <1>2, <1>4, <1>5, <1>6 DEF EndInv, InBatch
<1>10. ClosedInv'
  <2> SUFFICES ASSUME set.hardLimit = 0
               PROVE  /\ SendsTheStream'
                      /\ \A q \in Replicas : closing[q] = "asap" => curr'[q] = end[q]
    BY <1>2 DEF ClosedInv
  <2>1. SendsTheStream /\ \A q \in Replicas : closing[q] = "asap" => curr[q] = end[q]
    BY <1>1 DEF ClosedInv
  <2>2. closing[r] # "asap"
    BY <1>3, <2>1
  <2>3. r \in Listening
    <3>1. closing \in [Replicas -> {"no", "asap", "lost"}]
      BY <1>1 DEF TypeOK
    <3> QED BY SMT, <1>2, <2>2, <3>1 DEF Listening
  <2>4. SendsTheStream'
    BY <1>1, <1>5, <2>1, <2>3, SendStream
  <2> QED BY <1>2, <2>1, <2>2, <2>4
<1>11. Window(bl, moff)'
  BY <1>1, <1>2
<1> QED BY <1>2, <1>7, <1>8, <1>9, <1>10, <1>11 DEF Core

\* trimReplicationBacklog keeps what the replicas need.
LEMMA TrimStep ==
    ASSUME Start > 0, set \in Settings, Core, Trim
    PROVE  Core'
<1> DEFINE e == IF lowest = -1 THEN moff ELSE lowest
<1>1. /\ ~InBatch /\ bl.size > config /\ ~(lowest > 0 /\ moff - lowest + 1 > config)
      /\ bl' = Resized(bl, lowest, config)
      /\ set' = set /\ moff' = moff /\ batchOff' = batchOff /\ lowest' = lowest
      /\ config' = config /\ state' = state /\ closing' = closing /\ curr' = curr
      /\ end' = end /\ base' = base /\ received' = received
  BY DEF Trim, replicas
<1>2. /\ moff \in Nat /\ lowest \in Offsets /\ BacklogOK(bl) /\ Window(bl, moff)
      /\ bl.size \in Nat \ {0} /\ bl.start \in Nat /\ bl.start <= moff /\ config = set.size
      /\ lowest # -1 => bl.start <= lowest /\ lowest <= moff /\ moff - lowest < bl.size
  BY ServerFacts
<1>3. config \in Nat /\ config >= MinSize /\ MinSize \in Nat \ {0}
  BY SMT, <1>2, BacklogAssumption
<1>4. lowest # -1 => moff - lowest < config
  <2>1. Start \in Nat /\ Start > 0
    BY SMT, BacklogAssumption
  <2>2. Start <= bl.start
    BY <1>2 DEF Window
  <2> QED BY SMT, <1>1, <1>2, <1>3, <2>1, <2>2 DEF Offsets
<1>5. bl.size # config
  BY SMT, <1>1, <1>2, <1>3
<1>6. /\ BacklogOK(bl') /\ Window(bl', moff) /\ bl'.size >= config /\ bl'.start = e
  BY <1>1, <1>2, <1>3, <1>4, <1>5, ResizedOK
<1>7. bl'.size \in Nat
  BY <1>6 DEF BacklogOK
<1>8. e \in Nat /\ e <= moff /\ moff - e < bl'.size
  BY SMT, <1>2, <1>3, <1>4, <1>6, <1>7 DEF Offsets
<1>9. Listening' = Listening
  BY <1>1 DEF Listening
<1>10. TypeOK'
  BY <1>1, <1>6 DEF Core, TypeOK
<1>11. FitInv'
  <2> SUFFICES ASSUME NEW r \in Listening
               PROVE  /\ bl'.start <= curr[r] /\ curr[r] <= end[r] /\ end[r] <= moff
                      /\ moff - curr[r] < bl'.size
    BY <1>1, <1>9 DEF FitInv
  <2>1. /\ curr[r] \in Nat /\ curr[r] <= end[r] /\ end[r] <= moff
        /\ lowest # -1 => lowest <= curr[r]
        /\ lowest = -1 => curr[r] = moff
    BY <1>1, ReplicaFacts
  <2>2. e <= curr[r]
    BY SMT, <1>2, <2>1
  <2> HIDE DEF e
  <2> QED BY SMT, <1>2, <1>6, <1>7, <1>8, <2>1, <2>2
<1>12. LowestInv'
  <2>1. lowest # -1 => bl'.start <= lowest /\ lowest <= moff /\ moff - lowest < bl'.size
    BY SMT, <1>2, <1>6, <1>8 DEF Offsets
  <2> QED BY <1>1, <1>9, <2>1 DEF Core, LowestInv, InBatch
<1>13. EndInv' /\ PositionInv' /\ ClosedInv'
  BY <1>1, <1>9 DEF Core, EndInv, InBatch, PositionInv, ClosedInv, SendsTheStream
<1>14. Window(bl, moff)'
  BY <1>1, <1>6
<1> QED BY <1>10, <1>11, <1>12, <1>13, <1>14 DEF Core

-----------------------------------------------------------------------------
(* While the stream still fits in the backlog. *)

\* What WholeInv says of the server.
LEMMA WholeFacts ==
    ASSUME WholeInv, set \in Settings, NotYetFull
    PROVE  /\ moff \in Nat /\ batchOff \in Offsets /\ lowest \in Offsets
           /\ BacklogOK(bl) /\ Window(bl, moff) /\ Start \in Nat /\ Start <= moff
           /\ bl.size \in Nat \ {0} /\ bl.start = Start /\ bl.size = set.size
           /\ moff - Start < bl.size /\ config = set.size
           /\ lowest # -1 => lowest \in Nat /\ Start <= lowest /\ lowest <= moff
           /\ InBatch => batchOff \in Nat /\ Start <= batchOff
<1>1. /\ moff \in Nat /\ batchOff \in Offsets /\ lowest \in Offsets /\ BacklogOK(bl)
      /\ Window(bl, moff) /\ bl.start = Start /\ bl.size = set.size /\ config = set.size
      /\ InBatch => Start <= batchOff
      /\ lowest # -1 => Start <= lowest /\ lowest <= moff
  BY DEF WholeInv, TypeOK
<1>2. Start \in Nat /\ MinSize \in Nat \ {0}
  BY BacklogAssumption
<1>3. bl.size \in Nat \ {0} /\ Start <= moff
  BY SMT, <1>1, <1>2 DEF BacklogOK, Window
<1>4. moff - Start < bl.size
  BY <1>1 DEF NotYetFull
<1>5. lowest # -1 => lowest \in Nat
  BY <1>1 DEF Offsets
<1>6. InBatch => batchOff \in Nat
  BY SMT, <1>1 DEF InBatch, Offsets
<1> QED BY <1>1, <1>2, <1>3, <1>4, <1>5, <1>6

\* What it says of a replica.
LEMMA WholePosition ==
    ASSUME WholeInv, set \in Settings, NotYetFull, NEW r \in Replicas
    PROVE  /\ received[r] \in Seq(Nat) /\ base[r] \in Offsets
           /\ base[r] # -1 => base[r] \in Nat /\ Start <= base[r]
           /\ state[r] # "none" =>
                 /\ base[r] # -1 /\ base[r] + Len(received[r]) = curr[r]
                 /\ curr[r] \in Nat /\ end[r] \in Nat
                 /\ Start <= curr[r] /\ curr[r] <= end[r] /\ end[r] <= moff
                 /\ moff - curr[r] < bl.size
           /\ state[r] = "wait" => received[r] = <<>> /\ base[r] = curr[r]
<1>1. /\ received[r] \in Seq(Nat) /\ base[r] \in Offsets /\ curr[r] \in Offsets
      /\ end[r] \in Offsets
  BY DEF WholeInv, TypeOK
<1>2. /\ base[r] # -1 => Start <= base[r]
      /\ state[r] # "none" => Start <= curr[r] /\ curr[r] <= end[r] /\ end[r] <= moff
  BY DEF WholeInv
<1>3. /\ state[r] # "none" => base[r] # -1 /\ base[r] + Len(received[r]) = curr[r]
      /\ state[r] = "wait" => received[r] = <<>>
  BY DEF WholeInv, PositionInv
<1>4. /\ moff \in Nat /\ Start \in Nat /\ bl.size \in Nat /\ moff - Start < bl.size
  BY WholeFacts
<1>5. base[r] # -1 => base[r] \in Nat
  BY <1>1 DEF Offsets
<1>6. state[r] # "none" => curr[r] \in Nat /\ end[r] \in Nat /\ moff - curr[r] < bl.size
  BY SMT, <1>1, <1>2, <1>4 DEF Offsets
<1>7. state[r] = "wait" => base[r] = curr[r]
  <2> SUFFICES ASSUME state[r] = "wait" PROVE base[r] = curr[r]
    OBVIOUS
  <2>1. base[r] \in Nat /\ base[r] + Len(<<>>) = curr[r]
    BY SMT, <1>3, <1>5
  <2> QED BY SMT, <2>1
<1> QED BY <1>1, <1>2, <1>3, <1>5, <1>6, <1>7

\* feedReplicationBacklog appends, and closes and grows nothing.
LEMMA WholeFeed ==
    ASSUME WholeInv, set \in Settings, NotYetFull, NotYetFull', NEW n \in Nat \ {0}, Feed(n)
    PROVE  WholeInv'
<1> DEFINE lower == IF lowest = -1 THEN batchOff ELSE lowest
<1>1. /\ InBatch /\ moff' = moff + n /\ set' = set /\ config' = config /\ state' = state
      /\ curr' = curr /\ end' = end /\ base' = base /\ received' = received
  BY DEF Feed
<1>2. /\ moff \in Nat /\ BacklogOK(bl) /\ Window(bl, moff) /\ Start \in Nat /\ Start <= moff
      /\ bl.size \in Nat \ {0} /\ bl.start = Start /\ bl.size = set.size
      /\ lowest # -1 => lowest \in Nat /\ Start <= lowest /\ lowest <= moff
      /\ InBatch => batchOff \in Nat /\ Start <= batchOff
  BY WholeFacts
<1>3. bl.off = Start + 1 /\ bl.histlen = moff - Start /\ TypeOK /\ PositionInv /\ SendsTheStream
  BY DEF WholeInv
<1>4. moff + n - Start < bl.size /\ moff + n \in Nat
  BY SMT, <1>1, <1>2 DEF NotYetFull
<1>5. moff + n - lower + 1 <= bl.size
  BY SMT, <1>1, <1>2, <1>4
<1>6. bl' = Filled(bl, n) /\ batchOff' = batchOff /\ lowest' = lowest /\ closing' = closing
  BY <1>5 DEF Feed
<1> HIDE DEF lower
<1>7. BacklogOK(bl') /\ Window(bl', moff') /\ bl'.size = bl.size /\ bl'.start = bl.start
  BY <1>1, <1>2, <1>6, FilledOK, FilledWindow
<1>8. bl'.histlen = moff' - Start /\ bl'.off = Start + 1
  <2> DEFINE S == {bl.histlen + n, bl.size}
  <2>1. bl.histlen + n \in Nat /\ bl.histlen + n < bl.size /\ bl.histlen + n = moff + n - Start
    BY SMT, <1>2, <1>3, <1>4
  <2>2. S \in SUBSET Nat /\ S # {}
    BY <1>2, <2>1
  <2>3. Min(S) \in S /\ \A x \in S : Min(S) <= x
    <3> HIDE DEF S
    <3> QED BY <2>2, MinOfNats
  <2>4. Min(S) = bl.histlen + n
    <3>1. Min(S) = bl.size => bl.size <= bl.histlen + n
      BY <2>3
    <3>2. Min(S) # bl.size
      BY SMT, <1>2, <2>1, <3>1
    <3> QED BY <2>3, <3>2
  <2>5. /\ Filled(bl, n).histlen = Min(S) /\ Filled(bl, n).off = moff + n - Min(S) + 1
    <3>1. DOMAIN bl = Fields
      BY <1>2 DEF BacklogOK
    <3> QED BY SMT, <3>1 DEF Filled, Fields
  <2>6. moff + n - (moff + n - Start) + 1 = Start + 1
    BY SMT, <1>2
  <2>7. Min(S) = moff + n - Start
    BY <2>1, <2>4
  <2> HIDE DEF S
  <2>8. bl'.histlen = moff + n - Start
    BY <1>6, <2>5, <2>7
  <2>9. bl'.off = moff + n - (moff + n - Start) + 1
    BY <1>6, <2>5, <2>7
  <2>10. moff' - Start = moff + n - Start
    BY SMT, <1>1, <1>2
  <2> QED BY <2>6, <2>8, <2>9, <2>10
<1>9. TypeOK'
  BY <1>1, <1>3, <1>4, <1>6, <1>7 DEF TypeOK
<1>10. PositionInv' /\ SendsTheStream'
  BY <1>1, <1>3 DEF PositionInv, SendsTheStream
<1>11. lowest # -1 => lowest <= moff + n
  BY SMT, <1>2
<1>12. ASSUME NEW r \in Replicas, state[r] # "none"
       PROVE  Start <= curr[r] /\ curr[r] <= end[r] /\ end[r] <= moff + n
  <2>1. Start <= curr[r] /\ curr[r] <= end[r] /\ end[r] <= moff /\ end[r] \in Nat
    BY <1>12, WholePosition
  <2>2. end[r] <= moff + n
    BY SMT, <1>2, <2>1
  <2> QED BY <2>1, <2>2
<1>13. \A r \in Replicas : base[r] # -1 => Start <= base[r]
  BY WholePosition
<1>14. config = set.size
  BY WholeFacts
<1> QED BY <1>1, <1>2, <1>6, <1>7, <1>8, <1>9, <1>10, <1>11, <1>12, <1>13, <1>14
        DEF WholeInv, InBatch

\* runAndPropogateToReplicas and flushReplBacklogToClients: a batch that fits closes
\* nobody.
LEMMA WholeBatch ==
    ASSUME WholeInv, set \in Settings, NotYetFull, BatchStart \/ BatchEnd
    PROVE  WholeInv'
<1>1. /\ moff' = moff /\ set' = set /\ config' = config /\ state' = state /\ curr' = curr
      /\ base' = base /\ received' = received
  BY DEF BatchStart, BatchEnd, replicas
<1>2. PICK x : bl' = [bl EXCEPT !.batchIdx = x]
  BY DEF BatchStart, BatchEnd
<1>3. /\ moff \in Nat /\ BacklogOK(bl) /\ Window(bl, moff) /\ Start \in Nat /\ Start <= moff
      /\ bl.size \in Nat \ {0} /\ moff - Start < bl.size /\ lowest \in Offsets
      /\ lowest # -1 => lowest \in Nat /\ Start <= lowest /\ lowest <= moff
      /\ InBatch => batchOff \in Nat /\ Start <= batchOff
  BY WholeFacts
<1>4. /\ BacklogOK(bl') /\ Window(bl', moff') /\ bl'.size = bl.size /\ bl'.start = bl.start
      /\ bl'.off = bl.off /\ bl'.histlen = bl.histlen
  BY <1>1, <1>2, <1>3, BatchIdx
<1>5. /\ bl.off = Start + 1 /\ bl.histlen = moff - Start /\ TypeOK /\ PositionInv
      /\ SendsTheStream /\ bl.start = Start /\ bl.size = set.size /\ config = set.size
      /\ end \in [Replicas -> Offsets] /\ closing \in [Replicas -> {"no", "asap", "lost"}]
  BY DEF WholeInv, TypeOK
<1>6. PositionInv' /\ SendsTheStream'
  BY <1>1, <1>5 DEF PositionInv, SendsTheStream
<1>7. \A r \in Replicas : base[r] # -1 => Start <= base[r]
  BY WholePosition
<1>8. \A r \in Replicas : state[r] # "none" =>
         /\ Start <= curr[r] /\ curr[r] <= end[r] /\ end[r] <= moff /\ curr[r] \in Nat
         /\ curr[r] <= moff
  <2> SUFFICES ASSUME NEW r \in Replicas, state[r] # "none"
               PROVE  /\ Start <= curr[r] /\ curr[r] <= end[r] /\ end[r] <= moff
                      /\ curr[r] \in Nat /\ curr[r] <= moff
    OBVIOUS
  <2>1. /\ Start <= curr[r] /\ curr[r] <= end[r] /\ end[r] <= moff /\ curr[r] \in Nat
        /\ end[r] \in Nat
    BY WholePosition
  <2> QED BY SMT, <1>3, <2>1
<1>9. moff <= moff /\ moff \in Offsets /\ -1 \in Offsets /\ ~(-1 >= 0) /\ -1 = -1
  BY SMT, <1>3 DEF Offsets
<1>10. ASSUME batchOff' \in Offsets, lowest' \in Offsets, closing' = closing,
              end' \in [Replicas -> Offsets], InBatch' => Start <= batchOff',
              lowest' # -1 => Start <= lowest' /\ lowest' <= moff,
              \A r \in Replicas : end'[r] = end[r] \/ end'[r] = moff
       PROVE  WholeInv'
  <2>1. TypeOK'
    BY <1>1, <1>3, <1>4, <1>5, <1>10 DEF TypeOK
  <2>2. ASSUME NEW r \in Replicas, state[r] # "none"
        PROVE  Start <= curr[r] /\ curr[r] <= end'[r] /\ end'[r] <= moff
    BY <1>8, <1>9, <1>10, <2>2
  <2> QED BY <1>1, <1>4, <1>5, <1>6, <1>7, <1>10, <2>1, <2>2 DEF WholeInv
<1>11. CASE BatchStart
  <2>1. batchOff' = moff /\ lowest' = lowest /\ closing' = closing /\ end' = end
    BY <1>11 DEF BatchStart, replicas
  <2> QED BY <1>3, <1>5, <1>9, <1>10, <2>1
<1>12. CASE BatchEnd
  <2>1. InBatch /\ batchOff' = -1
    BY <1>12 DEF BatchEnd
  <2>2. ~InBatch'
    BY <1>9, <2>1 DEF InBatch
  <2>3. CASE batchOff = moff
    <3>1. closing' = closing /\ end' = end /\ lowest' = lowest
      BY <1>12, <2>3 DEF BatchEnd
    <3> QED BY <1>3, <1>5, <1>9, <1>10, <2>1, <2>2, <3>1
  <2>4. CASE batchOff # moff
    <3>1. ~(moff - batchOff > bl.size)
      BY SMT, <1>3, <2>1
    <3>2. /\ end' = [r \in Replicas |-> IF r \in Listening THEN moff ELSE end[r]]
          /\ lowest' = IF Listening = {} THEN -1 ELSE Min({curr[r] : r \in Listening})
          /\ closing' = closing
      BY <1>12, <2>4, <3>1 DEF BatchEnd
    <3>3. end' \in [Replicas -> Offsets] /\ \A r \in Replicas : end'[r] = end[r] \/ end'[r] = moff
      BY <1>5, <1>9, <3>2
    <3>4. Listening # {} => \E r \in Listening : lowest' = curr[r]
      <4> SUFFICES ASSUME Listening # {} PROVE \E r \in Listening : lowest' = curr[r]
        OBVIOUS
      <4> DEFINE S == {curr[r] : r \in Listening}
      <4>1. S \in SUBSET Nat /\ S # {}
        BY <1>8 DEF Listening
      <4>2. Min(S) \in S
        <5> HIDE DEF S
        <5> QED BY <4>1, MinOfNats
      <4> QED BY <3>2, <4>2
    <3>5. \A r \in Listening : r \in Replicas /\ state[r] # "none"
      BY DEF Listening
    <3>6. lowest' \in Offsets /\ (lowest' # -1 => Start <= lowest' /\ lowest' <= moff)
      BY <1>8, <1>9, <3>2, <3>4, <3>5 DEF Offsets
    <3> QED BY <1>9, <1>10, <2>1, <2>2, <3>2, <3>3, <3>6
  <2> QED BY <2>3, <2>4
<1> QED BY <1>11, <1>12

\* A step that changes the flags of a replica, its position and its snapshot only, and
\* leaves it at a good position.
LEMMA WholeReplica ==
    ASSUME WholeInv, set \in Settings, NotYetFull, NEW r \in Replicas,
           set' = set, moff' = moff, bl' = bl, batchOff' = batchOff, lowest' = lowest,
           config' = config, TypeOK', PositionInv', SendsTheStream',
           \A q \in Replicas \ {r} : /\ state'[q] = state[q] /\ curr'[q] = curr[q]
                                     /\ end'[q] = end[q] /\ base'[q] = base[q],
           base'[r] # -1 => Start <= base'[r],
           state'[r] # "none" => Start <= curr'[r] /\ curr'[r] <= end'[r] /\ end'[r] <= moff
    PROVE  WholeInv'
<1>1. \A q \in Replicas :
         /\ base'[q] # -1 => Start <= base'[q]
         /\ state'[q] # "none" => Start <= curr'[q] /\ curr'[q] <= end'[q] /\ end'[q] <= moff
  <2>1. \A q \in Replicas :
           /\ base[q] # -1 => Start <= base[q]
           /\ state[q] # "none" => Start <= curr[q] /\ curr[q] <= end[q] /\ end[q] <= moff
    BY DEF WholeInv
  <2> QED BY <2>1
<1>2. /\ Window(bl, moff) /\ bl.start = Start /\ bl.size = set.size /\ config = set.size
      /\ bl.off = Start + 1 /\ bl.histlen = moff - Start
      /\ InBatch => Start <= batchOff
      /\ lowest # -1 => Start <= lowest /\ lowest <= moff
  BY DEF WholeInv
<1> QED BY <1>1, <1>2 DEF WholeInv, InBatch

\* The life of a replica: the snapshot has arrived, the connection is lost, the client
\* is freed.
LEMMA WholeFlags ==
    ASSUME WholeInv, set \in Settings, NotYetFull, NEW r \in Replicas,
           PutOnline(r) \/ Lose(r) \/ Free(r)
    PROVE  WholeInv'
<1>1. /\ set' = set /\ moff' = moff /\ bl' = bl /\ batchOff' = batchOff /\ lowest' = lowest
      /\ config' = config /\ curr' = curr /\ end' = end /\ received' = received
  BY DEF PutOnline, Lose, Free
<1>2. /\ state' \in [Replicas -> {"none", "wait", "online"}]
      /\ closing' \in [Replicas -> {"no", "asap", "lost"}] /\ base' \in [Replicas -> Offsets]
      /\ \A q \in Replicas \ {r} : state'[q] = state[q] /\ base'[q] = base[q]
      /\ state'[r] # "none" => state[r] # "none"
      /\ state'[r] = "wait" => state[r] = "wait"
      /\ base'[r] = base[r] \/ (base'[r] = -1 /\ state[r] = "wait" /\ state'[r] = "none")
  <2>1. /\ state \in [Replicas -> {"none", "wait", "online"}]
        /\ closing \in [Replicas -> {"no", "asap", "lost"}] /\ base \in [Replicas -> Offsets]
    BY DEF WholeInv, TypeOK
  <2>2. CASE PutOnline(r)
    BY SMTT(20), <2>1, <2>2 DEF PutOnline, Offsets
  <2>3. CASE Lose(r)
    BY SMTT(20), <2>1, <2>3 DEF Lose, Offsets
  <2>4. CASE Free(r)
    BY SMTT(20), <2>1, <2>4 DEF Free, Offsets
  <2> QED BY <2>2, <2>3, <2>4
<1>3. TypeOK /\ PositionInv /\ SendsTheStream
  BY DEF WholeInv
<1>4. /\ received[r] \in Seq(Nat) /\ base[r] \in Offsets
      /\ base[r] # -1 => Start <= base[r]
      /\ state[r] # "none" => Start <= curr[r] /\ curr[r] <= end[r] /\ end[r] <= moff
      /\ state[r] = "wait" => received[r] = <<>>
  BY WholePosition
<1>5. TypeOK'
  BY <1>1, <1>2, <1>3 DEF TypeOK
<1>6. PositionInv'
  <2>1. \A q \in Replicas : /\ state'[q] # "none" => state[q] # "none" /\ base'[q] = base[q]
                            /\ state'[q] = "wait" => state[q] = "wait"
    BY <1>2
  <2> QED BY <1>1, <1>3, <2>1 DEF PositionInv
<1>7. SendsTheStream'
  <2> SUFFICES ASSUME NEW q \in Replicas, NEW i \in 1 .. Len(received[q])
               PROVE  received[q][i] = base'[q] + i
    BY <1>1 DEF SendsTheStream
  <2>1. 1 .. Len(<<>>) = {}
    BY SMT
  <2>2. base'[q] = base[q]
    <3>1. q = r /\ state[r] = "wait" => i \in 1 .. Len(<<>>)
      BY <1>4
    <3> QED BY <1>2, <2>1, <3>1
  <2> QED BY <1>3, <2>2 DEF SendsTheStream
<1>8. base'[r] # -1 => Start <= base'[r]
  BY <1>2, <1>4
<1>9. state'[r] # "none" => Start <= curr'[r] /\ curr'[r] <= end'[r] /\ end'[r] <= moff
  BY <1>1, <1>2, <1>4
<1> QED BY <1>1, <1>2, <1>5, <1>6, <1>7, <1>8, <1>9, WholeReplica

\* A replica gets a snapshot, its own or that of another.
LEMMA WholeFullSync ==
    ASSUME WholeInv, set \in Settings, NotYetFull, NEW r \in Replicas, FullSync(r)
    PROVE  WholeInv'
<1>1. /\ set' = set /\ moff' = moff /\ bl' = bl /\ batchOff' = batchOff
      /\ lowest' = lowest /\ config' = config /\ closing' = closing
      /\ end' = [end EXCEPT ![r] = moff] /\ state' = [state EXCEPT ![r] = "wait"]
      /\ received' = [received EXCEPT ![r] = <<>>]
  BY DEF FullSync
<1>2. PICK offset \in {moff} \cup {base[q] : q \in {q \in Replicas : ~set.diskless /\ InBatch
                                                         /\ state[q] = "wait"}} :
         base' = [base EXCEPT ![r] = offset] /\ curr' = [curr EXCEPT ![r] = offset]
  BY DEF FullSync
<1>3. moff \in Nat /\ Start \in Nat /\ Start <= moff
  BY WholeFacts
<1>4. offset \in Nat /\ Start <= offset /\ offset <= moff
  <2>1. CASE offset = moff
    BY SMT, <1>3, <2>1
  <2>2. ASSUME NEW q \in Replicas, state[q] = "wait", offset = base[q]
        PROVE  offset \in Nat /\ Start <= offset /\ offset <= moff
    <3>1. state[q] # "none"
      BY SMT, <2>2
    <3>2. /\ offset = curr[q] /\ curr[q] \in Nat /\ end[q] \in Nat /\ Start <= curr[q]
          /\ curr[q] <= end[q] /\ end[q] <= moff
      BY <2>2, <3>1, WholePosition
    <3> QED BY SMT, <1>3, <3>2
  <2> QED BY <1>2, <2>1, <2>2
<1>5. offset \in Offsets /\ offset # -1 /\ moff \in Offsets /\ moff <= moff
  BY SMT, <1>3, <1>4 DEF Offsets
<1>6. /\ state \in [Replicas -> {"none", "wait", "online"}]
      /\ curr \in [Replicas -> Offsets] /\ end \in [Replicas -> Offsets]
      /\ base \in [Replicas -> Offsets] /\ received \in [Replicas -> Seq(Nat)]
      /\ TypeOK /\ PositionInv /\ SendsTheStream
  BY DEF WholeInv, TypeOK
<1>7. /\ state'[r] = "wait" /\ curr'[r] = offset /\ end'[r] = moff /\ base'[r] = offset
      /\ received'[r] = <<>>
  BY <1>1, <1>2, <1>6
<1>8. \A q \in Replicas \ {r} :
         /\ state'[q] = state[q] /\ curr'[q] = curr[q] /\ end'[q] = end[q]
         /\ base'[q] = base[q] /\ received'[q] = received[q]
  BY <1>1, <1>2, <1>6
<1>9. TypeOK'
  <2>1. <<>> \in Seq(Nat)
    BY SMT
  <2>2. /\ state' \in [Replicas -> {"none", "wait", "online"}]
        /\ curr' \in [Replicas -> Offsets] /\ end' \in [Replicas -> Offsets]
        /\ base' \in [Replicas -> Offsets] /\ received' \in [Replicas -> Seq(Nat)]
    BY <1>1, <1>2, <1>5, <1>6, <2>1
  <2> QED BY <1>1, <1>6, <2>2 DEF TypeOK
<1>10. Len(<<>>) = 0 /\ offset + 0 = offset /\ 1 .. 0 = {}
  BY SMT, <1>4
<1>11. PositionInv'
  <2>1. \A q \in Replicas \ {r} :
           /\ state'[q] # "none" => base'[q] # -1 /\ base'[q] + Len(received'[q]) = curr'[q]
           /\ state'[q] = "wait" => received'[q] = <<>>
    BY <1>6, <1>8 DEF PositionInv
  <2>2. base'[r] # -1 /\ base'[r] + Len(received'[r]) = curr'[r]
    BY <1>5, <1>7, <1>10
  <2> QED BY <1>7, <2>1, <2>2 DEF PositionInv
<1>12. SendsTheStream'
  <2>1. ASSUME NEW q \in Replicas, NEW i \in 1 .. Len(received'[q])
        PROVE  received'[q][i] = base'[q] + i
    <3>1. q # r
      BY <1>7, <1>10
    <3>2. received'[q] = received[q] /\ base'[q] = base[q]
      BY <1>8, <3>1
    <3> QED BY <1>6, <3>2 DEF SendsTheStream
  <2> QED BY <2>1 DEF SendsTheStream
<1>13. /\ base'[r] # -1 => Start <= base'[r]
       /\ Start <= curr'[r] /\ curr'[r] <= end'[r] /\ end'[r] <= moff
  BY <1>4, <1>5, <1>7
<1> QED BY <1>1, <1>8, <1>9, <1>11, <1>12, <1>13, WholeReplica

\* masterTryPartialResynchronization: the replica resumes where it was.
LEMMA WholePartialSync ==
    ASSUME WholeInv, set \in Settings, NotYetFull, NEW r \in Replicas, PartialSync(r)
    PROVE  WholeInv'
<1> DEFINE offset == base[r] + Len(received[r]) + 1
           c == IF bl.histlen = 0 THEN moff ELSE offset - 1
<1>1. /\ set' = set /\ moff' = moff /\ bl' = bl /\ batchOff' = batchOff
      /\ lowest' = lowest /\ config' = config /\ closing' = closing
      /\ base' = base /\ received' = received
      /\ end' = [end EXCEPT ![r] = moff] /\ state' = [state EXCEPT ![r] = "online"]
      /\ curr' = [curr EXCEPT ![r] = c]
      /\ base[r] # -1 /\ offset >= bl.off /\ offset <= bl.off + bl.histlen
  BY DEF PartialSync
<1>2. moff \in Nat /\ Start \in Nat /\ Start <= moff
  BY WholeFacts
<1>3. base[r] \in Nat /\ Start <= base[r] /\ received[r] \in Seq(Nat)
  BY <1>1, WholePosition
<1>4. /\ bl.off = Start + 1 /\ bl.histlen = moff - Start /\ TypeOK /\ PositionInv
      /\ SendsTheStream
  BY DEF WholeInv
<1>5. Len(received[r]) \in Nat
  BY SMT, <1>3
<1>6. /\ c \in Nat /\ base[r] + Len(received[r]) = c /\ Start <= c /\ c <= moff
      /\ c \in Offsets /\ moff \in Offsets /\ moff <= moff
  <2> DEFINE k == Len(received[r])
  <2>1. base[r] + k + 1 >= Start + 1 /\ base[r] + k + 1 <= Start + 1 + (moff - Start)
    BY <1>1, <1>4
  <2>2. c = IF moff - Start = 0 THEN moff ELSE (base[r] + k + 1) - 1
    BY <1>4
  <2>3. base[r] \in Nat /\ k \in Nat
    BY <1>3, <1>5
  <2> HIDE DEF c, k
  <2>4. c \in Nat /\ base[r] + k = c /\ Start <= c /\ c <= moff /\ moff <= moff
    BY SMT, <1>2, <2>1, <2>2, <2>3
  <2> QED BY <1>2, <2>4 DEF k, Offsets
<1> HIDE DEF c, offset
<1>7. /\ state \in [Replicas -> {"none", "wait", "online"}]
      /\ curr \in [Replicas -> Offsets] /\ end \in [Replicas -> Offsets]
  BY <1>4 DEF TypeOK
<1>8. /\ state'[r] = "online" /\ curr'[r] = c /\ end'[r] = moff
      /\ \A q \in Replicas \ {r} :
            state'[q] = state[q] /\ curr'[q] = curr[q] /\ end'[q] = end[q]
  BY <1>1, <1>7
<1>9. TypeOK'
  <2>1. /\ state' \in [Replicas -> {"none", "wait", "online"}]
        /\ curr' \in [Replicas -> Offsets] /\ end' \in [Replicas -> Offsets]
    BY <1>1, <1>6, <1>7
  <2> QED BY <1>1, <1>4, <2>1 DEF TypeOK
<1>10. PositionInv'
  <2>1. "online" # "wait"
    BY SMT
  <2>2. \A q \in Replicas \ {r} :
           /\ state'[q] # "none" => base[q] # -1 /\ base[q] + Len(received[q]) = curr'[q]
           /\ state'[q] = "wait" => received[q] = <<>>
    BY <1>4, <1>8 DEF PositionInv
  <2> QED BY <1>1, <1>6, <1>8, <2>1, <2>2 DEF PositionInv
<1>11. SendsTheStream'
  BY <1>1, <1>4 DEF SendsTheStream
<1> QED BY <1>1, <1>3, <1>6, <1>8, <1>9, <1>10, <1>11, WholeReplica

\* writeToClient sends the next bytes.
LEMMA WholeSend ==
    ASSUME WholeInv, set \in Settings, NotYetFull, NEW r \in Replicas, NEW n \in Nat \ {0},
           Send(r, n)
    PROVE  WholeInv'
<1>1. TypeOK /\ PositionInv /\ SendsTheStream /\ Window(bl, moff) /\ bl.start = Start
  BY DEF WholeInv
<1>2. /\ TypeOK' /\ PositionInv'
      /\ set' = set /\ moff' = moff /\ bl' = bl /\ batchOff' = batchOff
      /\ lowest' = lowest /\ config' = config /\ state' = state
      /\ end' = end /\ base' = base /\ state[r] = "online"
      /\ curr[r] \in Nat /\ curr'[r] = curr[r] + n /\ curr[r] + n <= end[r]
      /\ \A q \in Replicas \ {r} : curr'[q] = curr[q]
  BY <1>1, SendFrame
<1>3. state[r] # "none"
  BY SMT, <1>2
<1>4. /\ base[r] # -1 => Start <= base[r]
      /\ Start <= curr[r] /\ end[r] <= moff /\ moff - curr[r] < bl.size
  BY <1>3, WholePosition
<1>5. Start <= curr[r] + n
  BY SMT, <1>2, <1>4, BacklogAssumption
<1>6. SendsTheStream'
  BY <1>1, <1>4, SendStream
<1> QED BY <1>1, <1>2, <1>4, <1>5, <1>6, WholeReplica

\* What both invariants say of the positions the backlog is read from.
LEMMA GoodPositions ==
    ASSUME BInv, Regular
    PROVE  /\ moff \in Nat /\ BacklogOK(bl) /\ Window(bl, moff)
           /\ bl.size \in Nat \ {0} /\ bl.start \in Nat
           /\ lowest # -1 => /\ lowest \in Nat /\ bl.start <= lowest /\ lowest <= moff
                             /\ moff - lowest < bl.size
           /\ \A r \in Listening :
                 /\ curr[r] \in Nat /\ end[r] \in Nat /\ bl.start <= curr[r]
                 /\ curr[r] <= end[r] /\ end[r] <= moff /\ curr[r] <= moff
                 /\ moff - curr[r] < bl.size
<1>1. CASE OwnSnapshots /\ Start > 0
  <2>1. Core
    BY <1>1 DEF BInv, Regular
  <2>2. /\ moff \in Nat /\ BacklogOK(bl) /\ Window(bl, moff) /\ lowest \in Offsets
        /\ bl.size \in Nat \ {0} /\ bl.start \in Nat
        /\ lowest # -1 => bl.start <= lowest /\ lowest <= moff /\ moff - lowest < bl.size
    BY <2>1, ServerFacts
  <2>3. lowest # -1 => lowest \in Nat
    BY <2>2 DEF Offsets
  <2>4. ASSUME NEW r \in Listening
        PROVE  /\ curr[r] \in Nat /\ end[r] \in Nat /\ bl.start <= curr[r]
               /\ curr[r] <= end[r] /\ end[r] <= moff /\ curr[r] <= moff
               /\ moff - curr[r] < bl.size
    <3>1. /\ curr[r] \in Nat /\ end[r] \in Nat /\ bl.start <= curr[r]
          /\ curr[r] <= end[r] /\ end[r] <= moff /\ moff - curr[r] < bl.size
      BY <2>1, ReplicaFacts
    <3>2. curr[r] <= moff
      BY SMT, <2>2, <3>1
    <3> QED BY <3>1, <3>2
  <2> QED BY <2>2, <2>3, <2>4
<1>2. CASE NotYetFull
  <2>1. WholeInv /\ set \in Settings
    BY <1>2 DEF BInv, Regular
  <2>2. /\ moff \in Nat /\ BacklogOK(bl) /\ Window(bl, moff) /\ Start \in Nat
        /\ bl.size \in Nat \ {0} /\ bl.start = Start /\ moff - Start < bl.size
        /\ lowest # -1 => lowest \in Nat /\ Start <= lowest /\ lowest <= moff
    BY <1>2, <2>1, WholeFacts
  <2>3. lowest # -1 => moff - lowest < bl.size
    BY SMT, <2>2
  <2>4. ASSUME NEW r \in Listening
        PROVE  /\ curr[r] \in Nat /\ end[r] \in Nat /\ bl.start <= curr[r]
               /\ curr[r] <= end[r] /\ end[r] <= moff /\ curr[r] <= moff
               /\ moff - curr[r] < bl.size
    <3>1. r \in Replicas /\ state[r] # "none"
      BY DEF Listening
    <3>2. /\ curr[r] \in Nat /\ end[r] \in Nat /\ Start <= curr[r]
          /\ curr[r] <= end[r] /\ end[r] <= moff /\ moff - curr[r] < bl.size
      BY <1>2, <2>1, <3>1, WholePosition
    <3>3. curr[r] <= moff
      BY SMT, <2>2, <3>2
    <3> QED BY <2>2, <3>2, <3>3
  <2> QED BY <2>2, <2>3, <2>4
<1> QED BY <1>1, <1>2 DEF Regular

-----------------------------------------------------------------------------
(* The theorems. *)

\* createReplicationBacklog establishes the invariant.
LEMMA BacklogInit ==
    ASSUME Init
    PROVE  BInv
<1>1. /\ set \in Settings /\ moff = Start /\ batchOff = Start /\ lowest = -1
      /\ config = set.size /\ state = [r \in Replicas |-> "none"]
      /\ closing = [r \in Replicas |-> "no"] /\ curr = [r \in Replicas |-> -1]
      /\ end = [r \in Replicas |-> -1] /\ base = [r \in Replicas |-> -1]
      /\ received = [r \in Replicas |-> <<>>]
  BY DEF Init
<1>2. /\ set.size \in Nat /\ set.size >= MinSize /\ MinSize \in Nat \ {0} /\ Start \in Nat
  BY SMT, <1>1, BacklogAssumption
<1>3. /\ DOMAIN bl = Fields /\ bl.size = set.size /\ bl.idx = 0 /\ bl.start = Start
      /\ bl.buf = [i \in 0 .. (set.size - 1) |-> 0]
  BY SMT DEF Init, Fields
<1>4. BacklogOK(bl)
  BY SMT, <1>2, <1>3 DEF BacklogOK
<1>5. TypeOK
  <2>1. moff \in Nat /\ batchOff \in Offsets /\ lowest \in Offsets /\ config \in Nat
    BY SMT, <1>1, <1>2 DEF Offsets
  <2>2. /\ state \in [Replicas -> {"none", "wait", "online"}]
        /\ closing \in [Replicas -> {"no", "asap", "lost"}]
        /\ curr \in [Replicas -> Offsets] /\ end \in [Replicas -> Offsets]
        /\ base \in [Replicas -> Offsets] /\ received \in [Replicas -> Seq(Nat)]
    BY SMT, <1>1 DEF Offsets
  <2> QED BY <1>4, <2>1, <2>2 DEF TypeOK
<1>6. Window(bl, moff)
  <2>1. Start <= Start /\ Start - Start = 0 /\ (Start + 1) .. Start = {}
    BY SMT, <1>2
  <2> QED BY <1>1, <1>3, <2>1 DEF Window
<1>7. Listening = {}
  BY SMT, <1>1 DEF Listening
<1>8. FitInv /\ EndInv
  BY <1>7 DEF FitInv, EndInv
<1>9. LowestInv
  <2>1. batchOff <= moff
    BY SMT, <1>1, <1>2
  <2> QED BY <1>1, <1>7, <2>1 DEF LowestInv
<1>10. PositionInv
  BY SMT, <1>1 DEF PositionInv
<1>11. ClosedInv
  BY SMT, <1>1 DEF ClosedInv, SendsTheStream
<1>12. SendsTheStream
  BY SMT, <1>1 DEF SendsTheStream
<1>13. WholeInv
  <2>1. bl.off = Start + 1 /\ bl.histlen = 0
    BY SMT DEF Init
  <2>2. moff - Start = 0 /\ Start <= batchOff
    BY SMT, <1>1, <1>2
  <2>3. \A r \in Replicas : base[r] = -1 /\ state[r] = "none"
    BY <1>1
  <2> QED BY <1>1, <1>3, <1>5, <1>6, <1>10, <1>12, <2>1, <2>2, <2>3 DEF WholeInv
<1> QED BY <1>1, <1>2, <1>5, <1>6, <1>8, <1>9, <1>10, <1>11, <1>13 DEF BInv, Core

\* No step changes the settings, and the stream only gets longer.
LEMMA StreamGrows ==
    ASSUME moff \in Nat, [Next]_vars
    PROVE  set' = set /\ moff' \in Nat /\ moff <= moff'
<1>1. set' = set
  BY DEF Next, vars, BatchStart, BatchEnd, Trim, Feed, Configure, FullSync, PartialSync,
         PutOnline, Lose, Free, Send
<1>2. moff' = moff \/ \E n \in Lens : moff' = moff + n
  BY DEF Next, vars, BatchStart, BatchEnd, Trim, Feed, Configure, FullSync, PartialSync,
         PutOnline, Lose, Free, Send
<1>3. moff' \in Nat /\ moff <= moff'
  BY SMT, <1>2, BacklogAssumption
<1> QED BY <1>1, <1>3

\* Every step preserves Core.
LEMMA CoreNext ==
    ASSUME set \in Settings, set.sizes = {}, OwnSnapshots, Start > 0, Core, [Next]_vars
    PROVE  Core'
<1>1. CASE BatchStart \/ BatchEnd \/ Trim
  BY <1>1, BatchStartStep, BatchEndStep, TrimStep
<1>2. ASSUME NEW n \in Lens, Feed(n) PROVE Core'
  <2>1. n \in Nat \ {0}
    BY SMT, BacklogAssumption
  <2> QED BY <1>2, <2>1, FeedStep
<1>3. ASSUME NEW r \in Replicas,
             FullSync(r) \/ PartialSync(r) \/ PutOnline(r) \/ Lose(r) \/ Free(r)
      PROVE  Core'
  <2>1. ~PartialSync(r)
    BY DEF PartialSync, OwnSnapshots
  <2> QED BY <1>3, <2>1, FullSyncStep, ReplicaStep
<1>4. ASSUME NEW r \in Replicas, NEW n \in 1 .. MaxOff, Send(r, n) PROVE Core'
  <2>1. n \in Nat \ {0}
    BY SMT, BacklogAssumption
  <2> QED BY <1>4, <2>1, SendStep
<1>5. CASE UNCHANGED vars
  <2>1. /\ set' = set /\ moff' = moff /\ bl' = bl /\ batchOff' = batchOff /\ lowest' = lowest
        /\ config' = config /\ state' = state /\ closing' = closing /\ curr' = curr
        /\ end' = end /\ base' = base /\ received' = received
    BY <1>5 DEF vars, replicas
  <2>2. /\ state \in [Replicas -> {"none", "wait", "online"}]
        /\ closing \in [Replicas -> {"no", "asap", "lost"}] /\ base \in [Replicas -> Offsets]
    BY DEF Core, TypeOK
  <2> QED BY <2>1, <2>2, FlagsStep
<1> QED BY <1>1, <1>2, <1>3, <1>4, <1>5 DEF Next

\* Every step preserves WholeInv, as long as the stream fits.
LEMMA WholeNext ==
    ASSUME set \in Settings, set.sizes = {}, NotYetFull, NotYetFull', WholeInv, [Next]_vars
    PROVE  WholeInv'
<1>1. CASE BatchStart \/ BatchEnd
  BY <1>1, WholeBatch
<1>2. ~Trim
  <2>1. bl.size = config /\ bl.size \in Nat
    BY WholeFacts
  <2>2. ~(bl.size > config)
    BY SMT, <2>1
  <2> QED BY <2>2 DEF Trim
<1>3. ASSUME NEW n \in Lens, Feed(n) PROVE WholeInv'
  <2>1. n \in Nat \ {0}
    BY SMT, BacklogAssumption
  <2> QED BY <1>3, <2>1, WholeFeed
<1>4. ASSUME NEW r \in Replicas,
             FullSync(r) \/ PartialSync(r) \/ PutOnline(r) \/ Lose(r) \/ Free(r)
      PROVE  WholeInv'
  BY <1>4, WholeFullSync, WholePartialSync, WholeFlags
<1>5. ASSUME NEW r \in Replicas, NEW n \in 1 .. MaxOff, Send(r, n) PROVE WholeInv'
  <2>1. n \in Nat \ {0}
    BY SMT, BacklogAssumption
  <2> QED BY <1>5, <2>1, WholeSend
<1>6. CASE UNCHANGED vars
  BY <1>6 DEF vars, replicas, WholeInv, TypeOK, PositionInv, SendsTheStream, InBatch
<1> QED BY <1>1, <1>2, <1>3, <1>4, <1>5, <1>6 DEF Next

\* Every step preserves the invariant.
LEMMA BacklogNext ==
    ASSUME BInv, [Next]_vars
    PROVE  BInv'
<1>1. set \in Settings /\ moff \in Nat
  BY DEF BInv
<1>2. set' = set /\ moff' \in Nat /\ moff <= moff'
  BY <1>1, StreamGrows
<1>3. ASSUME set.sizes = {}, OwnSnapshots, Start > 0 PROVE Core'
  BY <1>1, <1>3, CoreNext DEF BInv
<1>4. ASSUME set.sizes = {}, NotYetFull' PROVE WholeInv'
  <2>1. set.size \in Nat /\ Start \in Nat
    BY SMT, <1>1, BacklogAssumption
  <2>2. moff' - Start < set.size
    BY <1>2, <1>4 DEF NotYetFull
  <2>3. NotYetFull
    BY SMT, <1>1, <1>2, <2>1, <2>2 DEF NotYetFull
  <2> QED BY <1>1, <1>4, <2>3, WholeNext DEF BInv
<1>5. OwnSnapshots' <=> OwnSnapshots
  BY <1>2 DEF OwnSnapshots
<1> QED BY <1>1, <1>2, <1>3, <1>4, <1>5 DEF BInv

\* The window of the buffer, the positions of the replicas and repl_lowest_off agree,
\* whatever is fed, sent, grown, trimmed, closed and connected.
THEOREM BacklogInvariance == Spec => []BInv
<1>1. Init => BInv
  BY SMT, BacklogInit
<1>2. BInv /\ [Next]_vars => BInv'
  BY SMT, BacklogNext
<1> QED BY <1>1, <1>2, PTL DEF Spec

\* The buffer holds all that a connected replica has not been sent, where
\* getReplIndexFromOffset looks for it, for every size of the buffer.
THEOREM BacklogHolds == Spec => []BufferHolds
<1>1. BInv => BufferHolds
  <2> SUFFICES ASSUME BInv, Regular, NEW r \in Listening, NEW o \in (curr[r] + 1) .. moff
               PROVE  curr[r] >= bl.start /\ bl.buf[Index(bl, o - 1)] = o
    BY DEF BufferHolds
  <2>1. /\ bl.size \in Nat \ {0} /\ bl.start \in Nat /\ moff \in Nat /\ Window(bl, moff)
        /\ curr[r] \in Nat /\ bl.start <= curr[r] /\ moff - curr[r] < bl.size
    BY GoodPositions
  <2>2. /\ curr[r] >= bl.start /\ o - 1 >= bl.start
        /\ o \in (bl.start + 1) .. moff /\ moff - o < bl.size
    BY SMT, <2>1
  <2>3. Index(bl, o - 1) = (o - 1 - bl.start) % bl.size
    BY <2>2 DEF Index
  <2>4. bl.buf[(o - 1 - bl.start) % bl.size] = o
    BY <2>1, <2>2 DEF Window
  <2> QED BY <2>2, <2>3, <2>4
<1> QED BY <1>1, BacklogInvariance, PTL

\* Without a limit, every replica receives the stream from its snapshot on, without a
\* gap and in order.
THEOREM BacklogFaithful == Spec => []Faithful
<1>1. BInv => Faithful
  BY DEF BInv, Core, WholeInv, ClosedInv, Faithful, Regular
<1> QED BY <1>1, BacklogInvariance, PTL

\* writeToClient never turns in circles: data that is pending is never a whole turn of
\* the buffer, so that the two positions differ.
THEOREM BacklogSends == Spec => []SendsSomething
<1>1. BInv => SendsSomething
  <2> SUFFICES ASSUME BInv, Regular, NEW r \in Listening, Pending(r)
               PROVE  Chunk(r) > 0
    BY DEF SendsSomething
  <2> DEFINE x == curr[r] - bl.start
             y == end[r] - bl.start
             c == Index(bl, curr[r])
             e == Index(bl, end[r])
  <2>1. bl.size \in Nat \ {0} /\ bl.start \in Nat /\ moff \in Nat
    BY GoodPositions
  <2>2. /\ curr[r] \in Nat /\ end[r] \in Nat /\ bl.start <= curr[r] /\ curr[r] <= end[r]
        /\ end[r] <= moff /\ moff - curr[r] < bl.size /\ curr[r] # end[r]
    BY GoodPositions DEF Pending
  <2>3. c = x % bl.size /\ e = y % bl.size
    BY SMT, <2>1, <2>2 DEF Index
  <2>4. x \in Int /\ y \in Int /\ x <= y /\ y - x < bl.size /\ x # y
    BY SMT, <2>1, <2>2
  <2>5. Chunk(r) = IF e >= c THEN e - c ELSE bl.size - c
    BY DEF Chunk
  <2> HIDE DEF x, y, c, e
  <2>6. c \in 0 .. (bl.size - 1) /\ e \in 0 .. (bl.size - 1)
    BY <2>1, <2>3, <2>4, ModFacts
  <2>7. c # e
    BY <2>1, <2>3, <2>4, ModEqual
  <2> QED BY SMT, <2>1, <2>5, <2>6, <2>7
<1> QED BY <1>1, BacklogInvariance, PTL

\* The assertion of resizeReplicationBacklog never stops the server.
THEOREM BacklogResizes == Spec => []ResizeAssert
<1>1. BInv => ResizeAssert
  <2> SUFFICES ASSUME BInv, Regular
               PROVE  /\ lowest # -1 => CanResize(bl, lowest)
                      /\ \A r \in Listening : CanResize(bl, curr[r])
    BY DEF ResizeAssert
  <2>1. /\ moff \in Nat /\ BacklogOK(bl) /\ Window(bl, moff)
        /\ lowest # -1 => /\ lowest \in Nat /\ bl.start <= lowest /\ lowest <= moff
                          /\ moff - lowest < bl.size
    BY GoodPositions
  <2>2. ASSUME NEW r \in Listening PROVE CanResize(bl, curr[r])
    <3>1. /\ curr[r] \in Nat /\ bl.start <= curr[r] /\ curr[r] <= moff
          /\ moff - curr[r] < bl.size
      BY GoodPositions
    <3> QED BY <2>1, <3>1, CanResizeHolds
  <2> QED BY <2>1, <2>2, CanResizeHolds
<1> QED BY <1>1, BacklogInvariance, PTL
=============================================================================
