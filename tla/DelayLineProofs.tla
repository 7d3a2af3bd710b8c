---------------------------- MODULE DelayLineProofs ----------------------------
(***************************************************************************)
(* DelayLine for every fragment size, delay, number of channels and        *)
(* fragments: it implements DelayService, never leaves the memory it was   *)
(* allocated, and leaves the other channels alone.                         *)
(***************************************************************************)
EXTENDS DelayLine, TLAPS

-----------------------------------------------------------------------------
(* Division with remainder.                                                *)

LEMMA Division ==
  ASSUME NEW d \in Nat, NEW f \in Nat \ {0}
  PROVE  /\ d \div f \in Nat /\ d % f \in 0 .. f - 1
         /\ (d \div f) * f = d - (d % f)
<1>1. d \div f \in Int /\ d % f \in 0 .. f - 1 /\ d = f * (d \div f) + (d % f)
  BY SMT
<1>2. d \div f >= 0
  BY SMT
<1>3. f * (d \div f) = (d \div f) * f
  BY <1>1, SMT
<1> QED BY <1>1, <1>2, <1>3, SMT

LEMMA RestBelow ==
  ASSUME NEW d \in Nat, NEW f \in Nat \ {0}
  PROVE  d % f <= d
<1> DEFINE q == d \div f  r == d % f
<1>1. q \in Nat /\ r \in Nat /\ q * f = d - r
  BY Division
<1> HIDE DEF q, r
<1>2. q * f >= 0
  BY <1>1, SMT
<1>3. r <= d
  BY <1>1, <1>2
<1> QED BY <1>3 DEF r

LEMMA DivMonotone ==
  ASSUME NEW c \in Nat, NEW d \in Nat, NEW f \in Nat \ {0}, c <= d
  PROVE  c \div f <= d \div f
<1>1. c \div f \in Nat /\ c % f \in 0 .. f - 1 /\ (c \div f) * f = c - (c % f)
  BY Division
<1>2. d \div f \in Nat /\ d % f \in 0 .. f - 1 /\ (d \div f) * f = d - (d % f)
  BY Division
<1> DEFINE p == c \div f  q == d \div f
<1>3. SUFFICES ASSUME p > q PROVE FALSE
  BY <1>1, <1>2, SMT
<1> HIDE DEF p, q
<1>4. p \in Nat /\ q \in Nat
  BY <1>1, <1>2 DEF p, q
<1>5. p * f >= (q + 1) * f
  BY <1>3, <1>4, SMT
<1>6. (q + 1) * f = q * f + f /\ p * f \in Int /\ q * f \in Int
  BY <1>4, SMT
<1>7. p * f = c - (c % f) /\ q * f = d - (d % f)
  BY <1>1, <1>2 DEF p, q
<1> QED BY <1>1, <1>2, <1>5, <1>6, <1>7, SMT

LEMMA DivOne ==
  ASSUME NEW d \in Nat, NEW f \in Nat \ {0}, d >= f
  PROVE  d \div f >= 1
<1>1. d \div f \in Nat /\ d % f \in 0 .. f - 1 /\ (d \div f) * f = d - (d % f)
  BY Division
<1>2. d \div f # 0
  BY <1>1, SMT
<1> QED BY <1>1, <1>2, SMT

-----------------------------------------------------------------------------
(* The fields of a line after each operation.                              *)

LineFields ==
  {"maxdelay", "curdelay", "curbuf", "nFbufs", "nRest", "fbufs", "rbuf", "shortbuf"}

\* A record with the fields of delaybuffer_t.
IsLine(line) == DOMAIN line = LineFields

LEMMA ToShortFields ==
  ASSUME NEW line, IsLine(line), NEW d
  PROVE  LET to == ToShort(line, d) IN
         /\ IsLine(to)
         /\ to.maxdelay = line.maxdelay /\ to.curdelay = d /\ to.curbuf = 0
         /\ to.nFbufs = 0 /\ to.nRest = d /\ to.fbufs = line.fbufs /\ to.rbuf = line.rbuf
         /\ to.shortbuf = IF line.curdelay > FragSize \/ line.curdelay < d
                          THEN [b \in {0, 1} |-> ZeroFirst(line.shortbuf[b], d)]
                          ELSE line.shortbuf
BY DEF IsLine, LineFields, ToShort

LEMMA ToFullFields ==
  ASSUME NEW line, IsLine(line), NEW d
  PROVE  LET to == ToFull(line, d) IN
         /\ IsLine(to)
         /\ to.maxdelay = line.maxdelay /\ to.curdelay = d /\ to.curbuf = 0
         /\ to.nFbufs = d \div FragSize + 1 /\ to.nRest = d % FragSize
         /\ to.shortbuf = line.shortbuf
         /\ to.fbufs = IF line.curdelay < d
                       THEN [n \in DOMAIN line.fbufs |->
                               IF n <= d \div FragSize THEN Zeros(FragSize) ELSE line.fbufs[n]]
                       ELSE line.fbufs
         /\ to.rbuf = IF line.curdelay < d THEN ZeroFirst(line.rbuf, d % FragSize) ELSE line.rbuf
BY DEF IsLine, LineFields, ToFull

LEMMA PushFullFields ==
  ASSUME NEW line, IsLine(line), NEW buf
  PROVE  LET to == PushFull(line, buf) IN
         /\ IsLine(to)
         /\ to.maxdelay = line.maxdelay /\ to.curdelay = line.curdelay
         /\ to.nFbufs = line.nFbufs /\ to.nRest = line.nRest /\ to.shortbuf = line.shortbuf
         /\ to.curbuf = IF line.curbuf + 1 = line.nFbufs THEN 0 ELSE line.curbuf + 1
         /\ to.fbufs = [line.fbufs EXCEPT
                          ![line.curbuf] = CopyTo(line.fbufs[line.curbuf], buf, 0, FragSize)]
         /\ to.rbuf = [k \in DOMAIN line.rbuf |->
                         IF k < line.nRest THEN LastBuf(line)[FragSize - line.nRest + k]
                         ELSE line.rbuf[k]]
BY DEF IsLine, LineFields, PushFull

LEMMA PushShortFields ==
  ASSUME NEW line, IsLine(line), NEW buf
  PROVE  LET to == PushShort(line, buf) IN
         /\ IsLine(to)
         /\ to.maxdelay = line.maxdelay /\ to.curdelay = line.curdelay
         /\ to.nFbufs = line.nFbufs /\ to.nRest = line.nRest
         /\ to.fbufs = line.fbufs /\ to.rbuf = line.rbuf
         /\ to.curbuf = 1 - line.curbuf
         /\ to.shortbuf = [line.shortbuf EXCEPT
                             ![line.curbuf] = CopyTo(line.shortbuf[line.curbuf], buf,
                                                     FragSize - line.nRest, line.nRest)]
BY DEF IsLine, LineFields, PushShort

-----------------------------------------------------------------------------
(* The inductive invariant.                                                *)

Shape(line) ==
  /\ line.maxdelay \in Int /\ line.curdelay \in Nat /\ line.nFbufs \in Nat /\ line.nRest \in Nat
  /\ line.nFbufs > 0 =>
       /\ line.curdelay >= FragSize
       /\ line.nFbufs = line.curdelay \div FragSize + 1 /\ line.nRest = line.curdelay % FragSize
       /\ line.curbuf \in 0 .. line.nFbufs - 1
  /\ line.nFbufs = 0 => line.nRest = line.curdelay /\ line.curbuf \in {0, 1}

Memory(line) ==
  /\ DOMAIN line.shortbuf = {0, 1} /\ DOMAIN line.shortbuf[0] = DOMAIN line.shortbuf[1]
  /\ DOMAIN line.rbuf \subseteq Nat /\ DOMAIN line.shortbuf[0] \subseteq Cells
  /\ line.maxdelay = 0 => line.curdelay = 0
  /\ line.maxdelay > 0 /\ line.maxdelay <= FragSize =>
       line.nFbufs = 0 /\ DOMAIN line.shortbuf[0] = 0 .. line.maxdelay - 1
  /\ line.maxdelay > FragSize =>
       /\ DOMAIN line.fbufs = 0 .. line.maxdelay \div FragSize
       /\ DOMAIN line.rbuf = Cells /\ DOMAIN line.shortbuf[0] = Cells

Stored(line, t) ==
  /\ \A n \in DOMAIN line.fbufs : line.fbufs[n] \in [Cells -> 0 .. t]
  /\ line.rbuf \in [DOMAIN line.rbuf -> 0 .. t]
  /\ \A b \in {0, 1} : line.shortbuf[b] \in [DOMAIN line.shortbuf[b] -> 0 .. t]

Held(v, s, changed, grew) ==
  IF s > changed THEN v = s ELSE IF grew THEN v = 0 ELSE v \in 0 .. changed

Age(line, n) == IF n > line.curbuf THEN line.nFbufs - (n - line.curbuf) ELSE line.curbuf - n

Data(line, t, changed, grew) ==
  /\ line.nFbufs > 0 =>
       /\ \A n \in 0 .. line.nFbufs - 1 : n # line.curbuf =>
            \A x \in Cells :
              Held(line.fbufs[n][x], (t - Age(line, n) * FragSize) + x + 1, changed, grew)
       /\ \A k \in 0 .. line.nRest - 1 :
            Held(line.rbuf[k], (t - line.curdelay) + k + 1, changed, grew)
  /\ line.nFbufs = 0 =>
       \A k \in 0 .. line.nRest - 1 :
         Held(line.shortbuf[1 - line.curbuf][k], (t - line.curdelay) + k + 1, changed, grew)

\* delay_allocate_buffer was called with an initial delay above the maximum.
Oversized == db.maxdelay > 0 /\ initdelay > db.maxdelay

Typed ==
  /\ sampleSize \in SampleSizes /\ spacing \in Spacings /\ initdelay \in InitDelays
  /\ db.maxdelay \in MaxDelays /\ out \in [Cells -> [Slots -> Int]]
  /\ status \in {"ok", "hung", "overrun"}
  /\ taken \in Nat /\ since \in 0 .. taken /\ grown \in BOOLEAN /\ changes \in 0 .. MaxChanges

IInv ==
  /\ Typed /\ IsLine(db) /\ Shape(db) /\ Memory(db) /\ Stored(db, taken)
  /\ Fits(db) \/ Oversized
  /\ Fits(db) => Data(db, taken, since, grown)
  /\ status = "overrun" => Oversized
  /\ OthersUntouched

-----------------------------------------------------------------------------
(* A change of the delay.                                                  *)

\* What is stored is older than the change: only its type counts or, after
\* a longer delay was set, that it is silence.
LEMMA HeldOld ==
  ASSUME NEW t \in Nat, NEW s \in Int, s <= t, NEW grew, NEW v \in 0 .. t, grew => v = 0
  PROVE  Held(v, s, t, grew)
BY DEF Held

LEMMA AcceptedDelay ==
  ASSUME NEW line, NEW d \in Nat, Shape(line), Memory(line), Accepts(line, d)
  PROVE  line.maxdelay > 0 /\ line.maxdelay \in Nat /\ d <= line.maxdelay /\ d # line.curdelay
BY DEF Shape, Memory, Accepts

LEMMA ShortChange ==
  ASSUME NEW line, NEW d \in Nat, NEW t \in Nat, IsLine(line), Shape(line), Memory(line),
         Stored(line, t), Accepts(line, d), d <= FragSize
  PROVE  /\ Shape(ToShort(line, d)) /\ Memory(ToShort(line, d)) /\ Stored(ToShort(line, d), t)
         /\ Fits(ToShort(line, d)) /\ Data(ToShort(line, d), t, t, d > line.curdelay)
<1> DEFINE to == ToShort(line, d)
<1>0. FragSize \in Nat \ {0}
  BY DelayAssumption
<1>1. /\ to.maxdelay = line.maxdelay /\ to.curdelay = d /\ to.curbuf = 0
      /\ to.nFbufs = 0 /\ to.nRest = d /\ to.fbufs = line.fbufs /\ to.rbuf = line.rbuf
      /\ to.shortbuf = IF line.curdelay > FragSize \/ line.curdelay < d
                       THEN [b \in {0, 1} |-> ZeroFirst(line.shortbuf[b], d)]
                       ELSE line.shortbuf
  BY ToShortFields
<1>2. /\ line.maxdelay > 0 /\ line.maxdelay \in Nat /\ d <= line.maxdelay
      /\ line.curdelay \in Nat /\ d # line.curdelay
  BY AcceptedDelay DEF Shape
<1> HIDE DEF to
<1>3. Shape(to)
  BY <1>1, <1>2 DEF Shape
<1>4. /\ DOMAIN to.shortbuf = {0, 1}
      /\ \A b \in {0, 1} : DOMAIN to.shortbuf[b] = DOMAIN line.shortbuf[b]
  BY <1>1 DEF Memory, ZeroFirst
<1>5. Memory(to)
  BY <1>0, <1>1, <1>2, <1>4 DEF Memory
<1>6. \A b \in {0, 1} : to.shortbuf[b] \in [DOMAIN to.shortbuf[b] -> 0 .. t]
  BY <1>1, <1>4 DEF Memory, Stored, ZeroFirst
<1>7. Stored(to, t)
  BY <1>1, <1>6 DEF Stored
<1>8. \A b \in {0, 1} : 0 .. d - 1 \subseteq DOMAIN to.shortbuf[b]
  BY <1>0, <1>2, <1>4 DEF Memory, Cells
<1>9. Fits(to)
  BY <1>1, <1>8 DEF Fits
<1>10. ASSUME NEW k \in 0 .. d - 1
       PROVE  Held(to.shortbuf[1][k], (t - d) + k + 1, t, d > line.curdelay)
  <2>1. to.shortbuf[1][k] \in 0 .. t
    BY <1>6, <1>8, <1>10
  <2>2. ASSUME d > line.curdelay PROVE to.shortbuf[1][k] = 0
    <3>1. to.shortbuf[1] = ZeroFirst(line.shortbuf[1], d)
      BY <1>1, <1>2, <2>2
    <3>2. k \in DOMAIN line.shortbuf[1] /\ k < d
      BY <1>4, <1>8, <1>10
    <3> QED BY <3>1, <3>2 DEF ZeroFirst
  <2>3. (t - d) + k + 1 \in Int /\ (t - d) + k + 1 <= t
    OBVIOUS
  <2> QED BY <2>1, <2>2, <2>3, HeldOld
<1>11. Data(to, t, t, d > line.curdelay)
  BY <1>1, <1>10 DEF Data
<1> QED BY <1>3, <1>5, <1>7, <1>9, <1>11 DEF to

LEMMA FullChange ==
  ASSUME NEW line, NEW d \in Nat, NEW t \in Nat, IsLine(line), Shape(line), Memory(line),
         Stored(line, t), Accepts(line, d), d > FragSize
  PROVE  /\ Shape(ToFull(line, d)) /\ Memory(ToFull(line, d)) /\ Stored(ToFull(line, d), t)
         /\ Fits(ToFull(line, d)) /\ Data(ToFull(line, d), t, t, d > line.curdelay)
<1> DEFINE to == ToFull(line, d)
           q == d \div FragSize
           r == d % FragSize
<1>0. FragSize \in Nat \ {0}
  BY DelayAssumption
<1>1. /\ to.maxdelay = line.maxdelay /\ to.curdelay = d /\ to.curbuf = 0
      /\ to.nFbufs = q + 1 /\ to.nRest = r /\ to.shortbuf = line.shortbuf
      /\ to.fbufs = IF line.curdelay < d
                    THEN [n \in DOMAIN line.fbufs |->
                            IF n <= q THEN Zeros(FragSize) ELSE line.fbufs[n]]
                    ELSE line.fbufs
      /\ to.rbuf = IF line.curdelay < d THEN ZeroFirst(line.rbuf, r) ELSE line.rbuf
  BY ToFullFields
<1>2. /\ line.maxdelay > FragSize /\ line.maxdelay \in Nat /\ d <= line.maxdelay
      /\ line.curdelay \in Nat /\ d # line.curdelay
  BY <1>0, AcceptedDelay DEF Shape
<1>3. /\ q \in Nat /\ q >= 1 /\ r \in 0 .. FragSize - 1 /\ q * FragSize = d - r
      /\ q <= line.maxdelay \div FragSize /\ line.maxdelay \div FragSize \in Nat
  <2>1. q \in Nat /\ r \in 0 .. FragSize - 1 /\ q * FragSize = d - r
    BY <1>0, Division
  <2>2. q >= 1
    BY <1>0, DivOne
  <2>3. line.maxdelay \div FragSize \in Nat
    BY <1>0, <1>2, Division
  <2>4. q <= line.maxdelay \div FragSize
    BY <1>0, <1>2, DivMonotone
  <2> QED BY <2>1, <2>2, <2>3, <2>4
<1>4. /\ DOMAIN line.fbufs = 0 .. line.maxdelay \div FragSize
      /\ DOMAIN line.rbuf = Cells
  BY <1>2 DEF Memory
<1>5. Shape(to)
  BY <1>0, <1>1, <1>2, <1>3 DEF Shape
<1> HIDE DEF to, q, r
<1>6. DOMAIN to.fbufs = DOMAIN line.fbufs /\ DOMAIN to.rbuf = DOMAIN line.rbuf
  BY <1>1 DEF ZeroFirst
<1>7. Memory(to)
  BY <1>0, <1>1, <1>2, <1>6 DEF Memory
<1>8. ASSUME NEW n \in DOMAIN to.fbufs PROVE to.fbufs[n] \in [Cells -> 0 .. t]
  <2>1. Zeros(FragSize) \in [Cells -> 0 .. t]
    BY <1>0, t \in Nat DEF Zeros, Cells
  <2>2. n \in DOMAIN line.fbufs /\ line.fbufs[n] \in [Cells -> 0 .. t]
    BY <1>6, <1>8 DEF Stored
  <2>3. CASE line.curdelay < d
    <3>1. to.fbufs[n] = IF n <= q THEN Zeros(FragSize) ELSE line.fbufs[n]
      BY <1>1, <2>2, <2>3
    <3> QED BY ONLY <2>1, <2>2, <3>1
  <2>4. CASE ~(line.curdelay < d)
    BY ONLY <1>1, <2>2, <2>4
  <2> QED BY ONLY <2>3, <2>4
<1>9. to.rbuf \in [Cells -> 0 .. t]
  BY <1>1, <1>4 DEF Stored, ZeroFirst
<1>10. Stored(to, t)
  BY <1>1, <1>4, <1>6, <1>8, <1>9 DEF Stored
<1>11. 0 .. (q + 1) - 1 \subseteq DOMAIN to.fbufs /\ 0 .. r - 1 \subseteq DOMAIN to.rbuf
  BY <1>0, <1>3, <1>4, <1>6 DEF Cells
<1>12. Fits(to)
  BY <1>1, <1>3, <1>11 DEF Fits
<1>13. ASSUME NEW n \in 0 .. (q + 1) - 1, n # 0, NEW x \in Cells
       PROVE  Held(to.fbufs[n][x], (t - Age(to, n) * FragSize) + x + 1, t, d > line.curdelay)
  <2>1. Age(to, n) \in Nat \ {0}
    BY <1>1, <1>3, <1>13 DEF Age
  <2>2. Age(to, n) * FragSize \in Nat /\ Age(to, n) * FragSize >= FragSize
    BY <1>0, <2>1, SMT
  <2>3. /\ (t - Age(to, n) * FragSize) + x + 1 \in Int
        /\ (t - Age(to, n) * FragSize) + x + 1 <= t
    BY <1>0, <2>2 DEF Cells
  <2>4. n \in DOMAIN to.fbufs
    BY <1>11
  <2>5. to.fbufs[n][x] \in 0 .. t
    BY <1>8, <2>4
  <2>6. ASSUME d > line.curdelay PROVE to.fbufs[n][x] = 0
    <3>1. to.fbufs[n] = Zeros(FragSize)
      BY <1>1, <1>2, <1>3, <1>6, <2>4, <2>6
    <3> QED BY <3>1 DEF Zeros, Cells
  <2> QED BY <2>3, <2>5, <2>6, HeldOld
<1>14. ASSUME NEW k \in 0 .. r - 1
       PROVE  Held(to.rbuf[k], (t - d) + k + 1, t, d > line.curdelay)
  <2>1. k \in Cells /\ k < r /\ r <= d
    BY <1>0, <1>2, <1>3 DEF Cells
  <2>2. to.rbuf[k] \in 0 .. t
    BY <1>9, <2>1
  <2>3. ASSUME d > line.curdelay PROVE to.rbuf[k] = 0
    BY <1>1, <1>2, <1>4, <2>1, <2>3 DEF ZeroFirst
  <2>4. (t - d) + k + 1 \in Int /\ (t - d) + k + 1 <= t
    BY <1>3, <2>1
  <2> QED BY <2>2, <2>3, <2>4, HeldOld
<1>15. Data(to, t, t, d > line.curdelay)
  <2>1. to.nFbufs # 0
    BY <1>1, <1>3
  <2>2. \A n \in 0 .. to.nFbufs - 1 : n # to.curbuf =>
          \A x \in Cells :
            Held(to.fbufs[n][x], (t - Age(to, n) * FragSize) + x + 1, t, d > line.curdelay)
    BY <1>1, <1>13
  <2>3. \A k \in 0 .. to.nRest - 1 :
          Held(to.rbuf[k], (t - to.curdelay) + k + 1, t, d > line.curdelay)
    BY <1>1, <1>14
  <2> QED BY <2>1, <2>2, <2>3, Zenon DEF Data
<1> QED BY <1>5, <1>7, <1>10, <1>12, <1>15 DEF to

-----------------------------------------------------------------------------
(* A fragment goes through a line of several buffers.                      *)

LEMMA CopyFromCells ==
  ASSUME NEW buf \in [Cells -> [Slots -> Int]], spacing \in Nat \ {0},
         NEW first \in Nat, NEW n \in Nat, NEW dbuf, \A j \in 0 .. n - 1 : dbuf[j] \in Int
  PROVE  /\ CopyFrom(buf, first, dbuf, n) \in [Cells -> [Slots -> Int]]
         /\ \A k \in Cells :
              /\ CopyFrom(buf, first, dbuf, n)[k][0]
                   = IF first <= k /\ k < first + n THEN dbuf[k - first] ELSE buf[k][0]
              /\ \A c \in Slots \ {0} : CopyFrom(buf, first, dbuf, n)[k][c] = buf[k][c]
<1> DEFINE to == CopyFrom(buf, first, dbuf, n)
<1>1. DOMAIN buf = Cells /\ 0 \in Slots
  BY DEF Slots
<1>2. DOMAIN to = Cells /\ to = [k \in Cells |->
        IF first <= k /\ k < first + n THEN [buf[k] EXCEPT ![0] = dbuf[k - first]] ELSE buf[k]]
  BY <1>1 DEF CopyFrom
<1> HIDE DEF to
<1>3. ASSUME NEW k \in Cells
      PROVE  /\ to[k] \in [Slots -> Int]
             /\ to[k][0] = IF first <= k /\ k < first + n THEN dbuf[k - first] ELSE buf[k][0]
             /\ \A c \in Slots \ {0} : to[k][c] = buf[k][c]
  <2>1. buf[k] \in [Slots -> Int] /\ k \in Int
    BY DEF Cells
  <2>2. CASE first <= k /\ k < first + n
    <3>1. to[k] = [buf[k] EXCEPT ![0] = dbuf[k - first]]
      BY <1>2, <2>2
    <3>2. dbuf[k - first] \in Int
      BY <2>1, <2>2
    <3> QED BY <1>1, <2>1, <2>2, <3>1, <3>2
  <2>3. CASE ~(first <= k /\ k < first + n)
    BY <1>2, <2>1, <2>3
  <2> QED BY <2>2, <2>3
<1>4. to \in [Cells -> [Slots -> Int]]
  BY <1>2, <1>3
<1> QED BY <1>3, <1>4 DEF to

\* The buffer that holds the oldest whole fragment.
LEMMA LastBufAge ==
  ASSUME NEW line, Shape(line), line.nFbufs > 0
  PROVE  \E n \in 0 .. line.nFbufs - 1 :
           n # line.curbuf /\ LastBuf(line) = line.fbufs[n] /\ Age(line, n) = line.nFbufs - 1
<1>0. FragSize \in Nat \ {0}
  BY DelayAssumption
<1>1. line.curdelay \div FragSize >= 1 /\ line.nFbufs \in Nat /\ line.curbuf \in 0 .. line.nFbufs - 1
  BY <1>0, DivOne DEF Shape
<1>2. line.nFbufs >= 2
  BY <1>0, <1>1 DEF Shape
<1>3. CASE line.curbuf = line.nFbufs - 1
  <2>1. LastBuf(line) = line.fbufs[0] /\ 0 \in 0 .. line.nFbufs - 1 /\ 0 # line.curbuf
    BY <1>1, <1>2, <1>3 DEF LastBuf
  <2>2. Age(line, 0) = line.nFbufs - 1
    BY <1>1, <1>2, <1>3 DEF Age
  <2> QED BY <2>1, <2>2
<1>4. CASE line.curbuf # line.nFbufs - 1
  <2>1. /\ LastBuf(line) = line.fbufs[line.curbuf + 1] /\ line.curbuf + 1 \in 0 .. line.nFbufs - 1
        /\ line.curbuf + 1 # line.curbuf
    BY <1>1, <1>2, <1>4 DEF LastBuf
  <2>2. Age(line, line.curbuf + 1) = line.nFbufs - 1
    BY <1>1, <1>2, <1>4 DEF Age
  <2> QED BY <2>1, <2>2
<1> QED BY <1>3, <1>4

LEMMA LastBufHolds ==
  ASSUME NEW line, NEW t \in Nat, NEW changed \in 0 .. t, NEW grew,
         Shape(line), Stored(line, t), Fits(line), Data(line, t, changed, grew), line.nFbufs > 0
  PROVE  \A x \in Cells :
           /\ LastBuf(line)[x] \in 0 .. t
           /\ Held(LastBuf(line)[x],
                   (t - line.curdelay) + line.nRest + x + 1, changed, grew)
<1>0. FragSize \in Nat \ {0}
  BY DelayAssumption
<1>1. /\ line.nFbufs \in Nat /\ line.curdelay \in Nat /\ line.nRest \in Nat
      /\ line.nFbufs - 1 = line.curdelay \div FragSize /\ line.nRest = line.curdelay % FragSize
  <2>1. line.curdelay \in Nat
    BY DEF Shape
  <2>2. line.curdelay \div FragSize \in Nat
    BY <1>0, <2>1, Division
  <2> QED BY <2>1, <2>2 DEF Shape
<1>2. (line.nFbufs - 1) * FragSize = line.curdelay - line.nRest
  BY <1>0, <1>1, Division
<1>3. PICK n \in 0 .. line.nFbufs - 1 :
        n # line.curbuf /\ LastBuf(line) = line.fbufs[n] /\ Age(line, n) = line.nFbufs - 1
  BY LastBufAge
<1>4. n \in DOMAIN line.fbufs
  BY <1>3 DEF Fits
<1>5. ASSUME NEW x \in Cells
      PROVE  Held(line.fbufs[n][x], (t - Age(line, n) * FragSize) + x + 1, changed, grew)
  BY <1>3, Zenon DEF Data
<1>6. ASSUME NEW x \in Cells
      PROVE  (t - Age(line, n) * FragSize) + x + 1 = (t - line.curdelay) + line.nRest + x + 1
  <2>1. x \in Int
    BY DEF Cells
  <2> QED BY <1>1, <1>2, <1>3, <2>1
<1>7. ASSUME NEW x \in Cells PROVE LastBuf(line)[x] \in 0 .. t
  BY <1>3, <1>4 DEF Stored
<1> QED BY <1>3, <1>5, <1>6, <1>7

LEMMA FullPull ==
  ASSUME NEW line, NEW t \in Nat, NEW changed \in 0 .. t, NEW grew,
         Shape(line), Stored(line, t), Fits(line), Data(line, t, changed, grew), line.nFbufs > 0,
         spacing \in Nat \ {0}, NEW buf \in [Cells -> [Slots -> Int]]
  PROVE  /\ PullFull(line, buf) \in [Cells -> [Slots -> Int]]
         /\ \A k \in Cells :
              /\ Held(PullFull(line, buf)[k][0], (t - line.curdelay) + k + 1, changed, grew)
              /\ \A c \in Slots \ {0} : PullFull(line, buf)[k][c] = buf[k][c]
<1> DEFINE r == line.nRest
           some == CopyFrom(buf, 0, line.rbuf, r)
           all == PullFull(line, buf)
<1>0. FragSize \in Nat \ {0} /\ line.curdelay \in Nat
  BY DelayAssumption DEF Shape
<1>1. r \in Nat /\ r < FragSize
  <2>1. r = line.curdelay % FragSize
    BY DEF Shape
  <2>2. line.curdelay % FragSize \in 0 .. FragSize - 1
    BY <1>0, Division
  <2> QED BY <1>0, <2>1, <2>2
<1>2. \A x \in Cells :
        /\ LastBuf(line)[x] \in Int
        /\ Held(LastBuf(line)[x], (t - line.curdelay) + r + x + 1, changed, grew)
  BY LastBufHolds
<1>3. \A k \in 0 .. r - 1 :
        line.rbuf[k] \in Int /\ Held(line.rbuf[k], (t - line.curdelay) + k + 1, changed, grew)
  <2>1. ASSUME NEW k \in 0 .. r - 1 PROVE line.rbuf[k] \in Int
    BY DEF Fits, Stored
  <2>2. ASSUME NEW k \in 0 .. r - 1
        PROVE  Held(line.rbuf[k], (t - line.curdelay) + k + 1, changed, grew)
    BY Zenon DEF Data
  <2> QED BY <2>1, <2>2
<1>4. all = CopyFrom(some, r, LastBuf(line), FragSize - r)
  BY DEF PullFull
<1>5. /\ some \in [Cells -> [Slots -> Int]]
      /\ \A k \in Cells :
           /\ some[k][0] = IF 0 <= k /\ k < 0 + r THEN line.rbuf[k - 0] ELSE buf[k][0]
           /\ \A c \in Slots \ {0} : some[k][c] = buf[k][c]
  BY <1>1, <1>3, CopyFromCells
<1>6. \A j \in 0 .. (FragSize - r) - 1 : LastBuf(line)[j] \in Int
  BY <1>0, <1>1, <1>2 DEF Cells
<1> HIDE DEF some, all, r
<1>7. /\ all \in [Cells -> [Slots -> Int]]
      /\ \A k \in Cells :
           /\ all[k][0] = IF r <= k /\ k < r + (FragSize - r) THEN LastBuf(line)[k - r] ELSE some[k][0]
           /\ \A c \in Slots \ {0} : all[k][c] = some[k][c]
  <2>1. FragSize - r \in Nat
    BY <1>0, <1>1
  <2> QED BY <1>1, <1>4, <1>5, <1>6, <2>1, CopyFromCells
<1>8. ASSUME NEW k \in Cells
      PROVE  Held(all[k][0], (t - line.curdelay) + k + 1, changed, grew)
  <2>1. k \in Nat /\ k < FragSize
    BY <1>0 DEF Cells
  <2>2. CASE k < r
    <3>1. all[k][0] = line.rbuf[k] /\ k \in 0 .. r - 1
      BY <1>1, <1>5, <1>7, <2>1, <2>2
    <3> QED BY <1>3, <3>1
  <2>3. CASE ~(k < r)
    <3>1. all[k][0] = LastBuf(line)[k - r] /\ k - r \in Cells
      BY <1>0, <1>1, <1>7, <2>1, <2>3 DEF Cells
    <3>2. (t - line.curdelay) + r + (k - r) + 1 = (t - line.curdelay) + k + 1
      BY <1>0, <1>1, <2>1
    <3>3. Held(LastBuf(line)[k - r], (t - line.curdelay) + r + (k - r) + 1, changed, grew)
      BY <1>2, <3>1
    <3> QED BY <3>1, <3>2, <3>3
  <2> QED BY <2>2, <2>3
<1>9. ASSUME NEW k \in Cells, NEW c \in Slots \ {0} PROVE all[k][c] = buf[k][c]
  BY <1>5, <1>7
<1> QED BY <1>7, <1>8, <1>9 DEF all

LEMMA FullPush ==
  ASSUME NEW line, NEW t \in Nat, NEW changed \in 0 .. t, NEW grew,
         IsLine(line), Shape(line), Memory(line), Stored(line, t), Fits(line),
         Data(line, t, changed, grew), line.nFbufs > 0,
         NEW buf, \A k \in Cells : buf[k][0] = t + k + 1
  PROVE  /\ Shape(PushFull(line, buf)) /\ Memory(PushFull(line, buf))
         /\ Stored(PushFull(line, buf), t + FragSize) /\ Fits(PushFull(line, buf))
         /\ Data(PushFull(line, buf), t + FragSize, changed, grew)
<1> DEFINE to == PushFull(line, buf)
           cur == line.curbuf
           N == line.nFbufs
           r == line.nRest
           new == CopyTo(line.fbufs[cur], buf, 0, FragSize)
<1>0. /\ FragSize \in Nat \ {0} /\ line.curdelay \in Nat /\ N \in Nat /\ r \in Nat
      /\ cur \in 0 .. N - 1
  BY DelayAssumption DEF Shape
<1>1. /\ to.maxdelay = line.maxdelay /\ to.curdelay = line.curdelay
      /\ to.nFbufs = N /\ to.nRest = r /\ to.shortbuf = line.shortbuf
      /\ to.curbuf = IF cur + 1 = N THEN 0 ELSE cur + 1
      /\ to.fbufs = [line.fbufs EXCEPT ![cur] = new]
      /\ to.rbuf = [k \in DOMAIN line.rbuf |->
                      IF k < r THEN LastBuf(line)[(FragSize - r) + k] ELSE line.rbuf[k]]
  BY PushFullFields
<1>2. N >= 2 /\ r < FragSize
  <2>1. line.curdelay \div FragSize >= 1 /\ line.curdelay \div FragSize \in Nat
    BY <1>0, DivOne, Division DEF Shape
  <2>2. line.curdelay % FragSize \in 0 .. FragSize - 1
    BY <1>0, Division
  <2> QED BY <1>0, <2>1, <2>2 DEF Shape
<1>3. Shape(to)
  BY <1>0, <1>1 DEF Shape
<1> HIDE DEF to
<1>4. DOMAIN to.fbufs = DOMAIN line.fbufs /\ DOMAIN to.rbuf = DOMAIN line.rbuf
  BY <1>1
<1>5. Memory(to)
  BY <1>1, <1>4 DEF Memory
<1>6. cur \in DOMAIN line.fbufs
  BY <1>0 DEF Fits
<1>7. new \in [Cells -> 0 .. t + FragSize] /\ \A x \in Cells : new[x] = t + x + 1
  <2>1. DOMAIN line.fbufs[cur] = Cells
    BY <1>6 DEF Stored
  <2>2. ASSUME NEW x \in Cells PROVE new[x] = t + x + 1 /\ new[x] \in 0 .. t + FragSize
    <3>1. x \in Nat /\ x < FragSize /\ 0 + x = x
      BY <1>0 DEF Cells
    <3>2. new[x] = buf[0 + x][0]
      BY <2>1, <3>1 DEF CopyTo
    <3> QED BY <1>0, <3>1, <3>2
  <2>3. DOMAIN new = Cells /\ new = [x \in Cells |-> new[x]]
    BY <2>1 DEF CopyTo
  <2> QED BY <2>2, <2>3
<1>8. \A x \in Cells :
        /\ LastBuf(line)[x] \in 0 .. t
        /\ Held(LastBuf(line)[x], (t - line.curdelay) + r + x + 1, changed, grew)
  BY LastBufHolds
<1> HIDE DEF new, cur, N, r
<1>9. \A n \in DOMAIN to.fbufs : to.fbufs[n] = IF n = cur THEN new ELSE line.fbufs[n]
  BY <1>1, <1>4
<1>10. \A k \in DOMAIN to.rbuf :
         to.rbuf[k] = IF k < r THEN LastBuf(line)[(FragSize - r) + k] ELSE line.rbuf[k]
  BY <1>1, <1>4
<1>11. \A k \in 0 .. r - 1 : (FragSize - r) + k \in Cells
  BY <1>0, <1>2 DEF Cells
<1>12. 0 .. N - 1 \subseteq DOMAIN to.fbufs /\ 0 .. r - 1 \subseteq DOMAIN to.rbuf
  BY <1>4 DEF Fits, N, r
<1>13. Fits(to)
  BY <1>1, <1>12, <1>2, <1>0 DEF Fits
<1>14. ASSUME NEW n \in DOMAIN to.fbufs PROVE to.fbufs[n] \in [Cells -> 0 .. t + FragSize]
  <2>1. line.fbufs[n] \in [Cells -> 0 .. t]
    BY <1>4 DEF Stored
  <2>2. line.fbufs[n] \in [Cells -> 0 .. t + FragSize]
    BY <1>0, <2>1
  <2> QED BY <1>7, <1>9, <2>2
<1>15. Stored(to, t + FragSize)
  <2>1. to.rbuf \in [DOMAIN to.rbuf -> 0 .. t + FragSize]
    <3>1. ASSUME NEW k \in DOMAIN to.rbuf PROVE to.rbuf[k] \in 0 .. t + FragSize
      <4>1. line.rbuf[k] \in 0 .. t /\ k \in Nat
        BY <1>4 DEF Stored, Memory
      <4>2. CASE k < r
        <5>1. to.rbuf[k] = LastBuf(line)[(FragSize - r) + k] /\ (FragSize - r) + k \in Cells
          BY <1>0, <1>10, <1>11, <4>1, <4>2
        <5> QED BY <1>0, <1>8, <5>1
      <4>3. CASE ~(k < r)
        BY <1>0, <1>10, <4>1, <4>3
      <4> QED BY <4>2, <4>3
    <3>2. to.rbuf = [k \in DOMAIN to.rbuf |-> to.rbuf[k]]
      BY <1>1
    <3> QED BY <3>1, <3>2
  <2>2. ASSUME NEW b \in {0, 1}
        PROVE  to.shortbuf[b] \in [DOMAIN to.shortbuf[b] -> 0 .. t + FragSize]
    BY <1>0, <1>1 DEF Stored
  <2> QED BY <1>14, <2>1, <2>2 DEF Stored
<1>16. ASSUME NEW n \in 0 .. to.nFbufs - 1, n # to.curbuf, NEW x \in Cells
       PROVE  Held(to.fbufs[n][x], ((t + FragSize) - Age(to, n) * FragSize) + x + 1, changed, grew)
  <2>0. x \in Nat /\ x < FragSize /\ n \in 0 .. N - 1 /\ n \in DOMAIN to.fbufs
    BY <1>0, <1>1, <1>12 DEF Cells
  <2>1. CASE n = cur
    <3>1. to.fbufs[n][x] = t + x + 1
      BY <1>7, <1>9, <2>0, <2>1
    <3>2. Age(to, n) = 1
      BY <1>0, <1>1, <1>2, <1>16, <2>0, <2>1 DEF Age
    <3>3. ((t + FragSize) - Age(to, n) * FragSize) + x + 1 = t + x + 1 /\ t + x + 1 > changed
      BY <1>0, <2>0, <3>2
    <3> QED BY <3>1, <3>3 DEF Held
  <2>2. CASE n # cur
    <3>1. to.fbufs[n][x] = line.fbufs[n][x]
      BY <1>9, <2>0, <2>2
    <3>2. Held(line.fbufs[n][x], (t - Age(line, n) * FragSize) + x + 1, changed, grew)
      BY <2>0, <2>2, Zenon DEF Data, N, cur
    <3>3. Age(to, n) = Age(line, n) + 1 /\ Age(line, n) \in Int
      BY <1>0, <1>1, <1>2, <1>16, <2>0, <2>2 DEF Age, N, cur
    <3> DEFINE a == Age(line, n)
    <3> HIDE DEF a
    <3>4. (a + 1) * FragSize = a * FragSize + FragSize /\ a * FragSize \in Int
      BY <1>0, <3>3, SMT DEF a
    <3>5. ((t + FragSize) - (a + 1) * FragSize) + x + 1 = (t - a * FragSize) + x + 1
      BY <1>0, <2>0, <3>4
    <3> QED BY <3>1, <3>2, <3>3, <3>5 DEF a
  <2> QED BY <2>1, <2>2
<1>17. ASSUME NEW k \in 0 .. r - 1
       PROVE  Held(to.rbuf[k], ((t + FragSize) - line.curdelay) + k + 1, changed, grew)
  <2>1. to.rbuf[k] = LastBuf(line)[(FragSize - r) + k]
    BY <1>0, <1>10, <1>12
  <2>2. Held(LastBuf(line)[(FragSize - r) + k],
             (t - line.curdelay) + r + ((FragSize - r) + k) + 1, changed, grew)
    BY <1>8, <1>11
  <2>3. (t - line.curdelay) + r + ((FragSize - r) + k) + 1 = ((t + FragSize) - line.curdelay) + k + 1
    BY <1>0
  <2> QED BY <2>1, <2>2, <2>3
<1>18. Data(to, t + FragSize, changed, grew)
  <2>1. to.nFbufs # 0
    BY <1>1, <1>2
  <2>2. \A n \in 0 .. to.nFbufs - 1 : n # to.curbuf =>
          \A x \in Cells :
            Held(to.fbufs[n][x], ((t + FragSize) - Age(to, n) * FragSize) + x + 1, changed, grew)
    BY <1>16
  <2>3. \A k \in 0 .. to.nRest - 1 :
          Held(to.rbuf[k], ((t + FragSize) - to.curdelay) + k + 1, changed, grew)
    BY <1>1, <1>17
  <2> QED BY <2>1, <2>2, <2>3, Zenon DEF Data
<1> QED BY <1>3, <1>5, <1>13, <1>15, <1>18 DEF to

-----------------------------------------------------------------------------
(* A fragment goes through a line within a fragment.                       *)

\* The channel's own samples are moved, unless the loop counts wrong.
LEMMA MovedChannel ==
  ASSUME spacing \in Nat \ {0}, sampleSize # 3 \/ spacing <= 2, NEW n \in Nat, ~ShiftHangs(n),
         NEW k \in Nat
  PROVE  Moved(k, 0, n) <=> k < n
<1>1. CASE sampleSize # 3
  BY <1>1 DEF Moved
<1>2. CASE sampleSize = 3 /\ spacing = 1
  <2>1. n = 0
    BY <1>2 DEF ShiftHangs
  <2>2. (n - 1) * spacing = -1 /\ k * spacing + 0 = k
    BY <1>2, <2>1
  <2>3. ~(k * spacing + 0 <= (n - 1) * spacing)
    BY <2>2
  <2> QED BY <1>2, <2>1, <2>3 DEF Moved
<1>3. CASE sampleSize = 3 /\ spacing = 2
  <2>1. (n - 1) * spacing = 2 * n - 2 /\ k * spacing + 0 = 2 * k
    BY <1>3
  <2>2. \A a \in Int : a % (spacing - 1) = 0
    BY <1>3
  <2>3. ((n - 1) * spacing - (k * spacing + 0)) % (spacing - 1) = 0
    BY <2>1, <2>2
  <2>4. k * spacing + 0 <= (n - 1) * spacing <=> k < n
    BY <2>1
  <2> QED BY <1>3, <2>3, <2>4 DEF Moved
<1> QED BY <1>1, <1>2, <1>3

LEMMA ShiftCells ==
  ASSUME NEW buf \in [Cells -> [Slots -> Int]], NEW n \in Nat, NEW r \in Nat
  PROVE  /\ ShiftSamples(buf, n, r) \in [Cells -> [Slots -> Int]]
         /\ \A k \in Cells, c \in Slots :
              ShiftSamples(buf, n, r)[k][c]
                = IF k >= r /\ Moved(k - r, c, n) THEN buf[k - r][c] ELSE buf[k][c]
<1> DEFINE to == ShiftSamples(buf, n, r)
<1>1. /\ DOMAIN to = Cells
      /\ to = [k \in Cells |-> [c \in Slots |->
                IF k >= r /\ Moved(k - r, c, n) THEN buf[k - r][c] ELSE buf[k][c]]]
  BY DEF ShiftSamples
<1>2. ASSUME NEW k \in Cells, NEW c \in Slots
      PROVE  /\ to[k][c] = IF k >= r /\ Moved(k - r, c, n) THEN buf[k - r][c] ELSE buf[k][c]
             /\ to[k][c] \in Int
  <2>1. to[k][c] = IF k >= r /\ Moved(k - r, c, n) THEN buf[k - r][c] ELSE buf[k][c]
    BY <1>1
  <2>2. k >= r => k - r \in Cells
    BY DelayAssumption DEF Cells
  <2> QED BY <2>1, <2>2
<1>3. \A k \in Cells : to[k] = [c \in Slots |-> to[k][c]]
  BY <1>1
<1>4. to \in [Cells -> [Slots -> Int]]
  BY <1>1, <1>2, <1>3
<1> QED BY <1>2, <1>4

LEMMA ShortPull ==
  ASSUME NEW line, NEW t \in Nat, NEW changed \in 0 .. t, NEW grew,
         Shape(line), Stored(line, t), Fits(line), Data(line, t, changed, grew),
         line.nFbufs = 0, line.nRest <= FragSize, ~ShiftHangs(FragSize - line.nRest),
         spacing \in Nat \ {0}, NEW buf \in [Cells -> [Slots -> Int]],
         \A k \in Cells : buf[k][0] = t + k + 1
  PROVE  /\ PullShort(line, buf) \in [Cells -> [Slots -> Int]]
         /\ sampleSize # 3 \/ spacing <= 2 =>
              \A k \in Cells :
                Held(PullShort(line, buf)[k][0], (t - line.curdelay) + k + 1, changed, grew)
         /\ sampleSize # 3 =>
              \A k \in Cells : \A c \in Slots \ {0} : PullShort(line, buf)[k][c] = buf[k][c]
<1> DEFINE r == line.nRest
           old == line.shortbuf[1 - line.curbuf]
           some == ShiftSamples(buf, FragSize - r, r)
           all == PullShort(line, buf)
<1>0. /\ FragSize \in Nat \ {0} /\ line.curdelay = r /\ r \in Nat /\ FragSize - r \in Nat
      /\ 1 - line.curbuf \in {0, 1} /\ r <= FragSize
  BY DelayAssumption DEF Shape
<1>1. \A k \in 0 .. r - 1 : old[k] \in Int /\ Held(old[k], (t - line.curdelay) + k + 1, changed, grew)
  <2>1. ASSUME NEW k \in 0 .. r - 1 PROVE old[k] \in Int
    BY <1>0 DEF Fits, Stored
  <2>2. ASSUME NEW k \in 0 .. r - 1 PROVE Held(old[k], (t - line.curdelay) + k + 1, changed, grew)
    BY Zenon DEF Data
  <2> QED BY <2>1, <2>2
<1>2. all = CopyFrom(some, 0, old, r)
  BY DEF PullShort
<1>3. /\ some \in [Cells -> [Slots -> Int]]
      /\ \A k \in Cells, c \in Slots :
           some[k][c] = IF k >= r /\ Moved(k - r, c, FragSize - r) THEN buf[k - r][c] ELSE buf[k][c]
  BY <1>0, ShiftCells
<1> HIDE DEF some, all, old, r
<1>4. /\ all \in [Cells -> [Slots -> Int]]
      /\ \A k \in Cells :
           /\ all[k][0] = IF 0 <= k /\ k < 0 + r THEN old[k - 0] ELSE some[k][0]
           /\ \A c \in Slots \ {0} : all[k][c] = some[k][c]
  BY <1>0, <1>1, <1>2, <1>3, CopyFromCells
<1>5. 0 \in Slots
  BY DEF Slots
<1>6. ASSUME sampleSize # 3 \/ spacing <= 2, NEW k \in Cells
      PROVE  Held(all[k][0], (t - line.curdelay) + k + 1, changed, grew)
  <2>1. k \in Nat /\ k < FragSize
    BY <1>0 DEF Cells
  <2>2. CASE k < r
    <3>1. all[k][0] = old[k] /\ k \in 0 .. r - 1
      BY <1>0, <1>4, <2>1, <2>2
    <3> QED BY <1>1, <3>1
  <2>3. CASE ~(k < r)
    <3>1. k - r \in Nat /\ k - r < FragSize - r /\ k - r \in Cells
      BY <1>0, <2>1, <2>3 DEF Cells
    <3>2. Moved(k - r, 0, FragSize - r)
      BY <1>0, <1>6, <3>1, MovedChannel DEF r
    <3>3. all[k][0] = t + (k - r) + 1
      BY <1>0, <1>3, <1>4, <1>5, <2>1, <2>3, <3>1, <3>2
    <3>4. t + (k - r) + 1 = (t - line.curdelay) + k + 1 /\ (t - line.curdelay) + k + 1 > changed
      BY <1>0, <2>1, <3>1
    <3> QED BY <3>3, <3>4 DEF Held
  <2> QED BY <2>2, <2>3
<1>7. ASSUME sampleSize # 3, NEW k \in Cells, NEW c \in Slots \ {0}
      PROVE  all[k][c] = buf[k][c]
  <2>1. ~Moved(k - r, c, FragSize - r)
    BY <1>7 DEF Moved
  <2> QED BY <1>3, <1>4, <2>1
<1> QED BY <1>4, <1>6, <1>7 DEF all

LEMMA ShortPush ==
  ASSUME NEW line, NEW t \in Nat, NEW changed \in 0 .. t, NEW grew,
         IsLine(line), Shape(line), Memory(line), Stored(line, t), Fits(line),
         line.nFbufs = 0, line.nRest <= FragSize,
         NEW buf, \A k \in Cells : buf[k][0] = t + k + 1
  PROVE  /\ Shape(PushShort(line, buf)) /\ Memory(PushShort(line, buf))
         /\ Stored(PushShort(line, buf), t + FragSize) /\ Fits(PushShort(line, buf))
         /\ Data(PushShort(line, buf), t + FragSize, changed, grew)
<1> DEFINE to == PushShort(line, buf)
           cur == line.curbuf
           r == line.nRest
           new == CopyTo(line.shortbuf[cur], buf, FragSize - r, r)
<1>0. /\ FragSize \in Nat \ {0} /\ r \in Nat /\ r <= FragSize /\ line.curdelay = r
      /\ cur \in {0, 1}
  BY DelayAssumption DEF Shape
<1>1. /\ to.maxdelay = line.maxdelay /\ to.curdelay = line.curdelay
      /\ to.nFbufs = 0 /\ to.nRest = r
      /\ to.fbufs = line.fbufs /\ to.rbuf = line.rbuf
      /\ to.curbuf = 1 - cur
      /\ to.shortbuf = [line.shortbuf EXCEPT ![cur] = new]
  BY PushShortFields
<1>2. Shape(to)
  BY <1>0, <1>1 DEF Shape
<1> HIDE DEF to
<1>3. /\ DOMAIN line.shortbuf = {0, 1} /\ DOMAIN line.shortbuf[0] = DOMAIN line.shortbuf[1]
      /\ \A b \in {0, 1} : line.shortbuf[b] \in [DOMAIN line.shortbuf[b] -> 0 .. t]
  BY DEF Memory, Stored
<1>4. /\ DOMAIN new = DOMAIN line.shortbuf[cur]
      /\ new = [k \in DOMAIN new |-> new[k]]
      /\ \A k \in DOMAIN new :
           new[k] = IF k < r THEN buf[(FragSize - r) + k][0] ELSE line.shortbuf[cur][k]
  BY DEF CopyTo
<1> HIDE DEF new, cur, r
<1>5. /\ DOMAIN to.shortbuf = {0, 1}
      /\ \A b \in {0, 1} : to.shortbuf[b] = IF b = cur THEN new ELSE line.shortbuf[b]
      /\ \A b \in {0, 1} : DOMAIN to.shortbuf[b] = DOMAIN line.shortbuf[b]
  BY <1>0, <1>1, <1>3, <1>4
<1>6. Memory(to)
  BY <1>0, <1>1, <1>5 DEF Memory
<1>7. DOMAIN line.shortbuf[0] \subseteq Cells
  BY DEF Memory
<1>8. \A k \in 0 .. r - 1 :
        (FragSize - r) + k \in Cells /\ buf[(FragSize - r) + k][0] = ((t + FragSize) - r) + k + 1
  <2>1. ASSUME NEW k \in 0 .. r - 1 PROVE (FragSize - r) + k \in Cells
    BY <1>0 DEF Cells
  <2> QED BY <1>0, <2>1
<1>9. ASSUME NEW b \in {0, 1}
      PROVE  to.shortbuf[b] \in [DOMAIN to.shortbuf[b] -> 0 .. t + FragSize]
  <2>1. CASE b = cur
    <3>1. ASSUME NEW k \in DOMAIN new PROVE new[k] \in 0 .. t + FragSize
      <4>1. k \in Nat /\ line.shortbuf[cur][k] \in 0 .. t
        <5>1. k \in DOMAIN line.shortbuf[cur] /\ cur \in {0, 1}
          BY <1>0, <1>4, <3>1
        <5>2. DOMAIN line.shortbuf[cur] = DOMAIN line.shortbuf[0]
          BY <1>3, <5>1
        <5>3. k \in Nat
          BY <1>0, <1>7, <5>1, <5>2 DEF Cells
        <5> QED BY <1>3, <5>1, <5>3
      <4>2. CASE k < r
        <5>1. k \in 0 .. r - 1
          BY <1>0, <4>1, <4>2
        <5>2. ((t + FragSize) - r) + k + 1 \in 0 .. t + FragSize
          BY <1>0, <5>1
        <5> QED BY <1>4, <1>8, <4>2, <5>1, <5>2
      <4>3. CASE ~(k < r)
        BY <1>0, <1>4, <4>1, <4>3
      <4> QED BY <4>2, <4>3
    <3> QED BY <1>4, <1>5, <2>1, <3>1
  <2>2. CASE b # cur
    BY <1>0, <1>3, <1>5, <2>2
  <2> QED BY <2>1, <2>2
<1>10. Stored(to, t + FragSize)
  <2>1. to.rbuf \in [DOMAIN to.rbuf -> 0 .. t + FragSize]
    BY <1>0, <1>1 DEF Stored
  <2>2. \A n \in DOMAIN to.fbufs : to.fbufs[n] \in [Cells -> 0 .. t + FragSize]
    BY <1>0, <1>1 DEF Stored
  <2> QED BY <1>9, <2>1, <2>2 DEF Stored
<1>11. \A b \in {0, 1} : 0 .. r - 1 \subseteq DOMAIN to.shortbuf[b]
  BY <1>5 DEF Fits, r
<1>12. Fits(to)
  BY <1>1, <1>11 DEF Fits
<1>13. ASSUME NEW k \in 0 .. r - 1
       PROVE  Held(to.shortbuf[cur][k], ((t + FragSize) - r) + k + 1, changed, grew)
  <2>1. k \in DOMAIN new /\ k < r
    BY <1>0, <1>4, <1>5, <1>11
  <2>2. to.shortbuf[cur][k] = ((t + FragSize) - r) + k + 1
    BY <1>0, <1>4, <1>5, <1>8, <2>1
  <2>3. ((t + FragSize) - r) + k + 1 > changed
    BY <1>0
  <2> QED BY <2>2, <2>3 DEF Held
<1>14. Data(to, t + FragSize, changed, grew)
  <2>1. to.nFbufs = 0 /\ 1 - to.curbuf = cur /\ to.nRest = r /\ to.curdelay = r
    BY <1>0, <1>1
  <2> QED BY <1>13, <2>1 DEF Data
<1> QED BY <1>2, <1>6, <1>10, <1>12, <1>14 DEF to

-----------------------------------------------------------------------------
(* The line as it is allocated.                                            *)

LEMMA DataAtFirst ==
  ASSUME NEW line, Shape(line), Fits(line), Stored(line, 0)
  PROVE  Data(line, 0, 0, TRUE)
<1>0. /\ FragSize \in Nat \ {0} /\ line.curdelay \in Nat /\ line.nRest \in Nat
      /\ line.nFbufs \in Nat
  BY DelayAssumption DEF Shape
<1>1. \A v \in 0 .. 0 : v = 0
  OBVIOUS
<1>2. ASSUME NEW v \in 0 .. 0, NEW s \in Int, s <= 0 PROVE Held(v, s, 0, TRUE)
  BY <1>1, <1>2, HeldOld
<1>3. line.nRest <= line.curdelay
  <2>1. line.curdelay % FragSize <= line.curdelay
    BY <1>0, RestBelow
  <2> QED BY <1>0, <2>1 DEF Shape
<1>4. ASSUME NEW k \in 0 .. line.nRest - 1
      PROVE  (0 - line.curdelay) + k + 1 \in Int /\ (0 - line.curdelay) + k + 1 <= 0
  BY <1>0, <1>3
<1>5. ASSUME line.nFbufs > 0, NEW n \in 0 .. line.nFbufs - 1, n # line.curbuf, NEW x \in Cells
      PROVE  Held(line.fbufs[n][x], (0 - Age(line, n) * FragSize) + x + 1, 0, TRUE)
  <2>1. line.fbufs[n][x] \in 0 .. 0
    <3>1. n \in DOMAIN line.fbufs
      BY <1>5 DEF Fits
    <3> QED BY <3>1 DEF Stored
  <2>2. Age(line, n) \in Nat \ {0}
    BY <1>0, <1>5 DEF Age, Shape
  <2>3. Age(line, n) * FragSize \in Nat /\ Age(line, n) * FragSize >= FragSize
    BY <1>0, <2>2, SMT
  <2>4. /\ (0 - Age(line, n) * FragSize) + x + 1 \in Int
        /\ (0 - Age(line, n) * FragSize) + x + 1 <= 0
    BY <1>0, <2>3 DEF Cells
  <2> QED BY <1>2, <2>1, <2>4
<1>6. ASSUME line.nFbufs > 0, NEW k \in 0 .. line.nRest - 1
      PROVE  Held(line.rbuf[k], (0 - line.curdelay) + k + 1, 0, TRUE)
  <2>1. line.rbuf[k] \in 0 .. 0
    BY <1>6 DEF Fits, Stored
  <2> QED BY <1>2, <1>4, <2>1
<1>7. ASSUME line.nFbufs = 0, NEW k \in 0 .. line.nRest - 1
      PROVE  Held(line.shortbuf[1 - line.curbuf][k], (0 - line.curdelay) + k + 1, 0, TRUE)
  <2>1. 1 - line.curbuf \in {0, 1}
    BY <1>7 DEF Shape
  <2>2. line.shortbuf[1 - line.curbuf][k] \in 0 .. 0
    BY <1>7, <2>1 DEF Fits, Stored
  <2> QED BY <1>2, <1>4, <2>2
<1> QED BY <1>5, <1>6, <1>7, Zenon DEF Data

LEMMA ZerosStored ==
  ASSUME NEW n \in Nat
  PROVE  Zeros(n) \in [0 .. n - 1 -> 0 .. 0] /\ DOMAIN Zeros(n) = 0 .. n - 1
BY DEF Zeros

\* No delay and none to come.
LEMMA NoLineAllocated ==
  ASSUME NEW max \in Int, max <= 0, NEW line, line = NoLine(0, max)
  PROVE  /\ IsLine(line) /\ Shape(line) /\ Memory(line) /\ Stored(line, 0) /\ Fits(line)
         /\ line.maxdelay = max
<1>0. FragSize \in Nat \ {0}
  BY DelayAssumption
<1>1. /\ IsLine(line) /\ line.maxdelay = max /\ line.curdelay = 0 /\ line.curbuf = 0
      /\ line.nFbufs = 0 /\ line.nRest = 0 /\ line.fbufs = Zeros(0) /\ line.rbuf = Zeros(0)
      /\ line.shortbuf = [b \in {0, 1} |-> Zeros(0)]
  BY DEF NoLine, IsLine, LineFields
<1>2. Zeros(0) \in [{} -> 0 .. 0] /\ DOMAIN Zeros(0) = {}
  BY ZerosStored
<1>3. Shape(line)
  BY <1>1 DEF Shape
<1>4. Memory(line)
  BY <1>0, <1>1, <1>2 DEF Memory
<1>5. Stored(line, 0)
  BY <1>1, <1>2 DEF Stored
<1>6. Fits(line)
  BY <1>1 DEF Fits
<1> QED BY <1>1, <1>3, <1>4, <1>5, <1>6

LEMMA ShortLineAllocated ==
  ASSUME NEW init \in Nat, NEW max \in Int, NEW room \in Nat, room > 0, room <= FragSize,
         IF max > 0 THEN room = max ELSE max # 0 /\ room = init,
         NEW line, line = ShortLine(room, init, max)
  PROVE  /\ IsLine(line) /\ Shape(line) /\ Memory(line) /\ Stored(line, 0)
         /\ Fits(line) \/ (max > 0 /\ init > max)
         /\ line.maxdelay = max
<1>0. FragSize \in Nat \ {0}
  BY DelayAssumption
<1>1. /\ IsLine(line) /\ line.maxdelay = max /\ line.curdelay = init /\ line.curbuf = 0
      /\ line.nFbufs = 0 /\ line.nRest = init /\ line.fbufs = Zeros(0) /\ line.rbuf = Zeros(0)
      /\ line.shortbuf = [b \in {0, 1} |-> Zeros(room)]
  BY DEF ShortLine, NoLine, IsLine, LineFields
<1>2. /\ Zeros(0) \in [{} -> 0 .. 0] /\ DOMAIN Zeros(0) = {}
      /\ Zeros(room) \in [0 .. room - 1 -> 0 .. 0] /\ DOMAIN Zeros(room) = 0 .. room - 1
  BY ZerosStored
<1>3. Shape(line)
  BY <1>1 DEF Shape
<1>4. Memory(line)
  BY <1>0, <1>1, <1>2 DEF Memory, Cells
<1>5. Stored(line, 0)
  BY <1>1, <1>2 DEF Stored
<1>6. Fits(line) \/ (max > 0 /\ init > max)
  BY <1>1, <1>2 DEF Fits
<1> QED BY <1>1, <1>3, <1>4, <1>5, <1>6

LEMMA FullLineAllocated ==
  ASSUME NEW init \in Nat, NEW max \in Int, NEW room \in Nat, room > FragSize,
         IF max > 0 THEN room = max ELSE max # 0 /\ room = init,
         NEW line, line = FullLine(room, init, max)
  PROVE  /\ IsLine(line) /\ Shape(line) /\ Memory(line) /\ Stored(line, 0)
         /\ Fits(line) \/ (max > 0 /\ init > max)
         /\ line.maxdelay = max
<1> DEFINE q == init \div FragSize
           r == init % FragSize
<1>0. FragSize \in Nat \ {0}
  BY DelayAssumption
<1>1. /\ IsLine(line) /\ line.maxdelay = max /\ line.curdelay = init /\ line.curbuf = 0
      /\ line.nFbufs = (IF init < FragSize THEN 0 ELSE q + 1) /\ line.nRest = r
      /\ line.fbufs = [n \in 0 .. room \div FragSize |-> Zeros(FragSize)]
      /\ line.rbuf = (IF max > 0 THEN Zeros(FragSize) ELSE Zeros(r))
      /\ line.shortbuf = [b \in {0, 1} |-> IF max > 0 THEN Zeros(FragSize) ELSE Zeros(0)]
  BY DEF FullLine, NoLine, IsLine, LineFields
<1>2. q \in Nat /\ r \in 0 .. FragSize - 1 /\ q * FragSize = init - r
  BY <1>0, Division
<1>3. /\ Zeros(0) \in [{} -> 0 .. 0] /\ DOMAIN Zeros(0) = {}
      /\ Zeros(FragSize) \in [Cells -> 0 .. 0] /\ DOMAIN Zeros(FragSize) = Cells
      /\ Zeros(r) \in [0 .. r - 1 -> 0 .. 0] /\ DOMAIN Zeros(r) = 0 .. r - 1
  <2>1. Zeros(0) \in [0 .. 0 - 1 -> 0 .. 0] /\ DOMAIN Zeros(0) = 0 .. 0 - 1
    BY ZerosStored
  <2>2. Zeros(FragSize) \in [Cells -> 0 .. 0] /\ DOMAIN Zeros(FragSize) = Cells
    BY <1>0, ZerosStored DEF Cells
  <2>3. Zeros(r) \in [0 .. r - 1 -> 0 .. 0] /\ DOMAIN Zeros(r) = 0 .. r - 1
    <3>1. r \in Nat
      BY <1>0, <1>2
    <3> HIDE DEF r
    <3> QED BY <3>1, ZerosStored
  <2>4. 0 .. 0 - 1 = {}
    OBVIOUS
  <2> QED BY <2>1, <2>2, <2>3, <2>4
<1>4. init < FragSize => r = init
  BY <1>0
<1>5. init <= room => q <= room \div FragSize
  BY <1>0, DivMonotone
<1>6. room \div FragSize \in Nat
  BY <1>0, Division
<1>7. Shape(line)
  BY <1>0, <1>1, <1>2, <1>4 DEF Shape
<1> HIDE DEF q, r
<1>8. Memory(line)
  BY <1>0, <1>1, <1>2, <1>3 DEF Memory, Cells
<1>9. Stored(line, 0)
  BY <1>1, <1>3 DEF Stored
<1>10. ASSUME init <= room PROVE Fits(line)
  <2>1. CASE init < FragSize
    <3>1. max > 0
      BY <1>0, <2>1
    <3>2. \A b \in {0, 1} : DOMAIN line.shortbuf[b] = Cells
      BY <1>1, <1>3, <3>1
    <3>3. 0 .. line.nRest - 1 \subseteq Cells
      BY <1>0, <1>1, <1>2 DEF Cells
    <3> QED BY <1>1, <2>1, <3>2, <3>3 DEF Fits
  <2>2. CASE ~(init < FragSize)
    <3>1. line.nFbufs = q + 1 /\ line.nFbufs > 0
      BY <1>1, <1>2, <2>2
    <3>2. 0 .. line.nFbufs - 1 \subseteq DOMAIN line.fbufs
      BY <1>1, <1>2, <1>5, <1>6, <1>10, <3>1
    <3>3. 0 .. line.nRest - 1 \subseteq DOMAIN line.rbuf
      BY <1>0, <1>1, <1>2, <1>3 DEF Cells
    <3> QED BY <3>1, <3>2, <3>3 DEF Fits
  <2> QED BY <2>1, <2>2
<1>11. Fits(line) \/ (max > 0 /\ init > max)
  BY <1>10
<1> QED BY <1>1, <1>7, <1>8, <1>9, <1>11

-----------------------------------------------------------------------------
(* The invariant holds at first and after every step.                      *)

LEMMA TypesOfConstants ==
  ASSUME Typed
  PROVE  /\ FragSize \in Nat \ {0} /\ spacing \in Nat \ {0} /\ initdelay \in Nat
         /\ db.maxdelay \in Int /\ taken \in Nat /\ since \in 0 .. taken
BY DelayAssumption DEF Typed

LEMMA InitInv ==
  ASSUME Init
  PROVE  IInv
<1>1. PICK max \in MaxDelays : db = Allocate(initdelay, max)
  BY DEF Init
<1>2. /\ sampleSize \in SampleSizes /\ spacing \in Spacings /\ initdelay \in InitDelays
      /\ out = [k \in Cells |-> [c \in Slots |-> 0]]
      /\ status = "ok" /\ taken = 0 /\ since = 0 /\ grown = TRUE /\ changes = 0
  BY DEF Init
<1>3. initdelay \in Nat /\ max \in Int /\ FragSize \in Nat \ {0} /\ MaxChanges \in Nat
  BY <1>2, DelayAssumption
<1>4. /\ IsLine(db) /\ Shape(db) /\ Memory(db) /\ Stored(db, 0)
      /\ Fits(db) \/ (max > 0 /\ initdelay > max)
      /\ db.maxdelay = max
  <2> DEFINE room == IF max > 0 THEN max ELSE IF max = 0 THEN 0 ELSE initdelay
             delay == IF max = 0 THEN 0 ELSE initdelay
  <2>1. db = IF room = 0 THEN NoLine(delay, max)
             ELSE IF room <= FragSize THEN ShortLine(room, delay, max)
             ELSE FullLine(room, delay, max)
    BY <1>1 DEF Allocate
  <2>2. room \in Nat
    BY <1>3
  <2>3. CASE room = 0
    <3>1. max <= 0 /\ delay = 0
      BY <1>3, <2>3
    <3>2. db = NoLine(0, max)
      BY <2>1, <2>3, <3>1
    <3> QED BY <1>3, <3>1, <3>2, NoLineAllocated
  <2>4. CASE room # 0
    <3>1. room > 0 /\ delay = initdelay
      BY <1>3, <2>2, <2>4
    <3>2. IF max > 0 THEN room = max ELSE max # 0 /\ room = initdelay
      BY <1>3, <2>4
    <3>3. CASE room <= FragSize
      <4>1. db = ShortLine(room, initdelay, max)
        BY <2>1, <2>4, <3>1, <3>3
      <4> HIDE DEF room
      <4> QED BY <1>3, <2>2, <3>1, <3>2, <3>3, <4>1, ShortLineAllocated
    <3>4. CASE ~(room <= FragSize)
      <4>1. db = FullLine(room, initdelay, max) /\ room > FragSize
        BY <1>3, <2>1, <2>2, <2>4, <3>1, <3>4
      <4> HIDE DEF room
      <4> QED BY <1>3, <2>2, <3>2, <4>1, FullLineAllocated
    <3> QED BY <3>3, <3>4
  <2> QED BY <2>3, <2>4
<1>5. Typed
  BY <1>2, <1>3, <1>4 DEF Typed
<1>6. Fits(db) \/ Oversized
  BY <1>4 DEF Oversized
<1>7. Fits(db) => Data(db, taken, since, grown)
  BY <1>2, <1>4, DataAtFirst
<1>8. OthersUntouched
  BY <1>2 DEF OthersUntouched
<1> QED BY <1>2, <1>4, <1>5, <1>6, <1>7, <1>8 DEF IInv

\* The line with which an update goes on after change_delay.
LEMMA ChangedLine ==
  ASSUME IInv, NEW d \in Requests, NEW line, line = ChangeDelay(db, d),
         NEW changed, changed = IF Accepts(db, d) THEN taken ELSE since,
         NEW grew, grew = IF Accepts(db, d) THEN d > db.curdelay ELSE grown
  PROVE  /\ IsLine(line) /\ Shape(line) /\ Memory(line) /\ Stored(line, taken)
         /\ Fits(line) \/ Oversized
         /\ Fits(line) => Data(line, taken, changed, grew)
         /\ line.maxdelay = db.maxdelay
         /\ line.curdelay = IF Accepts(db, d) THEN d ELSE db.curdelay
         /\ Fits(line) /\ line.nFbufs = 0 => line.nRest <= FragSize
         /\ changed \in 0 .. taken /\ grew \in BOOLEAN
<1>0. /\ FragSize \in Nat \ {0} /\ d \in Nat /\ taken \in Nat /\ since \in 0 .. taken
      /\ grown \in BOOLEAN
  BY DelayAssumption DEF IInv, Typed
<1>1. /\ IsLine(line) /\ Shape(line) /\ Memory(line) /\ Stored(line, taken)
      /\ Fits(line) \/ Oversized
      /\ Fits(line) => Data(line, taken, changed, grew)
      /\ line.maxdelay = db.maxdelay
      /\ line.curdelay = IF Accepts(db, d) THEN d ELSE db.curdelay
  <2>1. CASE ~Accepts(db, d)
    <3>1. line = db /\ changed = since /\ grew = grown
      BY <2>1 DEF ChangeDelay
    <3> QED BY <2>1, <3>1 DEF IInv
  <2>2. CASE Accepts(db, d) /\ d <= FragSize
    <3>1. line = ToShort(db, d) /\ changed = taken /\ grew = (d > db.curdelay)
      BY <2>2 DEF ChangeDelay
    <3>2. IsLine(db) /\ Shape(db) /\ Memory(db) /\ Stored(db, taken)
      BY DEF IInv
    <3>3. /\ IsLine(ToShort(db, d)) /\ ToShort(db, d).maxdelay = db.maxdelay
          /\ ToShort(db, d).curdelay = d
      BY <3>2, ToShortFields
    <3>4. /\ Shape(line) /\ Memory(line) /\ Stored(line, taken) /\ Fits(line)
          /\ Data(line, taken, taken, d > db.curdelay)
      BY <1>0, <2>2, <3>1, <3>2, ShortChange
    <3> QED BY <2>2, <3>1, <3>3, <3>4
  <2>3. CASE Accepts(db, d) /\ ~(d <= FragSize)
    <3>1. line = ToFull(db, d) /\ changed = taken /\ grew = (d > db.curdelay) /\ d > FragSize
      BY <1>0, <2>3 DEF ChangeDelay
    <3>2. IsLine(db) /\ Shape(db) /\ Memory(db) /\ Stored(db, taken)
      BY DEF IInv
    <3>3. /\ IsLine(ToFull(db, d)) /\ ToFull(db, d).maxdelay = db.maxdelay
          /\ ToFull(db, d).curdelay = d
      BY <3>2, ToFullFields
    <3>4. /\ Shape(line) /\ Memory(line) /\ Stored(line, taken) /\ Fits(line)
          /\ Data(line, taken, taken, d > db.curdelay)
      BY <1>0, <2>3, <3>1, <3>2, FullChange
    <3> QED BY <2>3, <3>1, <3>3, <3>4
  <2> QED BY <2>1, <2>2, <2>3
<1>2. ASSUME Fits(line), line.nFbufs = 0 PROVE line.nRest <= FragSize
  <2>1. line.nRest \in Nat
    BY <1>1 DEF Shape
  <2>2. 0 .. line.nRest - 1 \subseteq Cells
    BY <1>1, <1>2 DEF Fits, Memory
  <2>3. line.nRest > 0 => line.nRest - 1 \in 0 .. line.nRest - 1
    BY <2>1
  <2> QED BY <1>0, <2>1, <2>2, <2>3 DEF Cells
<1>3. changed \in 0 .. taken
  BY <1>0
<1>4. grew \in BOOLEAN
  <2>1. (d > db.curdelay) \in BOOLEAN
    OBVIOUS
  <2> QED BY <1>0, <2>1, Zenon
<1> QED BY <1>1, <1>2, <1>3, <1>4

LEMMA FragmentCells ==
  ASSUME FragSize \in Nat \ {0}, spacing \in Nat \ {0}, taken \in Nat
  PROVE  /\ Fragment \in [Cells -> [Slots -> Int]]
         /\ \A k \in Cells :
              /\ Fragment[k][0] = taken + k + 1
              /\ \A c \in Slots \ {0} : Fragment[k][c] = -(k * spacing + c)
<1>1. Cells \subseteq Nat /\ Slots \subseteq Nat /\ 0 \in Slots
  BY DEF Cells, Slots
<1>2. ASSUME NEW k \in Cells, NEW c \in Slots
      PROVE  /\ Fragment[k][c] = IF c = 0 THEN taken + k + 1 ELSE -(k * spacing + c)
             /\ Fragment[k][c] \in Int
  <2>1. Fragment[k][c] = IF c = 0 THEN taken + k + 1 ELSE -(k * spacing + c)
    BY DEF Fragment
  <2>2. k * spacing \in Int
    BY <1>1
  <2> QED BY <1>1, <2>1, <2>2
<1>3. Fragment \in [Cells -> [Slots -> Int]]
  <2>1. /\ DOMAIN Fragment = Cells /\ Fragment = [k \in Cells |-> Fragment[k]]
        /\ \A k \in Cells : Fragment[k] = [c \in Slots |-> Fragment[k][c]]
    BY DEF Fragment
  <2> QED BY <1>2, <2>1
<1> QED BY <1>1, <1>2, <1>3

\* What every completed update does besides moving samples.
LEMMA TakesTypes ==
  ASSUME Typed, NEW d \in Requests, Takes(d), status' = status, db'.maxdelay = db.maxdelay,
         out' \in [Cells -> [Slots -> Int]], grown' \in BOOLEAN
  PROVE  Typed' /\ taken' = taken + FragSize /\ Slots' = Slots
<1>1. /\ sampleSize' = sampleSize /\ spacing' = spacing /\ initdelay' = initdelay
      /\ taken' = taken + FragSize /\ since' \in {taken, since}
      /\ changes' \in {changes + 1, changes} /\ changes' <= MaxChanges
  BY DEF Takes
<1>2. FragSize \in Nat /\ taken \in Nat /\ since \in 0 .. taken /\ changes \in Nat
      /\ MaxChanges \in Nat
  BY DelayAssumption DEF Typed
<1>3. taken' \in Nat /\ since' \in 0 .. taken' /\ changes' \in 0 .. MaxChanges
  BY <1>1, <1>2
<1>4. Slots' = Slots
  BY <1>1 DEF Slots
<1>5. /\ sampleSize' \in SampleSizes /\ spacing' \in Spacings /\ initdelay' \in InitDelays
      /\ db'.maxdelay \in MaxDelays /\ status' \in {"ok", "hung", "overrun"}
  BY <1>1 DEF Typed
<1> QED BY <1>1, <1>3, <1>4, <1>5 DEF Typed

LEMMA TakesServes ==
  ASSUME Typed, NEW d \in Requests, Takes(d), db'.maxdelay = db.maxdelay, db'.curdelay \in Nat,
         db'.curdelay = IF Accepts(db, d) THEN d ELSE db.curdelay,
         sampleSize # 3 \/ spacing <= 2 =>
           \A k \in Cells : Held(out'[k][0], (taken - db'.curdelay) + k + 1, since', grown')
  PROVE  Service!Update(d)
<1>1. /\ sampleSize' = sampleSize /\ spacing' = spacing /\ taken' = taken + FragSize
      /\ since' = IF Accepts(db, d) THEN taken ELSE since
      /\ grown' = IF Accepts(db, d) THEN d > db.curdelay ELSE grown
  BY DEF Takes
<1>2. Accepts(db, d) <=> Service!Accepted(d)
  BY DEF Accepts, Service!Accepted
<1>3. ASSUME sampleSize # 3 \/ spacing <= 2, NEW k \in Service!Cells
      PROVE  Service!Due(k, [j \in Cells |-> out'[j][0]][k])
  <2>1. k \in Cells /\ k \in Int /\ taken \in Int
    BY DelayAssumption DEF Cells, Service!Cells, Typed
  <2>2. (taken + k + 1) - db'.curdelay = (taken - db'.curdelay) + k + 1
    BY <2>1
  <2>3. Held(out'[k][0], (taken + k + 1) - db'.curdelay, since', grown')
    BY <1>3, <2>1, <2>2
  <2>4. [j \in Cells |-> out'[j][0]][k] = out'[k][0]
    BY <2>1
  <2>5. taken + k + (1 - db'.curdelay) = (taken + k + 1) - db'.curdelay
    BY <2>1
  <2> QED BY <2>3, <2>4, <2>5 DEF Held, Service!Due
<1>4. Cells' = Cells
  BY DEF Cells
<1> QED BY <1>1, <1>2, <1>3, <1>4 DEF Service!Update

LEMMA FullStep ==
  ASSUME IInv, NEW d \in Requests, UpdateFull(d)
  PROVE  IInv' /\ Service!Update(d)
<1> DEFINE line == ChangeDelay(db, d)
<1>0. /\ FragSize \in Nat \ {0} /\ spacing \in Nat \ {0} /\ taken \in Nat /\ Typed
  BY TypesOfConstants DEF IInv
<1>1. /\ Fits(line) /\ line.nFbufs > 0 /\ Takes(d) /\ status' = status
      /\ db' = PushFull(line, Fragment) /\ out' = PullFull(line, Fragment)
  BY DEF UpdateFull
<1>2. /\ since' = IF Accepts(db, d) THEN taken ELSE since
      /\ grown' = IF Accepts(db, d) THEN d > db.curdelay ELSE grown
      /\ taken' = taken + FragSize /\ status = "ok" /\ initdelay' = initdelay
      /\ spacing' = spacing /\ sampleSize' = sampleSize
  BY <1>1 DEF Takes
<1>3. /\ IsLine(line) /\ Shape(line) /\ Memory(line) /\ Stored(line, taken)
      /\ Data(line, taken, since', grown')
      /\ line.maxdelay = db.maxdelay
      /\ line.curdelay = IF Accepts(db, d) THEN d ELSE db.curdelay
      /\ since' \in 0 .. taken /\ grown' \in BOOLEAN
  BY <1>1, <1>2, ChangedLine
<1> HIDE DEF line
<1>4. /\ Fragment \in [Cells -> [Slots -> Int]]
      /\ \A k \in Cells :
           /\ Fragment[k][0] = taken + k + 1
           /\ \A c \in Slots \ {0} : Fragment[k][c] = -(k * spacing + c)
  BY <1>0, FragmentCells
<1>5. /\ out' \in [Cells -> [Slots -> Int]]
      /\ \A k \in Cells :
           /\ Held(out'[k][0], (taken - line.curdelay) + k + 1, since', grown')
           /\ \A c \in Slots \ {0} : out'[k][c] = Fragment[k][c]
  BY <1>0, <1>1, <1>3, <1>4, FullPull
<1>6. /\ IsLine(db') /\ db'.maxdelay = line.maxdelay /\ db'.curdelay = line.curdelay
      /\ db'.nFbufs = line.nFbufs
  BY <1>1, <1>3, PushFullFields
<1>7. /\ Shape(db') /\ Memory(db') /\ Stored(db', taken') /\ Fits(db')
      /\ Data(db', taken', since', grown')
  BY <1>0, <1>1, <1>2, <1>3, <1>4, FullPush
<1>8. Typed' /\ Slots' = Slots
  BY <1>0, <1>1, <1>3, <1>5, <1>6, TakesTypes
<1>9. OthersUntouched'
  BY <1>2, <1>4, <1>5, <1>8 DEF OthersUntouched, Cells
<1>10. db'.curdelay \in Nat
  BY <1>7 DEF Shape
<1>11. Service!Update(d)
  BY <1>0, <1>1, <1>3, <1>5, <1>6, <1>10, TakesServes
<1>12. status' # "overrun"
  BY <1>1, <1>2
<1> QED BY <1>6, <1>7, <1>8, <1>9, <1>11, <1>12 DEF IInv, IsLine, Shape, Memory, Stored, Fits, Data

LEMMA ShortStep ==
  ASSUME IInv, NEW d \in Requests, UpdateShort(d)
  PROVE  IInv' /\ Service!Update(d)
<1> DEFINE line == ChangeDelay(db, d)
<1>0. /\ FragSize \in Nat \ {0} /\ spacing \in Nat \ {0} /\ taken \in Nat /\ Typed
  BY TypesOfConstants DEF IInv
<1>1. /\ Fits(line) /\ line.nFbufs = 0 /\ ~ShiftHangs(FragSize - line.nRest)
      /\ Takes(d) /\ status' = status
      /\ db' = PushShort(line, Fragment) /\ out' = PullShort(line, Fragment)
  BY DEF UpdateShort
<1>2. /\ since' = IF Accepts(db, d) THEN taken ELSE since
      /\ grown' = IF Accepts(db, d) THEN d > db.curdelay ELSE grown
      /\ taken' = taken + FragSize /\ status = "ok" /\ initdelay' = initdelay
      /\ spacing' = spacing /\ sampleSize' = sampleSize
  BY <1>1 DEF Takes
<1>3. /\ IsLine(line) /\ Shape(line) /\ Memory(line) /\ Stored(line, taken)
      /\ Data(line, taken, since', grown')
      /\ line.maxdelay = db.maxdelay /\ line.nRest <= FragSize
      /\ line.curdelay = IF Accepts(db, d) THEN d ELSE db.curdelay
      /\ since' \in 0 .. taken /\ grown' \in BOOLEAN
  BY <1>1, <1>2, ChangedLine
<1> HIDE DEF line
<1>4. /\ Fragment \in [Cells -> [Slots -> Int]]
      /\ \A k \in Cells :
           /\ Fragment[k][0] = taken + k + 1
           /\ \A c \in Slots \ {0} : Fragment[k][c] = -(k * spacing + c)
  BY <1>0, FragmentCells
<1>5. /\ out' \in [Cells -> [Slots -> Int]]
      /\ sampleSize # 3 \/ spacing <= 2 =>
           \A k \in Cells : Held(out'[k][0], (taken - line.curdelay) + k + 1, since', grown')
      /\ sampleSize # 3 =>
           \A k \in Cells : \A c \in Slots \ {0} : out'[k][c] = Fragment[k][c]
  BY <1>0, <1>1, <1>3, <1>4, ShortPull
<1>6. /\ IsLine(db') /\ db'.maxdelay = line.maxdelay /\ db'.curdelay = line.curdelay
      /\ db'.nFbufs = 0
  BY <1>1, <1>3, PushShortFields
<1>7. /\ Shape(db') /\ Memory(db') /\ Stored(db', taken') /\ Fits(db')
      /\ Data(db', taken', since', grown')
  BY <1>0, <1>1, <1>2, <1>3, <1>4, ShortPush
<1>8. Typed' /\ Slots' = Slots
  BY <1>0, <1>1, <1>3, <1>5, <1>6, TakesTypes
<1>9. OthersUntouched'
  BY <1>2, <1>4, <1>5, <1>6, <1>8 DEF OthersUntouched, Cells
<1>10. db'.curdelay \in Nat
  BY <1>7 DEF Shape
<1>11. Service!Update(d)
  BY <1>0, <1>1, <1>3, <1>5, <1>6, <1>10, TakesServes
<1>12. status' # "overrun"
  BY <1>1, <1>2
<1> QED BY <1>6, <1>7, <1>8, <1>9, <1>11, <1>12 DEF IInv, IsLine, Shape, Memory, Stored, Fits, Data

LEMMA NoneStep ==
  ASSUME IInv, NEW d \in Requests, UpdateNone(d)
  PROVE  IInv' /\ Service!Update(d)
<1> DEFINE line == ChangeDelay(db, d)
<1>0. /\ FragSize \in Nat \ {0} /\ spacing \in Nat \ {0} /\ taken \in Nat /\ Typed
  BY TypesOfConstants DEF IInv
<1>1. /\ Fits(line) /\ line.nFbufs = 0 /\ line.nRest = 0 /\ Takes(d) /\ status' = status
      /\ db' = line /\ out' = Fragment
  BY DEF UpdateNone
<1>2. /\ since' = IF Accepts(db, d) THEN taken ELSE since
      /\ grown' = IF Accepts(db, d) THEN d > db.curdelay ELSE grown
      /\ taken' = taken + FragSize /\ status = "ok" /\ initdelay' = initdelay
      /\ spacing' = spacing /\ sampleSize' = sampleSize
  BY <1>1 DEF Takes
<1>3. /\ IsLine(line) /\ Shape(line) /\ Memory(line) /\ Stored(line, taken)
      /\ Data(line, taken, since', grown')
      /\ line.maxdelay = db.maxdelay /\ line.nRest <= FragSize
      /\ line.curdelay = IF Accepts(db, d) THEN d ELSE db.curdelay
      /\ since' \in 0 .. taken /\ grown' \in BOOLEAN
  BY <1>1, <1>2, ChangedLine
<1> HIDE DEF line
<1>4. /\ Fragment \in [Cells -> [Slots -> Int]]
      /\ \A k \in Cells :
           /\ Fragment[k][0] = taken + k + 1
           /\ \A c \in Slots \ {0} : Fragment[k][c] = -(k * spacing + c)
  BY <1>0, FragmentCells
<1>5. /\ out' \in [Cells -> [Slots -> Int]]
      /\ \A k \in Cells :
           /\ Held(out'[k][0], (taken - line.curdelay) + k + 1, since', grown')
           /\ \A c \in Slots \ {0} : out'[k][c] = Fragment[k][c]
  <2>1. line.curdelay = 0
    BY <1>1, <1>3 DEF Shape
  <2>2. ASSUME NEW k \in Cells
        PROVE  Held(Fragment[k][0], (taken - line.curdelay) + k + 1, since', grown')
    <3>1. Fragment[k][0] = (taken - line.curdelay) + k + 1 /\ (taken - line.curdelay) + k + 1 > since'
      BY <1>0, <1>3, <1>4, <2>1 DEF Cells
    <3> QED BY <3>1 DEF Held
  <2> QED BY <1>1, <1>4, <2>2
<1>6. /\ IsLine(db') /\ db'.maxdelay = line.maxdelay /\ db'.curdelay = line.curdelay
      /\ db'.nFbufs = 0
  BY <1>1, <1>3
<1>7. /\ Shape(db') /\ Memory(db') /\ Stored(db', taken') /\ Fits(db')
      /\ Data(db', taken', since', grown')
  <2>1. Stored(line, taken + FragSize)
    <3>1. 0 .. taken \subseteq 0 .. taken + FragSize
      BY <1>0
    <3>2. ASSUME NEW S, NEW f \in [S -> 0 .. taken] PROVE f \in [S -> 0 .. taken + FragSize]
      BY <3>1
    <3> QED BY <1>3, <3>2 DEF Stored
  <2>2. Data(line, taken + FragSize, since', grown')
    BY <1>1 DEF Data
  <2> QED BY <1>1, <1>2, <1>3, <2>1, <2>2
<1>8. Typed' /\ Slots' = Slots
  BY <1>0, <1>1, <1>3, <1>5, <1>6, TakesTypes
<1>9. OthersUntouched'
  BY <1>2, <1>4, <1>5, <1>6, <1>8 DEF OthersUntouched, Cells
<1>10. db'.curdelay \in Nat
  BY <1>7 DEF Shape
<1>11. Service!Update(d)
  BY <1>0, <1>1, <1>3, <1>5, <1>6, <1>10, TakesServes
<1>12. status' # "overrun"
  BY <1>1, <1>2
<1> QED BY <1>6, <1>7, <1>8, <1>9, <1>11, <1>12 DEF IInv, IsLine, Shape, Memory, Stored, Fits, Data

LEMMA StuckStep ==
  ASSUME IInv, NEW d \in Requests, UpdateHangs(d) \/ UpdateOverruns(d)
  PROVE  IInv' /\ UNCHANGED Service!vars
<1>1. UNCHANGED <<sampleSize, spacing, initdelay, db, out, taken, since, grown, changes>>
  BY DEF UpdateHangs, UpdateOverruns
<1>2. status' \in {"hung", "overrun"} /\ (status' = "overrun" => ~Fits(ChangeDelay(db, d)))
  BY DEF UpdateHangs, UpdateOverruns
<1>3. ~Fits(ChangeDelay(db, d)) => Oversized
  BY ChangedLine
<1>4. Cells' = Cells /\ Slots' = Slots
  BY <1>1 DEF Cells, Slots
<1>5. UNCHANGED Service!vars
  BY <1>1, <1>4 DEF Service!vars
<1>6. Typed'
  BY <1>1, <1>2, <1>4 DEF IInv, Typed
<1>7. IsLine(db)' /\ Shape(db)' /\ Memory(db)' /\ Stored(db, taken)'
  BY <1>1 DEF IInv, IsLine, Shape, Memory, Stored, Cells
<1>8. (Fits(db) \/ Oversized)' /\ (Fits(db) => Data(db, taken, since, grown))'
  BY <1>1 DEF IInv, Fits, Oversized, Data, Cells
<1>9. (status = "overrun" => Oversized)'
  BY <1>1, <1>2, <1>3 DEF Oversized
<1>10. OthersUntouched'
  BY <1>1, <1>4 DEF IInv, OthersUntouched
<1> QED BY <1>5, <1>6, <1>7, <1>8, <1>9, <1>10 DEF IInv

LEMMA StutterStep ==
  ASSUME IInv, UNCHANGED vars
  PROVE  IInv' /\ UNCHANGED Service!vars
BY DEF vars, IInv, Typed, IsLine, Shape, Memory, Stored, Fits, Oversized, Data, OthersUntouched,
       Cells, Slots, Service!vars

THEOREM Invariance == Spec => []IInv
<1>1. Init => IInv
  BY InitInv
<1>2. IInv /\ [Next]_vars => IInv'
  BY FullStep, ShortStep, NoneStep, StuckStep, StutterStep DEF Next
<1> QED BY <1>1, <1>2, PTL DEF Spec

-----------------------------------------------------------------------------
(* The theorems.                                                           *)

LEMMA InvGivesTypes ==
  ASSUME IInv
  PROVE  TypeOK
<1>1. /\ FragSize \in Nat \ {0} /\ db.curdelay \in Nat /\ db.nFbufs \in Nat
  BY DelayAssumption DEF IInv, Shape
<1>2. db.nFbufs # 1
  <2>1. db.nFbufs > 0 => db.curdelay \div FragSize >= 1 /\ db.curdelay \div FragSize \in Nat
    BY <1>1, DivOne, Division DEF IInv, Shape
  <2> QED BY <1>1, <2>1 DEF IInv, Shape
<1>3. db.curbuf \in IF db.nFbufs > 0 THEN 0 .. db.nFbufs - 1 ELSE {0, 1}
  BY <1>1 DEF IInv, Shape
<1> QED BY <1>1, <1>2, <1>3 DEF IInv, Typed, Shape, Memory, Stored, TypeOK

\* Whatever delays update() is asked for, and for every fragment size,
\* number of channels and sample width, the line never uses more than
\* delay_allocate_buffer gave it, unless the initial delay was above a
\* positive maximum.
THEOREM LineStaysInBounds == Spec => []StaysInBounds
<1>1. IInv => StaysInBounds
  BY InvGivesTypes DEF IInv, Oversized, StaysInBounds
<1> QED BY <1>1, Invariance, PTL

\* Whatever delays update() is asked for, the samples of the other channels of
\* an interleaved buffer are never moved, unless the samples have three bytes
\* and the line is of the short kind, without fragments: then the shift in
\* place steps back too little (delay.cpp:467).
THEOREM OtherChannelsUntouched == Spec => []OthersUntouched
<1>1. IInv => OthersUntouched
  BY DEF IInv
<1> QED BY <1>1, Invariance, PTL

\* The delay line implements DelayService: every update is one of the
\* service, and a line that hangs or has left its memory takes no step of it.
THEOREM LineImplementsService == Spec => ImplementsService
<1>1. Init => Service!Init
  <2> SUFFICES ASSUME Init PROVE Service!Init
    OBVIOUS
  <2>1. IInv
    BY InitInv
  <2>2. db.maxdelay \in Int /\ db.curdelay \in Nat
    BY <2>1 DEF IInv, Shape
  <2>3. (sampleSize # 3 \/ spacing <= 2) \in BOOLEAN
    OBVIOUS
  <2>4. [k \in Cells |-> out[k][0]] = [k \in Service!Cells |-> 0]
    <3>1. ASSUME NEW k \in Cells PROVE out[k][0] = 0
      <4>1. 0 \in Slots
        BY DelayAssumption DEF Init, Slots
      <4> QED BY <4>1 DEF Init
    <3> QED BY <3>1 DEF Cells, Service!Cells
  <2> QED BY <2>2, <2>3, <2>4 DEF Init, Service!Init
<1>2. IInv /\ [Next]_vars => [Service!Next]_(Service!vars)
  <2> SUFFICES ASSUME IInv, [Next]_vars PROVE Service!Next \/ UNCHANGED Service!vars
    OBVIOUS
  <2>1. ASSUME NEW d \in Requests, UpdateFull(d) \/ UpdateShort(d) \/ UpdateNone(d)
        PROVE  Service!Next
    BY <2>1, FullStep, ShortStep, NoneStep DEF Service!Next
  <2>2. ASSUME NEW d \in Requests, UpdateHangs(d) \/ UpdateOverruns(d)
        PROVE  UNCHANGED Service!vars
    BY <2>2, StuckStep
  <2>3. UNCHANGED vars => UNCHANGED Service!vars
    BY StutterStep
  <2> QED BY <2>1, <2>2, <2>3 DEF Next
<1> QED BY <1>1, <1>2, Invariance, PTL DEF Spec, ImplementsService, Service!Spec

================================================================================
