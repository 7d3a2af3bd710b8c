---------------------------- MODULE PlaybackProofs ----------------------------
(***************************************************************************)
(* The way of the audio, for all constants.  The samples on their way      *)
(* through the DSP object, DspChunk, for any formats, length of the        *)
(* filter's blocks and sizes of chunks.  The blocks in the engine,         *)
(* Convolver, for every number of channels, filter length and counter      *)
(* width: what run() returns is the convolution of what it accepted, and a *)
(* rejected block leaves nothing behind.                                   *)
(***************************************************************************)
EXTENDS DspChunk, Convolver, TLAPS

-----------------------------------------------------------------------------
(* The samples of the DSP object, DspChunk.                                *)

\* The samples of s that are not stale are in order; those of s come before
\* those of t.
Ordered(s) ==
  \A i, j \in 1 .. Len(s) : i < j /\ ~s[i].stale /\ ~s[j].stale => s[i].seq < s[j].seq
Before(s, t) ==
  \A i \in 1 .. Len(s), j \in 1 .. Len(t) :
    ~s[i].stale /\ ~t[j].stale => s[i].seq < t[j].seq

\* The samples of s are among the first n, and stale only if w holds; none is
\* stale and they have the format f.
Delivered(s, n, w) == \A i \in 1 .. Len(s) : (~s[i].stale => s[i].seq <= n) /\ (s[i].stale => w)
Present(s, f) == \A i \in 1 .. Len(s) : s[i].format = f /\ ~s[i].stale

\* Sample n is in s; s is a number of whole frames of c channels.
Holds(s, n) == \E i \in 1 .. Len(s) : ~s[i].stale /\ s[i].seq = n
Whole(s, c) == \E a \in Nat : Len(s) = a * c

-----------------------------------------------------------------------------
(* Sequences of samples.                                                   *)

LEMMA ConcatFacts ==
  ASSUME NEW s \in Seq(Samples), NEW t \in Seq(Samples)
  PROVE  /\ s \o t \in Seq(Samples) /\ Len(s \o t) = Len(s) + Len(t)
         /\ \A i \in 1 .. Len(s \o t) : (s \o t)[i] = IF i <= Len(s) THEN s[i] ELSE t[i - Len(s)]
OBVIOUS

LEMMA SubSeqFacts ==
  ASSUME NEW s \in Seq(Samples), NEW m \in 1 .. Len(s) + 1, NEW n \in m - 1 .. Len(s)
  PROVE  /\ SubSeq(s, m, n) \in Seq(Samples) /\ Len(SubSeq(s, m, n)) = n + 1 - m
         /\ \A i \in 1 .. (n + 1 - m) : SubSeq(s, m, n)[i] = s[m - 1 + i]
OBVIOUS

LEMMA SeqOfSample ==
  ASSUME NEW s \in Seq(Samples), NEW i \in 1 .. Len(s)
  PROVE  s[i] \in Samples /\ s[i].seq \in Int
<1>1. s[i] \in Samples
  OBVIOUS
<1>2. s[i].seq \in 0 .. MaxSamples
  BY <1>1 DEF Samples
<1> QED BY <1>1, <1>2, DspAssumption

LEMMA ConcatOrdered ==
  ASSUME NEW s \in Seq(Samples), NEW t \in Seq(Samples), Ordered(s), Ordered(t), Before(s, t)
  PROVE  Ordered(s \o t)
<1>1. ASSUME NEW i \in 1 .. Len(s \o t), NEW j \in 1 .. Len(s \o t), i < j
      PROVE  ~(s \o t)[i].stale /\ ~(s \o t)[j].stale => (s \o t)[i].seq < (s \o t)[j].seq
  <2>1. /\ (s \o t)[i] = IF i <= Len(s) THEN s[i] ELSE t[i - Len(s)]
        /\ (s \o t)[j] = IF j <= Len(s) THEN s[j] ELSE t[j - Len(s)]
        /\ Len(s \o t) = Len(s) + Len(t) /\ Len(s) \in Nat /\ Len(t) \in Nat
    BY ConcatFacts
  <2>2. CASE j <= Len(s)
    BY <1>1, <2>1, <2>2 DEF Ordered
  <2>3. CASE i > Len(s)
    <3>1. i - Len(s) \in 1 .. Len(t) /\ j - Len(s) \in 1 .. Len(t) /\ i - Len(s) < j - Len(s)
      BY <1>1, <2>1, <2>3
    <3>2. (s \o t)[i] = t[i - Len(s)] /\ (s \o t)[j] = t[j - Len(s)]
      BY <1>1, <2>1, <2>3
    <3> QED BY <3>1, <3>2 DEF Ordered
  <2>4. CASE i <= Len(s) /\ j > Len(s)
    <3>1. i \in 1 .. Len(s) /\ j - Len(s) \in 1 .. Len(t)
      BY <2>1, <2>4
    <3> QED BY <2>1, <2>4, <3>1 DEF Before
  <2> QED BY <2>1, <2>2, <2>3, <2>4
<1> QED BY <1>1 DEF Ordered

LEMMA ConcatBefore ==
  ASSUME NEW r \in Seq(Samples), NEW s \in Seq(Samples), NEW t \in Seq(Samples)
  PROVE  /\ Before(r, t) /\ Before(s, t) => Before(r \o s, t)
         /\ Before(t, r) /\ Before(t, s) => Before(t, r \o s)
<1>1. ASSUME NEW i \in 1 .. Len(r \o s)
      PROVE  \/ \E k \in 1 .. Len(r) : (r \o s)[i] = r[k]
             \/ \E k \in 1 .. Len(s) : (r \o s)[i] = s[k]
  <2>1. /\ (r \o s)[i] = IF i <= Len(r) THEN r[i] ELSE s[i - Len(r)]
        /\ Len(r \o s) = Len(r) + Len(s) /\ Len(r) \in Nat /\ Len(s) \in Nat
    BY ConcatFacts
  <2>2. i <= Len(r) => i \in 1 .. Len(r)
    BY <2>1
  <2>3. i > Len(r) => i - Len(r) \in 1 .. Len(s)
    BY <2>1
  <2> QED BY <2>1, <2>2, <2>3
<1> QED BY <1>1 DEF Before

\* What holds of s holds of a part of it.
LEMMA PartFacts ==
  ASSUME NEW s \in Seq(Samples), NEW t \in Seq(Samples),
         \A i \in 1 .. Len(t) : \E k \in 1 .. Len(s) : t[i] = s[k]
  PROVE  /\ \A r \in Seq(Samples) : Before(r, s) => Before(r, t)
         /\ \A r \in Seq(Samples) : Before(s, r) => Before(t, r)
         /\ \A n, w : Delivered(s, n, w) => Delivered(t, n, w)
         /\ \A f : Present(s, f) => Present(t, f)
BY DEF Before, Delivered, Present

LEMMA ConcatParts ==
  ASSUME NEW r \in Seq(Samples), NEW s \in Seq(Samples)
  PROVE  /\ \A n, w : Delivered(r, n, w) /\ Delivered(s, n, w) => Delivered(r \o s, n, w)
         /\ \A f : Present(r, f) /\ Present(s, f) => Present(r \o s, f)
<1>1. ASSUME NEW i \in 1 .. Len(r \o s)
      PROVE  \/ \E k \in 1 .. Len(r) : (r \o s)[i] = r[k]
             \/ \E k \in 1 .. Len(s) : (r \o s)[i] = s[k]
  <2>1. /\ (r \o s)[i] = IF i <= Len(r) THEN r[i] ELSE s[i - Len(r)]
        /\ Len(r \o s) = Len(r) + Len(s) /\ Len(r) \in Nat /\ Len(s) \in Nat
    BY ConcatFacts
  <2>2. i <= Len(r) => i \in 1 .. Len(r)
    BY <2>1
  <2>3. i > Len(r) => i - Len(r) \in 1 .. Len(s)
    BY <2>1
  <2> QED BY <2>1, <2>2, <2>3
<1> QED BY <1>1 DEF Delivered, Present

LEMMA EmptyFacts ==
  /\ <<>> \in Seq(Samples) /\ Len(<<>>) = 0
  /\ Ordered(<<>>) /\ \A n, w : Delivered(<<>>, n, w) /\ Present(<<>>, n)
  /\ \A s \in Seq(Samples) : Before(<<>>, s) /\ Before(s, <<>>)
BY DEF Ordered, Delivered, Present, Before

LEMMA ConcatHolds ==
  ASSUME NEW s \in Seq(Samples), NEW t \in Seq(Samples), NEW n
  PROVE  Holds(s \o t, n) <=> Holds(s, n) \/ Holds(t, n)
<1>1. /\ \A i \in 1 .. Len(s \o t) : (s \o t)[i] = IF i <= Len(s) THEN s[i] ELSE t[i - Len(s)]
      /\ Len(s \o t) = Len(s) + Len(t) /\ Len(s) \in Nat /\ Len(t) \in Nat
  BY ConcatFacts
<1>2. ASSUME Holds(s \o t, n)
      PROVE  Holds(s, n) \/ Holds(t, n)
  <2>1. PICK i \in 1 .. Len(s \o t) : ~(s \o t)[i].stale /\ (s \o t)[i].seq = n
    BY <1>2 DEF Holds
  <2>2. CASE i <= Len(s)
    <3>1. i \in 1 .. Len(s) /\ (s \o t)[i] = s[i]
      BY <1>1, <2>2
    <3> QED BY <2>1, <3>1 DEF Holds
  <2>3. CASE ~(i <= Len(s))
    <3>1. i - Len(s) \in 1 .. Len(t) /\ (s \o t)[i] = t[i - Len(s)]
      BY <1>1, <2>3
    <3> QED BY <2>1, <3>1 DEF Holds
  <2> QED BY <2>2, <2>3
<1>3. ASSUME Holds(s, n)
      PROVE  Holds(s \o t, n)
  <2>1. PICK i \in 1 .. Len(s) : ~s[i].stale /\ s[i].seq = n
    BY <1>3 DEF Holds
  <2>2. i \in 1 .. Len(s \o t) /\ (s \o t)[i] = s[i]
    BY <1>1
  <2> QED BY <2>1, <2>2 DEF Holds
<1>4. ASSUME Holds(t, n)
      PROVE  Holds(s \o t, n)
  <2>1. PICK i \in 1 .. Len(t) : ~t[i].stale /\ t[i].seq = n
    BY <1>4 DEF Holds
  <2>2. Len(s) + i \in 1 .. Len(s \o t) /\ (s \o t)[Len(s) + i] = t[i]
    <3>1. ~(Len(s) + i <= Len(s)) /\ (Len(s) + i) - Len(s) = i /\ Len(s) + i \in 1 .. Len(s \o t)
      BY <1>1
    <3> QED BY <1>1, <3>1
  <2> QED BY <2>1, <2>2 DEF Holds
<1> QED BY <1>2, <1>3, <1>4

LEMMA ConcatWhole ==
  ASSUME NEW s \in Seq(Samples), NEW t \in Seq(Samples), NEW c \in Nat, Whole(s, c), Whole(t, c)
  PROVE  Whole(s \o t, c)
<1>1. PICK a \in Nat : Len(s) = a * c
  BY DEF Whole
<1>2. PICK b \in Nat : Len(t) = b * c
  BY DEF Whole
<1>3. a + b \in Nat /\ (a + b) * c = a * c + b * c
  BY SMT
<1>4. Len(s \o t) = (a + b) * c
  BY <1>1, <1>2, <1>3, ConcatFacts
<1> QED BY <1>3, <1>4 DEF Whole

\* A round of the loop takes the head of src off.
Head1 == SubSeq(src, 1, Todo)

LEMMA TimesLess ==
  ASSUME NEW c \in Nat \ {0}, NEW x \in Int, NEW y \in Int
  PROVE  /\ x < y <=> x * c < y * c
         /\ x <= y <=> x * c <= y * c
<1>1. ASSUME x < y
      PROVE  x * c < y * c
  BY <1>1, SMT
<1>2. ASSUME x > y
      PROVE  x * c > y * c
  BY <1>2, SMT
<1>3. x = y => x * c = y * c
  OBVIOUS
<1>4. x * c \in Int /\ y * c \in Int
  BY SMT
<1> QED BY ONLY <1>1, <1>2, <1>3, <1>4, x \in Int, y \in Int

LEMMA RoundFacts ==
  ASSUME ChunkTypeOK, format \in Formats, src # <<>>
  PROVE  /\ Todo \in Nat \ {0} /\ Todo <= Len(src)
         /\ Head1 \in Seq(Samples) /\ Rest \in Seq(Samples) /\ Filled \in Seq(Samples)
         /\ Filled = buffer \o Head1
         /\ Len(Head1) = Todo /\ Len(Rest) = Len(src) - Todo
         /\ Len(Filled) = Len(buffer) + Todo /\ Len(Filled) <= Block /\ Block \in Nat \ {0}
         /\ \A i \in 1 .. Len(Head1) : Head1[i] = src[i]
         /\ \A i \in 1 .. Len(Rest) : Rest[i] = src[Todo + i]
<1>0. Block \in Nat \ {0}
  <2>1. format.channels \in Nat \ {0} /\ FilterLen \in Nat \ {0}
    BY DspAssumption
  <2>2. \A m, n \in Nat \ {0} : m * n \in Nat \ {0}
    BY SMT
  <2> QED BY <2>1, <2>2 DEF Block
<1>1. src \in Seq(Samples) /\ buffer \in Seq(Samples) /\ Len(buffer) < Block
  BY <1>0, EmptyFacts DEF ChunkTypeOK
<1>2. Len(src) \in Nat \ {0} /\ Len(buffer) \in Nat
  BY <1>1
<1>3. Todo \in Nat \ {0} /\ Todo <= Len(src) /\ Todo <= Block - Len(buffer)
  BY <1>0, <1>1, <1>2 DEF Todo, Room
<1>4. /\ Head1 \in Seq(Samples) /\ Len(Head1) = Todo
      /\ \A i \in 1 .. Len(Head1) : Head1[i] = src[i]
  BY <1>1, <1>2, <1>3, SubSeqFacts DEF Head1
<1>5. /\ Rest \in Seq(Samples) /\ Len(Rest) = Len(src) - Todo
      /\ \A i \in 1 .. Len(Rest) : Rest[i] = src[Todo + i]
  <2>1. Todo + 1 \in 1 .. Len(src) + 1 /\ Len(src) \in (Todo + 1) - 1 .. Len(src)
    BY <1>2, <1>3
  <2>2. /\ Rest \in Seq(Samples) /\ Len(Rest) = (Len(src) + 1) - (Todo + 1)
        /\ \A i \in 1 .. (Len(src) + 1) - (Todo + 1) : Rest[i] = src[((Todo + 1) - 1) + i]
    BY <1>1, <2>1, SubSeqFacts DEF Rest
  <2>3. (Len(src) + 1) - (Todo + 1) = Len(src) - Todo /\ (Todo + 1) - 1 = Todo
    BY <1>2, <1>3
  <2> QED BY <2>2, <2>3
<1>6. Filled = buffer \o Head1
  BY DEF Filled, Head1
<1> HIDE DEF Head1
<1>7. Filled \in Seq(Samples) /\ Len(Filled) = Len(buffer) + Todo
  BY <1>1, <1>4, <1>6, ConcatFacts
<1>8. Len(Filled) <= Block
  BY <1>0, <1>2, <1>3, <1>7
<1> QED BY <1>0, <1>3, <1>4, <1>5, <1>6, <1>7, <1>8

\* The round takes whole frames, if there were whole frames before.
LEMMA RoundWhole ==
  ASSUME ChunkTypeOK, format \in Formats, src # <<>>,
         Whole(buffer, format.channels), Whole(src, format.channels)
  PROVE  Whole(Head1, format.channels) /\ Whole(Rest, format.channels)
<1> DEFINE c == format.channels
<1>1. c \in Nat \ {0} /\ FilterLen \in Nat \ {0}
  BY DspAssumption
<1>2. PICK a \in Nat : Len(buffer) = a * c
  BY DEF Whole
<1>3. PICK b \in Nat : Len(src) = b * c
  BY DEF Whole
<1>4. /\ Todo \in Nat \ {0} /\ Todo <= Len(src)
      /\ Len(Head1) = Todo /\ Len(Rest) = Len(src) - Todo
      /\ Len(Filled) = Len(buffer) + Todo /\ Len(Filled) <= Block
      /\ Len(src) \in Nat /\ Len(buffer) \in Nat
  <2>1. Len(src) \in Nat /\ Len(buffer) \in Nat
    BY DEF ChunkTypeOK
  <2> HIDE DEF Head1
  <2> QED BY RoundFacts, <2>1
<1>5. Todo = Len(src) \/ Todo = Block - Len(buffer)
  BY DEF Todo, Room
<1>6. CASE Todo = Len(src)
  <2>1. Len(Rest) = 0 * c
    BY <1>1, <1>4, <1>6, SMT
  <2> QED BY <1>3, <1>4, <1>6, <2>1 DEF Whole
<1>7. CASE Todo = Block - Len(buffer)
  <2>1. Block = FilterLen * c
    BY DEF Block
  <2>2. (FilterLen - a) * c = FilterLen * c - a * c
    BY <1>1, SMT
  <2>3. Todo = (FilterLen - a) * c
    BY <1>2, <1>7, <2>1, <2>2
  <2>4. FilterLen - a \in Nat
    <3>1. 0 * c <= (FilterLen - a) * c
      BY <1>1, <1>4, <2>3, SMT
    <3>2. FilterLen - a \in Int /\ 0 <= FilterLen - a
      BY ONLY <1>1, <3>1, TimesLess, a \in Nat
    <3> QED BY <3>2
  <2>5. (b - (FilterLen - a)) * c = b * c - (FilterLen - a) * c
    BY <1>1, <2>4, SMT
  <2>6. Len(Rest) = (b - (FilterLen - a)) * c
    BY <1>3, <1>4, <2>3, <2>5
  <2>7. b - (FilterLen - a) \in Nat
    <3>1. (FilterLen - a) * c <= b * c
      BY <1>3, <1>4, <2>3
    <3>2. FilterLen - a <= b
      BY ONLY <1>1, <2>4, <3>1, TimesLess, b \in Nat
    <3> QED BY <2>4, <3>2
  <2> QED BY <1>4, <2>3, <2>4, <2>6, <2>7 DEF Whole
<1> QED BY <1>5, <1>6, <1>7

LEMMA RoundParts ==
  ASSUME ChunkTypeOK, format \in Formats, src # <<>>
  PROVE  /\ \A i \in 1 .. Len(Head1) : \E k \in 1 .. Len(src) : Head1[i] = src[k]
         /\ \A i \in 1 .. Len(Rest) : \E k \in 1 .. Len(src) : Rest[i] = src[k]
         /\ Ordered(src) => Ordered(Head1) /\ Ordered(Rest) /\ Before(Head1, Rest)
         /\ \A n : Holds(src, n) => Holds(Head1, n) \/ Holds(Rest, n)
<1>1. /\ Todo \in Nat \ {0} /\ Todo <= Len(src) /\ Len(src) \in Nat
      /\ Len(Head1) = Todo /\ Len(Rest) = Len(src) - Todo
      /\ \A i \in 1 .. Len(Head1) : Head1[i] = src[i]
      /\ \A i \in 1 .. Len(Rest) : Rest[i] = src[Todo + i]
  BY RoundFacts DEF ChunkTypeOK
<1> HIDE DEF Head1
<1>2. \A i \in 1 .. Len(Head1) : i \in 1 .. Len(src)
  BY <1>1
<1>3. \A i \in 1 .. Len(Rest) : Todo + i \in 1 .. Len(src)
  BY <1>1
<1>4. ASSUME Ordered(src)
      PROVE  Ordered(Head1)
  BY <1>1, <1>2, <1>4 DEF Ordered
<1>5. ASSUME Ordered(src)
      PROVE  Ordered(Rest)
  <2>1. \A i, j \in 1 .. Len(Rest) : i < j => Todo + i < Todo + j
    BY <1>1
  <2> QED BY <1>1, <1>3, <1>5, <2>1 DEF Ordered
<1>6. ASSUME Ordered(src)
      PROVE  Before(Head1, Rest)
  <2>1. \A i \in 1 .. Len(Head1), j \in 1 .. Len(Rest) : i < Todo + j
    BY <1>1
  <2> QED BY <1>1, <1>2, <1>3, <1>6, <2>1 DEF Ordered, Before
<1>7. ASSUME NEW n, Holds(src, n)
      PROVE  Holds(Head1, n) \/ Holds(Rest, n)
  <2>1. PICK k \in 1 .. Len(src) : ~src[k].stale /\ src[k].seq = n
    BY <1>7 DEF Holds
  <2>2. CASE k <= Todo
    <3>1. k \in 1 .. Len(Head1) /\ Head1[k] = src[k]
      BY <1>1, <2>2
    <3> QED BY <2>1, <3>1 DEF Holds
  <2>3. CASE ~(k <= Todo)
    <3>1. k - Todo \in 1 .. Len(Rest) /\ Todo + (k - Todo) = k
      BY <1>1, <2>3
    <3>2. Rest[k - Todo] = src[k]
      BY <1>1, <3>1
    <3> QED BY <2>1, <3>1, <3>2 DEF Holds
  <2> QED BY <2>2, <2>3
<1> QED BY <1>1, <1>2, <1>3, <1>4, <1>5, <1>6, <1>7

LEMMA ChunkFacts ==
  ASSUME ChunkTypeOK, NEW f \in Formats, NEW k \in ChunkSizes,
         received + k * f.channels <= MaxSamples
  PROVE  /\ Chunk(f, k) \in Seq(Samples) /\ Len(Chunk(f, k)) = k * f.channels
         /\ k * f.channels \in Nat /\ Whole(Chunk(f, k), f.channels)
         /\ Ordered(Chunk(f, k)) /\ Present(Chunk(f, k), f)
         /\ \A w : Delivered(Chunk(f, k), received + k * f.channels, w)
         /\ \A s \in Seq(Samples) : \A w : Delivered(s, received, w) =>
              Before(s, Chunk(f, k)) /\ Delivered(s, received + k * f.channels, w)
         /\ \A n \in 1 .. received + k * f.channels :
              n \in 1 .. received \/ Holds(Chunk(f, k), n)
<1>1. received \in Nat /\ k \in Nat \ {0} /\ MaxSamples \in Nat /\ f.channels \in Nat \ {0}
  BY DspAssumption DEF ChunkTypeOK
<1> DEFINE m == k * f.channels
           c == Chunk(f, k)
<1>2. m \in Nat
  BY <1>1, SMT
<1>3. received + m <= MaxSamples /\ c = [i \in 1 .. m |-> [seq |-> received + i, format |-> f, stale |-> FALSE]]
  BY DEF Chunk
<1> HIDE DEF m
<1>4. \A i \in 1 .. m : [seq |-> received + i, format |-> f, stale |-> FALSE] \in Samples
  BY <1>1, <1>2, <1>3 DEF Samples
<1>5. c \in Seq(Samples) /\ Len(c) = m
  BY <1>2, <1>3, <1>4
<1>6. \A i \in 1 .. m : c[i].seq = received + i /\ c[i].format = f /\ ~c[i].stale
  BY <1>3
<1> HIDE DEF c
<1>7. Ordered(c) /\ Present(c, f) /\ \A w : Delivered(c, received + m, w)
  BY <1>1, <1>2, <1>5, <1>6 DEF Ordered, Present, Delivered
<1>8. ASSUME NEW s \in Seq(Samples), NEW w, Delivered(s, received, w)
      PROVE  Before(s, c) /\ Delivered(s, received + m, w)
  <2>1. \A i \in 1 .. Len(s) :
          s[i].seq \in Int /\ (s[i].stale => w) /\ (~s[i].stale => s[i].seq <= received)
    BY <1>8, SeqOfSample DEF Delivered
  <2>2. Before(s, c)
    <3>1. ASSUME NEW i \in 1 .. Len(s), NEW j \in 1 .. m, ~s[i].stale
          PROVE  s[i].seq < c[j].seq
      <4>1. c[j].seq = received + j
        BY <1>6
      <4>2. s[i].seq \in Int /\ s[i].seq <= received
        BY <2>1, <3>1
      <4> QED BY ONLY <1>1, <4>1, <4>2, j \in 1 .. m
    <3> QED BY <1>5, <3>1 DEF Before
  <2>3. Delivered(s, received + m, w)
    BY <1>1, <1>2, <2>1 DEF Delivered
  <2> QED BY <2>2, <2>3
<1>9. ASSUME NEW n \in 1 .. received + m
      PROVE  n \in 1 .. received \/ Holds(c, n)
  <2>1. CASE n > received
    <3>1. n - received \in 1 .. m /\ received + (n - received) = n
      BY <1>1, <1>2, <2>1
    <3>2. ~c[n - received].stale /\ c[n - received].seq = n
      BY <1>6, <3>1
    <3> QED BY <1>5, <3>1, <3>2 DEF Holds
  <2> QED BY <1>1, <1>2, <2>1
<1>10. Whole(c, f.channels)
  BY <1>1, <1>5 DEF Whole, m
<1> QED BY <1>2, <1>5, <1>7, <1>8, <1>9, <1>10 DEF m, c

LEMMA CountFacts ==
  ASSUME ChunkTypeOK, Whole(buffer, format.channels)
  PROVE  /\ Count \in Nat /\ Count < FilterLen
         /\ Len(buffer) = Count * format.channels
         /\ buffer = <<>> => Count = 0
         /\ buffer # <<>> => format \in Formats
<1>1. buffer \in Seq(Samples) /\ FilterLen \in Nat \ {0}
  BY DspAssumption DEF ChunkTypeOK
<1>2. PICK a \in Nat : Len(buffer) = a * format.channels
  BY DEF Whole
<1>3. CASE buffer = <<>>
  <2>1. format.channels \in Nat
    BY DspAssumption DEF ChunkTypeOK, NoFormat
  <2>2. Count = 0 /\ Len(buffer) = 0
    BY <1>3, EmptyFacts DEF Count
  <2>3. 0 * format.channels = 0
    BY <2>1, SMT
  <2> QED BY <1>1, <1>3, <2>2, <2>3
<1>4. CASE buffer # <<>>
  <2>1. format \in Formats
    <3>1. format = NoFormat => Len(buffer) = 0
      BY <1>2, SMT DEF NoFormat
    <3> QED BY <1>1, <1>4, <3>1 DEF ChunkTypeOK
  <2>2. format.channels \in Nat \ {0}
    BY <2>1, DspAssumption
  <2>3. Count = (a * format.channels) \div format.channels
    BY <1>2, <1>4 DEF Count
  <2>4. Count = a
    BY <2>2, <2>3, SMT
  <2>5. a * format.channels < FilterLen * format.channels
    BY <1>2, <1>4 DEF ChunkTypeOK, Block
  <2>6. a < FilterLen
    BY ONLY <1>1, <2>2, <2>5, TimesLess, a \in Nat
  <2> QED BY <1>2, <1>4, <2>1, <2>4, <2>6
<1> QED BY <1>3, <1>4

\* What a set-up makes of the unfinished block: its samples at their places,
\* then stale ones, and these only for more channels.
LEMMA ReadAnewFacts ==
  ASSUME ChunkTypeOK, Whole(buffer, format.channels), NEW f \in Formats, ReadAnew(f)
  PROVE  /\ buffer' \in Seq(Samples) /\ behind' \in Seq(Samples)
         /\ Len(buffer') < FilterLen * f.channels /\ Whole(buffer', f.channels)
         /\ \A i \in 1 .. Len(buffer') :
              IF i <= Len(buffer) THEN buffer'[i] = buffer[i]
              ELSE buffer'[i].stale /\ widened'
         /\ clean' => clean /\ Len(buffer) <= Len(buffer')
         /\ buffer = <<>> => buffer' = <<>>
<1> DEFINE d == f.channels
           c == format.channels
<1>1. d \in Nat \ {0} /\ FilterLen \in Nat \ {0} /\ buffer \in Seq(Samples) /\ behind \in Seq(Samples)
  BY DspAssumption DEF ChunkTypeOK
<1>2. /\ Count \in Nat /\ Count < FilterLen /\ Len(buffer) = Count * c
      /\ buffer = <<>> => Count = 0
      /\ buffer # <<>> => c \in Nat \ {0}
  BY CountFacts, DspAssumption
<1>3. PICK n \in Nat : n = Count * d
  BY <1>1, <1>2, SMT
<1>4. PICK r \in Nat : r = (FilterLen - Count) * d
  <2>1. FilterLen - Count \in Nat
    BY <1>1, <1>2
  <2> QED BY <1>1, <2>1, SMT
<1>5. ASSUME NEW i \in Nat \ {0}
      PROVE  Kept(i) \in Samples /\ (i > Len(buffer) => Kept(i).stale)
  <2>1. CASE i <= Len(buffer)
    <3>1. i \in 1 .. Len(buffer) /\ Kept(i) = buffer[i]
      BY <1>1, <2>1 DEF Kept
    <3> QED BY <1>1, <2>1, <3>1
  <2>2. CASE i > Len(buffer) /\ i <= Len(buffer) + Len(behind)
    <3>1. i - Len(buffer) \in 1 .. Len(behind)
      BY <1>1, <2>2
    <3>2. PICK b \in Samples : b = behind[i - Len(buffer)]
      BY <1>1, <3>1
    <3>3. Kept(i) = [b EXCEPT !.stale = TRUE]
      BY <1>1, <2>2, <3>2 DEF Kept
    <3> QED BY <3>3 DEF Samples
  <2>3. CASE i > Len(buffer) /\ ~(i <= Len(buffer) + Len(behind))
    <3>1. Kept(i) = Unwritten
      BY <1>1, <2>3 DEF Kept
    <3>2. Unwritten \in Samples /\ Unwritten.stale
      BY DspAssumption DEF Unwritten, Samples
    <3> QED BY <3>1, <3>2
  <2> QED BY <1>1, <2>1, <2>2, <2>3
<1>6. /\ buffer' = [i \in 1 .. n |-> Kept(i)]
      /\ behind' = [i \in 1 .. r |-> Kept(n + i)]
  BY <1>3, <1>4 DEF ReadAnew
<1> HIDE DEF Count, Kept
<1>7. buffer' \in Seq(Samples) /\ Len(buffer') = n /\ \A i \in 1 .. n : buffer'[i] = Kept(i)
  BY <1>5, <1>6
<1>8. behind' \in Seq(Samples)
  <2>1. \A i \in 1 .. r : n + i \in Nat \ {0}
    OBVIOUS
  <2> QED BY <1>5, <1>6, <2>1
<1>9. Len(buffer') < FilterLen * d /\ Whole(buffer', d)
  BY <1>1, <1>2, <1>3, <1>7, TimesLess DEF Whole
<1>10. n > Len(buffer) => widened'
  <2>1. buffer = <<>> => n = 0
    BY <1>1, <1>2, <1>3, SMT
  <2>2. ASSUME buffer # <<>>, n > Len(buffer)
        PROVE  d > c
    <3>1. c \in Nat \ {0}
      BY <1>2, <2>2
    <3>2. PICK e \in Nat : e = Count
      BY <1>2
    <3>3. e * c < e * d
      BY <1>2, <1>3, <2>2, <3>2
    <3>4. d <= c => e * d <= e * c
      BY ONLY <1>1, <3>1, e \in Nat, d \in Nat \ {0}, SMTT(30)
    <3>5. e * c \in Int /\ e * d \in Int
      BY <1>1, <3>1, SMT
    <3> QED BY ONLY <1>1, <3>1, <3>3, <3>4, <3>5
  <2>3. buffer = <<>> => ~(n > Len(buffer))
    <3>1. Len(buffer) \in Nat
      BY <1>1
    <3> QED BY <2>1, <3>1
  <2>4. buffer # <<>> /\ d > c => widened'
    BY DEF ReadAnew
  <2> QED BY <2>2, <2>3, <2>4
<1>11. clean' => clean /\ Len(buffer) <= n
  <2>1. buffer = <<>> => Len(buffer) <= n
    BY EmptyFacts
  <2>2. ASSUME buffer # <<>>, d >= c
        PROVE  Len(buffer) <= n
    <3>1. c \in Nat \ {0}
      BY <1>2, <2>2
    <3>2. PICK e \in Nat : e = Count
      BY <1>2
    <3>3. e * c <= e * d
      BY ONLY <1>1, <2>2, <3>1, e \in Nat, SMTT(30)
    <3> QED BY <1>2, <1>3, <3>2, <3>3
  <2> QED BY <2>1, <2>2 DEF ReadAnew
<1>12. \A i \in 1 .. n : IF i <= Len(buffer) THEN buffer'[i] = buffer[i]
                         ELSE buffer'[i].stale /\ widened'
  <2> SUFFICES ASSUME NEW i \in 1 .. n
               PROVE  IF i <= Len(buffer) THEN buffer'[i] = buffer[i]
                      ELSE buffer'[i].stale /\ widened'
    OBVIOUS
  <2>1. i \in Nat \ {0} /\ buffer'[i] = Kept(i) /\ Len(buffer) \in Nat
    BY <1>1, <1>7
  <2>2. i <= Len(buffer) => Kept(i) = buffer[i]
    BY DEF Kept
  <2> QED BY <1>5, <1>10, <2>1, <2>2
<1>13. buffer = <<>> => buffer' = <<>>
  BY <1>1, <1>2, <1>3, <1>6, SMT
<1> QED BY <1>7, <1>8, <1>9, <1>11, <1>12, <1>13

-----------------------------------------------------------------------------
(* The invariant.                                                          *)

OrderInv ==
  /\ Ordered(out) /\ Ordered(buffer) /\ Ordered(src)
  /\ Before(out, buffer) /\ Before(out, src) /\ Before(buffer, src)
  /\ Delivered(out, received, widened) /\ Delivered(buffer, received, widened)
  /\ Delivered(src, received, widened)

FormatInv ==
  /\ pc = "busy" => Present(src, format) /\ format \in Formats
  /\ blocks > 0 => Present(buffer, format)
  /\ Whole(buffer, format.channels) /\ Whole(src, format.channels)

PointerInv ==
  /\ pc = "idle" => src = <<>>
  /\ filter = "null" => buffer = <<>>
  /\ filter = "freed" => bare
  /\ equalizer = "garbage" => format = NoFormat
  /\ pc = "crashed" => bare \/ format = NoFormat

CountInv ==
  clean => \A n \in 1 .. received : Holds(out, n) \/ Holds(buffer, n) \/ Holds(src, n)

Invariant == ChunkTypeOK /\ OrderInv /\ FormatInv /\ PointerInv /\ CountInv

LEMMA Starts == ChunkInit => Invariant
<1> SUFFICES ASSUME ChunkInit
             PROVE  Invariant
  OBVIOUS
<1>1. out = <<>> /\ buffer = <<>> /\ behind = <<>> /\ src = <<>>
  BY DEF ChunkInit
<1>2. ChunkTypeOK
  <2>1. buffer \in Seq(Samples) /\ behind \in Seq(Samples) /\ src \in Seq(Samples) /\ out \in Seq(Samples)
    BY <1>1, EmptyFacts
  <2>2. received \in 0 .. MaxSamples
    BY DspAssumption DEF ChunkInit
  <2> QED BY <1>1, <2>1, <2>2 DEF ChunkInit, ChunkTypeOK
<1>3. OrderInv
  BY <1>1, EmptyFacts DEF OrderInv
<1>4. FormatInv
  <2>1. Whole(<<>>, 0)
    BY EmptyFacts, 0 = 0 * 0, 0 \in Nat DEF Whole
  <2> QED BY <1>1, <2>1 DEF ChunkInit, FormatInv, NoFormat
<1>5. PointerInv /\ CountInv
  BY DEF ChunkInit, PointerInv, CountInv
<1> QED BY <1>2, <1>3, <1>4, <1>5 DEF Invariant

\* What a chunk brings, whatever the format was before.
LEMMA DeliverFacts ==
  ASSUME Invariant, NEW f \in Formats, NEW k \in ChunkSizes, Deliver(f, k)
  PROVE  /\ src = <<>> /\ src' \in Seq(Samples) /\ Whole(src', f.channels)
         /\ Ordered(src') /\ Present(src', f)
         /\ \A w : Delivered(src', received', w)
         /\ \A s \in Seq(Samples) : \A w : Delivered(s, received, w) =>
              Before(s, src') /\ Delivered(s, received', w)
         /\ \A n \in 1 .. received' : n \in 1 .. received \/ Holds(src', n)
         /\ received' \in 0 .. MaxSamples /\ pc' = "busy" /\ UNCHANGED <<passed, out>>
<1>1. ChunkTypeOK /\ PointerInv
  BY DEF Invariant
<1>2. /\ received + k * f.channels <= MaxSamples /\ src' = Chunk(f, k)
      /\ received' = received + k * f.channels
      /\ pc = "idle" /\ pc' = "busy" /\ UNCHANGED <<passed, out>>
  BY DEF Deliver
<1>3. src = <<>>
  BY <1>1, <1>2 DEF PointerInv
<1>4. received' \in 0 .. MaxSamples
  <2>1. k * f.channels \in Nat /\ received \in Nat /\ MaxSamples \in Nat
    BY <1>1, <1>2, ChunkFacts, DspAssumption DEF ChunkTypeOK
  <2> QED BY <1>2, <2>1
<1> HIDE DEF Chunk
<1> QED BY <1>1, <1>2, <1>3, <1>4, ChunkFacts

LEMMA SameFormatKeeps ==
  ASSUME Invariant, NEW f \in Formats, NEW k \in ChunkSizes, OnChunkSameFormat(f, k)
  PROVE  Invariant'
<1>1. ChunkTypeOK /\ OrderInv /\ FormatInv /\ PointerInv /\ CountInv
  BY DEF Invariant
<1>2. /\ src = <<>> /\ src' \in Seq(Samples) /\ Whole(src', f.channels)
      /\ Ordered(src') /\ Present(src', f)
      /\ \A w : Delivered(src', received', w)
      /\ \A s \in Seq(Samples) : \A w : Delivered(s, received, w) =>
           Before(s, src') /\ Delivered(s, received', w)
      /\ \A n \in 1 .. received' : n \in 1 .. received \/ Holds(src', n)
      /\ received' \in 0 .. MaxSamples /\ pc' = "busy" /\ UNCHANGED <<passed, out>>
  BY DeliverFacts DEF OnChunkSameFormat
<1>3. /\ f = format
      /\ UNCHANGED <<format, filter, equalizer, buffer, behind, clean, widened, setup, blocks, bare>>
  BY DEF OnChunkSameFormat, memory
<1>4. ChunkTypeOK'
  BY <1>1, <1>2, <1>3 DEF ChunkTypeOK, Block
<1>5. OrderInv'
  BY <1>1, <1>2, <1>3 DEF OrderInv, ChunkTypeOK
<1>6. FormatInv'
  BY <1>1, <1>2, <1>3 DEF FormatInv
<1>7. PointerInv'
  BY <1>1, <1>2, <1>3 DEF PointerInv
<1>8. CountInv'
  <2>1. \A n : ~Holds(src, n)
    BY <1>2, EmptyFacts DEF Holds
  <2> QED BY <1>1, <1>2, <1>3, <2>1 DEF CountInv
<1> QED BY <1>4, <1>5, <1>6, <1>7, <1>8 DEF Invariant

LEMMA NewFormatKeeps ==
  ASSUME Invariant, NEW f \in Formats, NEW k \in ChunkSizes, NEW s \in Setups,
         OnChunkNewFormat(f, k, s)
  PROVE  Invariant'
<1>1. ChunkTypeOK /\ OrderInv /\ FormatInv /\ PointerInv /\ CountInv
  BY DEF Invariant
<1>2. /\ src = <<>> /\ src' \in Seq(Samples) /\ Whole(src', f.channels)
      /\ Ordered(src') /\ Present(src', f)
      /\ \A w : Delivered(src', received', w)
      /\ \A r \in Seq(Samples) : \A w : Delivered(r, received, w) =>
           Before(r, src') /\ Delivered(r, received', w)
      /\ \A n \in 1 .. received' : n \in 1 .. received \/ Holds(src', n)
      /\ received' \in 0 .. MaxSamples /\ pc' = "busy" /\ UNCHANGED <<passed, out>>
  BY DeliverFacts DEF OnChunkNewFormat
<1>3. /\ format' = f /\ setup' = s /\ equalizer' = "live" /\ filter' = FilterAfter(s)
      /\ bare' = (bare \/ filter' = "freed") /\ blocks' = 0 /\ ReadAnew(f)
  BY DEF OnChunkNewFormat, SetUp
<1>4. clean' \in BOOLEAN /\ widened' \in BOOLEAN /\ (widened => widened')
  <2>1. clean \in BOOLEAN /\ widened \in BOOLEAN
    BY <1>1 DEF ChunkTypeOK
  <2> QED BY <1>3, <2>1 DEF ReadAnew
<1>5. /\ buffer' \in Seq(Samples) /\ behind' \in Seq(Samples)
      /\ Len(buffer') < FilterLen * f.channels /\ Whole(buffer', f.channels)
      /\ \A i \in 1 .. Len(buffer') :
           IF i <= Len(buffer) THEN buffer'[i] = buffer[i]
           ELSE buffer'[i].stale /\ widened'
      /\ clean' => clean /\ Len(buffer) <= Len(buffer')
      /\ buffer = <<>> => buffer' = <<>>
  BY <1>1, <1>3, ReadAnewFacts DEF FormatInv
<1>6. /\ buffer \in Seq(Samples) /\ out \in Seq(Samples) /\ Len(buffer) \in Nat /\ Len(buffer') \in Nat
  BY <1>1, <1>5 DEF ChunkTypeOK
<1>7. ChunkTypeOK'
  <2>1. filter' \in {"null", "ready", "uninitialized", "freed"} /\ bare' \in BOOLEAN
    BY <1>1, <1>3 DEF ChunkTypeOK, FilterAfter
  <2>2. Len(buffer') < Block'
    BY <1>3, <1>5 DEF Block
  <2>3. out' \in Seq(Samples) /\ passed' \in BOOLEAN /\ blocks' \in Nat
    BY <1>1, <1>2, <1>3 DEF ChunkTypeOK
  <2> QED BY <1>2, <1>3, <1>4, <1>5, <2>1, <2>2, <2>3 DEF ChunkTypeOK
<1> HIDE DEF ReadAnew, FilterAfter
<1>8. \A i \in 1 .. Len(buffer') : ~buffer'[i].stale => i \in 1 .. Len(buffer) /\ buffer'[i] = buffer[i]
  BY <1>5, <1>6
<1>9. Ordered(buffer') /\ Before(out, buffer')
  BY <1>1, <1>8 DEF OrderInv, Ordered, Before
<1>10. Delivered(buffer', received, widened')
  <2>1. ASSUME NEW i \in 1 .. Len(buffer')
        PROVE  /\ ~buffer'[i].stale => buffer'[i].seq <= received
               /\ buffer'[i].stale => widened'
    <3>1. Delivered(buffer, received, widened)
      BY <1>1 DEF OrderInv
    <3>2. CASE i <= Len(buffer)
      <4>1. i \in 1 .. Len(buffer) /\ buffer'[i] = buffer[i]
        BY <1>5, <1>6, <3>2
      <4> QED BY <1>4, <3>1, <4>1 DEF Delivered
    <3>3. CASE ~(i <= Len(buffer))
      BY <1>5, <3>3
    <3> QED BY <3>2, <3>3
  <2> QED BY <2>1 DEF Delivered
<1>11. OrderInv'
  <2>1. Delivered(out, received, widened')
    BY <1>1, <1>4 DEF OrderInv, Delivered
  <2>2. Before(out, src') /\ Delivered(out, received', widened')
    BY <1>2, <1>6, <2>1
  <2>3. Before(buffer', src') /\ Delivered(buffer', received', widened')
    BY <1>2, <1>5, <1>10
  <2>4. Ordered(out) /\ out' = out
    BY <1>1, <1>2 DEF OrderInv
  <2>5. Delivered(src', received', widened')
    BY <1>2
  <2> QED BY <1>2, <1>9, <2>2, <2>3, <2>4, <2>5 DEF OrderInv
<1>12. FormatInv'
  BY <1>2, <1>3, <1>5 DEF FormatInv
<1>13. PointerInv'
  BY <1>1, <1>2, <1>3, <1>5 DEF PointerInv, FilterAfter
<1>14. CountInv'
  <2> SUFFICES ASSUME clean', NEW n \in 1 .. received'
               PROVE  Holds(out', n) \/ Holds(buffer', n) \/ Holds(src', n)
    BY DEF CountInv
  <2>1. ~Holds(src, n)
    BY <1>2, EmptyFacts DEF Holds
  <2>2. n \in 1 .. received => Holds(out, n) \/ Holds(buffer, n)
    BY <1>1, <1>5, <2>1 DEF CountInv
  <2>3. ASSUME Holds(buffer, n)
        PROVE  Holds(buffer', n)
    <3>1. PICK i \in 1 .. Len(buffer) : ~buffer[i].stale /\ buffer[i].seq = n
      BY <2>3 DEF Holds
    <3>2. i \in 1 .. Len(buffer') /\ buffer'[i] = buffer[i]
      BY <1>5, <1>6
    <3> QED BY <3>1, <3>2 DEF Holds
  <2> QED BY <1>2, <2>2, <2>3
<1> QED BY <1>7, <1>11, <1>12, <1>13, <1>14 DEF Invariant

LEMMA PassThroughKeeps ==
  ASSUME Invariant, PassThrough
  PROVE  Invariant'
<1> USE DEF PassThrough, Return, memory
<1>1. ChunkTypeOK /\ OrderInv /\ FormatInv /\ PointerInv /\ CountInv
  BY DEF Invariant
<1>2. buffer = <<>> /\ buffer' = <<>> /\ src' = <<>> /\ received' = received /\ widened' = widened
  BY <1>1 DEF PointerInv
<1>3. out' \in Seq(Samples) /\ \A n : Holds(out', n) <=> Holds(out, n) \/ Holds(src, n)
  BY <1>1, ConcatFacts, ConcatHolds DEF ChunkTypeOK
<1>4. Ordered(out') /\ Delivered(out', received, widened)
  BY <1>1, ConcatOrdered, ConcatParts DEF OrderInv, ChunkTypeOK
<1>5. ChunkTypeOK'
  BY <1>1, <1>2, <1>3, EmptyFacts DEF ChunkTypeOK
<1>6. OrderInv'
  BY <1>2, <1>3, <1>4, EmptyFacts DEF OrderInv
<1>7. FormatInv'
  <2>1. Whole(buffer, format.channels)
    BY <1>1 DEF FormatInv
  <2> QED BY <1>2, <2>1, EmptyFacts DEF FormatInv
<1>8. PointerInv'
  BY <1>1, <1>2 DEF PointerInv
<1>9. CountInv'
  <2>1. \A n : ~Holds(buffer, n)
    BY <1>2, EmptyFacts DEF Holds
  <2> QED BY <1>1, <1>2, <1>3, <2>1 DEF CountInv
<1> QED BY <1>5, <1>6, <1>7, <1>8, <1>9 DEF Invariant

\* Nothing is a number of whole frames.
LEMMA EmptyWhole ==
  ASSUME ChunkTypeOK
  PROVE  Whole(<<>>, format.channels)
<1>1. format.channels \in Nat
  BY DspAssumption DEF ChunkTypeOK, NoFormat
<1>2. 0 * format.channels = 0
  BY <1>1, SMT
<1> QED BY <1>2, EmptyFacts DEF Whole

LEMMA SwallowKeeps ==
  ASSUME Invariant, pc = "busy", Swallow
  PROVE  Invariant'
<1> USE DEF Swallow, Return, memory
<1>1. ChunkTypeOK /\ OrderInv /\ FormatInv /\ PointerInv /\ CountInv
  BY DEF Invariant
<1>2. src' = <<>>
  OBVIOUS
<1>3. ChunkTypeOK'
  BY <1>1, <1>2, EmptyFacts DEF ChunkTypeOK, Block
<1>4. OrderInv'
  BY <1>1, <1>2, EmptyFacts DEF OrderInv, ChunkTypeOK
<1>5. FormatInv'
  BY <1>1, <1>2, EmptyWhole DEF FormatInv
<1>6. PointerInv' /\ CountInv'
  BY <1>1, <1>2 DEF PointerInv, CountInv
<1> QED BY <1>3, <1>4, <1>5, <1>6 DEF Invariant

\* The crashes, for they leave the data as it is; so do the returns.
LEMMA SameDataKeeps ==
  ASSUME Invariant, UNCHANGED <<format, memory, stream, setup, bare>>, passed' \in BOOLEAN,
         pc' \in {"idle", "busy", "gone", "crashed"},
         pc' = "idle" => src = <<>>, pc' = "busy" => pc = "busy",
         pc' = "crashed" => bare \/ format = NoFormat
  PROVE  Invariant'
<1> USE DEF memory, stream
<1>1. ChunkTypeOK /\ OrderInv /\ FormatInv /\ PointerInv /\ CountInv
  BY DEF Invariant
<1>2. ChunkTypeOK' /\ OrderInv'
  BY <1>1 DEF ChunkTypeOK, Block, OrderInv
<1>3. FormatInv' /\ PointerInv' /\ CountInv'
  BY <1>1 DEF FormatInv, PointerInv, CountInv
<1> QED BY <1>2, <1>3 DEF Invariant

\* What a round does to the order, the formats and the count of the samples,
\* whether the block is full after it or not.
LEMMA RoundKeeps ==
  ASSUME Invariant, Looping
  PROVE  /\ Filled \in Seq(Samples) /\ Rest \in Seq(Samples)
         /\ Ordered(Filled) /\ Ordered(Rest) /\ Before(out, Filled) /\ Before(out, Rest)
         /\ Before(Filled, Rest)
         /\ Delivered(Filled, received, widened) /\ Delivered(Rest, received, widened)
         /\ Present(Rest, format) /\ (blocks > 0 => Present(Filled, format))
         /\ Whole(Filled, format.channels) /\ Whole(Rest, format.channels)
         /\ \A n : Holds(buffer, n) \/ Holds(src, n) => Holds(Filled, n) \/ Holds(Rest, n)
<1>1. ChunkTypeOK /\ OrderInv /\ FormatInv /\ src # <<>> /\ pc = "busy" /\ format \in Formats
  BY DEF Invariant, Looping, FormatInv
<1>2. /\ Head1 \in Seq(Samples) /\ Rest \in Seq(Samples) /\ Filled \in Seq(Samples)
      /\ Filled = buffer \o Head1
  BY <1>1, RoundFacts
<1>3. /\ \A i \in 1 .. Len(Head1) : \E k \in 1 .. Len(src) : Head1[i] = src[k]
      /\ \A i \in 1 .. Len(Rest) : \E k \in 1 .. Len(src) : Rest[i] = src[k]
      /\ Ordered(Head1) /\ Ordered(Rest) /\ Before(Head1, Rest)
      /\ \A n : Holds(src, n) => Holds(Head1, n) \/ Holds(Rest, n)
  BY <1>1, RoundParts DEF OrderInv
<1>4. Whole(Head1, format.channels) /\ Whole(Rest, format.channels)
  BY <1>1, RoundWhole DEF FormatInv
<1>5. out \in Seq(Samples) /\ buffer \in Seq(Samples) /\ src \in Seq(Samples)
  BY <1>1 DEF ChunkTypeOK
<1>6. /\ Ordered(out) /\ Ordered(buffer) /\ Before(out, buffer) /\ Before(out, src) /\ Before(buffer, src)
      /\ Delivered(buffer, received, widened) /\ Delivered(src, received, widened)
      /\ Present(src, format) /\ (blocks > 0 => Present(buffer, format))
      /\ Whole(buffer, format.channels)
  BY <1>1 DEF OrderInv, FormatInv
<1> HIDE DEF Head1, Filled, Rest
<1>7. /\ Before(out, Head1) /\ Before(buffer, Head1) /\ Delivered(Head1, received, widened)
      /\ Present(Head1, format)
  BY ONLY <1>2, <1>3, <1>5, <1>6, PartFacts
<1>8. /\ Before(out, Rest) /\ Before(buffer, Rest) /\ Delivered(Rest, received, widened)
      /\ Present(Rest, format)
  BY ONLY <1>2, <1>3, <1>5, <1>6, PartFacts
<1>9. Ordered(Filled)
  BY ONLY <1>2, <1>3, <1>5, <1>6, <1>7, ConcatOrdered
<1>10. Before(out, Filled) /\ Before(Filled, Rest)
  BY ONLY <1>2, <1>3, <1>5, <1>6, <1>7, <1>8, ConcatBefore
<1>11. Delivered(Filled, received, widened) /\ (blocks > 0 => Present(Filled, format))
  BY ONLY <1>2, <1>5, <1>6, <1>7, ConcatParts
<1>12. Whole(Filled, format.channels)
  <2>1. format.channels \in Nat
    BY <1>1, DspAssumption
  <2> QED BY ONLY <1>2, <1>4, <1>5, <1>6, <2>1, ConcatWhole
<1>13. \A n : Holds(buffer, n) \/ Holds(src, n) => Holds(Filled, n) \/ Holds(Rest, n)
  BY ONLY <1>2, <1>3, <1>5, ConcatHolds
<1> QED BY <1>2, <1>3, <1>4, <1>8, <1>9, <1>10, <1>11, <1>12, <1>13

LEMMA CollectKeeps ==
  ASSUME Invariant, Collect
  PROVE  Invariant'
<1>1. ChunkTypeOK /\ OrderInv /\ FormatInv /\ PointerInv /\ CountInv
  BY DEF Invariant
<1>2. /\ Looping /\ Len(Filled) # Block
      /\ buffer' = Filled /\ behind' = SubSeq(behind, Todo + 1, Len(behind)) /\ src' = Rest
      /\ UNCHANGED <<format, filter, equalizer, out, received, clean, widened, blocks, pc, passed, setup, bare>>
  BY DEF Collect, memory
<1>3. format \in Formats /\ src # <<>> /\ filter # "null"
  BY <1>1, <1>2 DEF Looping, Usable, FormatInv
<1>4. /\ Filled \in Seq(Samples) /\ Rest \in Seq(Samples)
      /\ Ordered(Filled) /\ Ordered(Rest) /\ Before(out, Filled) /\ Before(out, Rest)
      /\ Before(Filled, Rest)
      /\ Delivered(Filled, received, widened) /\ Delivered(Rest, received, widened)
      /\ Present(Rest, format) /\ (blocks > 0 => Present(Filled, format))
      /\ Whole(Filled, format.channels) /\ Whole(Rest, format.channels)
      /\ \A n : Holds(buffer, n) \/ Holds(src, n) => Holds(Filled, n) \/ Holds(Rest, n)
  BY <1>2, RoundKeeps
<1>5. Len(Filled) < Block /\ Todo \in Nat
  <2>1. Len(Filled) <= Block /\ Block \in Nat /\ Todo \in Nat
    BY <1>1, <1>3, RoundFacts
  <2>2. Len(Filled) \in Nat
    BY <1>4
  <2> QED BY <1>2, <2>1, <2>2
<1>6. behind' \in Seq(Samples)
  <2>1. behind \in Seq(Samples) /\ Len(behind) \in Nat
    BY <1>1 DEF ChunkTypeOK
  <2>2. CASE Todo <= Len(behind)
    <3>1. Todo + 1 \in 1 .. Len(behind) + 1 /\ Len(behind) \in (Todo + 1) - 1 .. Len(behind)
      BY <1>5, <2>1, <2>2
    <3> QED BY <1>2, <2>1, <3>1, SubSeqFacts
  <2>3. CASE ~(Todo <= Len(behind))
    <3>1. behind' = <<>>
      BY <1>2, <1>5, <2>1, <2>3
    <3> QED BY <3>1, EmptyFacts
  <2> QED BY <2>2, <2>3
<1> HIDE DEF Filled, Rest
<1>7. ChunkTypeOK'
  BY <1>1, <1>2, <1>4, <1>5, <1>6 DEF ChunkTypeOK, Block
<1>8. OrderInv'
  BY <1>1, <1>2, <1>4 DEF OrderInv
<1>9. FormatInv'
  BY <1>2, <1>3, <1>4 DEF FormatInv
<1>10. PointerInv'
  BY <1>1, <1>2, <1>3 DEF PointerInv, Looping
<1>11. CountInv'
  BY <1>1, <1>2, <1>4 DEF CountInv
<1> QED BY <1>7, <1>8, <1>9, <1>10, <1>11 DEF Invariant

LEMMA RunBlockKeeps ==
  ASSUME Invariant, RunBlock
  PROVE  Invariant'
<1>1. ChunkTypeOK /\ OrderInv /\ FormatInv /\ PointerInv /\ CountInv
  BY DEF Invariant
<1>2. /\ Looping /\ src' = Rest /\ buffer' = <<>> /\ behind' = Filled /\ blocks' = blocks + 1
      /\ \/ out' = out \o Filled /\ clean' = clean
         \/ out' = out /\ clean' = FALSE
      /\ UNCHANGED <<format, filter, equalizer, received, widened, pc, passed, setup, bare>>
  BY DEF RunBlock, memory
<1>3. format \in Formats /\ src # <<>> /\ filter # "null" /\ pc = "busy"
  BY <1>1, <1>2 DEF Looping, Usable, FormatInv
<1>4. /\ Filled \in Seq(Samples) /\ Rest \in Seq(Samples)
      /\ Ordered(Filled) /\ Ordered(Rest) /\ Before(out, Filled) /\ Before(out, Rest)
      /\ Before(Filled, Rest)
      /\ Delivered(Filled, received, widened) /\ Delivered(Rest, received, widened)
      /\ Present(Rest, format) /\ (blocks > 0 => Present(Filled, format))
      /\ Whole(Filled, format.channels) /\ Whole(Rest, format.channels)
      /\ \A n : Holds(buffer, n) \/ Holds(src, n) => Holds(Filled, n) \/ Holds(Rest, n)
  BY <1>2, RoundKeeps
<1> HIDE DEF Filled, Rest
<1>5. out \in Seq(Samples) /\ Ordered(out) /\ Delivered(out, received, widened)
  BY <1>1 DEF ChunkTypeOK, OrderInv
<1>6. /\ out \o Filled \in Seq(Samples)
      /\ Ordered(out \o Filled) /\ Delivered(out \o Filled, received, widened)
      /\ Before(out \o Filled, Rest)
      /\ \A n : Holds(out, n) \/ Holds(Filled, n) => Holds(out \o Filled, n)
  BY ONLY <1>4, <1>5, ConcatFacts, ConcatOrdered, ConcatParts, ConcatBefore, ConcatHolds
<1>7. /\ out' \in Seq(Samples) /\ Ordered(out') /\ Delivered(out', received, widened)
      /\ Before(out', Rest)
  BY <1>2, <1>4, <1>5, <1>6
<1>8. ChunkTypeOK'
  <2>1. blocks' \in Nat /\ clean' \in BOOLEAN
    <3>1. clean \in BOOLEAN /\ blocks \in Nat
      BY <1>1 DEF ChunkTypeOK
    <3>2. (clean' = clean \/ clean' = FALSE) /\ blocks' = blocks + 1
      BY <1>2
    <3>3. clean' \in BOOLEAN
      BY ONLY <3>1, <3>2
    <3>4. blocks' \in Nat
      BY ONLY <3>1, <3>2
    <3> QED BY <3>3, <3>4
  <2>2. buffer' = <<>> /\ behind' \in Seq(Samples) /\ src' \in Seq(Samples)
    BY <1>2, <1>4
  <2>3. UNCHANGED <<format, filter, equalizer, received, widened, pc, passed, setup, bare>>
    BY <1>2
  <2> QED BY ONLY <1>1, <1>7, <2>1, <2>2, <2>3, EmptyFacts DEF ChunkTypeOK
<1>9. OrderInv'
  BY <1>2, <1>4, <1>7, EmptyFacts DEF OrderInv
<1>10. FormatInv'
  BY <1>1, <1>2, <1>3, <1>4, EmptyFacts, EmptyWhole DEF FormatInv
<1>11. PointerInv'
  BY <1>1, <1>2, <1>3 DEF PointerInv
<1>12. CountInv'
  BY <1>1, <1>2, <1>4, <1>6 DEF CountInv
<1> QED BY <1>8, <1>9, <1>10, <1>11, <1>12 DEF Invariant

LEMMA FlushKeeps ==
  ASSUME Invariant, Flush
  PROVE  Invariant'
<1>1. ChunkTypeOK /\ OrderInv /\ FormatInv /\ PointerInv /\ CountInv
  BY DEF Invariant
<1>2. /\ buffer' = <<>> /\ behind' = buffer \o behind /\ clean' = (clean /\ buffer = <<>>)
      /\ UNCHANGED <<format, filter, equalizer, src, out, received, widened, blocks, pc, passed, setup, bare>>
  BY DEF Flush, memory
<1>3. ChunkTypeOK'
  <2>1. behind' \in Seq(Samples)
    BY <1>1, <1>2, ConcatFacts DEF ChunkTypeOK
  <2>2. clean' \in BOOLEAN
    BY <1>1, <1>2 DEF ChunkTypeOK
  <2> QED BY <1>1, <1>2, <2>1, <2>2, EmptyFacts DEF ChunkTypeOK
<1>4. OrderInv'
  BY <1>1, <1>2, EmptyFacts DEF OrderInv, ChunkTypeOK
<1>5. FormatInv'
  BY <1>1, <1>2, EmptyFacts, EmptyWhole DEF FormatInv
<1>6. PointerInv' /\ CountInv'
  BY <1>1, <1>2 DEF PointerInv, CountInv
<1> QED BY <1>3, <1>4, <1>5, <1>6 DEF Invariant

-----------------------------------------------------------------------------
(* The properties.                                                         *)

LEMMA StepKeeps == Invariant /\ [ChunkNext]_chunkVars => Invariant'
<1> SUFFICES ASSUME Invariant, [ChunkNext]_chunkVars
             PROVE  Invariant'
  OBVIOUS
<1>0. ChunkTypeOK /\ FormatInv /\ PointerInv
  BY DEF Invariant
<1>1. CASE \E f \in Formats : \E k \in ChunkSizes :
             OnChunkSameFormat(f, k) \/ \E s \in Setups : OnChunkNewFormat(f, k, s)
  BY <1>1, SameFormatKeeps, NewFormatKeeps
<1>2. CASE \E f \in Formats : OnChunkDeletesTwice(f)
  BY <1>0, <1>2, SameDataKeeps DEF OnChunkDeletesTwice, Crash, PointerInv, ChunkTypeOK
<1>3. CASE PassThrough
  BY <1>3, PassThroughKeeps
<1>4. CASE SwallowUninitialized
  BY <1>4, SwallowKeeps DEF SwallowUninitialized
<1>5. CASE UseFreed
  <2>1. CASE pc = "busy" /\ Swallow
    BY <2>1, SwallowKeeps
  <2>2. CASE filter = "freed" /\ Crash
    BY <1>0, <2>2, SameDataKeeps DEF Crash, PointerInv, ChunkTypeOK
  <2> QED BY <1>5, <2>1, <2>2 DEF UseFreed
<1>6. CASE Collect
  BY <1>6, CollectKeeps
<1>7. CASE RunBlock
  BY <1>7, RunBlockKeeps
<1>8. CASE ReturnReplaced
  BY <1>8, SameDataKeeps DEF ReturnReplaced, Return, stream
<1>9. CASE Flush
  BY <1>9, FlushKeeps
<1>10. CASE Destroy
  BY <1>0, <1>10, SameDataKeeps DEF Destroy, PointerInv, ChunkTypeOK
<1>11. CASE UNCHANGED chunkVars
  BY <1>0, <1>11, SameDataKeeps DEF chunkVars, PointerInv, ChunkTypeOK
<1> QED BY <1>1, <1>2, <1>3, <1>4, <1>5, <1>6, <1>7, <1>8, <1>9, <1>10, <1>11
        DEF ChunkNext, OnChunkStep

LEMMA InvariantHolds == ChunkSpec => []Invariant
BY Starts, StepKeeps, PTL DEF ChunkSpec

\* What is put out, the buffer and the rest of the chunk are in the order of
\* delivery and hold no sample twice, but for the samples that an unfinished
\* block takes in when the format changes to more channels: the loop of
\* foo_dsp_bfir.cpp:307-350 and the buffer of 291-293.
THEOREM NoFrameTwice == ChunkSpec => []InOrder
<1>1. Invariant => InOrder
  <2> SUFFICES ASSUME Invariant
               PROVE  InOrder
    OBVIOUS
  <2>1. ChunkTypeOK /\ OrderInv
    BY DEF Invariant
  <2>2. /\ out \in Seq(Samples) /\ buffer \in Seq(Samples) /\ src \in Seq(Samples)
        /\ out \o buffer \in Seq(Samples) /\ InHand \in Seq(Samples)
    BY <2>1 DEF ChunkTypeOK, InHand
  <2>3. Ordered(out \o buffer) /\ Before(out \o buffer, src) /\ Delivered(out \o buffer, received, widened)
    BY <2>1, <2>2, ConcatOrdered, ConcatBefore, ConcatParts DEF OrderInv
  <2>4. Ordered(InHand) /\ Delivered(InHand, received, widened)
    BY <2>1, <2>2, <2>3, ConcatOrdered, ConcatParts DEF InHand, OrderInv
  <2> QED BY <2>1, <2>4 DEF InOrder, Ordered, Delivered
<1> QED BY <1>1, InvariantHolds, PTL

\* Samples are lost only by a failed run, a filter without coefficients, a
\* filter that was deleted, a seek or an unfinished block that meets a change
\* to fewer channels: foo_dsp_bfir.cpp:291-293, 307-350.
THEOREM NoFrameLost == ChunkSpec => []NothingLost
<1>1. Invariant => NothingLost
  <2> SUFFICES ASSUME Invariant
               PROVE  NothingLost
    OBVIOUS
  <2>1. /\ out \in Seq(Samples) /\ buffer \in Seq(Samples) /\ src \in Seq(Samples)
        /\ out \o buffer \in Seq(Samples) /\ CountInv
    BY DEF Invariant, ChunkTypeOK
  <2>2. \A n : Holds(InHand, n) <=> Holds(out, n) \/ Holds(buffer, n) \/ Holds(src, n)
    BY <2>1, ConcatHolds DEF InHand
  <2>3. clean => \A n \in 1 .. received : Holds(InHand, n)
    BY <2>1, <2>2 DEF CountInv
  <2> QED BY <2>3 DEF Holds, NothingLost
<1> QED BY <1>1, InvariantHolds, PTL

\* Samples of the format before a change, and stale ones, are in no later block
\* than the first of the new filter: foo_dsp_bfir.cpp:106-150, 315-350.
THEOREM OldFramesHold == ChunkSpec => []OldFramesInFirstBlockOnly
<1>1. Invariant => OldFramesInFirstBlockOnly
  BY DEF Invariant, ChunkTypeOK, FormatInv, Present, OldFramesInFirstBlockOnly
<1> QED BY <1>1, InvariantHolds, PTL

\* The DSP object uses and deletes freed memory only after a change of format
\* that found no impulses: foo_dsp_bfir.cpp:76-98, 143-290.
THEOREM SoundHolds == ChunkSpec => []SoundWhileConfigured
<1>1. Invariant => SoundWhileConfigured
  BY DEF Invariant, PointerInv, SoundWhileConfigured
<1> QED BY <1>1, InvariantHolds, PTL

-----------------------------------------------------------------------------
(* The blocks of the engine, Convolver.  Division with remainder.          *)

LEMMA ModUnique ==
  ASSUME NEW b \in Nat \ {0}, NEW x \in Int, NEW q \in Int, NEW r \in 0 .. b - 1,
         x = b * q + r
  PROVE  x % b = r
BY SMT

LEMMA ModForm ==
  ASSUME NEW b \in Nat \ {0}, NEW x \in Int
  PROVE  x % b \in 0 .. b - 1 /\ \E q \in Int : x = b * q + (x % b)
<1>1. x % b \in 0 .. b - 1
  BY SMT
<1>2. x \div b \in Int /\ x = b * (x \div b) + (x % b)
  BY SMT
<1> QED BY <1>1, <1>2

LEMMA ModPlus ==
  ASSUME NEW b \in Nat \ {0}, NEW x \in Int, NEW k \in Int
  PROVE  (x + b * k) % b = x % b
<1>1. PICK q \in Int : x = b * q + (x % b)
  BY ModForm
<1>2. x % b \in 0 .. b - 1
  BY ModForm
<1>3. x + b * k = b * (q + k) + (x % b)
  <2>1. b * (q + k) = b * q + b * k
    BY SMT
  <2>2. b * q \in Int /\ b * k \in Int /\ x % b \in Int
    BY <1>2, SMT
  <2> QED BY <1>1, <2>1, <2>2, SMT
<1>4. q + k \in Int /\ x + b * k \in Int
  BY SMT
<1> QED BY ONLY <1>2, <1>3, <1>4, ModUnique, b \in Nat \ {0}

LEMMA ModApart ==
  ASSUME NEW b \in Nat \ {0}, NEW x \in Int, NEW i \in 1 .. b - 1
  PROVE  (x - i) % b # x % b
<1> DEFINE r == x % b
<1>1. PICK q \in Int : x = b * q + r
  BY ModForm
<1>2. r \in 0 .. b - 1
  BY ModForm
<1> HIDE DEF r
<1>3. CASE i <= r
  <2>1. x - i = b * q + (r - i) /\ r - i \in 0 .. b - 1 /\ x - i \in Int
    BY <1>1, <1>2, <1>3, SMT
  <2>2. (x - i) % b = r - i
    BY <2>1, ModUnique
  <2> QED BY <2>2, <1>2, SMT DEF r
<1>4. CASE i > r
  <2>1. /\ x - i = b * (q - 1) + (r - i + b) /\ r - i + b \in 0 .. b - 1
        /\ x - i \in Int /\ q - 1 \in Int
    BY <1>1, <1>2, <1>4, SMT
  <2>2. (x - i) % b = r - i + b
    BY <2>1, ModUnique
  <2> QED BY <2>2, <1>2, SMT DEF r
<1> QED BY <1>2, <1>3, <1>4, SMT

LEMMA ModMod ==
  ASSUME NEW b \in Nat \ {0}, NEW w \in Nat \ {0}, NEW x \in Int, w % b = 0
  PROVE  (x % w) % b = x % b
<1>0. w \in Int
  BY SMT
<1>1. PICK q \in Int : x = w * q + (x % w)
  BY ModForm, Zenon
<1>2. PICK k \in Int : w = b * k + (w % b)
  BY <1>0, ModForm, Zenon
<1>3. x % w \in Int
  <2>1. x % w \in 0 .. w - 1
    BY ModForm, Zenon
  <2> QED BY <2>1, SMT
<1>4. w = b * k
  BY <1>2, SMT
<1>5. k * q \in Int /\ w * q = b * (k * q) /\ w * q \in Int
  BY <1>4, SMT
<1>6. x = (x % w) + b * (k * q)
  BY ONLY <1>1, <1>3, <1>5, SMT
<1>7. ((x % w) + b * (k * q)) % b = (x % w) % b
  BY <1>3, <1>5, ModPlus, Zenon
<1> QED BY <1>6, <1>7, Zenon

-----------------------------------------------------------------------------
(* The inductive invariant.                                                *)

\* How many blocks were accepted since the constructor or the last reset().
Epoch == fed - base

\* The windows of the ring that run() may use as what they ought to be.
InRing(i) ==
  \/ Wrap % nBlocks = 0 /\ resets = 0
  \/ (Wrap % nBlocks = 0 \/ Epoch < Wrap) /\ i <= Epoch

CounterInv == blockcounter = Epoch % Wrap

HalfInv == Epoch > 0 \/ resets = 0 => \A n \in Channels : timecbuf[n][curbuf][1] = fed

RingInv ==
  \A n \in Channels : \A i \in 1 .. nBlocks - 1 :
    InRing(i) => RightWindow(fed - i + 1, cbuf[n][(Epoch - i) % nBlocks])

ProcInv == \A n \in Channels : procblocks[n] >= Epoch \/ procblocks[n] = nBlocks

\* Only the slot that the next run() overwrites may hold a bad value.
FiniteInv ==
  resets = 0 =>
    /\ base = 0
    /\ \A n \in Channels : \A s \in 0 .. nBlocks - 1 :
         cbuf[n][s][1] = BAD \/ cbuf[n][s][2] = BAD => s = Slot(0)

IInv ==
  /\ TypeOK
  /\ CounterInv /\ HalfInv /\ RingInv /\ ProcInv /\ FiniteInv
  /\ OutputIsConvolution /\ BadInputLeavesNoTrace

-----------------------------------------------------------------------------
(* The ring.                                                               *)

LEMMA Sizes ==
  ASSUME TypeOK
  PROVE  /\ nBlocks \in Nat \ {0} /\ Wrap \in Nat \ {0} /\ Wrap \in Int
         /\ fed \in Nat /\ base \in Nat /\ Epoch \in Nat /\ Epoch \in Int
         /\ blockcounter \in Nat /\ \A i \in Int : Slot(i) \in 0 .. nBlocks - 1
<1>1. /\ nBlocks \in Nat \ {0} /\ Wrap \in Nat \ {0} /\ Wrap \in Int
      /\ fed \in Nat /\ base \in Nat /\ Epoch \in Nat /\ Epoch \in Int
      /\ blockcounter \in Nat
  BY ConvolverAssumption, SMT DEF TypeOK, Epoch
<1>2. ASSUME NEW i \in Int PROVE Slot(i) \in 0 .. nBlocks - 1
  <2>1. blockcounter - i \in Int
    BY <1>1, SMT
  <2>2. (blockcounter - i) % Wrap \in 0 .. Wrap - 1
    BY <1>1, <2>1, ModForm, Zenon
  <2>3. (blockcounter - i) % Wrap \in Int
    BY <2>2, SMT
  <2> QED BY <1>1, <2>3, ModForm, Zenon DEF Slot
<1> QED BY <1>1, <1>2

\* The slot of a block does not depend on where the counter has wrapped.
LEMMA SlotIs ==
  ASSUME TypeOK, CounterInv, NEW i \in Nat,
         Wrap % nBlocks = 0 \/ (Epoch < Wrap /\ i <= Epoch)
  PROVE  Slot(i) = (Epoch - i) % nBlocks
<1>1. CASE Wrap % nBlocks = 0
  <2>1. PICK q \in Int : Epoch = Wrap * q + blockcounter
    BY Sizes, ModForm, Zenon DEF CounterInv
  <2>2. PICK p \in Int : Wrap = nBlocks * p + (Wrap % nBlocks)
    BY Sizes, ModForm, Zenon
  <2>3. Wrap = nBlocks * p
    BY <1>1, <2>2, Sizes, SMT
  <2>4. p * q \in Int /\ Wrap * q = nBlocks * (p * q) /\ Wrap * q \in Int
    BY <2>3, Sizes, SMT
  <2>5. Epoch - i = (blockcounter - i) + nBlocks * (p * q) /\ blockcounter - i \in Int
    BY <2>1, <2>4, Sizes, SMT
  <2>6. ((blockcounter - i) + nBlocks * (p * q)) % nBlocks = (blockcounter - i) % nBlocks
    BY <2>4, <2>5, Sizes, ModPlus, Zenon
  <2>7. ((blockcounter - i) % Wrap) % nBlocks = (blockcounter - i) % nBlocks
    BY <1>1, <2>5, Sizes, ModMod, Zenon
  <2> QED BY <2>5, <2>6, <2>7, Zenon DEF Slot
<1>2. CASE Epoch < Wrap /\ i <= Epoch
  <2>1. /\ Epoch = Wrap * 0 + Epoch /\ Epoch \in 0 .. Wrap - 1
        /\ Epoch - i = Wrap * 0 + (Epoch - i) /\ Epoch - i \in 0 .. Wrap - 1
        /\ Epoch - i \in Int /\ 0 \in Int
    BY <1>2, Sizes, SMT
  <2>2. Epoch % Wrap = Epoch
    BY <2>1, Sizes, ModUnique, Zenon
  <2>3. (Epoch - i) % Wrap = Epoch - i
    BY <2>1, Sizes, ModUnique, Zenon
  <2> QED BY <2>2, <2>3, Zenon DEF Slot, CounterInv
<1> QED BY <1>1, <1>2

\* A window that run() may use is not in the slot that it writes.
LEMMA RingApart ==
  ASSUME TypeOK, CounterInv, NEW i \in 1 .. nBlocks - 1, InRing(i)
  PROVE  /\ Slot(i) = (Epoch - i) % nBlocks /\ Slot(0) = Epoch % nBlocks
         /\ Slot(i) # Slot(0) /\ Slot(i) \in 0 .. nBlocks - 1
<1>1. i \in Nat /\ 0 \in Nat /\ Epoch - 0 = Epoch /\ Epoch - i \in Int /\ (i <= Epoch => 0 <= Epoch)
  BY Sizes, SMT
<1>2. Slot(i) = (Epoch - i) % nBlocks
  BY <1>1, SlotIs, Zenon DEF InRing
<1>3. Slot(0) = Epoch % nBlocks
  <2>1. Slot(0) = (Epoch - 0) % nBlocks
    BY <1>1, SlotIs, Zenon DEF InRing
  <2> QED BY <1>1, <2>1, Zenon
<1>4. (Epoch - i) % nBlocks # Epoch % nBlocks /\ (Epoch - i) % nBlocks \in 0 .. nBlocks - 1
  BY <1>1, Sizes, ModApart, ModForm, Zenon
<1> QED BY <1>2, <1>3, <1>4, Zenon

\* The window that run() writes is the right one for the block it is given.
LEMMA NewWindow ==
  ASSUME TypeOK, HalfInv, NEW n \in Channels, NEW x, x[n] = fed + 1
  PROVE  /\ PutWindow(n, x)[Slot(0)] = <<timecbuf[n][curbuf][1], fed + 1>>
         /\ RightWindow(fed + 1, PutWindow(n, x)[Slot(0)])
<1>1. Slot(0) \in 0 .. nBlocks - 1
  BY Sizes, 0 \in Int
<1> HIDE DEF Slot
<1>2. PutWindow(n, x)[Slot(0)] = <<timecbuf[n][curbuf][1], fed + 1>>
  BY <1>1 DEF PutWindow, TypeOK
<1> DEFINE w == PutWindow(n, x)[Slot(0)]
<1>3. w[2] = fed + 1 /\ w[1] = timecbuf[n][curbuf][1] /\ w = <<timecbuf[n][curbuf][1], fed + 1>>
  BY <1>2
<1> HIDE DEF w
<1>4. fed + 1 > base /\ (Epoch > 0 \/ fed = base) /\ (fed + 1) - 1 = fed /\ resets \in Nat
  BY Sizes, SMT DEF Epoch, TypeOK
<1>5. CASE Epoch > 0 \/ resets = 0
  <2>1. timecbuf[n][curbuf][1] = fed
    BY <1>5 DEF HalfInv
  <2>2. w = <<(fed + 1) - 1, fed + 1>>
    BY <2>1, <1>3, <1>4, Zenon
  <2>3. RightWindow(fed + 1, w)
    BY <2>2, <1>4, Zenon DEF RightWindow
  <2> QED BY <1>2, <2>3 DEF w
<1>6. CASE ~(Epoch > 0 \/ resets = 0)
  <2>1. resets > 0 /\ fed + 1 = base + 1
    BY <1>4, <1>6, SMT
  <2>2. RightWindow(fed + 1, w)
    BY <2>1, <1>3 DEF RightWindow
  <2> QED BY <1>2, <2>2 DEF w
<1> QED BY <1>5, <1>6

LEMMA OtherSlots ==
  ASSUME TypeOK, NEW n \in Channels, NEW x, NEW s \in 0 .. nBlocks - 1, s # Slot(0)
  PROVE  PutWindow(n, x)[s] = cbuf[n][s]
BY DEF PutWindow, TypeOK

-----------------------------------------------------------------------------
(* Which runs fail.                                                        *)

LEMMA BadFails ==
  ASSUME TypeOK, coeffBlocks > 0, NEW n \in Channels, NEW x, x[n] = BAD
  PROVE  Fails(n, x)
<1>1. Slot(0) \in 0 .. nBlocks - 1 /\ 0 \in 0 .. nBlocks - 1 /\ 0 < coeffBlocks
  BY Sizes, 0 \in Int, SMT DEF TypeOK
<1> HIDE DEF Slot
<1>2. PutWindow(n, x)[Slot(0)] = <<timecbuf[n][curbuf][1], BAD>>
  BY <1>1 DEF PutWindow, TypeOK
<1>3. PutWindow(n, x)[Slot(0)][2] = BAD
  BY <1>2
<1> HIDE DEF PutWindow
<1>4. Convolve(n, x)[0] = PutWindow(n, x)[Slot(0)] /\ 0 \in DOMAIN Convolve(n, x)
  BY <1>1 DEF Convolve
<1> QED BY <1>3, <1>4 DEF Fails, NotFinite

LEMMA GoodPasses ==
  ASSUME TypeOK, HalfInv, FiniteInv, resets = 0, NEW n \in Channels, NEW x, x[n] = fed + 1
  PROVE  /\ ~Fails(n, x)
         /\ \A s \in 0 .. nBlocks - 1 : PutWindow(n, x)[s][1] # BAD /\ PutWindow(n, x)[s][2] # BAD
<1>1. ASSUME NEW s \in 0 .. nBlocks - 1
      PROVE  PutWindow(n, x)[s][1] # BAD /\ PutWindow(n, x)[s][2] # BAD
  <2>1. CASE s = Slot(0)
    <3>1. PutWindow(n, x)[s] = <<fed, fed + 1>>
      BY <2>1, NewWindow DEF HalfInv
    <3>2. PutWindow(n, x)[s][1] = fed /\ PutWindow(n, x)[s][2] = fed + 1
      BY <3>1
    <3> QED BY <3>2, Sizes, SMT DEF BAD
  <2>2. CASE s # Slot(0)
    BY <2>2, OtherSlots DEF FiniteInv
  <2> QED BY <2>1, <2>2
<1>2. ASSUME NEW i \in DOMAIN Convolve(n, x)
      PROVE  Convolve(n, x)[i][1] # BAD /\ Convolve(n, x)[i][2] # BAD
  <2>1. i \in 0 .. nBlocks - 1 /\ i \in Int
    BY SMT DEF Convolve
  <2>2. Slot(i) \in 0 .. nBlocks - 1
    BY <2>1, Sizes
  <2> HIDE DEF PutWindow, Slot
  <2>3. Convolve(n, x)[i] = PutWindow(n, x)[Slot(i)] \/ Convolve(n, x)[i] = Silence
    BY <2>1 DEF Convolve
  <2>4. Silence[1] # BAD /\ Silence[2] # BAD
    BY SMT DEF Silence, BAD
  <2> QED BY <1>1, <2>2, <2>3, <2>4
<1> QED BY <1>1, <1>2 DEF Fails, NotFinite

LEMMA SuccessIsFinite ==
  ASSUME TypeOK, coeffBlocks > 0, NEW faulty \in SUBSET Channels, RunSucceeds(Input(faulty))
  PROVE  faulty = {} /\ \A n \in Channels : Input(faulty)[n] = fed + 1
<1>1. ASSUME NEW n \in faulty PROVE FALSE
  <2>1. n \in Channels /\ Input(faulty)[n] = BAD
    BY DEF Input
  <2> QED BY <2>1, BadFails DEF RunSucceeds
<1> QED BY <1>1 DEF Input

LEMMA FailureIsBad ==
  ASSUME TypeOK, HalfInv, FiniteInv, resets = 0, NEW faulty \in SUBSET Channels,
         RunFails(Input(faulty))
  PROVE  faulty # {}
<1> SUFFICES ASSUME faulty = {} PROVE FALSE
  OBVIOUS
<1>1. \A n \in Channels : Input(faulty)[n] = fed + 1
  BY DEF Input
<1> QED BY <1>1, GoodPasses DEF RunFails

-----------------------------------------------------------------------------
(* The steps.                                                              *)

LEMMA ConvolverInit == Init => IInv
<1> SUFFICES ASSUME Init PROVE IInv
  OBVIOUS
<1>1. nBlocks \in Nat \ {0} /\ Wrap \in Nat \ {0} /\ Epoch = 0
  BY ConvolverAssumption, SMT DEF Init, Epoch
<1>2. TypeOK
  <2>1. Silence \in Windows
    BY DEF Silence, Windows, Labels
  <2> QED BY <1>1, <2>1, SMT DEF Init, TypeOK
<1>3. CounterInv
  <2>1. 0 = Wrap * 0 + 0 /\ 0 \in 0 .. Wrap - 1 /\ 0 \in Int
    BY <1>1, SMT
  <2>2. 0 % Wrap = 0
    BY <1>1, <2>1, ModUnique, Zenon
  <2> QED BY <1>1, <2>2 DEF Init, CounterInv
<1>4. HalfInv
  BY DEF Init, HalfInv, Silence
<1>5. RingInv
  <2> SUFFICES ASSUME NEW n \in Channels, NEW i \in 1 .. nBlocks - 1
               PROVE  RightWindow(fed - i + 1, cbuf[n][(Epoch - i) % nBlocks])
    BY DEF RingInv
  <2>1. Epoch - i \in Int /\ fed - i + 1 <= base
    BY <1>1, SMT DEF Init
  <2>2. (Epoch - i) % nBlocks \in 0 .. nBlocks - 1
    BY <1>1, <2>1, ModForm, Zenon
  <2>3. cbuf[n][(Epoch - i) % nBlocks] = Silence
    BY <2>2 DEF Init
  <2> QED BY <2>1, <2>3 DEF RightWindow
<1>6. ProcInv
  BY <1>1, SMT DEF Init, ProcInv
<1>7. FiniteInv
  BY SMT DEF Init, FiniteInv, Silence, BAD
<1>8. OutputIsConvolution /\ BadInputLeavesNoTrace
  BY DEF Init, OutputIsConvolution, BadInputLeavesNoTrace
<1> QED BY <1>2, <1>3, <1>4, <1>5, <1>6, <1>7, <1>8 DEF IInv

LEMMA LabelsTyped ==
  ASSUME TypeOK, NEW faulty \in SUBSET Channels, NEW n \in Channels
  PROVE  /\ Input(faulty)[n] \in Labels
         /\ TakeBlock(n, Input(faulty)) \in [{0, 1} -> Windows]
         /\ PutWindow(n, Input(faulty)) \in [0 .. nBlocks - 1 -> Windows]
         /\ CountBlock(n) \in 0 .. nBlocks
         /\ Convolve(n, Input(faulty)) \in [0 .. nBlocks - 1 -> Windows]
<1> DEFINE x == Input(faulty)
<1>1. x[n] \in Labels
  BY DEF Input, Labels, TypeOK
<1> HIDE DEF x
<1>2. TakeBlock(n, x) \in [{0, 1} -> Windows]
  BY <1>1, SMT DEF TakeBlock, TypeOK, Windows
<1>3. PutWindow(n, x) \in [0 .. nBlocks - 1 -> Windows]
  <2>1. cbuf[n] \in [0 .. nBlocks - 1 -> Windows]
    BY DEF TypeOK
  <2>2. <<timecbuf[n][curbuf][1], x[n]>> \in Windows
    BY <1>1, SMT DEF TypeOK, Windows
  <2> QED BY <2>1, <2>2 DEF PutWindow
<1>4. CountBlock(n) \in 0 .. nBlocks
  <2>1. procblocks[n] \in 0 .. nBlocks
    BY DEF TypeOK
  <2> QED BY <2>1, Sizes, SMT DEF CountBlock
<1>5. Silence \in Windows
  BY DEF Silence, Windows, Labels
<1>6. \A i \in 0 .. nBlocks - 1 : Slot(i) \in 0 .. nBlocks - 1
  BY Sizes, SMT
<1>7. Convolve(n, x) \in [0 .. nBlocks - 1 -> Windows]
  BY <1>3, <1>5, <1>6 DEF Convolve
<1> QED BY <1>1, <1>2, <1>3, <1>4, <1>7 DEF x

LEMMA TypeStep ==
  ASSUME TypeOK, [Next]_vars
  PROVE  TypeOK'
<1>1. ASSUME NEW k \in 1 .. nBlocks, SetCoeff(k) PROVE TypeOK'
  BY <1>1, SMT DEF SetCoeff, TypeOK, ring
<1>5. ASSUME SetCoeffFails PROVE TypeOK'
  <2>1. nBlocks \in Nat \ {0}
    BY Sizes
  <2>2. coeffBlocks' \in 0 .. nBlocks
    BY ONLY <1>5, <2>1, SMT DEF SetCoeffFails
  <2> QED BY <1>5, <2>2 DEF SetCoeffFails, TypeOK, ring
<1>2. ASSUME NEW faulty \in SUBSET Channels, Run(faulty) PROVE TypeOK'
  <2> DEFINE x == Input(faulty)
  <2>1. /\ RunChannels(x) /\ bad' = faulty
        /\ RunSucceeds(x) \/ RunFails(x)
    BY <1>2 DEF Run, RunSucceeds, RunFails
  <2> HIDE DEF x
  <2>2. nBlocks' = nBlocks /\ coeffBlocks' = coeffBlocks /\ base' = base /\ resets' = resets
    BY <2>1 DEF RunSucceeds, RunFails
  <2>3. /\ timecbuf' \in [Channels -> [{0, 1} -> Windows]]
        /\ cbuf' \in [Channels -> [0 .. nBlocks - 1 -> Windows]]
        /\ procblocks' \in [Channels -> 0 .. nBlocks]
        /\ outbuf' \in [Channels -> [0 .. nBlocks - 1 -> Windows]]
    BY <2>1, LabelsTyped, Zenon DEF RunChannels, TypeOK, x
  <2>4. blockcounter + 1 \in Int
    BY Sizes, SMT
  <2>5. (blockcounter + 1) % Wrap \in 0 .. Wrap - 1
    BY <2>4, Sizes, ModForm, Zenon
  <2>6. curbuf' \in {0, 1} /\ blockcounter' \in 0 .. Wrap - 1
    BY <2>1, <2>5, SMT DEF RunSucceeds, RunFails, Advance, StayPut, TypeOK
  <2>7. /\ fed' \in Nat /\ base' \in 0 .. fed' /\ resets' \in Nat
        /\ result' \in {"none", "ok", "failed"}
    BY <2>1, <2>2, SMT DEF RunSucceeds, RunFails, TypeOK
  <2>8. nBlocks' \in BlockCounts /\ coeffBlocks' \in 0 .. nBlocks' /\ bad' \subseteq Channels
    BY <2>1, <2>2 DEF TypeOK
  <2> QED BY <2>2, <2>3, <2>6, <2>7, <2>8 DEF TypeOK
<1>3. ASSUME Reset PROVE TypeOK'
  <2>1. 0 \in 0 .. nBlocks /\ 0 \in 0 .. Wrap - 1 /\ fed \in 0 .. fed /\ resets + 1 \in Nat
    BY Sizes, SMT DEF TypeOK
  <2>2. /\ procblocks' \in [Channels -> 0 .. nBlocks] /\ blockcounter' \in 0 .. Wrap - 1
        /\ base' \in 0 .. fed' /\ resets' \in Nat
    BY <1>3, <2>1 DEF Reset
  <2> QED BY <1>3, <2>2 DEF Reset, TypeOK
<1>4. CASE UNCHANGED vars
  BY <1>4 DEF vars, ring, TypeOK, Slot
<1> QED BY <1>1, <1>5, <1>2, <1>3, <1>4 DEF Next

\* Counting a block.
LEMMA CounterStep ==
  ASSUME TypeOK, CounterInv
  PROVE  (blockcounter + 1) % Wrap = (Epoch + 1) % Wrap
<1>1. PICK q \in Int : Epoch = Wrap * q + blockcounter
  BY Sizes, ModForm, Zenon DEF CounterInv
<1>2. Wrap * q \in Int
  BY Sizes, SMT
<1>3. Epoch + 1 = (blockcounter + 1) + Wrap * q /\ blockcounter + 1 \in Int
  BY <1>1, <1>2, Sizes, SMT
<1>4. ((blockcounter + 1) + Wrap * q) % Wrap = (blockcounter + 1) % Wrap
  BY <1>3, Sizes, ModPlus, Zenon
<1> QED BY <1>3, <1>4, Zenon

\* The windows of the ring that stay: those that run() may use next.
LEMMA RingStays ==
  ASSUME TypeOK, CounterInv, RingInv, NEW n \in Channels, NEW x,
         NEW i \in 1 .. nBlocks - 1, InRing(i)
  PROVE  RightWindow(fed - i + 1, PutWindow(n, x)[(Epoch - i) % nBlocks])
<1>1. Slot(i) = (Epoch - i) % nBlocks /\ Slot(i) \in 0 .. nBlocks - 1 /\ Slot(i) # Slot(0)
  BY RingApart
<1>2. PutWindow(n, x)[Slot(i)] = cbuf[n][Slot(i)]
  BY <1>1, OtherSlots, Zenon
<1> QED BY <1>1, <1>2, Zenon DEF RingInv

LEMMA SucceedsStep ==
  ASSUME IInv, coeffBlocks > 0, NEW faulty \in SUBSET Channels, bad' = faulty,
         RunSucceeds(Input(faulty)), TypeOK'
  PROVE  IInv'
<1> DEFINE x == Input(faulty)
<1> USE DEF IInv
<1>1. faulty = {} /\ \A n \in Channels : x[n] = fed + 1
  BY SuccessIsFinite
<1>2. RunSucceeds(x)
  OBVIOUS
<1> HIDE DEF x
<1>3. \A n \in Channels : n \in Reached(x)
  <2>1. \A n \in Channels : \A m \in 0 .. n - 1 : m \in Channels
    BY ConvolverAssumption, SMT DEF Channels
  <2> QED BY <1>2, <2>1 DEF RunSucceeds, Reached
<1>4. \A n \in Channels : /\ timecbuf'[n] = TakeBlock(n, x) /\ cbuf'[n] = PutWindow(n, x)
                          /\ procblocks'[n] = CountBlock(n) /\ outbuf'[n] = Convolve(n, x)
  BY <1>2, <1>3 DEF RunSucceeds, RunChannels
<1>5. /\ fed' = fed + 1 /\ base' = base /\ resets' = resets /\ nBlocks' = nBlocks
      /\ coeffBlocks' = coeffBlocks /\ result' = "ok" /\ curbuf' = 1 - curbuf
      /\ blockcounter' = (blockcounter + 1) % Wrap
  BY <1>2 DEF RunSucceeds, Advance
<1>6. Epoch' = Epoch + 1
  BY <1>5, Sizes, SMT DEF Epoch
<1>7. CounterInv'
  BY <1>5, <1>6, CounterStep DEF CounterInv
<1>8. HalfInv'
  <2>1. \A n \in Channels : TakeBlock(n, x)[1 - curbuf][1] = x[n]
    BY SMT DEF TakeBlock, TypeOK
  <2> QED BY <1>1, <1>4, <1>5, <2>1 DEF HalfInv
<1>9. ProcInv'
  <2>1. \A n \in Channels : CountBlock(n) >= Epoch + 1 \/ CountBlock(n) = nBlocks
    <3> SUFFICES ASSUME NEW n \in Channels
                 PROVE  CountBlock(n) >= Epoch + 1 \/ CountBlock(n) = nBlocks
      OBVIOUS
    <3>1. procblocks[n] \in 0 .. nBlocks /\ (procblocks[n] >= Epoch \/ procblocks[n] = nBlocks)
      BY DEF ProcInv, TypeOK
    <3> QED BY <3>1, Sizes, SMT DEF CountBlock
  <2> QED BY <1>4, <1>5, <1>6, <2>1 DEF ProcInv
<1>10. RingInv'
  <2> SUFFICES ASSUME NEW n \in Channels, NEW i \in 1 .. nBlocks - 1, InRing(i)'
               PROVE  RightWindow(fed' - i + 1, PutWindow(n, x)[((Epoch + 1) - i) % nBlocks])
    BY <1>4, <1>5, <1>6, Zenon DEF RingInv, RightWindow
  <2>1. CASE i = 1
    <3>1. Wrap % nBlocks = 0 \/ (Epoch < Wrap /\ 0 <= Epoch)
      BY <1>5, <1>6, Sizes, SMT DEF InRing
    <3>2. Slot(0) = (Epoch - 0) % nBlocks
      BY <3>1, SlotIs, 0 \in Nat, Zenon
    <3>3. (Epoch + 1) - i = Epoch - 0 /\ fed' - i + 1 = fed + 1
      BY <2>1, <1>5, Sizes, SMT
    <3> QED BY <1>1, <3>2, <3>3, NewWindow, Zenon
  <2>2. CASE i # 1
    <3>1. i - 1 \in 1 .. nBlocks - 1 /\ InRing(i - 1)
      BY <2>2, <1>5, <1>6, Sizes, SMT DEF InRing
    <3>2. (Epoch + 1) - i = Epoch - (i - 1) /\ fed' - i + 1 = fed - (i - 1) + 1
      BY <1>5, Sizes, SMT
    <3> QED BY <3>1, <3>2, RingStays, Zenon
  <2> QED BY <2>1, <2>2
<1>11. FiniteInv'
  BY <1>1, <1>4, <1>5, GoodPasses DEF FiniteInv
<1>12. OutputIsConvolution'
  <2> SUFFICES ASSUME RingInStep', NEW n \in Channels, NEW i \in 0 .. coeffBlocks - 1
               PROVE  RightWindow(fed' - i, Convolve(n, x)[i])
    BY <1>4, <1>5, ZenonT(40) DEF OutputIsConvolution, RightWindow
  <2>1. i \in 0 .. nBlocks - 1 /\ i < coeffBlocks
    <3>1. coeffBlocks \in 0 .. nBlocks
      BY DEF TypeOK
    <3> QED BY <3>1, Sizes, SMT
  <2>2. Convolve(n, x)[i] = IF i = 0 \/ i < CountBlock(n) THEN PutWindow(n, x)[Slot(i)] ELSE Silence
    BY <2>1 DEF Convolve
  <2>3. CASE i = 0
    <3>1. fed' - i = fed + 1
      BY <1>5, <2>3, Sizes, SMT
    <3> QED BY <1>1, <2>2, <2>3, <3>1, NewWindow, Zenon
  <2>4. CASE i # 0 /\ i < CountBlock(n)
    <3>1. \/ Wrap % nBlocks = 0 /\ resets = 0
          \/ (Wrap % nBlocks = 0 \/ Epoch + 1 <= Wrap) /\ CountBlock(n) <= Epoch + 1
      BY <1>4, <1>5, <1>6, Zenon DEF RingInStep, Epoch
    <3>2. i \in 1 .. nBlocks - 1 /\ InRing(i)
      <4>1. CountBlock(n) \in 0 .. nBlocks
        BY LabelsTyped
      <4> QED BY <2>1, <2>4, <3>1, <4>1, Sizes, SMT DEF InRing
    <3>3. PutWindow(n, x)[Slot(i)] = PutWindow(n, x)[(Epoch - i) % nBlocks]
      BY <3>2, RingApart
    <3>4. fed' - i = fed - i + 1
      BY <1>5, Sizes, SMT
    <3> QED BY <2>2, <2>4, <3>2, <3>3, <3>4, RingStays, Zenon
  <2>5. CASE i # 0 /\ ~(i < CountBlock(n))
    <3>1. fed' - i <= base
      <4>1. procblocks[n] \in 0 .. nBlocks /\ (procblocks[n] >= Epoch \/ procblocks[n] = nBlocks)
        BY DEF ProcInv, TypeOK
      <4> QED BY <1>5, <2>1, <2>5, <4>1, Sizes, SMT DEF CountBlock, Epoch
    <3> QED BY <2>2, <2>5, <3>1, <1>5 DEF RightWindow
  <2> QED BY <2>3, <2>4, <2>5
<1>13. BadInputLeavesNoTrace'
  BY <1>1, <1>5 DEF BadInputLeavesNoTrace
<1> QED BY <1>7, <1>8, <1>9, <1>10, <1>11, <1>12, <1>13

LEMMA FailsStep ==
  ASSUME IInv, coeffBlocks > 0, NEW faulty \in SUBSET Channels, bad' = faulty,
         RunFails(Input(faulty)), TypeOK'
  PROVE  IInv'
<1> DEFINE x == Input(faulty)
<1> USE DEF IInv
<1>1. resets = 0 => faulty # {}
  BY FailureIsBad
<1>2. RunFails(x)
  OBVIOUS
<1> HIDE DEF x
<1>3. \A n \in Channels : /\ timecbuf'[n] = TakeBlock(n, x) \/ timecbuf'[n] = timecbuf[n]
                          /\ cbuf'[n] = PutWindow(n, x) \/ cbuf'[n] = cbuf[n]
                          /\ procblocks'[n] = CountBlock(n) \/ procblocks'[n] = procblocks[n]
  BY <1>2 DEF RunFails, RunChannels
<1>4. /\ fed' = fed /\ base' = base /\ resets' = resets /\ nBlocks' = nBlocks
      /\ result' = "failed" /\ curbuf' = curbuf /\ blockcounter' = blockcounter
  BY <1>2 DEF RunFails, StayPut
<1>5. Epoch' = Epoch /\ Slot(0)' = Slot(0)
  BY <1>4 DEF Epoch, Slot
<1>6. CounterInv'
  BY <1>4, <1>5 DEF CounterInv
<1>7. HalfInv'
  <2>1. \A n \in Channels : TakeBlock(n, x)[curbuf][1] = timecbuf[n][curbuf][1]
    BY SMT DEF TakeBlock, TypeOK
  <2> QED BY <1>3, <1>4, <1>5, <2>1 DEF HalfInv
<1>8. RingInv'
  <2> SUFFICES ASSUME NEW n \in Channels, NEW i \in 1 .. nBlocks - 1, InRing(i)
               PROVE  RightWindow(fed - i + 1, cbuf'[n][(Epoch - i) % nBlocks])
    <3>1. \A i \in 1 .. nBlocks - 1 : InRing(i)' <=> InRing(i)
      BY <1>4, <1>5 DEF InRing
    <3>2. \A s, w : RightWindow(s, w)' <=> RightWindow(s, w)
      BY <1>4 DEF RightWindow
    <3>3. nBlocks' = nBlocks /\ fed' = fed /\ Epoch' = Epoch
      BY <1>4, <1>5
    <3> QED BY <3>1, <3>2, <3>3, Zenon DEF RingInv
  <2> QED BY <1>3, RingStays, Zenon DEF RingInv
<1>9. ProcInv'
  <2> SUFFICES ASSUME NEW n \in Channels
               PROVE  procblocks'[n] >= Epoch \/ procblocks'[n] = nBlocks
    BY <1>4, <1>5 DEF ProcInv
  <2>1. procblocks[n] \in 0 .. nBlocks /\ (procblocks[n] >= Epoch \/ procblocks[n] = nBlocks)
    BY DEF ProcInv, TypeOK
  <2> QED BY <1>3, <2>1, Sizes, SMT DEF CountBlock
<1>10. FiniteInv'
  <2> SUFFICES ASSUME resets = 0, NEW n \in Channels, NEW s \in 0 .. nBlocks - 1, s # Slot(0)
               PROVE  cbuf'[n][s] = cbuf[n][s]
    BY <1>4, <1>5, ZenonT(40) DEF FiniteInv
  <2> QED BY <1>3, OtherSlots, ZenonT(40)
<1>11. OutputIsConvolution' /\ BadInputLeavesNoTrace'
  BY <1>1, <1>4 DEF OutputIsConvolution, BadInputLeavesNoTrace
<1> QED BY <1>6, <1>7, <1>8, <1>9, <1>10, <1>11

LEMMA ResetStep ==
  ASSUME IInv, Reset, TypeOK'
  PROVE  IInv'
<1>1. Epoch' = 0 /\ resets' > 0 /\ nBlocks' = nBlocks /\ blockcounter' = 0
  BY Sizes, SMT DEF Reset, IInv, TypeOK, Epoch
<1>2. CounterInv'
  <2>1. 0 = Wrap * 0 + 0 /\ 0 \in 0 .. Wrap - 1 /\ 0 \in Int
    BY Sizes, SMT DEF IInv
  <2>2. 0 % Wrap = 0
    BY Sizes, <2>1, ModUnique, Zenon DEF IInv
  <2> QED BY <1>1, <2>2 DEF CounterInv
<1>3. HalfInv' /\ RingInv' /\ FiniteInv'
  BY <1>1, SMT DEF HalfInv, RingInv, FiniteInv, InRing
<1>4. ProcInv'
  BY <1>1, SMT DEF Reset, ProcInv
<1>5. OutputIsConvolution' /\ BadInputLeavesNoTrace'
  BY <1>1, SMT DEF Reset, OutputIsConvolution, BadInputLeavesNoTrace
<1> QED BY <1>2, <1>3, <1>4, <1>5 DEF IInv

\* Nothing that the invariant speaks of.
LEMMA QuietStep ==
  ASSUME IInv, TypeOK',
         UNCHANGED <<nBlocks, ring, outbuf, fed, base, resets, bad>>,
         result' = "none" \/ (result' = result /\ coeffBlocks' = coeffBlocks)
  PROVE  IInv'
<1>1. CounterInv' /\ HalfInv' /\ RingInv' /\ ProcInv' /\ FiniteInv'
  BY DEF IInv, ring, CounterInv, HalfInv, RingInv, ProcInv, FiniteInv, Epoch, InRing,
         RightWindow, Slot
<1>2. OutputIsConvolution' /\ BadInputLeavesNoTrace'
  BY DEF IInv, ring, OutputIsConvolution, BadInputLeavesNoTrace, RingInStep, RightWindow
<1> QED BY <1>1, <1>2 DEF IInv

LEMMA ConvolverStep == IInv /\ [Next]_vars => IInv'
<1> SUFFICES ASSUME IInv, [Next]_vars PROVE IInv'
  OBVIOUS
<1>1. TypeOK'
  BY TypeStep DEF IInv
<1>2. ASSUME NEW k \in 1 .. nBlocks, SetCoeff(k) PROVE IInv'
  BY <1>1, <1>2, QuietStep DEF SetCoeff
<1>6. ASSUME SetCoeffFails PROVE IInv'
  BY <1>1, <1>6, QuietStep DEF SetCoeffFails
<1>3. ASSUME NEW faulty \in SUBSET Channels, Run(faulty) PROVE IInv'
  BY <1>1, <1>3, SucceedsStep, FailsStep DEF Run
<1>4. ASSUME Reset PROVE IInv'
  BY <1>1, <1>4, ResetStep
<1>5. CASE UNCHANGED vars
  BY <1>1, <1>5, QuietStep DEF vars
<1> QED BY <1>2, <1>6, <1>3, <1>4, <1>5 DEF Next

-----------------------------------------------------------------------------
(* The theorems.                                                           *)

THEOREM ConvolverInductive == Spec => []IInv
BY ConvolverInit, ConvolverStep, PTL DEF Spec

\* The state of a filter is well-typed: in particular no index into the
\* ring or the input buffers is out of its range (brutefir.cpp:245-343).
THEOREM ConvolverTypeCorrect == Spec => []TypeOK
<1>1. IInv => TypeOK
  BY DEF IInv
<1> QED BY <1>1, ConvolverInductive, PTL

\* For every number of channels, filter length and counter width, run()
\* returns the convolution of what it accepted, as long as its indices are
\* in step (brutefir.cpp:245-343).
THEOREM OutputIsConvolutionHolds == Spec => []OutputIsConvolution
<1>1. IInv => OutputIsConvolution
  BY DEF IInv
<1> QED BY <1>1, ConvolverInductive, PTL

\* Whatever the failing runs were, a run without a bad value succeeds and
\* one with a bad value does not (brutefir.cpp:314-322).
THEOREM BadInputLeavesNoTraceHolds == Spec => []BadInputLeavesNoTrace
<1>1. IInv => BadInputLeavesNoTrace
  BY DEF IInv
<1> QED BY <1>1, ConvolverInductive, PTL

================================================================================
