------------------------------ MODULE DitherProofs ------------------------------
(***************************************************************************)
(* The random numbers of Dither in SampleFormats, which uses them, for     *)
(* every number of channels, length of blocks, spacing and table; and the  *)
(* conversions, for all formats and samples: that what is clipped is       *)
(* counted, and that the samples that come out are right.                  *)
(***************************************************************************)
EXTENDS SampleFormats, WellFoundedInduction, TLAPS

\* The place of the table where channel c starts.
Origin(c) == c * Spacing + 1

\* Where a pointer goes with a block.
NextPtr(p) == IF p + BlockLength >= RandtabSize THEN 1 + BlockLength ELSE p + BlockLength

\* Where channel c's pointer stands when the round has come to its end.
After(c) == IF turn = 0 \/ c < turn THEN randtabPtr[c] ELSE NextPtr(randtabPtr[c])

\* No channel has had a block.
Fresh == turn = 0 /\ \A c \in Channels : randtabPtr[c] = Origin(c) /\ start[c] = Origin(c)

\* The pointers stay in the table, and behind entry 0 unless they are new.
PtrInv ==
  \A c \in Channels :
    /\ randtabPtr[c] \in 1 .. RandtabSize
    /\ randtabPtr[c] = 1 => c = 0 /\ turn = 0

\* The number before a channel's pointer is the last it has used.
LastInv == \A c \in Channels : last[c] = At(randtab, randtabPtr[c] - 1)

\* A block that a channel has had in this round ends at its pointer.
StartInv ==
  \A c \in Channels : turn = 0 \/ c < turn => start[c] = randtabPtr[c] - BlockLength

\* At the end of the round no two pointers are closer than a block, and all
\* have left the place of the table's first block.
RoundInv ==
  Spacing > BlockLength =>
    /\ \A c \in Channels : After(c) \in 1 + BlockLength .. RandtabSize - 1
    /\ \A c, d \in Channels :
         c # d => After(c) + BlockLength <= After(d) \/ After(d) + BlockLength <= After(c)

\* What holds of the numbers as long as they are used.
DitherInv ==
  /\ DitherTypeOK /\ InTable /\ PtrInv /\ LastInv
  /\ Fresh \/ (StartInv /\ RoundInv)

\* The inductive invariant; whether dither is used never changes.
NumbersInv ==
  /\ DitherTypeOK /\ InTable
  /\ IF UsesDither THEN DitherInv ELSE \A c \in Channels : start[c] = Origin(c)

-----------------------------------------------------------------------------
(* The constants.                                                          *)

\* A multiple is at least once the number short of a larger one.
LEMMA Multiples ==
  ASSUME NEW s \in Nat, NEW m \in Nat, NEW n \in Nat, m < n
  PROVE  m * s \in Nat /\ n * s \in Nat /\ m * s + s <= n * s
<1>1. (m + 1) * s = m * s + s
  OBVIOUS
<1>2. PICK k \in Nat : n = (m + 1) + k
  <2>1. n - (m + 1) \in Nat /\ n = (m + 1) + (n - (m + 1))
    OBVIOUS
  <2> QED BY <2>1
<1>3. ((m + 1) + k) * s = (m + 1) * s + k * s
  OBVIOUS
<1>4. k * s \in Nat /\ m * s \in Nat
  OBVIOUS
<1> QED BY <1>1, <1>2, <1>3, <1>4

\* The spacing is at least the length of a block, and the table as long as
\* all of them.
LEMMA Sizes ==
  /\ NChannels \in Nat /\ NChannels >= 1
  /\ BlockLength \in Nat /\ BlockLength >= 1
  /\ Spacing \in Nat /\ Spacing >= BlockLength
  /\ RandtabSize \in Nat /\ RandtabSize = NChannels * Spacing + 1
<1>1. MinRandtabSpacing * SampleRate \in Nat
  BY DitherAssumption
<1>2. MinSpacing >= BlockLength /\ MinSpacing \in Nat
  BY <1>1, DitherAssumption DEF MinSpacing, Greater
<1>3. Spacing \in Nat /\ Spacing >= BlockLength
  BY <1>2, DitherAssumption
<1>4. NChannels * Spacing \in Nat
  BY <1>3, DitherAssumption
<1> QED BY <1>3, <1>4, DitherAssumption DEF RandtabSize

\* The channels start a spacing apart, and the last a spacing before the
\* table's end.
LEMMA Origins ==
  /\ \A c \in Channels : Origin(c) \in Nat /\ Origin(c) >= 1 /\ Origin(c) + Spacing <= RandtabSize
  /\ \A c \in Channels : Origin(c) = 1 => c = 0
  /\ \A c, d \in Channels : c < d => Origin(c) + Spacing <= Origin(d)
<1>1. Channels = 0 .. NChannels - 1
  BY DEF Channels
<1>2. ASSUME NEW c \in Channels
      PROVE  Origin(c) \in Nat /\ Origin(c) >= 1 /\ Origin(c) + Spacing <= RandtabSize
  <2>1. c \in Nat /\ c < NChannels
    BY <1>1, Sizes
  <2>2. c * Spacing \in Nat /\ c * Spacing + Spacing <= NChannels * Spacing
    BY <2>1, Multiples, Sizes
  <2> QED BY <2>2, Sizes DEF Origin
<1>3. ASSUME NEW c \in Channels, NEW d \in Channels, c < d
      PROVE  Origin(c) + Spacing <= Origin(d)
  <2>1. c \in Nat /\ d \in Nat
    BY <1>1, Sizes
  <2>2. c * Spacing \in Nat /\ d * Spacing \in Nat /\ c * Spacing + Spacing <= d * Spacing
    BY <1>3, <2>1, Multiples, Sizes
  <2> QED BY <2>2, Sizes DEF Origin
<1>4. ASSUME NEW c \in Channels, Origin(c) = 1
      PROVE  c = 0
  <2>1. 0 \in Channels /\ c \in Nat
    BY <1>1, Sizes
  <2>2. Origin(0) >= 1 /\ Origin(0) \in Nat
    BY <1>2, <2>1
  <2>3. ~(0 < c)
    <3>1. SUFFICES ASSUME 0 < c PROVE FALSE
      OBVIOUS
    <3>2. Origin(0) + Spacing <= Origin(c)
      BY <1>3, <2>1, <3>1
    <3> QED BY <2>2, <3>2, <1>4, Sizes
  <2> QED BY <2>1, <2>3
<1> QED BY <1>2, <1>3, <1>4

\* Two pointers that are a block or more apart, and not in the table's first
\* block, are so after their next blocks too: only one of them can start over.
LEMMA NextApart ==
  ASSUME NEW p \in 1 + BlockLength .. RandtabSize - 1,
         NEW q \in 1 + BlockLength .. RandtabSize - 1,
         p + BlockLength <= q
  PROVE  NextPtr(p) + BlockLength <= NextPtr(q) \/ NextPtr(q) + BlockLength <= NextPtr(p)
BY Sizes DEF NextPtr

\* The place of a pointer after a block.
LEMMA NextInside ==
  ASSUME Spacing > BlockLength, NEW p \in 1 .. RandtabSize
  PROVE  NextPtr(p) \in 1 + BlockLength .. RandtabSize - 1
<1>1. 0 \in Channels
  BY Sizes DEF Channels
<1>2. Origin(0) \in Nat /\ Origin(0) >= 1 /\ Origin(0) + Spacing <= RandtabSize
  BY <1>1, Origins
<1> QED BY <1>2, Sizes DEF NextPtr

-----------------------------------------------------------------------------
(* The start.                                                              *)

\* The constructor leaves all as it should be.
LEMMA InitDither == DitherInit => DitherInv
<1> SUFFICES ASSUME DitherInit PROVE DitherInv
  OBVIOUS
<1>1. turn \in Channels /\ turn = 0
  BY Sizes DEF DitherInit, Channels
<1>2. Fresh
  BY <1>1 DEF DitherInit, Fresh, Origin
<1>3. ASSUME NEW c \in Channels
      PROVE  /\ randtabPtr[c] = Origin(c) /\ start[c] = Origin(c)
             /\ Origin(c) \in 1 .. RandtabSize /\ Origin(c) + BlockLength <= RandtabSize
             /\ Origin(c) - 1 \in 0 .. RandtabSize - 1 /\ Origin(c) - 1 = c * Spacing
  <2>1. Origin(c) \in Nat /\ Origin(c) >= 1 /\ Origin(c) + Spacing <= RandtabSize
    BY Origins
  <2>2. c * Spacing + 1 \in Nat /\ c * Spacing \in Int
    BY Sizes DEF Channels
  <2> QED BY <1>2, <2>1, <2>2, Sizes DEF Fresh, Origin
<1>4. randtab = [n \in 0 .. RandtabSize - 1 |-> Random(n)]
  BY DEF DitherInit
<1>5. randtab \in [0 .. RandtabSize - 1 -> Numbers]
  BY <1>4, DitherAssumption, Sizes
<1>6. \A c \in Channels : last[c] = Random(c * Spacing) /\ At(randtab, randtabPtr[c] - 1) = Random(c * Spacing)
  BY <1>3, <1>4 DEF DitherInit, At
<1>7. DitherTypeOK
  <2>1. \A c \in Channels : Random(c * Spacing) \in Numbers
    BY <1>3, <1>4, <1>5
  <2>2. randtabPtr \in [Channels -> Nat] /\ start \in [Channels -> Nat]
    BY <1>3 DEF DitherInit, Origin
  <2> QED BY <1>1, <1>5, <2>1, <2>2 DEF DitherTypeOK, DitherInit
<1>8. InTable /\ PtrInv
  BY <1>1, <1>3, Origins DEF InTable, PtrInv
<1>9. LastInv
  BY <1>6 DEF LastInv
<1> QED BY <1>2, <1>7, <1>8, <1>9 DEF DitherInv

-----------------------------------------------------------------------------
(* A block.                                                                *)

\* Where the block of channel c is taken from.
From(c) == IF Wraps(c) THEN 1 ELSE randtabPtr[c]

\* The block of a channel lies in the table wherever its pointer is.
LEMMA FromFacts ==
  ASSUME DitherTypeOK, PtrInv, NEW c \in Channels
  PROVE  /\ From(c) \in 1 .. RandtabSize /\ From(c) + BlockLength <= RandtabSize
         /\ From(c) + BlockLength = NextPtr(randtabPtr[c])
<1>1. 0 \in Channels
  BY Sizes DEF Channels
<1>2. Origin(0) \in Nat /\ Origin(0) >= 1 /\ Origin(0) + Spacing <= RandtabSize
  BY <1>1, Origins
<1>3. randtabPtr[c] \in 1 .. RandtabSize
  BY DEF PtrInv
<1> QED BY <1>2, <1>3, Sizes DEF From, NextPtr, Wraps

\* What Preloop does, without its local name.
LEMMA PreloopFacts ==
  ASSUME DitherTypeOK, PtrInv, NEW t \in Channels, Preloop(t)
  PROVE  /\ randtab' = Carried(t)
         /\ start' = [start EXCEPT ![t] = From(t)]
         /\ randtabPtr' = [randtabPtr EXCEPT ![t] = From(t) + BlockLength]
         /\ last' = [last EXCEPT ![t] = At(Carried(t), From(t) + BlockLength - 1)]
BY DEF Preloop, From

\* The table is changed in entry 0 at most, and keeps its numbers.
LEMMA CarriedFacts ==
  ASSUME DitherTypeOK, PtrInv, NEW t \in Channels
  PROVE  /\ Carried(t) \in [0 .. RandtabSize - 1 -> Numbers]
         /\ \A n \in 1 .. RandtabSize - 1 : Carried(t)[n] = randtab[n]
         /\ Carried(t)[From(t) - 1] = At(randtab, randtabPtr[t] - 1)
<1>1. randtab \in [0 .. RandtabSize - 1 -> Numbers]
  BY DEF DitherTypeOK
<1>2. randtabPtr[t] \in 1 .. RandtabSize
  BY DEF PtrInv
<1>3. randtabPtr[t] - 1 \in 0 .. RandtabSize - 1 /\ 0 \in 0 .. RandtabSize - 1
  BY <1>2, Sizes
<1>4. At(randtab, randtabPtr[t] - 1) \in Numbers /\ At(randtab, randtabPtr[t] - 1) = randtab[randtabPtr[t] - 1]
  BY <1>1, <1>3 DEF At
<1>5. CASE Wraps(t)
  BY <1>1, <1>3, <1>4, <1>5 DEF Carried, From
<1>6. CASE ~Wraps(t)
  BY <1>1, <1>3, <1>4, <1>6 DEF Carried, From
<1> QED BY <1>5, <1>6

\* The turn passes on.
LEMMA TurnFacts ==
  ASSUME turn \in Channels, NextTurn
  PROVE  /\ turn' \in Channels
         /\ turn' = IF turn = NChannels - 1 THEN 0 ELSE turn + 1
         /\ \A c \in Channels : (turn' = 0 \/ c < turn') <=> (turn = NChannels - 1 \/ c <= turn)
BY Sizes DEF NextTurn, Channels

\* A block keeps the types.
LEMMA StepTypes ==
  ASSUME DitherTypeOK, PtrInv, Preloop(turn), NextTurn
  PROVE  DitherTypeOK'
<1>1. turn \in Channels
  BY DEF DitherTypeOK
<1>2. From(turn) \in 1 .. RandtabSize /\ From(turn) + BlockLength <= RandtabSize
  BY <1>1, FromFacts
<1>3. Carried(turn) \in [0 .. RandtabSize - 1 -> Numbers]
  BY <1>1, CarriedFacts
<1>4. At(Carried(turn), From(turn) + BlockLength - 1) \in Numbers
  <2>1. From(turn) + BlockLength - 1 \in 0 .. RandtabSize - 1
    BY <1>2, Sizes
  <2> QED BY <2>1, <1>3 DEF At
<1>5. randtab' \in [0 .. RandtabSize - 1 -> Numbers]
  BY <1>1, <1>3, PreloopFacts
<1>6. start' \in [Channels -> Nat] /\ randtabPtr' \in [Channels -> Nat]
  <2>1. From(turn) \in Nat /\ From(turn) + BlockLength \in Nat
    BY <1>2, Sizes
  <2>2. /\ start' = [start EXCEPT ![turn] = From(turn)]
        /\ randtabPtr' = [randtabPtr EXCEPT ![turn] = From(turn) + BlockLength]
    BY <1>1, PreloopFacts
  <2> QED BY <2>1, <2>2 DEF DitherTypeOK
<1>7. last' \in [Channels -> Numbers]
  BY <1>1, <1>4, PreloopFacts DEF DitherTypeOK
<1>8. turn' \in Channels
  BY <1>1, TurnFacts
<1> QED BY <1>5, <1>6, <1>7, <1>8 DEF DitherTypeOK

\* It lies in the table, and leaves the pointer there.
LEMMA StepInTable ==
  ASSUME DitherTypeOK, PtrInv, InTable, Preloop(turn), NextTurn
  PROVE  InTable' /\ PtrInv'
<1>1. turn \in Channels
  BY DEF DitherTypeOK
<1>2. From(turn) \in 1 .. RandtabSize /\ From(turn) + BlockLength <= RandtabSize
  BY <1>1, FromFacts
<1>3. \A c \in Channels : start'[c] = IF c = turn THEN From(turn) ELSE start[c]
  BY <1>1, PreloopFacts DEF DitherTypeOK
<1>4. \A c \in Channels :
        randtabPtr'[c] = IF c = turn THEN From(turn) + BlockLength ELSE randtabPtr[c]
  BY <1>1, PreloopFacts DEF DitherTypeOK
<1>5. InTable'
  BY <1>2, <1>3 DEF InTable
<1>6. ASSUME NEW c \in Channels
      PROVE  randtabPtr'[c] \in 1 .. RandtabSize /\ randtabPtr'[c] # 1
  <2>1. CASE c = turn
    BY <1>2, <1>4, <2>1, Sizes
  <2>2. CASE c # turn
    <3>1. randtabPtr[c] \in 1 .. RandtabSize /\ randtabPtr'[c] = randtabPtr[c]
      BY <1>4, <2>2 DEF PtrInv
    <3>2. randtabPtr[c] # 1
      BY <2>2 DEF PtrInv
    <3> QED BY <3>1, <3>2
  <2> QED BY <2>1, <2>2
<1>7. PtrInv'
  BY <1>6 DEF PtrInv
<1> QED BY <1>5, <1>7

\* The number before the pointer stays the last that was used.
LEMMA StepLast ==
  ASSUME DitherTypeOK, PtrInv, LastInv, Preloop(turn), NextTurn
  PROVE  LastInv'
<1>1. turn \in Channels
  BY DEF DitherTypeOK
<1>2. From(turn) \in 1 .. RandtabSize /\ From(turn) + BlockLength <= RandtabSize
  BY <1>1, FromFacts
<1>3. /\ randtab' = Carried(turn)
      /\ Carried(turn) \in [0 .. RandtabSize - 1 -> Numbers]
      /\ \A n \in 1 .. RandtabSize - 1 : Carried(turn)[n] = randtab[n]
  BY <1>1, CarriedFacts, PreloopFacts
<1>4. ASSUME NEW c \in Channels
      PROVE  last'[c] = At(randtab', randtabPtr'[c] - 1)
  <2>1. CASE c = turn
    <3>1. last'[c] = At(Carried(turn), From(turn) + BlockLength - 1)
      BY <1>1, <2>1, PreloopFacts DEF DitherTypeOK
    <3>2. randtabPtr'[c] = From(turn) + BlockLength
      BY <1>1, <2>1, PreloopFacts DEF DitherTypeOK
    <3>3. randtabPtr'[c] - 1 = From(turn) + BlockLength - 1
      BY <3>2, <1>2, Sizes
    <3>4. At(randtab', randtabPtr'[c] - 1) = At(Carried(turn), From(turn) + BlockLength - 1)
      BY <1>3, <3>3, Zenon
    <3> QED BY <3>1, <3>4
  <2>2. CASE c # turn
    <3>1. last'[c] = last[c] /\ randtabPtr'[c] = randtabPtr[c]
      BY <1>1, <2>2, PreloopFacts DEF DitherTypeOK
    <3>2. randtabPtr[c] \in 1 .. RandtabSize /\ randtabPtr[c] # 1
      BY <2>2 DEF PtrInv
    <3>3. randtabPtr[c] - 1 \in 1 .. RandtabSize - 1 /\ randtabPtr[c] - 1 \in 0 .. RandtabSize - 1
      BY <3>2, Sizes
    <3>4. At(randtab, randtabPtr[c] - 1) = randtab[randtabPtr[c] - 1]
      BY <3>3 DEF At, DitherTypeOK
    <3>5. At(Carried(turn), randtabPtr[c] - 1) = Carried(turn)[randtabPtr[c] - 1]
      BY <1>3, <3>3 DEF At
    <3> QED BY <1>3, <3>1, <3>3, <3>4, <3>5 DEF LastInv
  <2> QED BY <2>1, <2>2
<1> QED BY <1>4 DEF LastInv, At

\* A block ends at the pointer.
LEMMA StepStart ==
  ASSUME DitherTypeOK, PtrInv, Fresh \/ StartInv, Preloop(turn), NextTurn
  PROVE  StartInv'
<1>1. turn \in Channels
  BY DEF DitherTypeOK
<1>2. From(turn) \in Nat
  BY <1>1, FromFacts
<1>3. \A c \in Channels :
        /\ start'[c] = IF c = turn THEN From(turn) ELSE start[c]
        /\ randtabPtr'[c] = IF c = turn THEN From(turn) + BlockLength ELSE randtabPtr[c]
  BY <1>1, PreloopFacts DEF DitherTypeOK
<1>4. ASSUME NEW c \in Channels, turn' = 0 \/ c < turn'
      PROVE  start'[c] = randtabPtr'[c] - BlockLength
  <2>1. CASE c = turn
    BY <1>2, <1>3, <2>1, Sizes
  <2>2. CASE c # turn
    <3>1. c < turn
      BY <1>1, <1>4, <2>2, TurnFacts, Sizes DEF Channels
    <3>2. StartInv
      BY <3>1, Sizes DEF Fresh, Channels
    <3>3. start[c] = randtabPtr[c] - BlockLength
      BY <3>1, <3>2 DEF StartInv
    <3> QED BY <1>3, <2>2, <3>3
  <2> QED BY <2>1, <2>2
<1> QED BY <1>4 DEF StartInv

\* Where the pointers will stand at the end of the round changes only when a
\* new round begins.
LEMMA AfterStep ==
  ASSUME DitherTypeOK, PtrInv, Preloop(turn), NextTurn, NEW c \in Channels
  PROVE  After(c)' = IF turn = 0 THEN NextPtr(randtabPtr[c]) ELSE After(c)
<1>1. turn \in Channels
  BY DEF DitherTypeOK
<1>2. randtabPtr'[c] = IF c = turn THEN NextPtr(randtabPtr[c]) ELSE randtabPtr[c]
  BY <1>1, PreloopFacts, FromFacts DEF DitherTypeOK
<1>3. (turn' = 0 \/ c < turn') <=> (turn = NChannels - 1 \/ c <= turn)
  BY <1>1, TurnFacts
<1>4. After(c)' = IF turn' = 0 \/ c < turn' THEN randtabPtr'[c] ELSE NextPtr(randtabPtr'[c])
  BY DEF After, NextPtr
<1>5. c \in Nat /\ turn \in Nat /\ c <= NChannels - 1
  BY <1>1, Sizes DEF Channels
<1>6. CASE c = turn
  BY <1>2, <1>3, <1>4, <1>5, <1>6 DEF After
<1>7. CASE c < turn
  BY <1>2, <1>3, <1>4, <1>5, <1>7 DEF After
<1>8. CASE c > turn
  BY <1>2, <1>3, <1>4, <1>5, <1>8, Sizes DEF After
<1> QED BY <1>5, <1>6, <1>7, <1>8

\* The pointers stay as far apart as they are.
LEMMA StepRound ==
  ASSUME DitherTypeOK, PtrInv, Fresh \/ RoundInv, Preloop(turn), NextTurn
  PROVE  RoundInv'
<1> SUFFICES ASSUME Spacing > BlockLength PROVE RoundInv'
  BY DEF RoundInv
<1> DEFINE Wide(a, b) == a + BlockLength <= b \/ b + BlockLength <= a
<1>1. SUFFICES /\ \A c \in Channels : After(c)' \in 1 + BlockLength .. RandtabSize - 1
               /\ \A c, d \in Channels : c # d => Wide(After(c)', After(d)')
  BY DEF RoundInv, RandtabSize, Channels
<1>2. CASE Fresh
  <2>1. ASSUME NEW c \in Channels
        PROVE  /\ After(c)' = Origin(c) + BlockLength
               /\ After(c)' \in 1 + BlockLength .. RandtabSize - 1
    <3>1. Origin(c) \in Nat /\ Origin(c) >= 1 /\ Origin(c) + Spacing <= RandtabSize
      BY Origins
    <3>2. After(c)' = NextPtr(Origin(c))
      BY <1>2, AfterStep DEF Fresh
    <3> QED BY <3>1, <3>2, Sizes DEF NextPtr
  <2>2. ASSUME NEW c \in Channels, NEW d \in Channels, c < d
        PROVE  Wide(After(c)', After(d)')
    <3>1. Origin(c) + Spacing <= Origin(d) /\ Origin(c) \in Nat /\ Origin(d) \in Nat
      BY <2>2, Origins
    <3> QED BY <2>1, <3>1, Sizes
  <2> QED BY <2>1, <2>2, Sizes DEF Channels
<1>3. CASE RoundInv /\ turn = 0
  <2>1. ASSUME NEW c \in Channels
        PROVE  /\ After(c) = randtabPtr[c] /\ After(c)' = NextPtr(After(c))
               /\ After(c) \in 1 + BlockLength .. RandtabSize - 1
               /\ After(c)' \in 1 + BlockLength .. RandtabSize - 1
    <3>1. After(c) = randtabPtr[c] /\ After(c)' = NextPtr(randtabPtr[c])
      BY <1>3, AfterStep DEF After
    <3> QED BY <1>3, <3>1, NextInside DEF RoundInv, PtrInv
  <2>2. ASSUME NEW c \in Channels, NEW d \in Channels, c # d
        PROVE  Wide(After(c)', After(d)')
    <3>1. Wide(After(c), After(d))
      BY <1>3, <2>2 DEF RoundInv
    <3>2. CASE After(c) + BlockLength <= After(d)
      BY <2>1, <3>2, NextApart
    <3>3. CASE After(d) + BlockLength <= After(c)
      BY <2>1, <3>3, NextApart
    <3> QED BY <3>1, <3>2, <3>3
  <2> QED BY <2>1, <2>2
<1>4. CASE RoundInv /\ turn # 0
  <2>1. \A c \in Channels : After(c)' = After(c)
    BY <1>4, AfterStep
  <2> QED BY <1>4, <2>1 DEF RoundInv
<1> QED BY <1>2, <1>3, <1>4

\* A block of any channel preserves all that is known of the numbers.
LEMMA BlockKeeps == DitherInv /\ Preloop(turn) /\ NextTurn => DitherInv'
<1> SUFFICES ASSUME DitherInv, Preloop(turn), NextTurn PROVE DitherInv'
  OBVIOUS
<1>1. DitherTypeOK /\ InTable /\ PtrInv /\ LastInv /\ (Fresh \/ (StartInv /\ RoundInv))
  BY DEF DitherInv
<1>2. DitherTypeOK' /\ InTable' /\ PtrInv'
  BY <1>1, StepTypes, StepInTable
<1>3. LastInv'
  BY <1>1, StepLast
<1>4. StartInv' /\ RoundInv'
  BY <1>1, StepStart, StepRound
<1> QED BY <1>2, <1>3, <1>4 DEF DitherInv

-----------------------------------------------------------------------------
(* The specification of SampleFormats.                                     *)

\* The numbers are as they should be at the start, used or not.
LEMMA InitNumbers == Init => NumbersInv
<1> SUFFICES ASSUME Init PROVE NumbersInv
  OBVIOUS
<1>1. DitherInit
  BY DEF Init
<1>2. DitherInv
  BY <1>1, InitDither
<1>3. \A c \in Channels : start[c] = Origin(c)
  BY <1>1 DEF DitherInit, Origin
<1> QED BY <1>2, <1>3 DEF NumbersInv, DitherInv

\* And so they stay.
LEMMA StepNumbers == NumbersInv /\ [Next]_vars => NumbersInv'
<1> SUFFICES ASSUME NumbersInv, [Next]_vars PROVE NumbersInv'
  OBVIOUS
<1>1. CASE UNCHANGED <<ditherVars, outFormat, applyDither>>
  <2>1. UNCHANGED <<randtab, randtabPtr, start, turn, last, outFormat, applyDither>>
    BY <1>1 DEF ditherVars
  <2> QED BY <2>1 DEF NumbersInv, DitherInv, DitherTypeOK, InTable, PtrInv, LastInv, Fresh,
                      StartInv, RoundInv, After, UsesDither, At
<1>2. CASE \E beyond \in {0, 100 * One} : RunChannel(beyond)
  <2>1. /\ NextTurn /\ UNCHANGED <<outFormat, applyDither>>
        /\ UsesDither => Preloop(turn)
        /\ ~UsesDither => UNCHANGED <<randtab, randtabPtr, start, last>>
    BY <1>2 DEF RunChannel
  <2>2. UsesDither' <=> UsesDither
    BY <2>1 DEF UsesDither
  <2>3. CASE UsesDither
    <3>1. DitherInv
      BY <2>3 DEF NumbersInv
    <3>2. DitherInv'
      BY <2>1, <2>3, <3>1, BlockKeeps
    <3> QED BY <2>2, <2>3, <3>2 DEF NumbersInv, DitherInv
  <2>4. CASE ~UsesDither
    <3>1. turn' \in Channels
      BY <2>1, TurnFacts DEF NumbersInv, DitherTypeOK
    <3> QED BY <2>1, <2>2, <2>4, <3>1 DEF NumbersInv, DitherTypeOK, InTable
  <2> QED BY <2>3, <2>4
<1>3. CASE \E v \in Samples(inFormat) : NewBlock(v)
  BY <1>1, <1>3 DEF NewBlock
<1>4. CASE UNCHANGED vars
  BY <1>1, <1>4 DEF vars
<1> QED BY <1>2, <1>3, <1>4 DEF Next

\* And always are.
LEMMA NumbersAlways == Spec => []NumbersInv
BY InitNumbers, StepNumbers, PTL DEF Spec

\* Origins are at least a spacing apart.
LEMMA FreshApart ==
  ASSUME Spacing > BlockLength, \A c \in Channels : start[c] = Origin(c)
  PROVE  Apart
<1>1. ASSUME NEW c \in Channels, NEW d \in Channels, c < d
      PROVE  start[c] + BlockLength <= start[d]
  <2>1. Origin(c) + Spacing <= Origin(d) /\ Origin(c) \in Nat /\ Origin(d) \in Nat
    BY <1>1, Origins
  <2> QED BY <2>1, Sizes
<1> QED BY <1>1, Sizes DEF Apart, Channels

\* The invariant implies the property.
LEMMA NumbersFit == NumbersInv => WindowsFit
<1> SUFFICES ASSUME NumbersInv, turn = 0, Spacing > BlockLength PROVE Apart
  BY DEF NumbersInv, WindowsFit
<1>1. CASE \A c \in Channels : start[c] = Origin(c)
  BY <1>1, FreshApart
<1>2. CASE StartInv /\ RoundInv
  <2>1. \A c \in Channels : After(c) = randtabPtr[c] /\ start[c] = randtabPtr[c] - BlockLength
    BY <1>2 DEF After, StartInv
  <2>2. \A c \in Channels : randtabPtr[c] \in Int
    BY DEF NumbersInv, DitherTypeOK
  <2>3. \A c, d \in Channels :
          c # d => randtabPtr[c] + BlockLength <= randtabPtr[d] \/ randtabPtr[d] + BlockLength <= randtabPtr[c]
    BY <1>2, <2>1 DEF RoundInv
  <2> QED BY <2>1, <2>2, <2>3, Sizes DEF Apart
<1> QED BY <1>1, <1>2 DEF NumbersInv, DitherInv, Fresh

\* With however many channels, however long blocks and however small a
\* table, no block of random numbers reaches past the table's end, and the
\* blocks of two channels never overlap (dither.cpp:110-146).
THEOREM NumbersSafe == Spec => []WindowsFit
BY NumbersAlways, NumbersFit, PTL

\* The noise of a channel has no break where the table starts over
\* (dither.cpp:137-145, 163-166).
THEOREM NoiseSafe == Spec => NoiseIsContinuous
<1>1. NumbersInv /\ [Next]_vars
        => [\A c \in Channels :
              randtabPtr'[c] # randtabPtr[c] => randtab'[start'[c] - 1] = last[c]]_ditherVars
  <2> SUFFICES ASSUME NumbersInv, [Next]_vars, NEW c \in Channels, randtabPtr'[c] # randtabPtr[c]
               PROVE  randtab'[start'[c] - 1] = last[c]
    OBVIOUS
  <2>1. randtabPtr' # randtabPtr
    OBVIOUS
  <2>2. PICK beyond \in {0, 100 * One} : RunChannel(beyond)
    BY <2>1 DEF Next, NewBlock, vars, ditherVars
  <2>3. UsesDither /\ Preloop(turn)
    BY <2>1, <2>2 DEF RunChannel
  <2>4. DitherTypeOK /\ PtrInv /\ LastInv /\ turn \in Channels
    BY <2>3 DEF NumbersInv, DitherInv, DitherTypeOK
  <2>5. /\ randtab' = Carried(turn)
        /\ start' = [start EXCEPT ![turn] = From(turn)]
        /\ randtabPtr' = [randtabPtr EXCEPT ![turn] = From(turn) + BlockLength]
    BY <2>3, <2>4, PreloopFacts
  <2>6. c = turn
    BY <2>4, <2>5 DEF DitherTypeOK
  <2>7. start'[c] = From(turn)
    BY <2>4, <2>5, <2>6 DEF DitherTypeOK
  <2>8. Carried(turn)[From(turn) - 1] = At(randtab, randtabPtr[turn] - 1)
    BY <2>4, CarriedFacts
  <2> QED BY <2>4, <2>5, <2>6, <2>7, <2>8 DEF LastInv
<1> QED BY <1>1, NumbersAlways, PTL DEF Spec, NoiseIsContinuous

-----------------------------------------------------------------------------
(* Induction and recursion over natural numbers.                           *)

\* A set that holds zero and with each number the next holds all of them,
\* since there is no least number that it does not hold.
LEMMA Induction ==
  ASSUME NEW S, 0 \in S, \A n \in Nat : n \in S => n + 1 \in S
  PROVE  Nat \subseteq S
<1> DEFINE T == Nat \ S
           R == OpToRel(<, Nat)
<1>1. SUFFICES ASSUME T # {} PROVE FALSE
  OBVIOUS
<1>2. \A m, n \in Nat : m < n => <<m, n>> \in R
  BY DEF OpToRel
<1>3. PICK x \in T : \A y \in T : ~(<<y, x>> \in R)
  <2>1. T \subseteq Nat /\ IsWellFoundedOn(R, Nat)
    BY NatLessThanWellFounded
  <2> HIDE DEF T, R
  <2> QED BY <1>1, <2>1, WFMin
<1> HIDE DEF R
<1>4. x \in Nat \ {0} /\ x - 1 \in Nat /\ x - 1 < x /\ (x - 1) + 1 = x
  BY <1>3
<1>5. x - 1 \in S
  BY <1>2, <1>3, <1>4
<1> QED BY <1>3, <1>4, <1>5

\* f begins with a, and goes on as g says.
Unfolds(f, n, T, a, g) ==
  f \in [0 .. n -> T] /\ f[0] = a /\ \A j \in 1 .. n : f[j] = g[<<j, f[j - 1]>>]

\* A recursive function is what its equation says: there is one for which
\* the equation holds.
LEMMA Recursion ==
  ASSUME NEW n \in Nat, NEW T, NEW a \in T, NEW g \in [(1 .. n) \X T -> T]
  PROVE  \E f : Unfolds(f, n, T, a, g)
<1> DEFINE Up(m, f) == \A j \in 0 .. m : f[j] = IF j = 0 THEN a ELSE g[<<j, f[j - 1]>>]
           S == {m \in Nat : m <= n => \E f \in [0 .. m -> T] : Up(m, f)}
<1>1. 0 \in S
  <2>1. [j \in 0 .. 0 |-> a] \in [0 .. 0 -> T] /\ Up(0, [j \in 0 .. 0 |-> a])
    OBVIOUS
  <2> QED BY <2>1
<1>2. ASSUME NEW m \in Nat, m \in S PROVE m + 1 \in S
  <2>1. SUFFICES ASSUME m + 1 <= n PROVE \E f \in [0 .. m + 1 -> T] : Up(m + 1, f)
    OBVIOUS
  <2>2. PICK f \in [0 .. m -> T] : Up(m, f)
    BY <1>2, <2>1
  <2>3. \A j \in 0 .. m : f[j] = IF j = 0 THEN a ELSE g[<<j, f[j - 1]>>]
    BY <2>2
  <2> DEFINE v == g[<<m + 1, f[m]>>]
             h == [j \in 0 .. m + 1 |-> IF j <= m THEN f[j] ELSE v]
  <2>4. v \in T
    BY <2>1, <2>2
  <2>5. v = g[<<m + 1, f[m]>>]
    OBVIOUS
  <2> HIDE DEF v
  <2>6. h \in [0 .. m + 1 -> T] /\ h[m + 1] = v /\ \A j \in 0 .. m : h[j] = f[j]
    BY <2>2, <2>4
  <2> HIDE DEF h
  <2>7. ASSUME NEW j \in 0 .. m + 1 PROVE h[j] = IF j = 0 THEN a ELSE g[<<j, h[j - 1]>>]
    <3>1. CASE j \in 1 .. m
      <4>1. j - 1 \in 0 .. m /\ j \in 0 .. m
        BY <3>1
      <4>2. h[j] = f[j] /\ h[j - 1] = f[j - 1]
        BY <2>6, <4>1
      <4> QED BY <2>3, <3>1, <4>1, <4>2
    <3>2. CASE j = m + 1
      <4>1. j - 1 = m /\ j # 0
        BY <3>2
      <4>2. h[m] = f[m]
        BY <2>6
      <4>3. h[j] = v /\ h[j - 1] = f[m]
        BY ONLY <2>6, <3>2, <4>1, <4>2
      <4> QED BY ONLY <2>5, <3>2, <4>1, <4>3
    <3>3. CASE j = 0
      <4>1. 0 \in 0 .. m
        OBVIOUS
      <4>2. f[0] = a
        BY <2>3, <4>1
      <4> QED BY <2>6, <3>3, <4>1, <4>2
    <3> QED BY <3>1, <3>2, <3>3
  <2> QED BY <2>6, <2>7
<1>3. Nat \subseteq S
  <2> HIDE DEF S
  <2> QED BY <1>1, <1>2, Induction
<1>4. PICK f \in [0 .. n -> T] : Up(n, f)
  BY <1>3
<1>5. f[0] = a
  <2>1. 0 \in 0 .. n
    OBVIOUS
  <2> QED BY <1>4, <2>1
<1>6. \A j \in 1 .. n : f[j] = g[<<j, f[j - 1]>>]
  BY <1>4
<1> QED BY <1>5, <1>6 DEF Unfolds

-----------------------------------------------------------------------------
(* Division.                                                               *)

\* A number is what is divided off and what remains.
LEMMA Divided ==
  ASSUME NEW x \in Int, NEW b \in Nat \ {0}
  PROVE  x \div b \in Int /\ x % b \in 0 .. b - 1 /\ x = b * (x \div b) + (x % b)
BY SMT

\* Quotient and remainder are the only ones.
LEMMA Unique ==
  ASSUME NEW b \in Nat \ {0}, NEW q \in Int, NEW r \in 0 .. b - 1, NEW x \in Int, x = b * q + r
  PROVE  x \div b = q /\ x % b = r
<1>1. x % b = r
  BY SMT
<1>2. b * (x \div b) = b * q /\ x \div b \in Int
  BY <1>1, Divided, SMT
<1> QED BY <1>1, <1>2, SMT

\* A multiple of a number is divided by it without a remainder.
LEMMA Multiple ==
  ASSUME NEW b \in Nat \ {0}, NEW q \in Int
  PROVE  (q * b) \div b = q
<1>1. q * b \in Int /\ q * b = b * q + 0 /\ 0 \in 0 .. b - 1
  BY SMT
<1> QED BY <1>1, Unique

\* What is below b is not divided.
LEMMA Below ==
  ASSUME NEW b \in Nat \ {0}, NEW r \in 0 .. b - 1
  PROVE  r \div b = 0 /\ r % b = r
<1>1. r = b * 0 + r /\ r \in Int
  OBVIOUS
<1> QED BY <1>1, Unique

-----------------------------------------------------------------------------
(* The ranges of integers.                                                 *)

\* The powers of Byte.
LEMMA PowerUnfold ==
  /\ Power[0] = 1
  /\ \A k \in 1 .. 4 : Power[k] = Byte * Power[k - 1]
<1> DEFINE f == [k \in 0 .. 4 |-> IF k = 0 THEN 1 ELSE IF k = 1 THEN Byte * 1
                                  ELSE IF k = 2 THEN Byte * (Byte * 1)
                                  ELSE IF k = 3 THEN Byte * (Byte * (Byte * 1))
                                  ELSE Byte * (Byte * (Byte * (Byte * 1)))]
           Is(g) == g = [k \in 0 .. 4 |-> IF k = 0 THEN 1 ELSE Byte * g[k - 1]]
<1>1. f[0] = 1 /\ f[1] = Byte * f[0] /\ f[2] = Byte * f[1] /\ f[3] = Byte * f[2] /\ f[4] = Byte * f[3]
  OBVIOUS
<1>2. f = [k \in 0 .. 4 |-> f[k]]
  OBVIOUS
<1> HIDE DEF f
<1>3. \A k \in 0 .. 4 : f[k] = IF k = 0 THEN 1 ELSE Byte * f[k - 1]
  <2>1. \A k \in 0 .. 4 : k \in {0, 1, 2, 3, 4}
    OBVIOUS
  <2> QED BY <1>1, <2>1
<1>4. Is(f)
  BY <1>2, <1>3
<1>5. Power = CHOOSE g : Is(g)
  BY DEF Power
<1> HIDE DEF Is
<1>6. Is(Power)
  BY <1>4, <1>5
<1> QED BY <1>6 DEF Is

\* Half the number of values of an integer of so many bytes.
Half(bytes) == Power[bytes] \div 2

\* The number of values is positive and, but for no bytes, even.
LEMMA PowerFacts ==
  /\ Power[0] = 1 /\ Byte \in Nat \ {0, 1}
  /\ \A k \in 0 .. 4 : Power[k] \in Nat \ {0}
  /\ \A k \in 1 .. 4 : Half(k) \in Nat \ {0} /\ Power[k] = 2 * Half(k) /\ Half(k) <= Half(4)
  /\ Half(1) <= Half(2) /\ Half(2) <= Half(3) /\ Half(3) < Half(4) /\ Power[3] <= Half(4)
<1>1. PICK h \in Nat \ {0} : Byte = 2 * h
  <2>1. Byte \in Nat \ {0} /\ Byte % 2 = 0
    BY FormatAssumption
  <2> QED BY <2>1, SMT
<1>2. Byte \in Nat \ {0, 1} /\ Byte >= 2
  BY <1>1
<1>3. /\ Power[0] = 1 /\ Power[1] = Byte * Power[0] /\ Power[2] = Byte * Power[1]
      /\ Power[3] = Byte * Power[2] /\ Power[4] = Byte * Power[3]
  BY PowerUnfold
<1>4. ASSUME NEW p \in Nat \ {0}
      PROVE  /\ Byte * p = 2 * (h * p) /\ h * p \in Nat \ {0}
             /\ Byte * p \in Nat \ {0} /\ (Byte * p) \div 2 = h * p /\ 2 * p <= Byte * p
  <2>1. Byte * p = 2 * (h * p) /\ h * p \in Nat \ {0}
    BY <1>1, SMT
  <2>2. h * p >= p
    BY <1>1, SMT
  <2> QED BY <2>1, <2>2
<1>5. Power[1] \in Nat \ {0}
  BY <1>3, <1>2
<1>6. Power[2] \in Nat \ {0} /\ Power[2] >= 2 * Power[1]
  BY <1>3, <1>4, <1>5
<1>7. Power[3] \in Nat \ {0} /\ Power[3] >= 2 * Power[2]
  BY <1>3, <1>4, <1>6
<1>8. Power[4] \in Nat \ {0} /\ Power[4] >= 2 * Power[3]
  BY <1>3, <1>4, <1>7
<1>9. ASSUME NEW k \in 1 .. 4 PROVE Half(k) \in Nat \ {0} /\ Power[k] = 2 * Half(k)
  <2>1. \E p \in Nat \ {0} : Power[k] = Byte * p
    <3>1. k \in {1, 2, 3, 4}
      OBVIOUS
    <3> QED BY <1>3, <1>5, <1>6, <1>7, <3>1
  <2> QED BY <1>4, <2>1 DEF Half
<1>10. \A k \in 0 .. 4 : k \in {0, 1, 2, 3, 4}
  OBVIOUS
<1>11. \A k \in 1 .. 4 : k \in {1, 2, 3, 4}
  OBVIOUS
<1>12. \A k \in 0 .. 4 : Power[k] \in Nat \ {0}
  BY <1>3, <1>5, <1>6, <1>7, <1>8, <1>10
<1>13. /\ Half(1) \in Nat \ {0} /\ Power[1] = 2 * Half(1) /\ Half(2) \in Nat \ {0} /\ Power[2] = 2 * Half(2)
       /\ Half(3) \in Nat \ {0} /\ Power[3] = 2 * Half(3) /\ Half(4) \in Nat \ {0} /\ Power[4] = 2 * Half(4)
  BY <1>9
<1>14. Half(1) <= Half(2) /\ Half(2) <= Half(3) /\ Half(3) < Half(4) /\ Power[3] <= Half(4)
  BY ONLY <1>13, <1>6, <1>7, <1>8
<1>15. \A k \in 1 .. 4 : Half(k) <= Half(4)
  BY <1>11, <1>13, <1>14
<1> QED BY <1>2, <1>3, <1>9, <1>12, <1>14, <1>15

\* An integer of so many bytes is in its range, and what is in the range is
\* not changed.
LEMMA SignedFacts ==
  ASSUME NEW b \in 1 .. 4, NEW n \in Int
  PROVE  /\ Signed(n, b) \in -Half(b) .. Half(b) - 1
         /\ n \in -Half(b) .. Half(b) - 1 => Signed(n, b) = n
         /\ Signed(Signed(n, b), b) = Signed(n, b)
<1>1. PICK h \in Nat \ {0} : h = Half(b) /\ Power[b] = 2 * h
  BY PowerFacts
<1>2. ASSUME NEW x \in Int
      PROVE  Signed(x, b) \in -h .. h - 1 /\ (x \in -h .. h - 1 => Signed(x, b) = x)
  <2>1. 2 * h \in Nat \ {0}
    BY <1>1
  <2>2. PICK m \in 0 .. 2 * h - 1 : m = x % (2 * h)
    BY <2>1, Divided
  <2>3. Signed(x, b) = IF 2 * m >= 2 * h THEN m - 2 * h ELSE m
    BY <1>1, <2>2 DEF Signed
  <2>4. CASE x \in 0 .. h - 1
    <3>1. x \in 0 .. 2 * h - 1
      BY <2>4
    <3>2. m = x
      BY <2>1, <2>2, <3>1, Below
    <3> QED BY <2>3, <2>4, <3>2
  <2>5. CASE x \in -h .. -1
    <3>1. x + 2 * h \in 0 .. 2 * h - 1 /\ x = (2 * h) * (-1) + (x + 2 * h)
      BY <2>5
    <3>2. m = x + 2 * h
      BY <2>1, <2>2, <3>1, Unique
    <3> QED BY <2>3, <2>5, <3>2
  <2>6. CASE x \notin -h .. h - 1
    BY <2>2, <2>3, <2>6
  <2> QED BY <2>4, <2>5, <2>6
<1>3. -h .. h - 1 \subseteq Int
  OBVIOUS
<1> QED BY <1>1, <1>2, <1>3

\* 1 << (8 * bytes - 1) is positive, but negative if there are four bytes.
LEMMA FullScaleFacts ==
  ASSUME NEW b \in 1 .. 4
  PROVE  FullScale(b) = IF b = 4 THEN -Half(4) ELSE Half(b)
<1>1. /\ Half(b) \in Nat \ {0} /\ Half(4) \in Nat \ {0} /\ Power[4] = 2 * Half(4) /\ 4 \in 1 .. 4
      /\ FullScale(b) = Signed(Half(b), 4)
  BY PowerFacts DEF FullScale, Half
<1>2. CASE b = 4
  <2> DEFINE h == Half(4)
  <2>1. h \in Nat \ {0} /\ Power[4] = 2 * h /\ FullScale(b) = Signed(h, 4)
    BY <1>1, <1>2
  <2> HIDE DEF h
  <2>2. h \in 0 .. 2 * h - 1 /\ 2 * h \in Nat \ {0}
    BY <2>1
  <2>3. h % (2 * h) = h
    BY <2>2, Below
  <2>4. Signed(h, 4) = -h
    BY <2>1, <2>3 DEF Signed
  <2> QED BY <1>2, <2>1, <2>4 DEF h
<1>3. CASE b # 4
  <2>1. Half(b) <= Half(3) /\ Half(3) < Half(4) /\ Half(3) \in Nat
    <3>1. b \in {1, 2, 3} /\ Half(1) \in Nat /\ Half(2) \in Nat /\ Half(3) \in Nat
      BY <1>3, PowerFacts
    <3> QED BY <3>1, PowerFacts
  <2>2. Half(b) \in -Half(4) .. Half(4) - 1
    BY <1>1, <2>1
  <2> QED BY <1>1, <1>3, <2>2, SignedFacts
<1> QED BY <1>2, <1>3

-----------------------------------------------------------------------------
(* Formats and places.                                                     *)

\* A format has one to four bytes, or is a float of four or eight.
LEMMA FormatFacts ==
  ASSUME NEW name \in FormatNames
  PROVE  /\ Format(name).isfloat \in BOOLEAN /\ Format(name).swap \in BOOLEAN
         /\ Format(name).bytes \in {1, 2, 3, 4, 8}
         /\ ~Format(name).isfloat => Format(name).bytes \in 1 .. 4
<1>1. Format(name).bytes = IF name = "S8" THEN 1
        ELSE IF name \in {"S16_LE", "S16_BE"} THEN 2
        ELSE IF name \in {"S24_LE", "S24_BE"} THEN 3
        ELSE IF name \in {"FLOAT64_LE", "FLOAT64_BE"} THEN 8 ELSE 4
  BY DEF Format
<1>2. Format(name).isfloat = (name \in {"FLOAT_LE", "FLOAT_BE", "FLOAT64_LE", "FLOAT64_BE"})
  BY Zenon DEF Format
<1>3. Format(name).isfloat \in BOOLEAN /\ Format(name).swap \in BOOLEAN
  BY SMT DEF Format
<1>4. Format(name).bytes \in {1, 2, 3, 4, 8}
  BY <1>1
<1>5. Format(name).bytes \in 1 .. 4 \/ name \in {"FLOAT64_LE", "FLOAT64_BE"}
  BY <1>1
<1>6. name \in {"FLOAT64_LE", "FLOAT64_BE"} => Format(name).isfloat
  BY <1>2, Zenon
<1> QED BY <1>3, <1>4, <1>5, <1>6

\* Element k of row m, of rows of b.
LEMMA InPlace ==
  ASSUME NEW b \in Nat \ {0}, NEW m \in Nat, NEW k \in 0 .. b - 1
  PROVE  (m * b + k) \div b = m /\ (m * b + k) % b = k
<1>1. PICK i \in Int : i = m * b + k /\ i = b * m + k
  BY SMT
<1> QED BY <1>1, Unique

\* Every byte of every sample has a place of its own in the buffer, from
\* which channel, sample and byte can be told.
LEMMA PlaceFacts ==
  ASSUME NEW format, format.bytes \in {1, 2, 3, 4, 8}, NEW c \in Channels,
         NEW n \in 0 .. BlockLength - 1, NEW k \in 0 .. format.bytes - 1
  PROVE  LET i == Place(format, c, n, k) IN
         /\ i \in BufferOf(format) /\ i % format.bytes = k
         /\ (i \div format.bytes) % NChannels = c /\ (i \div format.bytes) \div NChannels = n
<1>1. PICK b \in Nat \ {0} : b = format.bytes
  OBVIOUS
<1>2. NChannels \in Nat \ {0} /\ BlockLength \in Nat \ {0} /\ c \in 0 .. NChannels - 1
  BY DitherAssumption DEF Channels
<1>3. PICK m \in Nat : m = n * NChannels + c
  <2>1. n * NChannels \in Nat
    BY <1>2, SMT
  <2> QED BY <1>2, <2>1
<1>4. m \div NChannels = n /\ m % NChannels = c
  <2>1. m = NChannels * n + c /\ n \in Int
    BY <1>2, <1>3, SMT
  <2> QED BY <1>2, <2>1, Unique
<1>5. PICK i \in Int : i = m * b + k
  <2>1. m * b \in Int
    BY SMT
  <2> QED BY <1>1, <2>1
<1>6. i \div b = m /\ i % b = k
  <2>1. k \in 0 .. b - 1
    BY <1>1
  <2> QED BY ONLY <2>1, <1>5, InPlace, m \in Nat, b \in Nat \ {0}
<1>7. i \in 0 .. BlockLength * NChannels * b - 1
  <2>1. n * NChannels <= (BlockLength - 1) * NChannels
    BY <1>2, SMT
  <2>2. (BlockLength - 1) * NChannels = BlockLength * NChannels - NChannels
        /\ BlockLength * NChannels \in Nat
    BY <1>2, SMT
  <2>3. PICK t \in Nat : t = BlockLength * NChannels
    BY <2>2
  <2>4. m <= t - 1
    BY <1>2, <1>3, <2>1, <2>2, <2>3
  <2>5. m * b <= (t - 1) * b /\ (t - 1) * b = t * b - b /\ t * b \in Int /\ m * b >= 0
    BY <2>4, SMT
  <2>6. i >= 0 /\ i <= t * b - 1
    BY <1>1, <1>5, <2>5
  <2> QED BY <2>3, <2>6
<1>8. Place(format, c, n, k) = i
  BY <1>1, <1>3, <1>5 DEF Place
<1> QED BY <1>1, <1>4, <1>6, <1>7, <1>8 DEF BufferOf

-----------------------------------------------------------------------------
(* Numbers.                                                                *)

\* A half is a whole number of units.
LEMMA OneFacts == One \in Nat \ {0} /\ One % 2 = 0 /\ One = 2 * (One \div 2) /\ One \div 2 \in Nat \ {0}
<1>1. PICK b \in Nat \ {0} : b = Byte - 1
  BY PowerFacts
<1>2. PICK t \in Nat \ {0} : t = 2 * b
  OBVIOUS
<1>3. One \in Nat \ {0} /\ One % t = 0
  BY <1>1, <1>2, FormatAssumption
<1>4. PICK q \in Int : One = t * q
  BY <1>3, Divided
<1>5. One = 2 * (b * q) + 0 /\ b * q \in Int
  BY <1>2, <1>4, SMT
<1>6. One \div 2 = b * q /\ One % 2 = 0
  <2>1. 2 \in Nat \ {0} /\ 0 \in 0 .. 2 - 1 /\ One \in Int
    BY <1>3
  <2> QED BY <1>5, <2>1, Unique
<1> QED BY <1>3, <1>5, <1>6

\* What is rounded to steps stays on its side of every step.
LEMMA StepFacts ==
  ASSUME NEW x \in Int, NEW step \in Nat \ {0}
  PROVE  /\ ToStep(x, step) \in Int
         /\ \A q \in Int : /\ x >= q * step => ToStep(x, step) >= q * step
                           /\ x <= q * step => ToStep(x, step) <= q * step
<1>1. PICK d \in Int, r \in 0 .. step - 1 : d = x \div step /\ r = x % step /\ x = step * d + r
  BY Divided
<1>2. step * d = d * step /\ d * step \in Int /\ (d + 1) * step = d * step + step
  BY SMT
<1>3. ToStep(x, step) \in {d * step, (d + 1) * step}
  BY <1>1 DEF ToStep
<1>4. ToStep(x, step) \in Int
  BY <1>2, <1>3
<1>5. r = 0 => ToStep(x, step) = d * step
  BY <1>1 DEF ToStep
<1>6. ASSUME NEW q \in Int, x >= q * step PROVE ToStep(x, step) >= q * step
  <2>1. d >= q
    <3>1. SUFFICES ASSUME d <= q - 1 PROVE FALSE
      OBVIOUS
    <3>2. d * step <= (q - 1) * step
      BY <3>1, SMT
    <3>3. (q - 1) * step = q * step - step /\ q * step \in Int
      BY SMT
    <3> QED BY <1>1, <1>2, <1>6, <3>2, <3>3
  <2>2. d * step >= q * step /\ q * step \in Int
    BY <2>1, SMT
  <2> QED BY <1>2, <1>3, <2>2
<1>7. ASSUME NEW q \in Int, x <= q * step PROVE ToStep(x, step) <= q * step
  <2>1. q * step \in Int
    BY SMT
  <2>2. CASE d <= q - 1
    <3>1. (d + 1) * step <= q * step
      BY <2>2, SMT
    <3> QED BY <1>2, <1>3, <2>1, <3>1
  <2>3. CASE d >= q
    <3>1. d * step >= q * step
      BY <2>3, SMT
    <3>2. r = 0 /\ d * step = q * step
      BY <1>1, <1>2, <1>7, <2>1, <3>1
    <3> QED BY <1>5, <3>2
  <2> QED BY <2>2, <2>3
<1> QED BY <1>4, <1>6, <1>7

\* Half(3): the number from which on a float holds no fractions.
Large == Half(3) * One

\* What a float or a double makes of a number.
LEMMA RealFacts ==
  ASSUME NEW x \in Int
  PROVE  /\ Large \in Nat \ {0} /\ Real(x) \in Int
         /\ realsize = 8 => Real(x) = x
         /\ x > -Large /\ x < Large => Real(x) = x
         /\ x >= Large => Real(x) >= Large
         /\ x <= -Large => Real(x) <= -Large
         /\ x = -Large => Real(x) = -Large
<1>1. PICK h \in Nat \ {0} : h = Half(3) /\ Power[3] = 2 * h
  BY PowerFacts
<1>2. PICK o \in Nat \ {0} : o = One
  BY OneFacts
<1>3. PICK l \in Nat \ {0} : l = h * o
  BY SMT
<1>4. Large = l /\ Power[3] * One = 2 * l
  <2>1. (2 * h) * o = 2 * l
    BY <1>3, SMT
  <2> QED BY <1>1, <1>2, <1>3, <2>1 DEF Large
<1>5. Real(x) = IF realsize = 8 \/ 2 * Abs(x) < 2 * l THEN x
                ELSE IF Abs(x) < 2 * l THEN ToStep(x, o)
                ELSE IF Abs(x) < 2 * (2 * l) THEN ToStep(x, 2 * o) ELSE ToStep(x, 4 * o)
  BY <1>2, <1>4 DEF Real
<1>6. Abs(x) = IF x < 0 THEN -x ELSE x
  BY DEF Abs
<1>7. /\ 2 * o \in Nat \ {0} /\ 4 * o \in Nat \ {0}
      /\ h * (2 * o) = 2 * l /\ h * (4 * o) = 4 * l /\ (-h) * o = -l
      /\ (-h) * (2 * o) = -(2 * l) /\ (-h) * (4 * o) = -(4 * l) /\ -h \in Int /\ h \in Int
  BY <1>3, SMT
<1>8. /\ ToStep(x, o) \in Int /\ ToStep(x, 2 * o) \in Int /\ ToStep(x, 4 * o) \in Int
      /\ x >= l => ToStep(x, o) >= l
      /\ x <= -l => ToStep(x, o) <= -l
      /\ x >= 2 * l => ToStep(x, 2 * o) >= 2 * l
      /\ x <= -(2 * l) => ToStep(x, 2 * o) <= -(2 * l)
      /\ x >= 4 * l => ToStep(x, 4 * o) >= 4 * l
      /\ x <= -(4 * l) => ToStep(x, 4 * o) <= -(4 * l)
      /\ x >= -l => ToStep(x, o) >= -l
  BY <1>3, <1>7, StepFacts
<1>9. Real(x) \in Int
  BY <1>5, <1>8
<1>10. realsize = 8 => Real(x) = x
  BY <1>5
<1>11. x > -l /\ x < l => Real(x) = x
  BY <1>5, <1>6
<1>12. x >= l => Real(x) >= l
  BY <1>5, <1>6, <1>8
<1>13. x <= -l => Real(x) <= -l
  BY <1>5, <1>6, <1>8
<1>14. x = -l => Real(x) = -l
  BY <1>5, <1>6, <1>8
<1> QED BY <1>4, <1>9, <1>10, <1>11, <1>12, <1>13, <1>14

\* The conversion to an integer gives one of four bytes.
LEMMA ToIntFacts ==
  ASSUME NEW x \in Int
  PROVE  ToInt(x) \in -Half(4) .. Half(4) - 1
<1> DEFINE n == IF x >= 0 THEN x \div One ELSE -((-x) \div One)
<1>1. Half(4) \in Nat \ {0} /\ 4 \in 1 .. 4
  BY PowerFacts
<1>2. n \in Int
  BY OneFacts, Divided
<1>3. ToInt(x) = IF n = Signed(n, 4) THEN n ELSE -Half(4)
  BY DEF ToInt, Half
<1> HIDE DEF n
<1>4. Signed(n, 4) \in -Half(4) .. Half(4) - 1
  BY <1>1, <1>2, SignedFacts
<1> QED BY <1>1, <1>3, <1>4

-----------------------------------------------------------------------------
(* The samples of a block.                                                 *)

\* What is known of the overflows of a channel.
OfType == [n_overflows : Nat, intlargest : -Half(4) .. Half(4) - 1, largest : Nat]

\* What is rounded is a whole number; one that is not counted fits into an int.
LEMMA QuantisedType ==
  ASSUME outFormat \in FormatNames, ~Format(outFormat).isfloat, NEW y \in Int
  PROVE  /\ Quantised(y) \in Int
         /\ y >= 0 /\ ~Counted(y) => Quantised(y) \in -Half(4) .. Half(4) - 1
<1>1. PICK b \in 1 .. 4 : b = Format(outFormat).bytes
  BY FormatFacts
<1>2. PICK m \in Nat \ {0} : m = Half(b)
  BY PowerFacts
<1>3. IMin = -m /\ IMax = m - 1
  BY <1>1, <1>2 DEF IMin, IMax, Half
<1>4. ToInt(y) \in -Half(4) .. Half(4) - 1 /\ ToInt(y) \in Int
  BY ToIntFacts, PowerFacts
<1> QED BY <1>2, <1>3, <1>4 DEF Quantised, Counted

\* The measuring keeps the types, and counts what is counted.
LEMMA MeasuredType ==
  ASSUME outFormat \in FormatNames, ~Format(outFormat).isfloat, NEW y \in Int, NEW x \in Int,
         NEW of \in OfType
  PROVE  /\ Measured(of, x, y) \in OfType
         /\ Measured(of, x, y).n_overflows = of.n_overflows + (IF Counted(y) THEN 1 ELSE 0)
<1>1. Abs(y) \in Nat
  BY DEF Abs
<1>2. PICK h \in Nat \ {0} : h = Half(4)
  BY PowerFacts
<1>3. Quantised(y) \in Int /\ Signed(-Quantised(y), 4) \in -h .. h - 1
  <2>1. Quantised(y) \in Int /\ -Quantised(y) \in Int /\ 4 \in 1 .. 4
    BY QuantisedType
  <2> QED BY <1>2, <2>1, SignedFacts
<1>4. y >= 0 /\ ~Counted(y) => Quantised(y) \in -h .. h - 1
  BY <1>2, QuantisedType
<1>5. of.n_overflows \in Nat /\ of.intlargest \in -h .. h - 1 /\ of.largest \in Nat
  BY <1>2 DEF OfType
<1>6. of = [n_overflows |-> of.n_overflows, intlargest |-> of.intlargest, largest |-> of.largest]
  BY DEF OfType
<1>7. CASE Counted(y)
  <2>1. Measured(of, x, y) =
          [of EXCEPT !.n_overflows = of.n_overflows + 1,
             !.largest = IF Abs(x) > of.largest /\ (x < 0) = (y < 0) THEN Abs(y) ELSE of.largest]
    BY <1>7 DEF Measured
  <2>2. PICK l \in Nat : l = IF Abs(x) > of.largest /\ (x < 0) = (y < 0) THEN Abs(y) ELSE of.largest
    BY <1>1, <1>5
  <2>3. Measured(of, x, y) = [of EXCEPT !.n_overflows = of.n_overflows + 1, !.largest = l]
    BY <2>1, <2>2
  <2>4. Measured(of, x, y) =
          [n_overflows |-> of.n_overflows + 1, intlargest |-> of.intlargest, largest |-> l]
    BY ONLY <1>6, <2>3
  <2> QED BY <1>2, <1>5, <1>7, <2>4 DEF OfType
<1>8. CASE ~Counted(y)
  <2>1. PICK l : Measured(of, x, y) = [of EXCEPT !.intlargest = l] /\ l \in -h .. h - 1
    <3>1. CASE y < 0
      BY <1>3, <1>5, <1>8, <3>1 DEF Measured
    <3>2. CASE y >= 0
      BY <1>4, <1>5, <1>8, <3>2 DEF Measured
    <3> QED BY <3>1, <3>2
  <2>2. Measured(of, x, y) =
          [n_overflows |-> of.n_overflows, intlargest |-> l, largest |-> of.largest]
    BY ONLY <1>6, <2>1
  <2> QED BY <1>2, <1>5, <1>8, <2>1, <2>2 DEF OfType
<1> QED BY <1>7, <1>8

\* Whatever a float makes of the limits and of a sample w, w is rounded
\* down, to the limit if it is out of the range, and counted then.
LEMMA QuantisedFacts ==
  ASSUME outFormat \in FormatNames, ~Format(outFormat).isfloat,
         realsize = 8 \/ Format(outFormat).bytes # 4, NEW w \in Int
  PROVE  LET m == Half(Format(outFormat).bytes)
             y == Real(w)  q == Quantised(y) IN
         /\ m \in Nat \ {0} /\ IMin = -m /\ IMax = m - 1 /\ m * One \in Nat \ {0} /\ y \in Int
         /\ q \in IMin .. IMax
         /\ OutOfRange(y) => Counted(y)
         /\ w >= m * One => q = IMax
         /\ w <= -(m * One) => q = IMin
         /\ w > -(m * One) /\ w < m * One => y = w /\ w - q * One \in 0 .. One
         /\ ~Counted(y) => w > -(m * One) /\ w < m * One
<1>1. PICK b \in 1 .. 4 : b = Format(outFormat).bytes
  BY FormatFacts
<1>2. PICK m \in Nat \ {0} : m = Half(b) /\ m <= Half(4)
  BY PowerFacts
<1>3. PICK o \in Nat \ {0} : o = One
  BY OneFacts
<1>4. PICK M \in Nat \ {0} : M = m * o
  BY SMT
<1>5. PICK L \in Nat \ {0} : L = Large /\ (realsize = 8 \/ M <= L)
  <2>1. Large \in Nat \ {0}
    BY RealFacts
  <2>2. CASE realsize = 8
    BY <2>1, <2>2
  <2>3. CASE b # 4
    <3>1. b \in {1, 2, 3} /\ Half(1) \in Nat /\ Half(2) \in Nat /\ Half(3) \in Nat
      BY <2>3, PowerFacts
    <3>2. m <= Half(3)
      BY <1>2, <3>1, PowerFacts
    <3>3. m * o <= Half(3) * o
      BY <3>1, <3>2, SMT
    <3> QED BY <1>3, <1>4, <2>1, <3>3 DEF Large
  <2> QED BY <1>1, <2>2, <2>3
<1>6. IMin = -m /\ IMax = m - 1
  BY <1>1, <1>2 DEF IMin, IMax, Half
<1>7. /\ IMin * One = -M /\ IMax * One = M - o /\ (IMax + 1) * One = M
      /\ M - o >= 0
  <2>1. (-m) * o = -(m * o) /\ (m - 1) * o = m * o - o /\ ((m - 1) + 1) * o = m * o /\ m * o >= o
    BY SMT
  <2> QED BY <1>3, <1>4, <1>6, <2>1
<1>8. Real(-M) = -M /\ Real(M - o) = M - o
  <2>1. -M \in Int /\ M - o \in Int
    OBVIOUS
  <2>2. CASE realsize = 8
    BY <2>1, <2>2, RealFacts
  <2>3. CASE M <= L
    <3>1. -M >= -L /\ -M < L /\ M - o > -L /\ M - o < L
      BY <1>7, <2>3
    <3> QED BY <1>5, <2>1, <3>1, RealFacts
  <2> QED BY <1>5, <2>2, <2>3
<1>9. PICK y \in Int : y = Real(w)
  BY RealFacts
<1>10. /\ w >= M => y >= M
       /\ w <= -M => y <= -M
       /\ w > -M /\ w < M => y = w
  <2>1. CASE realsize = 8
    BY <1>9, <2>1, RealFacts
  <2>2. CASE M <= L
    <3>1. /\ w > -L /\ w < L => y = w
          /\ w >= L => y >= L
          /\ w <= -L => y <= -L
      BY <1>5, <1>9, RealFacts
    <3> QED BY <2>2, <3>1
  <2> QED BY <1>5, <2>1, <2>2
<1>11. Counted(y) <=> y <= -M \/ y > M - o
  BY <1>7, <1>8 DEF Counted
<1>12. OutOfRange(y) <=> y < -M \/ y >= M
  BY <1>7 DEF OutOfRange
<1>13. Quantised(y) = IF y < 0 THEN (IF y <= -M THEN -m ELSE ToInt(y) - 1)
                      ELSE IF y > M - o THEN m - 1 ELSE ToInt(y)
  BY <1>6, <1>7, <1>8 DEF Quantised
<1>14. PICK h \in Nat \ {0} : h = Half(4) /\ m <= h
  BY <1>2, PowerFacts
<1>15. \A n \in -m .. m - 1 : n = Signed(n, 4)
  <2>1. \A n \in -m .. m - 1 : n \in Int /\ n \in -h .. h - 1 /\ 4 \in 1 .. 4
    BY <1>14
  <2> QED BY <1>14, <2>1, SignedFacts
<1>16. CASE y > -M /\ y < 0
  <2>1. PICK d \in Int, r \in 0 .. o - 1 : d = (-y) \div o /\ -y = o * d + r
    <3>1. -y \in Int
      OBVIOUS
    <3> QED BY <3>1, Divided
  <2>2. o * d = d * o /\ d * o \in Int
    BY SMT
  <2>3. d >= 0
    <3>1. SUFFICES ASSUME d <= -1 PROVE FALSE
      OBVIOUS
    <3>2. d * o <= -o
      <4>1. d * o <= (-1) * o /\ (-1) * o = -o
        BY <3>1, SMT
      <4> QED BY <4>1
    <3> QED BY <1>16, <2>1, <2>2, <3>2
  <2>4. d <= m - 1
    <3>1. SUFFICES ASSUME d >= m PROVE FALSE
      OBVIOUS
    <3>2. d * o >= m * o
      BY <3>1, SMT
    <3> QED BY <1>4, <1>16, <2>1, <2>2, <3>2
  <2>5. ToInt(y) = -d
    <3>1. -d \in -m .. m - 1
      BY <2>3, <2>4
    <3>2. -d = Signed(-d, 4)
      BY <1>15, <3>1
    <3> QED BY <1>3, <1>16, <2>1, <3>2 DEF ToInt
  <2>6. Quantised(y) = -d - 1
    BY <1>13, <1>16, <2>5
  <2>7. (-d - 1) * o = -(d * o) - o
    BY SMT
  <2>8. y - Quantised(y) * o \in 0 .. o
    BY <2>1, <2>2, <2>6, <2>7
  <2> QED BY <1>3, <1>4, <1>1, <1>2, <1>6, <1>9, <1>10, <1>11, <1>12, <1>16, <2>3, <2>4, <2>6, <2>8
<1>17. CASE y >= 0 /\ y <= M - o
  <2>1. PICK d \in Int, r \in 0 .. o - 1 : d = y \div o /\ y = o * d + r
    BY Divided
  <2>2. o * d = d * o /\ d * o \in Int
    BY SMT
  <2>3. d >= 0
    <3>1. SUFFICES ASSUME d <= -1 PROVE FALSE
      OBVIOUS
    <3>2. d * o <= -o
      <4>1. d * o <= (-1) * o /\ (-1) * o = -o
        BY <3>1, SMT
      <4> QED BY <4>1
    <3> QED BY <1>17, <2>1, <2>2, <3>2
  <2>4. d <= m - 1
    <3>1. SUFFICES ASSUME d >= m PROVE FALSE
      OBVIOUS
    <3>2. d * o >= m * o
      BY <3>1, SMT
    <3> QED BY <1>4, <1>17, <2>1, <2>2, <3>2
  <2>5. ToInt(y) = d
    <3>1. d \in -m .. m - 1
      BY <2>3, <2>4
    <3>2. d = Signed(d, 4)
      BY <1>15, <3>1
    <3> QED BY <1>3, <1>17, <2>1, <3>2 DEF ToInt
  <2>6. Quantised(y) = d
    BY <1>13, <1>17, <2>5
  <2>7. y - Quantised(y) * o \in 0 .. o
    BY <2>1, <2>2, <2>6
  <2> QED BY <1>3, <1>4, <1>1, <1>2, <1>6, <1>9, <1>10, <1>11, <1>12, <1>17, <2>3, <2>4, <2>6, <2>7
<1>18. CASE y <= -M
  <2>1. Quantised(y) = -m
    BY <1>13, <1>18
  <2> QED BY <1>3, <1>4, <1>1, <1>2, <1>6, <1>9, <1>10, <1>11, <1>12, <1>18, <2>1
<1>19. CASE y > M - o
  <2>1. Quantised(y) = m - 1
    BY <1>7, <1>13, <1>19
  <2>2. (m - 1) * o = M - o
    BY <1>3, <1>6, <1>7
  <2>3. w < M /\ w > -M => w - Quantised(y) * o \in 0 .. o
    BY <1>10, <1>19, <2>1, <2>2
  <2> QED BY <1>3, <1>4, <1>1, <1>2, <1>6, <1>7, <1>9, <1>10, <1>11, <1>12, <1>19, <2>1, <2>3
<1> QED BY <1>16, <1>17, <1>18, <1>19

-----------------------------------------------------------------------------
(* The recursive functions of the model.                                   *)

\* The element of a sample that holds its digit k.
Digit(format, k) == IF format.swap THEN format.bytes - 1 - k ELSE k

\* s[k] is the sum of the first k digits of b.
SumOf(s, format, b) ==
  /\ s \in [0 .. format.bytes -> Int] /\ s[0] = 0
  /\ \A k \in 1 .. format.bytes : s[k] = s[k - 1] + b[Digit(format, k - 1)][2] * Power[k - 1]

\* The value of an integer's bytes is the sum of their digits.
LEMMA ValueIs ==
  ASSUME NEW format, format.bytes \in 1 .. 4, ~format.isfloat, format.swap \in BOOLEAN, NEW b,
         \A k \in 0 .. format.bytes - 1 : b[k][2] \in Int
  PROVE  \E s : SumOf(s, format, b) /\ Value(format, b) = Signed(s[format.bytes], format.bytes)
<1>1. PICK n \in 1 .. 4 : n = format.bytes
  OBVIOUS
<1> DEFINE val(k) == b[Digit(format, k)][2] * Power[k]
           g == [x \in (1 .. n) \X Int |-> x[2] + val(x[1] - 1)]
<1>2. ASSUME NEW k \in 1 .. n PROVE val(k - 1) \in Int
  <2>1. k - 1 \in 0 .. 4 /\ Digit(format, k - 1) \in 0 .. n - 1
    BY <1>1 DEF Digit
  <2>2. b[Digit(format, k - 1)][2] \in Int /\ Power[k - 1] \in Int
    BY <1>1, <2>1, PowerFacts
  <2> QED BY <2>2, SMT
<1> HIDE DEF val
<1>3. g \in [(1 .. n) \X Int -> Int]
  BY <1>2
<1>4. ASSUME NEW k \in 1 .. n, NEW t \in Int PROVE g[<<k, t>>] = t + val(k - 1)
  OBVIOUS
<1>5. PICK f : Unfolds(f, n, Int, 0, g)
  <2>1. n \in Nat /\ 0 \in Int
    OBVIOUS
  <2> HIDE DEF g
  <2> QED BY <1>3, <2>1, Recursion
<1> HIDE DEF g
<1> DEFINE Is(h) == h = [k \in 0 .. format.bytes |-> IF k = 0 THEN 0 ELSE h[k - 1] + val(k - 1)]
           q == CHOOSE h : Is(h)
<1>6. f \in [0 .. n -> Int] /\ f[0] = 0 /\ \A k \in 1 .. n : f[k] = f[k - 1] + val(k - 1)
  <2>1. \A k \in 1 .. n : k - 1 \in 0 .. n
    OBVIOUS
  <2> QED BY <1>4, <1>5, <2>1 DEF Unfolds
<1>7. Is(f)
  <2>1. \A k \in 0 .. n : f[k] = IF k = 0 THEN 0 ELSE f[k - 1] + val(k - 1)
    BY <1>6
  <2> QED BY <1>1, <1>6, <2>1
<1>8. Is(q)
  <2> HIDE DEF Is
  <2> QED BY <1>7
<1>9. Value(format, b) = Signed(q[format.bytes], format.bytes)
  BY DEF Value, Digit, val
<1> HIDE DEF q
<1>10. SumOf(f, format, b)
  BY <1>1, <1>6 DEF SumOf, val
<1>11. q[0] = 0 /\ \A k \in 1 .. n : q[k] = q[k - 1] + val(k - 1)
  BY <1>1, <1>8
<1>12. \A k \in 0 .. n : q[k] = f[k]
  <2>1. 0 \in 0 .. n /\ \A k \in 1 .. n : k - 1 \in 0 .. n
    BY <1>1
  <2>2. q[0] = f[0] /\ (1 <= n => q[1] = f[1]) /\ (2 <= n => q[2] = f[2])
        /\ (3 <= n => q[3] = f[3]) /\ (4 <= n => q[4] = f[4])
    BY <1>6, <1>11
  <2>3. \A k \in 0 .. n : k \in {0, 1, 2, 3, 4}
    OBVIOUS
  <2> QED BY <2>2, <2>3
<1> QED BY <1>1, <1>9, <1>10, <1>12

\* The values of the bytes are integers.
LEMMA ValueType ==
  ASSUME NEW format, format.bytes \in {1, 2, 3, 4, 8}, format.swap \in BOOLEAN,
         format.isfloat \in BOOLEAN, ~format.isfloat => format.bytes \in 1 .. 4,
         NEW b, \A k \in 0 .. format.bytes - 1 : b[k][2] \in Int
  PROVE  /\ Value(format, b) \in Int
         /\ ~format.isfloat => Value(format, b) \in -Half(format.bytes) .. Half(format.bytes) - 1
<1>1. CASE format.isfloat
  <2>1. b[0][2] \in Int
    OBVIOUS
  <2>2. One \in Int
    BY OneFacts
  <2>3. Value(format, b) \in {b[0][2], 1000 * One}
    BY <1>1 DEF Value
  <2> QED BY <1>1, <2>1, <2>2, <2>3
<1>2. CASE ~format.isfloat
  <2>1. PICK s : SumOf(s, format, b) /\ Value(format, b) = Signed(s[format.bytes], format.bytes)
    BY <1>2, ValueIs
  <2>2. s[format.bytes] \in Int
    BY <1>2, <2>1 DEF SumOf
  <2>3. Value(format, b) \in -Half(format.bytes) .. Half(format.bytes) - 1
    BY <1>2, <2>1, <2>2, SignedFacts
  <2>4. Half(format.bytes) \in Nat
    BY <1>2, PowerFacts
  <2> QED BY <2>3, <2>4
<1> QED BY <1>1, <1>2

\* What the scales make of a number is a number.
LEMMA ScaledType ==
  ASSUME inFormat \in FormatNames, outFormat \in FormatNames, NEW x \in Int
  PROVE  Scaled(x) \in Int
<1> DEFINE in == Format(inFormat)  out == Format(outFormat)
           up == IF out.isfloat THEN x ELSE x * FullScale(out.bytes)
<1>1. \A b \in 1 .. 4 : FullScale(b) \in Int \ {0}
  BY FullScaleFacts, PowerFacts
<1>2. up \in Int
  <2>1. CASE out.isfloat
    BY <2>1
  <2>2. CASE ~out.isfloat
    <3>1. FullScale(out.bytes) \in Int
      BY <1>1, <2>2, FormatFacts
    <3>2. x * FullScale(out.bytes) \in Int
      BY <3>1, SMT
    <3> QED BY <2>2, <3>2
  <2> QED BY <2>1, <2>2
<1>3. Scaled(x) = IF in.isfloat THEN up
                  ELSE IF FullScale(in.bytes) > 0 THEN up \div FullScale(in.bytes)
                  ELSE -(up \div (-FullScale(in.bytes)))
  BY DEF Scaled
<1> HIDE DEF up
<1>4. CASE in.isfloat
  BY <1>2, <1>3, <1>4
<1>5. CASE ~in.isfloat
  <2>1. PICK f \in Int \ {0} : f = FullScale(in.bytes)
    BY <1>1, <1>5, FormatFacts
  <2>2. Scaled(x) = IF f > 0 THEN up \div f ELSE -(up \div (-f))
    BY <1>3, <1>5, <2>1
  <2>3. f > 0 => up \div f \in Int
    BY <1>2, Divided
  <2>4. f < 0 => up \div (-f) \in Int
    <3>1. f < 0 => -f \in Nat \ {0}
      OBVIOUS
    <3> QED BY <1>2, <3>1, Divided
  <2> QED BY <2>2, <2>3, <2>4
<1> QED BY <1>4, <1>5

-----------------------------------------------------------------------------
(* The conversion of a channel.                                            *)

\* What is carried from sample to sample.
TurnType == [of : OfType, sf : Int \X Int, clipped : Nat, samples : Seq(Int)]

\* What real2raw does with a sample x.
Turned(s, x, d, beyond) ==
  IF Format(outFormat).isfloat THEN PassFloat(s, x)
  ELSE IF applyDither THEN Dithered(s, x, d, beyond) ELSE Plain(s, x)

\* The parts of what a turn of the loop has made.
LEMMA TurnParts ==
  ASSUME NEW s \in TurnType
  PROVE  /\ s = [of |-> s.of, sf |-> s.sf, clipped |-> s.clipped, samples |-> s.samples]
         /\ s.of \in OfType /\ s.sf \in Int \X Int /\ s.clipped \in Nat /\ s.samples \in Seq(Int)
BY DEF TurnType

\* REAL_OVERFLOW_UPDATE counts what is beyond 1.
LEMMA OverflowUpdateType ==
  ASSUME NEW of \in OfType, NEW x \in Int
  PROVE  /\ OverflowUpdate(of, x) \in OfType
         /\ OverflowUpdate(of, x).n_overflows = of.n_overflows + (IF Abs(x) > One THEN 1 ELSE 0)
<1>1. Abs(x) \in Nat /\ One \in Nat
  BY OneFacts DEF Abs
<1>2. of.n_overflows \in Nat /\ of.intlargest \in -Half(4) .. Half(4) - 1 /\ of.largest \in Nat
  BY DEF OfType
<1>3. of = [n_overflows |-> of.n_overflows, intlargest |-> of.intlargest, largest |-> of.largest]
  BY DEF OfType
<1>4. PICK n \in Nat : /\ n = IF Abs(x) > One THEN of.n_overflows + 1 ELSE of.n_overflows
                       /\ n = of.n_overflows + (IF Abs(x) > One THEN 1 ELSE 0)
  BY <1>1, <1>2
<1>5. PICK l \in Nat : l = IF Abs(x) > of.largest THEN Abs(x) ELSE of.largest
  BY <1>1, <1>2
<1>6. OverflowUpdate(of, x) = [of EXCEPT !.n_overflows = n, !.largest = l]
  BY <1>4, <1>5 DEF OverflowUpdate
<1>7. OverflowUpdate(of, x) = [n_overflows |-> n, intlargest |-> of.intlargest, largest |-> l]
  BY ONLY <1>3, <1>6
<1> QED BY <1>2, <1>4, <1>7 DEF OfType

\* A float that is beyond 1 is counted.
LEMMA PassFloatType ==
  ASSUME NEW s \in TurnType, NEW x \in Int
  PROVE  /\ PassFloat(s, x) \in TurnType
         /\ PassFloat(s, x).samples = Append(s.samples, x)
         /\ s.clipped <= s.of.n_overflows =>
              PassFloat(s, x).clipped <= PassFloat(s, x).of.n_overflows
<1>1. /\ s = [of |-> s.of, sf |-> s.sf, clipped |-> s.clipped, samples |-> s.samples]
      /\ s.of \in OfType /\ s.sf \in Int \X Int /\ s.clipped \in Nat /\ s.samples \in Seq(Int)
  BY TurnParts
<1>2. PICK o \in OfType : /\ o = OverflowUpdate(s.of, x)
                          /\ o.n_overflows = s.of.n_overflows + (IF Abs(x) > One THEN 1 ELSE 0)
  BY <1>1, OverflowUpdateType
<1>3. PICK k \in Nat : k = s.clipped + (IF Abs(x) > One THEN 1 ELSE 0)
  BY <1>1
<1>4. PassFloat(s, x) = [of |-> o, sf |-> s.sf, clipped |-> k, samples |-> Append(s.samples, x)]
  <2>1. PassFloat(s, x) = [s EXCEPT !.of = OverflowUpdate(s.of, x),
                                    !.clipped = IF Abs(x) > One THEN s.clipped + 1 ELSE s.clipped,
                                    !.samples = Append(s.samples, x)]
    BY DEF PassFloat
  <2>2. (IF Abs(x) > One THEN s.clipped + 1 ELSE s.clipped) = k
    BY <1>1, <1>3
  <2> QED BY <1>1, <1>2, <2>1, <2>2
<1>5. Append(s.samples, x) \in Seq(Int) /\ s.of.n_overflows \in Nat
  BY <1>1 DEF OfType
<1>6. PassFloat(s, x) \in TurnType
  BY <1>1, <1>4, <1>5 DEF TurnType
<1> QED BY <1>1, <1>2, <1>3, <1>4, <1>5, <1>6

\* Without dither a sample that leaves the range is counted.
LEMMA PlainType ==
  ASSUME outFormat \in FormatNames, ~Format(outFormat).isfloat, NEW s \in TurnType, NEW x \in Int
  PROVE  /\ Plain(s, x) \in TurnType
         /\ Plain(s, x).samples = Append(s.samples, Quantised(Real(x + One \div 2)))
         /\ realsize = 8 \/ Format(outFormat).bytes # 4 =>
              (s.clipped <= s.of.n_overflows => Plain(s, x).clipped <= Plain(s, x).of.n_overflows)
<1>1. /\ s = [of |-> s.of, sf |-> s.sf, clipped |-> s.clipped, samples |-> s.samples]
      /\ s.of \in OfType /\ s.sf \in Int \X Int /\ s.clipped \in Nat /\ s.samples \in Seq(Int)
  BY TurnParts
<1>2. PICK w \in Int : w = x + One \div 2
  BY OneFacts
<1>3. PICK y \in Int : y = Real(w)
  BY RealFacts
<1>4. PICK q \in Int : q = Quantised(y)
  BY QuantisedType
<1>5. PICK o \in OfType : /\ o = Measured(s.of, y, y)
                          /\ o.n_overflows = s.of.n_overflows + (IF Counted(y) THEN 1 ELSE 0)
  BY <1>1, MeasuredType
<1>6. PICK k \in Nat : k = s.clipped + (IF OutOfRange(y) THEN 1 ELSE 0)
  BY <1>1
<1>7. Plain(s, x) = [of |-> o, sf |-> s.sf, clipped |-> k, samples |-> Append(s.samples, q)]
  <2>1. Plain(s, x) = [s EXCEPT !.of = Measured(s.of, y, y),
                                !.clipped = IF OutOfRange(y) THEN s.clipped + 1 ELSE s.clipped,
                                !.samples = Append(s.samples, Quantised(y))]
    BY <1>2, <1>3 DEF Plain
  <2>2. (IF OutOfRange(y) THEN s.clipped + 1 ELSE s.clipped) = k
    BY <1>1, <1>6
  <2> QED BY <1>1, <1>4, <1>5, <2>1, <2>2
<1>8. Append(s.samples, q) \in Seq(Int)
  BY <1>1
<1>9. Plain(s, x) \in TurnType
  BY <1>1, <1>7, <1>8 DEF TurnType
<1>10. realsize = 8 \/ Format(outFormat).bytes # 4 => (OutOfRange(y) => Counted(y))
  BY <1>3, QuantisedFacts
<1>11. s.of.n_overflows \in Nat
  BY <1>1 DEF OfType
<1> QED BY <1>1, <1>2, <1>3, <1>4, <1>5, <1>6, <1>7, <1>9, <1>10, <1>11

\* With dither it is counted too; the error of the sample is kept.
LEMMA DitheredType ==
  ASSUME outFormat \in FormatNames, ~Format(outFormat).isfloat, NEW s \in TurnType, NEW x \in Int,
         NEW d \in Int, NEW beyond \in Int
  PROVE  LET z == Real(x + s.sf[1] - s.sf[2])
             w == z + (IF d > MapLast THEN beyond ELSE RandMap(d)) IN
         /\ Dithered(s, x, d, beyond) \in TurnType /\ z \in Int /\ w \in Int
         /\ Dithered(s, x, d, beyond).samples = Append(s.samples, Quantised(Real(w)))
         /\ Dithered(s, x, d, beyond).sf = <<z - Quantised(Real(w)) * One, s.sf[1]>>
         /\ Dithered(s, x, d, beyond).of.n_overflows =
              s.of.n_overflows + (IF Counted(Real(w)) THEN 1 ELSE 0)
         /\ realsize = 8 \/ Format(outFormat).bytes # 4 =>
              (s.clipped <= s.of.n_overflows =>
                 Dithered(s, x, d, beyond).clipped <= Dithered(s, x, d, beyond).of.n_overflows)
<1>1. /\ s = [of |-> s.of, sf |-> s.sf, clipped |-> s.clipped, samples |-> s.samples]
      /\ s.of \in OfType /\ s.sf \in Int \X Int /\ s.clipped \in Nat /\ s.samples \in Seq(Int)
  BY TurnParts
<1>2. PICK u \in Int : u = x + Feedback(s) /\ u = x + s.sf[1] - s.sf[2]
  BY <1>1 DEF Feedback
<1>3. PICK z \in Int : z = Real(u)
  BY RealFacts
<1>4. PICK w \in Int : w = z + (IF d > MapLast THEN beyond ELSE RandMap(d))
  <2>1. RandMap(d) \in Int
    <3>1. PICK b \in Nat \ {0} : b = Byte - 1
      BY PowerFacts
    <3>2. PICK e \in Int : e = One \div b
      BY OneFacts, Divided
    <3>3. e * (d + 1) \in Int
      BY SMT
    <3> QED BY <3>1, <3>2, <3>3, OneFacts DEF RandMap
  <2> QED BY <2>1
<1>5. PICK y \in Int : y = Real(w)
  BY RealFacts
<1>6. PICK q \in Int : q = Quantised(y)
  BY QuantisedType
<1>7. PICK o \in OfType : /\ o = Measured(s.of, z, y)
                          /\ o.n_overflows = s.of.n_overflows + (IF Counted(y) THEN 1 ELSE 0)
  BY <1>1, MeasuredType
<1>8. PICK k \in Nat : k = s.clipped + (IF OutOfRange(y) THEN 1 ELSE 0)
  BY <1>1
<1>9. PICK e \in Int \X Int : e = <<z - q * One, s.sf[1]>>
  <2>1. q * One \in Int
    BY OneFacts, SMT
  <2>2. z - q * One \in Int /\ s.sf[1] \in Int
    BY <1>1, <2>1
  <2> QED BY <2>2
<1>10. Dithered(s, x, d, beyond) = [of |-> o, sf |-> e, clipped |-> k, samples |-> Append(s.samples, q)]
  <2>1. Dithered(s, x, d, beyond) =
          [s EXCEPT !.of = Measured(s.of, z, y),
                    !.sf = <<z - Quantised(y) * One, s.sf[1]>>,
                    !.clipped = IF OutOfRange(y) THEN s.clipped + 1 ELSE s.clipped,
                    !.samples = Append(s.samples, Quantised(y))]
    BY <1>2, <1>3, <1>4, <1>5 DEF Dithered
  <2>2. (IF OutOfRange(y) THEN s.clipped + 1 ELSE s.clipped) = k
    BY <1>1, <1>8
  <2> QED BY <1>1, <1>6, <1>7, <1>9, <2>1, <2>2
<1>11. Append(s.samples, q) \in Seq(Int)
  BY <1>1
<1>12. Dithered(s, x, d, beyond) \in TurnType
  BY <1>1, <1>10, <1>11 DEF TurnType
<1>13. realsize = 8 \/ Format(outFormat).bytes # 4 => (OutOfRange(y) => Counted(y))
  BY <1>5, QuantisedFacts
<1>14. s.of.n_overflows \in Nat
  BY <1>1 DEF OfType
<1>15. PICK t : t = Dithered(s, x, d, beyond)
  OBVIOUS
<1>16. t = [of |-> o, sf |-> e, clipped |-> k, samples |-> Append(s.samples, q)]
  BY ONLY <1>10, <1>15
<1>17. /\ t \in TurnType /\ t.samples = Append(s.samples, q)
       /\ t.sf = e /\ t.of = o /\ t.clipped = k
  <2>1. t \in TurnType
    BY ONLY <1>12, <1>15
  <2> QED BY ONLY <1>16, <2>1
<1>18. realsize = 8 \/ Format(outFormat).bytes # 4 =>
         (s.clipped <= s.of.n_overflows => t.clipped <= t.of.n_overflows)
  <2>1. s.clipped \in Nat
    BY <1>1
  <2>2. (OutOfRange(y) => k = s.clipped + 1) /\ (~OutOfRange(y) => k = s.clipped)
    BY ONLY <1>8, <2>1
  <2>3. /\ o.n_overflows >= s.of.n_overflows
        /\ Counted(y) => o.n_overflows = s.of.n_overflows + 1
    BY ONLY <1>7, <1>14
  <2>4. o.n_overflows \in Nat
    BY ONLY <1>7, <1>14
  <2> QED BY ONLY <1>13, <1>14, <1>17, <2>1, <2>2, <2>3, <2>4
<1> HIDE DEF Dithered
<1> QED BY <1>2, <1>3, <1>4, <1>5, <1>6, <1>7, <1>9, <1>15, <1>17, <1>18

\* The sample n of channel c after the filter, and the difference of random
\* numbers for its turn n.
Sample(c, n) == Scaled(RealSample(c, n))
Diff(c, n) == At(Carried(c), From(c) + n - 1) - At(Carried(c), From(c) + n - 2)

\* What a channel begins a block with.
Begin(c) == [of |-> overflow[c], sf |-> sf[c], clipped |-> clipped[c], samples |-> <<>>]

\* s[n] is what n samples of channel c have made.
Turns(s, c, beyond) ==
  /\ s \in [0 .. BlockLength -> TurnType] /\ s[0] = Begin(c)
  /\ \A n \in 1 .. BlockLength : s[n] = Turned(s[n - 1], Sample(c, n - 1), Diff(c, n), beyond)

\* The same with Exact for the words of the code that it stands for.
LEMMA ExactFacts ==
  ASSUME outFormat \in FormatNames, ~Format(outFormat).isfloat, Exact
  PROVE  realsize = 8 \/ Format(outFormat).bytes # 4
BY DEF Exact, IsInt4

\* So it is with every sample, whatever the format.
LEMMA TurnedType ==
  ASSUME outFormat \in FormatNames, applyDither \in BOOLEAN, NEW s \in TurnType, NEW x \in Int,
         NEW d, UsesDither => d \in Int, NEW beyond \in Int
  PROVE  /\ Turned(s, x, d, beyond) \in TurnType
         /\ Exact /\ s.clipped <= s.of.n_overflows =>
              Turned(s, x, d, beyond).clipped <= Turned(s, x, d, beyond).of.n_overflows
<1>1. CASE Format(outFormat).isfloat
  <2>1. Turned(s, x, d, beyond) = PassFloat(s, x)
    BY <1>1 DEF Turned
  <2> QED BY <2>1, PassFloatType
<1>2. CASE ~Format(outFormat).isfloat /\ applyDither
  <2>1. Turned(s, x, d, beyond) = Dithered(s, x, d, beyond)
    BY <1>2 DEF Turned
  <2>2. d \in Int
    BY <1>2 DEF UsesDither
  <2>3. Dithered(s, x, d, beyond) \in TurnType
    BY <1>2, <2>2, DitheredType
  <2>4. realsize = 8 \/ Format(outFormat).bytes # 4 =>
          (s.clipped <= s.of.n_overflows =>
             Dithered(s, x, d, beyond).clipped <= Dithered(s, x, d, beyond).of.n_overflows)
    BY <1>2, <2>2, DitheredType
  <2>5. Exact => realsize = 8 \/ Format(outFormat).bytes # 4
    BY <1>2, ExactFacts
  <2> QED BY ONLY <2>1, <2>3, <2>4, <2>5
<1>3. CASE ~Format(outFormat).isfloat /\ ~applyDither
  <2>1. Turned(s, x, d, beyond) = Plain(s, x)
    BY <1>3 DEF Turned
  <2> QED BY <1>3, <2>1, PlainType, ExactFacts
<1> QED BY <1>1, <1>2, <1>3

\* A channel is converted sample for sample.
LEMMA ConvertedIs ==
  ASSUME outFormat \in FormatNames, applyDither \in BOOLEAN, NEW c, NEW beyond \in Int,
         Begin(c) \in TurnType, \A n \in 0 .. BlockLength - 1 : Sample(c, n) \in Int,
         UsesDither => \A n \in 1 .. BlockLength : Diff(c, n) \in Int
  PROVE  \E s : Turns(s, c, beyond) /\ Converted(c, beyond) = s[BlockLength]
<1>1. PICK m \in Nat \ {0} : m = BlockLength
  BY DitherAssumption
<1> DEFINE next(n, t) == Turned(t, Sample(c, n - 1), Diff(c, n), beyond)
           g == [x \in (1 .. m) \X TurnType |-> next(x[1], x[2])]
<1>2. ASSUME NEW n \in 1 .. m, NEW t \in TurnType PROVE next(n, t) \in TurnType
  <2>1. n - 1 \in 0 .. m - 1
    OBVIOUS
  <2>2. Sample(c, n - 1) \in Int /\ (UsesDither => Diff(c, n) \in Int)
    BY <1>1, <2>1
  <2> QED BY <2>2, TurnedType
<1> HIDE DEF next
<1>3. g \in [(1 .. m) \X TurnType -> TurnType]
  BY <1>2
<1>4. ASSUME NEW n \in 1 .. m, NEW t \in TurnType PROVE g[<<n, t>>] = next(n, t)
  OBVIOUS
<1>5. PICK f : Unfolds(f, m, TurnType, Begin(c), g)
  <2>1. m \in Nat
    OBVIOUS
  <2> HIDE DEF g
  <2> QED BY <1>3, <2>1, Recursion
<1> HIDE DEF g
<1> DEFINE Is(h) == h = [n \in 0 .. BlockLength |-> IF n = 0 THEN Begin(c) ELSE next(n, h[n - 1])]
           q == CHOOSE h : Is(h)
<1>6. f \in [0 .. m -> TurnType] /\ f[0] = Begin(c) /\ \A n \in 1 .. m : f[n] = next(n, f[n - 1])
  <2>1. \A n \in 1 .. m : n - 1 \in 0 .. m
    OBVIOUS
  <2> QED BY <1>4, <1>5, <2>1 DEF Unfolds
<1>7. Is(f)
  <2>1. \A n \in 0 .. m : f[n] = IF n = 0 THEN Begin(c) ELSE next(n, f[n - 1])
    BY <1>6
  <2> QED BY <1>1, <1>6, <2>1
<1>8. Is(q)
  <2> HIDE DEF Is
  <2> QED BY <1>7
<1>9. Converted(c, beyond) = q[BlockLength]
  BY DEF Converted, Begin, next, Turned, Sample, Diff, From
<1> HIDE DEF q
<1>10. Turns(f, c, beyond)
  BY <1>1, <1>6 DEF Turns, next
<1>11. q[0] = Begin(c) /\ \A n \in 1 .. m : q[n] = next(n, q[n - 1])
  BY <1>1, <1>8
<1>12. m \in {n \in Nat : n <= m => q[n] = f[n]}
  <2> DEFINE S == {n \in Nat : n <= m => q[n] = f[n]}
  <2>1. 0 \in S
    BY <1>6, <1>11
  <2>2. ASSUME NEW n \in Nat, n \in S PROVE n + 1 \in S
    <3>1. SUFFICES ASSUME n + 1 <= m PROVE q[n + 1] = f[n + 1]
      OBVIOUS
    <3>2. q[n] = f[n] /\ n + 1 \in 1 .. m /\ (n + 1) - 1 = n
      BY <2>2, <3>1
    <3>3. q[n + 1] = next(n + 1, q[(n + 1) - 1]) /\ f[n + 1] = next(n + 1, f[(n + 1) - 1])
      BY <1>6, <1>11, <3>2
    <3> QED BY ONLY <3>2, <3>3
  <2> HIDE DEF S
  <2>3. Nat \subseteq S
    BY <2>1, <2>2, Induction
  <2>4. m \in S
    BY <2>3
  <2> QED BY <2>4 DEF S
<1> QED BY <1>1, <1>9, <1>10, <1>12

-----------------------------------------------------------------------------
(* The types of the conversion.                                            *)

\* A byte of a sample.
Bytes == {"int", "float"} \X Int \X Int

\* The types of the state of the conversion.
SamplesTyped ==
  /\ inFormat \in FormatNames /\ outFormat \in FormatNames
  /\ applyDither \in BOOLEAN /\ realsize \in {4, 8}
  /\ inbuf \in [BufferOf(Format(inFormat)) -> Bytes]
  /\ DOMAIN outbuf = BufferOf(Format(outFormat))
  /\ overflow \in [Channels -> OfType] /\ sf \in [Channels -> Int \X Int]
  /\ clipped \in [Channels -> Nat]

\* What went out of its range was counted.
CountInv ==
  /\ NumbersInv /\ SamplesTyped
  /\ Exact => \A c \in Channels : clipped[c] <= overflow[c].n_overflows

\* The bytes of a sample are a function, of whole numbers.
LEMMA EncodeType ==
  ASSUME NEW name \in FormatNames, NEW v \in Int
  PROVE  Encode(Format(name), v) \in [0 .. Format(name).bytes - 1 -> Bytes]
<1> DEFINE format == Format(name)
<1>1. SUFFICES ASSUME NEW k \in 0 .. format.bytes - 1 PROVE Encode(format, v)[k] \in Bytes
  BY DEF Encode
<1>2. PICK place \in 0 .. format.bytes - 1 : place = IF format.swap THEN format.bytes - 1 - k ELSE k
  BY FormatFacts
<1>3. place \in Int
  BY FormatFacts
<1>4. Encode(format, v)[k] = IF format.isfloat THEN <<"float", v, place>>
                             ELSE <<"int", (v \div Power[place]) % Byte, place>>
  BY <1>2 DEF Encode
<1>5. CASE format.isfloat
  BY <1>3, <1>4, <1>5 DEF Bytes
<1>6. CASE ~format.isfloat
  <2>1. place \in 0 .. 4
    BY <1>2, <1>6, FormatFacts
  <2>2. PICK p \in Nat \ {0} : p = Power[place]
    BY <2>1, PowerFacts
  <2>3. PICK x \in Int : x = v \div p
    BY ONLY <2>2, Divided, v \in Int
  <2>4. Byte \in Nat \ {0}
    BY PowerFacts
  <2>5. x % Byte \in Int
    <3>1. x % Byte \in 0 .. Byte - 1
      BY ONLY <2>3, <2>4, Divided
    <3> QED BY ONLY <2>4, <3>1
  <2>6. (v \div Power[place]) % Byte \in Int
    BY ONLY <2>2, <2>3, <2>5
  <2> QED BY <1>3, <1>4, <1>6, <2>6 DEF Bytes
<1> QED BY <1>5, <1>6

\* Every sample of the input is a number.
LEMMA InputType ==
  ASSUME SamplesTyped, NEW c \in Channels, NEW n \in 0 .. BlockLength - 1
  PROVE  LET format == Format(inFormat)  v == Value(format, BytesAt(inbuf, format, c, n)) IN
         /\ v \in Int
         /\ ~format.isfloat => v \in -Half(format.bytes) .. Half(format.bytes) - 1
<1> DEFINE format == Format(inFormat)  b == BytesAt(inbuf, format, c, n)
<1>1. /\ format.bytes \in {1, 2, 3, 4, 8} /\ format.swap \in BOOLEAN
      /\ format.isfloat \in BOOLEAN /\ (~format.isfloat => format.bytes \in 1 .. 4)
  BY FormatFacts DEF SamplesTyped
<1>2. ASSUME NEW k \in 0 .. format.bytes - 1 PROVE b[k][2] \in Int
  <2>1. Place(format, c, n, k) \in BufferOf(format)
    BY <1>1, PlaceFacts
  <2>2. inbuf[Place(format, c, n, k)] \in Bytes
    BY <2>1 DEF SamplesTyped
  <2>3. b[k] = inbuf[Place(format, c, n, k)]
    BY DEF BytesAt
  <2> QED BY <2>2, <2>3 DEF Bytes
<1> HIDE DEF format, b
<1>3. Value(format, b) \in Int /\ (~format.isfloat => Value(format, b) \in -Half(format.bytes) .. Half(format.bytes) - 1)
  BY <1>1, <1>2, ValueType
<1> QED BY <1>3 DEF format, b

\* Every sample is a number after the filter.
LEMMA SampleType ==
  ASSUME SamplesTyped, NEW c \in Channels, NEW n \in 0 .. BlockLength - 1
  PROVE  Sample(c, n) \in Int
<1>1. PICK v \in Int : v = Value(Format(inFormat), BytesAt(inbuf, Format(inFormat), c, n))
  BY InputType
<1>2. v * One \in Int
  BY OneFacts, SMT
<1>3. RealSample(c, n) \in Int
  BY <1>1, <1>2, RealFacts DEF RealSample
<1> QED BY <1>3, ScaledType DEF Sample, SamplesTyped

\* The difference of two random numbers.
LEMMA DiffFacts ==
  ASSUME DitherTypeOK, PtrInv, NEW c \in Channels, NEW n \in 1 .. BlockLength
  PROVE  Diff(c, n) \in -(Byte - 1) .. Byte - 1
<1>1. PICK p \in 1 .. RandtabSize : p = From(c) /\ p + BlockLength <= RandtabSize
  BY FromFacts
<1>2. p + n - 1 \in 0 .. RandtabSize - 1 /\ p + n - 2 \in 0 .. RandtabSize - 1
  BY <1>1, Sizes
<1>3. PICK table \in [0 .. RandtabSize - 1 -> Numbers] : table = Carried(c)
  BY CarriedFacts
<1>4. Diff(c, n) = table[p + n - 1] - table[p + n - 2]
  BY <1>1, <1>2, <1>3 DEF Diff, At
<1>5. PICK x \in Numbers : x = table[p + n - 1]
  BY <1>2
<1>6. PICK y \in Numbers : y = table[p + n - 2]
  BY <1>2
<1>7. PICK h \in Nat \ {0} : Byte = 2 * h /\ h = Byte \div 2
  <2>1. Byte \in Nat \ {0} /\ Byte % 2 = 0
    BY FormatAssumption
  <2> QED BY <2>1, SMT
<1>8. x \in -h .. h - 1 /\ y \in -h .. h - 1
  BY <1>7, FormatAssumption
<1>9. x - y \in -(Byte - 1) .. Byte - 1
  BY ONLY <1>7, <1>8, h \in Nat
<1> QED BY <1>4, <1>5, <1>6, <1>9

\* What a channel begins a block with is of the right types.
LEMMA BeginType ==
  ASSUME SamplesTyped, NEW c \in Channels
  PROVE  Begin(c) \in TurnType
BY DEF SamplesTyped, TurnType, Begin

-----------------------------------------------------------------------------
(* Counting.                                                               *)

\* Nothing has been counted at first.
LEMMA InitCount == Init => CountInv
<1> SUFFICES ASSUME Init PROVE CountInv
  OBVIOUS
<1>1. inFormat \in FormatNames /\ outFormat \in FormatNames
  BY FormatAssumption DEF Init
<1>2. [n_overflows |-> 0, intlargest |-> 0, largest |-> 0] \in OfType
  BY PowerFacts DEF OfType
<1>3. overflow \in [Channels -> OfType] /\ sf \in [Channels -> Int \X Int] /\ clipped \in [Channels -> Nat]
  BY <1>2 DEF Init
<1>4. inbuf \in [BufferOf(Format(inFormat)) -> Bytes] /\ DOMAIN outbuf = BufferOf(Format(outFormat))
  <2>1. <<"int", 0, 0>> \in Bytes
    BY DEF Bytes
  <2> QED BY <2>1 DEF Init, NoBytes
<1>5. SamplesTyped
  BY <1>1, <1>3, <1>4 DEF Init, SamplesTyped
<1>6. \A c \in Channels : clipped[c] = 0 /\ overflow[c].n_overflows = 0
  BY DEF Init
<1> QED BY <1>5, <1>6, InitNumbers DEF CountInv

\* What run() is called with are bytes of samples.
LEMMA NewBlockBytes ==
  ASSUME inFormat \in FormatNames, NEW v \in Samples(inFormat), NewBlock(v)
  PROVE  /\ Len(v) \in Nat \ {0} /\ v \in Seq(Int)
         /\ inbuf' \in [BufferOf(Format(inFormat)) -> Bytes]
         /\ \A c \in Channels, n \in 0 .. BlockLength - 1 :
              BytesAt(inbuf', Format(inFormat), c, n) =
                Encode(Format(inFormat), v[((n + c) % Len(v)) + 1])
<1> DEFINE format == Format(inFormat)
           sample(c, n) == v[((n + c) % Len(v)) + 1]
<1>1. v \in Seq(Int) /\ v # <<>> /\ Len(v) \in Nat \ {0}
  <2>1. v \in Seq(Int) /\ v # <<>>
    BY FormatAssumption
  <2> QED BY <2>1
<1>2. ASSUME NEW c \in Int, NEW n \in Int PROVE sample(c, n) \in Int
  <2>1. (n + c) % Len(v) \in 0 .. Len(v) - 1
    <3>1. n + c \in Int
      OBVIOUS
    <3> QED BY ONLY <1>1, <3>1, Divided
  <2> QED BY <1>1, <2>1
<1>3. PICK b \in {1, 2, 3, 4, 8} : b = format.bytes
  BY FormatFacts
<1>4. inbuf' = [i \in BufferOf(format) |->
                  Encode(format, sample((i \div b) % NChannels, (i \div b) \div NChannels))[i % b]]
  BY <1>3 DEF NewBlock
<1> HIDE DEF sample
<1>5. NChannels \in Nat \ {0} /\ BlockLength \in Nat \ {0} /\ BufferOf(format) \subseteq Int
  BY DitherAssumption DEF BufferOf
<1>6. ASSUME NEW i \in BufferOf(format) PROVE inbuf'[i] \in Bytes
  <2>1. i \div b \in Int /\ i % b \in 0 .. b - 1
    <3>1. i \in Int /\ b \in Nat \ {0}
      BY <1>5
    <3> QED BY ONLY <3>1, Divided
  <2>2. (i \div b) % NChannels \in Int /\ (i \div b) \div NChannels \in Int
    BY <1>5, <2>1, Divided
  <2>3. PICK x \in Int : x = sample((i \div b) % NChannels, (i \div b) \div NChannels)
    BY <1>2, <2>2
  <2>4. Encode(format, x) \in [0 .. b - 1 -> Bytes]
    BY <1>3, EncodeType
  <2> QED BY <1>4, <2>1, <2>3, <2>4
<1>7. inbuf' \in [BufferOf(format) -> Bytes]
  BY <1>4, <1>6
<1>8. ASSUME NEW c \in Channels, NEW n \in 0 .. BlockLength - 1
      PROVE  BytesAt(inbuf', format, c, n) = Encode(format, sample(c, n))
  <2>1. c \in Int /\ n \in Int
    BY <1>5 DEF Channels
  <2>2. PICK x \in Int : x = sample(c, n)
    BY <1>2, <2>1
  <2>3. Encode(format, x) \in [0 .. b - 1 -> Bytes]
    BY <1>3, EncodeType
  <2>4. ASSUME NEW k \in 0 .. b - 1 PROVE inbuf'[Place(format, c, n, k)] = Encode(format, x)[k]
    <3>1. PICK i \in BufferOf(format) : /\ i = Place(format, c, n, k) /\ i % b = k
                                        /\ (i \div b) % NChannels = c /\ (i \div b) \div NChannels = n
      BY <1>3, PlaceFacts
    <3> QED BY <1>4, <2>2, <3>1
  <2> QED BY <1>3, <2>2, <2>3, <2>4 DEF BytesAt
<1> QED BY <1>1, <1>7, <1>8 DEF sample

\* A new block brings bytes, and changes no counts.
LEMMA NewBlockCount ==
  ASSUME CountInv, NEW v \in Samples(inFormat), NewBlock(v)
  PROVE  CountInv'
<1>1. inbuf' \in [BufferOf(Format(inFormat)) -> Bytes]
  BY NewBlockBytes DEF CountInv, SamplesTyped
<1>2. UNCHANGED <<inFormat, outFormat, realsize, applyDither, outbuf, overflow, sf, clipped>>
  BY DEF NewBlock
<1>3. SamplesTyped'
  BY <1>1, <1>2 DEF SamplesTyped, CountInv
<1>4. NumbersInv'
  BY StepNumbers DEF Next, CountInv
<1> QED BY <1>2, <1>3, <1>4 DEF CountInv, Exact

\* The channel of this turn, and what is done with it.
LEMMA RunFacts ==
  ASSUME CountInv, NEW beyond \in {0, 100 * One}, RunChannel(beyond)
  PROVE  /\ turn \in Channels /\ beyond \in Int
         /\ UsesDither => \A n \in 1 .. BlockLength : Diff(turn, n) \in -(Byte - 1) .. Byte - 1
         /\ \E s : /\ Turns(s, turn, beyond)
                   /\ overflow' = [overflow EXCEPT ![turn] = s[BlockLength].of]
                   /\ sf' = [sf EXCEPT ![turn] = s[BlockLength].sf]
                   /\ clipped' = [clipped EXCEPT ![turn] = s[BlockLength].clipped]
                   /\ outbuf' = Filled(turn, s[BlockLength].samples)
<1>1. turn \in Channels /\ SamplesTyped
  BY DEF CountInv, NumbersInv, DitherTypeOK
<1>2. beyond \in Int
  BY OneFacts
<1>3. UsesDither => \A n \in 1 .. BlockLength : Diff(turn, n) \in -(Byte - 1) .. Byte - 1
  BY <1>1, DiffFacts DEF CountInv, NumbersInv, DitherInv
<1>4. -(Byte - 1) .. Byte - 1 \subseteq Int
  OBVIOUS
<1>5. \A n \in 0 .. BlockLength - 1 : Sample(turn, n) \in Int
  BY <1>1, SampleType
<1>6. PICK s : Turns(s, turn, beyond) /\ Converted(turn, beyond) = s[BlockLength]
  BY <1>1, <1>2, <1>3, <1>4, <1>5, ConvertedIs, BeginType DEF SamplesTyped
<1>7. /\ overflow' = [overflow EXCEPT ![turn] = Converted(turn, beyond).of]
      /\ sf' = [sf EXCEPT ![turn] = Converted(turn, beyond).sf]
      /\ clipped' = [clipped EXCEPT ![turn] = Converted(turn, beyond).clipped]
      /\ outbuf' = Filled(turn, Converted(turn, beyond).samples)
  BY DEF RunChannel
<1> QED BY <1>1, <1>2, <1>3, <1>6, <1>7

\* A turn of the loop counts what it clips, by induction over the samples of the block.
LEMMA RunCount ==
  ASSUME CountInv, NEW beyond \in {0, 100 * One}, RunChannel(beyond)
  PROVE  CountInv'
<1>1. /\ turn \in Channels /\ beyond \in Int /\ SamplesTyped
      /\ UsesDither => \A n \in 1 .. BlockLength : Diff(turn, n) \in Int
  <2>1. -(Byte - 1) .. Byte - 1 \subseteq Int
    OBVIOUS
  <2> QED BY <2>1, RunFacts DEF CountInv
<1>2. PICK s : /\ Turns(s, turn, beyond)
               /\ overflow' = [overflow EXCEPT ![turn] = s[BlockLength].of]
               /\ sf' = [sf EXCEPT ![turn] = s[BlockLength].sf]
               /\ clipped' = [clipped EXCEPT ![turn] = s[BlockLength].clipped]
               /\ outbuf' = Filled(turn, s[BlockLength].samples)
  BY RunFacts
<1>3. UNCHANGED <<inFormat, outFormat, realsize, applyDither, inbuf>>
  BY DEF RunChannel
<1>4. BlockLength \in Nat \ {0}
  BY DitherAssumption
<1>5. PICK e \in TurnType : e = s[BlockLength]
  BY <1>2, <1>4 DEF Turns
<1>6. e.of \in OfType /\ e.sf \in Int \X Int /\ e.clipped \in Nat
  BY TurnParts
<1>7. DOMAIN outbuf' = DOMAIN outbuf
  BY <1>2 DEF Filled
<1>8. SamplesTyped'
  BY <1>1, <1>2, <1>3, <1>5, <1>6, <1>7 DEF SamplesTyped
<1>9. NumbersInv'
  BY StepNumbers DEF Next, CountInv
<1>10. ASSUME Exact PROVE e.clipped <= e.of.n_overflows
  <2> DEFINE S == {n \in Nat : n <= BlockLength => s[n].clipped <= s[n].of.n_overflows}
  <2>1. 0 \in S
    BY <1>1, <1>2, <1>10 DEF Turns, Begin, CountInv
  <2>2. ASSUME NEW n \in Nat, n \in S PROVE n + 1 \in S
    <3>1. SUFFICES ASSUME n + 1 <= BlockLength
                   PROVE  s[n + 1].clipped <= s[n + 1].of.n_overflows
      OBVIOUS
    <3>2. n \in 0 .. BlockLength /\ n + 1 \in 1 .. BlockLength /\ (n + 1) - 1 = n
          /\ n \in 0 .. BlockLength - 1
      BY <1>4, <3>1
    <3>3. PICK t \in TurnType : t = s[n] /\ t.clipped <= t.of.n_overflows
      BY <1>2, <2>2, <3>2 DEF Turns
    <3>4. s[n + 1] = Turned(t, Sample(turn, n), Diff(turn, n + 1), beyond)
      BY <1>2, <3>2, <3>3 DEF Turns
    <3>5. Sample(turn, n) \in Int /\ (UsesDither => Diff(turn, n + 1) \in Int)
      BY <1>1, <3>2, SampleType
    <3> QED BY <1>1, <1>10, <3>3, <3>4, <3>5, TurnedType DEF SamplesTyped
  <2> HIDE DEF S
  <2>3. Nat \subseteq S
    BY <2>1, <2>2, Induction
  <2>4. BlockLength \in S
    BY <1>4, <2>3
  <2> QED BY <1>4, <1>5, <2>4 DEF S
<1>11. Exact' <=> Exact
  BY <1>3 DEF Exact
<1>12. ASSUME Exact, NEW c \in Channels PROVE clipped'[c] <= overflow'[c].n_overflows
  BY <1>1, <1>2, <1>5, <1>10, <1>12 DEF SamplesTyped, CountInv
<1> QED BY <1>8, <1>9, <1>11, <1>12 DEF CountInv

\* Every step keeps the counts.
LEMMA StepCount == CountInv /\ [Next]_vars => CountInv'
<1> SUFFICES ASSUME CountInv, [Next]_vars PROVE CountInv'
  OBVIOUS
<1>1. CASE \E v \in Samples(inFormat) : NewBlock(v)
  BY <1>1, NewBlockCount
<1>2. CASE \E beyond \in {0, 100 * One} : RunChannel(beyond)
  BY <1>2, RunCount
<1>3. CASE UNCHANGED vars
  <2>1. NumbersInv'
    BY StepNumbers DEF CountInv
  <2>2. UNCHANGED <<inFormat, outFormat, realsize, applyDither, inbuf, outbuf, overflow, sf, clipped>>
    BY <1>3 DEF vars
  <2>3. SamplesTyped' /\ (Exact' <=> Exact)
    BY <2>2 DEF SamplesTyped, Exact, CountInv
  <2> QED BY <2>1, <2>2, <2>3 DEF CountInv
<1> QED BY <1>1, <1>2, <1>3 DEF Next

\* So they always hold.
LEMMA CountAlways == Spec => []CountInv
BY InitCount, StepCount, PTL DEF Spec

\* With every pair of formats, whatever is played, with and without dither:
\* no sample leaves the range of the output format without being counted
\* (dither.cpp:148-268, real2raw.cpp:17-32).
THEOREM EveryClipIsCountedHolds == Spec => []EveryClipIsCounted
<1>1. ASSUME CountInv PROVE EveryClipIsCounted
  <2>1. SamplesTyped
    BY <1>1 DEF CountInv
  <2>2. ASSUME NEW c \in Channels
        PROVE  /\ overflow[c].n_overflows \in Nat /\ overflow[c].largest \in Nat
               /\ Signed(overflow[c].intlargest, 4) = overflow[c].intlargest
               /\ sf[c] \in Int \X Int /\ clipped[c] \in Nat
    <3>1. overflow[c] \in OfType /\ sf[c] \in Int \X Int /\ clipped[c] \in Nat
      BY <2>1 DEF SamplesTyped
    <3>2. PICK x \in Int : x = overflow[c].intlargest /\ x \in -Half(4) .. Half(4) - 1
      BY <3>1, PowerFacts DEF OfType
    <3>3. Signed(x, 4) = x
      BY <3>2, SignedFacts
    <3> QED BY <3>1, <3>2, <3>3 DEF OfType
  <2>3. TypeOK
    BY <2>1, <2>2 DEF TypeOK, SamplesTyped
  <2> QED BY <1>1, <2>3 DEF EveryClipIsCounted, CountInv
<1> QED BY <1>1, CountAlways, PTL

-----------------------------------------------------------------------------
(* There and back.                                                         *)

\* A digit more of a number.
LEMMA DigitStep ==
  ASSUME NEW p \in Nat \ {0}, NEW b \in Nat \ {0}, NEW v \in Int
  PROVE  b * p \in Nat \ {0} /\ (v % p) + ((v \div p) % b) * p = v % (b * p)
<1>1. PICK q \in Int, r \in 0 .. p - 1 : q = v \div p /\ r = v % p /\ v = p * q + r
  BY Divided
<1>2. PICK e \in Int, d \in 0 .. b - 1 : d = q % b /\ q = b * e + d
  BY Divided
<1>3. PICK m \in Nat \ {0} : m = b * p
  BY SMT
<1>4. PICK x \in Int : x = d * p + r /\ x = r + d * p
  <2>1. d * p \in Int
    BY SMT
  <2> QED BY <2>1
<1>5. x \in 0 .. m - 1
  <2>1. d * p >= 0 /\ d * p <= (b - 1) * p
    BY SMT
  <2>2. (b - 1) * p = m - p /\ d * p \in Int
    BY <1>3, SMT
  <2> QED BY <1>4, <2>1, <2>2
<1>6. v = m * e + x
  <2>1. p * (b * e + d) = (b * p) * e + d * p
    BY SMT
  <2>2. (b * p) * e \in Int /\ d * p \in Int
    BY SMT
  <2>3. p * q = m * e + d * p
    BY ONLY <1>2, <1>3, <2>1
  <2>4. m * e \in Int
    BY SMT
  <2> QED BY ONLY <1>1, <1>4, <2>2, <2>3, <2>4
<1>7. v % m = x
  BY <1>3, <1>5, <1>6, Unique
<1> QED BY ONLY <1>1, <1>2, <1>3, <1>4, <1>7

\* The value of an integer's bytes is what they were made of.
LEMMA DigitsOf ==
  ASSUME NEW b \in 1 .. 4, NEW v \in Int, NEW s, s[0] = 0,
         \A k \in 1 .. b : s[k] = s[k - 1] + ((v \div Power[k - 1]) % Byte) * Power[k - 1]
  PROVE  s[b] = v % Power[b]
<1>1. v % 1 = 0
  <2>1. v = 1 * v + 0 /\ 1 \in Nat \ {0} /\ 0 \in 0 .. 1 - 1
    OBVIOUS
  <2> QED BY ONLY <2>1, Unique, v \in Int
<1>2. s[0] = v % Power[0]
  BY <1>1, PowerFacts
<1>3. ASSUME NEW k \in 1 .. b, s[k - 1] = v % Power[k - 1] PROVE s[k] = v % Power[k]
  <2>1. PICK p \in Nat \ {0} : p = Power[k - 1]
    <3>1. k - 1 \in 0 .. 4
      OBVIOUS
    <3> QED BY <3>1, PowerFacts
  <2>2. Power[k] = Byte * p /\ Byte \in Nat \ {0}
    <3>1. k \in 1 .. 4
      OBVIOUS
    <3> QED BY <2>1, <3>1, PowerUnfold, PowerFacts
  <2>3. (v % p) + ((v \div p) % Byte) * p = v % (Byte * p)
    BY ONLY <2>1, <2>2, DigitStep, v \in Int
  <2>4. s[k] = s[k - 1] + ((v \div p) % Byte) * p
    BY <2>1
  <2> QED BY ONLY <1>3, <2>1, <2>2, <2>3, <2>4
<1>4. /\ s[1] = v % Power[1]
      /\ 2 <= b => s[2] = v % Power[2]
      /\ 3 <= b => s[3] = v % Power[3]
      /\ 4 <= b => s[4] = v % Power[4]
  <2>1. 1 \in 1 .. b /\ 1 - 1 = 0 /\ 2 - 1 = 1 /\ 3 - 1 = 2 /\ 4 - 1 = 3
    OBVIOUS
  <2>2. s[1] = v % Power[1]
    BY <1>2, <1>3, <2>1
  <2>3. 2 <= b => s[2] = v % Power[2]
    BY <1>3, <2>1, <2>2
  <2>4. 3 <= b => s[3] = v % Power[3]
    BY <1>3, <2>1, <2>3
  <2>5. 4 <= b => s[4] = v % Power[4]
    BY <1>3, <2>1, <2>4
  <2> QED BY <2>2, <2>3, <2>4, <2>5
<1>5. b \in {1, 2, 3, 4}
  OBVIOUS
<1> QED BY <1>4, <1>5

\* What was encoded is read as what it was, in every format that holds it.
LEMMA EncodeValue ==
  ASSUME NEW name \in FormatNames, NEW v \in Int,
         Format(name).isfloat \/ v \in -Half(Format(name).bytes) .. Half(Format(name).bytes) - 1
  PROVE  Value(Format(name), Encode(Format(name), v)) = v
<1>1. PICK format : format = Format(name)
  OBVIOUS
<1>2. /\ format.isfloat \in BOOLEAN /\ format.swap \in BOOLEAN /\ format.bytes \in {1, 2, 3, 4, 8}
      /\ ~format.isfloat => format.bytes \in 1 .. 4
  BY <1>1, FormatFacts
<1>3. PICK b : b = Encode(format, v)
  OBVIOUS
<1>4. ASSUME NEW k \in 0 .. format.bytes - 1
      PROVE  b[k] = IF format.isfloat THEN <<"float", v, Digit(format, k)>>
                    ELSE <<"int", (v \div Power[Digit(format, k)]) % Byte, Digit(format, k)>>
  BY <1>3 DEF Encode, Digit
<1>5. ASSUME NEW k \in 0 .. format.bytes - 1
      PROVE  Digit(format, k) \in 0 .. format.bytes - 1 /\ Digit(format, Digit(format, k)) = k
  BY <1>2 DEF Digit
<1>6. CASE format.isfloat
  <2>1. ASSUME NEW k \in 0 .. format.bytes - 1 PROVE b[Digit(format, k)][3] = k
    BY <1>4, <1>5, <1>6
  <2>2. b[0][2] = v
    <3>1. 0 \in 0 .. format.bytes - 1
      BY <1>2
    <3> QED BY <1>4, <1>6, <3>1
  <2>3. Value(format, b) = b[0][2]
    BY <1>6, <2>1 DEF Value, Digit
  <2> QED BY <1>1, <1>3, <2>2, <2>3
<1>7. CASE ~format.isfloat
  <2>1. PICK n \in 1 .. 4 : n = format.bytes
    BY <1>2, <1>7
  <2>2. ASSUME NEW k \in 0 .. n - 1
        PROVE  b[Digit(format, k)][2] = (v \div Power[k]) % Byte
    BY <1>4, <1>5, <1>7, <2>1, <2>2
  <2>3. \A k \in 0 .. n - 1 : b[k][2] \in Int
    <3>1. b \in [0 .. format.bytes - 1 -> Bytes]
      BY <1>1, <1>3, EncodeType
    <3> QED BY <2>1, <3>1 DEF Bytes
  <2>4. PICK s : SumOf(s, format, b) /\ Value(format, b) = Signed(s[n], n)
    BY <1>2, <1>7, <2>1, <2>3, ValueIs
  <2>5. ASSUME NEW k \in 1 .. n
        PROVE  s[k] = s[k - 1] + ((v \div Power[k - 1]) % Byte) * Power[k - 1]
    <3>1. k - 1 \in 0 .. n - 1
      OBVIOUS
    <3>2. s[k] = s[k - 1] + b[Digit(format, k - 1)][2] * Power[k - 1]
      BY <2>1, <2>4 DEF SumOf
    <3> QED BY <2>2, <3>1, <3>2
  <2>6. s[n] = v % Power[n]
    <3>1. s[0] = 0
      BY <2>4 DEF SumOf
    <3> QED BY <2>5, <3>1, DigitsOf
  <2>7. Signed(s[n], n) = Signed(v, n)
    <3>1. PICK p \in Nat \ {0} : p = Power[n]
      BY PowerFacts
    <3>2. v % p \in 0 .. p - 1
      BY Divided
    <3>3. (v % p) % p = v % p
      BY <3>2, Below
    <3> QED BY ONLY <2>6, <3>1, <3>3 DEF Signed
  <2>8. Signed(v, n) = v
    BY <1>1, <1>7, <2>1, SignedFacts
  <2> QED BY <1>1, <1>3, <2>4, <2>7, <2>8
<1> QED BY <1>2, <1>6, <1>7

\* The samples of a float are held by a float.
FloatsHeld ==
  Format(inFormat).isfloat =>
    \A c \in Channels, n \in 0 .. BlockLength - 1 :
      2 * Abs(Value(Format(inFormat), BytesAt(inbuf, Format(inFormat), c, n))) < Power[3] * One

\* The scales divide One.
LEMMA ScaleDivides ==
  ASSUME NEW b \in 1 .. 4
  PROVE  \E k \in Nat \ {0} : One = k * Half(b) /\ One \div Half(b) = k
<1>1. Byte \in Nat \ {0} /\ Half(1) \in Nat \ {0} /\ Half(2) \in Nat \ {0}
      /\ Half(3) \in Nat \ {0} /\ Half(4) \in Nat \ {0}
  BY PowerFacts
<1>2. ASSUME NEW j \in 1 .. 3 PROVE Half(j + 1) = Byte * Half(j)
  <2>1. j + 1 \in 1 .. 4 /\ j \in 1 .. 4 /\ (j + 1) - 1 = j
    OBVIOUS
  <2>2. Power[j + 1] = Byte * Power[j]
    BY <2>1, PowerUnfold
  <2>3. PICK h \in Nat, i \in Nat : h = Half(j) /\ i = Half(j + 1) /\ Power[j] = 2 * h /\ Power[j + 1] = 2 * i
    BY <2>1, PowerFacts
  <2>4. Byte * (2 * h) = 2 * (Byte * h) /\ Byte * h \in Int
    BY <1>1, SMT
  <2> QED BY <2>2, <2>3, <2>4
<1>3. PICK k4 \in Nat \ {0} : One = k4 * Half(4)
  <2>1. One \in Nat \ {0} /\ One % Half(4) = 0
    BY FormatAssumption DEF Half
  <2>2. PICK h \in Nat \ {0}, o \in Nat \ {0} : h = Half(4) /\ o = One /\ o % h = 0
    BY <1>1, <2>1
  <2>3. PICK q \in Int : o = h * q
    <3>1. o \in Int
      OBVIOUS
    <3>2. o \div h \in Int /\ o = h * (o \div h) + (o % h)
      BY ONLY <3>1, Divided, h \in Nat \ {0}
    <3>3. h * (o \div h) \in Int
      BY <3>2, SMT
    <3> QED BY <2>2, <3>2, <3>3
  <2>4. o = q * h /\ q > 0
    BY <2>3, SMT
  <2> QED BY <2>2, <2>4
<1>4. ASSUME NEW j \in 1 .. 3, NEW k \in Nat \ {0}, One = k * Half(j + 1)
      PROVE  \E i \in Nat \ {0} : One = i * Half(j)
  <2>1. PICK h \in Nat \ {0} : h = Half(j)
    BY PowerFacts
  <2>2. k * (Byte * h) = (k * Byte) * h /\ k * Byte \in Nat \ {0}
    BY <1>1, SMT
  <2> QED BY <1>2, <1>4, <2>1, <2>2
<1>5. \E i \in Nat \ {0} : One = i * Half(3)
  <2>1. 3 \in 1 .. 3 /\ 3 + 1 = 4
    OBVIOUS
  <2> QED BY <1>3, <1>4, <2>1
<1>6. \E i \in Nat \ {0} : One = i * Half(2)
  <2>1. 2 \in 1 .. 3 /\ 2 + 1 = 3
    OBVIOUS
  <2> QED BY <1>5, <1>4, <2>1
<1>7. \E i \in Nat \ {0} : One = i * Half(1)
  <2>1. 1 \in 1 .. 3 /\ 1 + 1 = 2
    OBVIOUS
  <2> QED BY <1>6, <1>4, <2>1
<1>8. PICK i \in Nat \ {0} : One = i * Half(b)
  <2>1. b \in {1, 2, 3, 4}
    OBVIOUS
  <2> QED BY <1>3, <1>5, <1>6, <1>7, <2>1
<1>9. Half(b) \in Nat \ {0}
  BY PowerFacts
<1> QED BY <1>8, <1>9, Multiple

\* The output scale is the true one, but for its sign.
LEMMA OutScale ==
  ASSUME outFormat \in FormatNames
  PROVE  /\ TrueScale(outFormat) \in Nat \ {0} /\ IsInt4(outFormat) \in BOOLEAN
         /\ Format(outFormat).isfloat => TrueScale(outFormat) = 1 /\ ~IsInt4(outFormat)
         /\ ~Format(outFormat).isfloat =>
              FullScale(Format(outFormat).bytes) =
                IF IsInt4(outFormat) THEN -TrueScale(outFormat) ELSE TrueScale(outFormat)
<1>1. CASE Format(outFormat).isfloat
  BY <1>1 DEF TrueScale, IsInt4
<1>2. CASE ~Format(outFormat).isfloat
  <2>1. PICK b \in 1 .. 4 : b = Format(outFormat).bytes
    BY <1>2, FormatFacts
  <2>2. TrueScale(outFormat) = Half(b) /\ (IsInt4(outFormat) <=> b = 4) /\ IsInt4(outFormat) \in BOOLEAN
    BY <1>2, <2>1 DEF TrueScale, IsInt4, Half
  <2> QED BY <1>2, <2>1, <2>2, PowerFacts, FullScaleFacts
<1> QED BY <1>1, <1>2

\* What comes out of the filter is what should come out, before rounding.
LEMMA SampleWanted ==
  ASSUME SamplesTyped, FloatsHeld, Exact, NEW c \in Channels, NEW n \in 0 .. BlockLength - 1
  PROVE  Sample(c, n) = Wanted(c, n) /\ Wanted(c, n) \in Int
<1>1. PICK v \in Int : v = Value(Format(inFormat), BytesAt(inbuf, Format(inFormat), c, n))
  BY InputType
<1>2. PICK t \in Nat \ {0} : t = TrueScale(outFormat)
  BY OutScale DEF SamplesTyped
<1>3. PICK f \in {-t, t} : /\ f = IF IsInt4(outFormat) THEN -t ELSE t
                           /\ Format(outFormat).isfloat => f = 1
                           /\ ~Format(outFormat).isfloat => FullScale(Format(outFormat).bytes) = f
  BY <1>2, OutScale DEF SamplesTyped
<1>4. IsInt4(inFormat) \in BOOLEAN /\ IsInt4(outFormat) \in BOOLEAN
  BY DEF IsInt4
<1>5. PICK l \in Nat \ {0} : l = Large /\ Power[3] * One = 2 * l
  <2>1. PICK h \in Nat \ {0} : h = Half(3) /\ Power[3] = 2 * h
    BY PowerFacts
  <2>2. PICK o \in Nat \ {0} : o = One
    BY OneFacts
  <2>3. (2 * h) * o = 2 * (h * o) /\ h * o \in Nat \ {0}
    BY SMT
  <2> QED BY <2>1, <2>2, <2>3 DEF Large
<1>6. CASE Format(inFormat).isfloat
  <2>1. 2 * Abs(v) < 2 * l
    BY <1>1, <1>5, <1>6 DEF FloatsHeld
  <2>2. v > -l /\ v < l
    BY <2>1 DEF Abs
  <2>3. RealSample(c, n) = v
    BY <1>1, <1>5, <1>6, <2>2, RealFacts DEF RealSample
  <2>4. v * 1 = v /\ v * f \in Int
    BY SMT
  <2>5. Sample(c, n) = v * f
    BY <1>3, <1>6, <2>3, <2>4 DEF Sample, Scaled
  <2>6. ~IsInt4(inFormat) /\ TrueScale(inFormat) = 1
    BY <1>6 DEF IsInt4, TrueScale
  <2>7. Wanted(c, n) = v * t * (IF IsInt4(outFormat) THEN -1 ELSE 1)
    BY <1>1, <1>2, <1>4, <1>6, <2>6 DEF Wanted
  <2>8. (v * t) * 1 = v * t /\ (v * t) * (-1) = v * (-t)
    BY SMT
  <2> QED BY <1>3, <2>4, <2>5, <2>7, <2>8
<1>7. CASE ~Format(inFormat).isfloat
  <2>1. PICK b \in 1 .. 4 : b = Format(inFormat).bytes
    BY <1>7, FormatFacts DEF SamplesTyped
  <2>2. PICK h \in Nat \ {0} : h = Half(b)
    BY PowerFacts
  <2>3. PICK k \in Nat \ {0} : One = k * h /\ One \div h = k
    BY <2>2, ScaleDivides
  <2>4. PICK o \in Nat \ {0} : o = One
    BY OneFacts
  <2>5. PICK x \in Int : x = v * o
    BY SMT
  <2>6. v \in -h .. h - 1
    BY <1>1, <1>7, <2>1, <2>2, InputType
  <2>7. realsize = 8 \/ (x >= -l /\ x < l)
    <3>1. realsize = 8 \/ b # 4
      BY <1>7, <2>1 DEF Exact, IsInt4
    <3>2. ASSUME b # 4 PROVE x >= -l /\ x < l
      <4>1. h <= Half(3) /\ Half(3) \in Nat
        <5>1. b \in {1, 2, 3}
          BY <3>2
        <5> QED BY <2>2, <5>1, PowerFacts
      <4>2. PICK a \in Nat : a = Half(3) /\ h <= a
        BY <4>1
      <4>3. l = a * o
        BY <1>5, <2>4, <4>2 DEF Large
      <4>4. v >= -a /\ v <= a - 1
        BY <2>6, <4>2
      <4>5. v * o >= (-a) * o /\ v * o <= (a - 1) * o
        BY <4>4, SMT
      <4>6. (-a) * o = -(a * o) /\ (a - 1) * o = a * o - o
        BY SMT
      <4> QED BY ONLY <2>5, <4>3, <4>5, <4>6, o \in Nat \ {0}, l \in Nat \ {0}, x \in Int
    <3> QED BY <3>1, <3>2
  <2>8. RealSample(c, n) = x
    BY <1>1, <1>5, <1>7, <2>4, <2>5, <2>7, RealFacts DEF RealSample
  <2>9. PICK u \in Int : u = (v * k) * f /\ u * h = x * f
    <3>1. ((v * k) * f) * h = (v * (k * h)) * f /\ (v * k) * f \in Int
      BY <1>3, SMT
    <3> QED BY <2>3, <2>4, <2>5, <3>1
  <2>10. Sample(c, n) = IF FullScale(b) > 0 THEN (u * h) \div FullScale(b)
                        ELSE -((u * h) \div (-FullScale(b)))
    <3>1. x * 1 = x
      BY SMT
    <3>2. (IF Format(outFormat).isfloat THEN x ELSE x * FullScale(Format(outFormat).bytes)) = u * h
      BY <1>3, <2>9, <3>1
    <3> QED BY <1>7, <2>1, <2>8, <3>2 DEF Sample, Scaled
  <2>11. (u * h) \div h = u
    BY Multiple
  <2>12. Sample(c, n) = IF b = 4 THEN -u ELSE u
    <3>1. FullScale(b) = IF b = 4 THEN -h ELSE h
      BY <2>2, FullScaleFacts
    <3>2. -(-h) = h
      OBVIOUS
    <3> QED BY <2>10, <2>11, <3>1, <3>2
  <2>13. (IsInt4(inFormat) <=> b = 4) /\ TrueScale(inFormat) = h
    BY <1>7, <2>1, <2>2 DEF IsInt4, TrueScale, Half
  <2>14. Wanted(c, n) = ((v * k) * t) * (IF (b = 4) = IsInt4(outFormat) THEN 1 ELSE -1)
    BY <1>1, <1>2, <1>4, <1>7, <2>3, <2>13 DEF Wanted
  <2>15. /\ ((v * k) * t) * 1 = (v * k) * t /\ ((v * k) * t) * (-1) = -((v * k) * t)
         /\ (v * k) * (-t) = -((v * k) * t) /\ (v * k) * t \in Int
    BY SMT
  <2>16. u = IF IsInt4(outFormat) THEN -((v * k) * t) ELSE (v * k) * t
    BY <1>3, <2>9, <2>15
  <2> QED BY ONLY <1>4, <2>12, <2>14, <2>15, <2>16
<1> QED BY <1>6, <1>7

-----------------------------------------------------------------------------
(* The output.                                                             *)

\* The samples of a channel are put in; those of the others stay.
LEMMA FilledFacts ==
  ASSUME SamplesTyped, NEW c \in Channels, NEW d \in Channels, NEW n \in 0 .. BlockLength - 1,
         NEW samples, samples[n + 1] \in Int
  PROVE  BytesAt(Filled(c, samples), Format(outFormat), d, n) =
           IF d = c THEN Encode(Format(outFormat), samples[n + 1])
           ELSE BytesAt(outbuf, Format(outFormat), d, n)
<1>1. PICK format : format = Format(outFormat) /\ format.bytes \in {1, 2, 3, 4, 8}
  BY FormatFacts DEF SamplesTyped
<1> DEFINE places == {<<j, k>> : j \in 0 .. BlockLength - 1, k \in 0 .. format.bytes - 1}
           Is(j, x) == Place(format, c, x[1], x[2]) = j
           chosen(j) == CHOOSE x \in places : Is(j, x)
<1>3. Filled(c, samples) =
        [j \in BufferOf(format) |->
           IF \E x \in places : Is(j, x) THEN Encode(format, samples[chosen(j)[1] + 1])[chosen(j)[2]]
           ELSE outbuf[j]]
  BY <1>1 DEF Filled, SamplesTyped
<1>2. \A x \in places : x[1] \in 0 .. BlockLength - 1 /\ x[2] \in 0 .. format.bytes - 1
  OBVIOUS
<1>4. Encode(format, samples[n + 1]) \in [0 .. format.bytes - 1 -> Bytes]
  BY <1>1, EncodeType DEF SamplesTyped
<1>5. ASSUME NEW k \in 0 .. format.bytes - 1
      PROVE  Filled(c, samples)[Place(format, d, n, k)] =
               IF d = c THEN Encode(format, samples[n + 1])[k] ELSE outbuf[Place(format, d, n, k)]
  <2>1. PICK i : i = Place(format, d, n, k)
    OBVIOUS
  <2>2. /\ i \in BufferOf(format) /\ i % format.bytes = k
        /\ (i \div format.bytes) % NChannels = d /\ (i \div format.bytes) \div NChannels = n
    BY <1>1, <2>1, PlaceFacts
  <2>3. ASSUME NEW x \in places, Place(format, c, x[1], x[2]) = i
        PROVE  c = d /\ x[1] = n /\ x[2] = k
    <3>1. x[1] \in 0 .. BlockLength - 1 /\ x[2] \in 0 .. format.bytes - 1
      BY <1>2
    <3>2. /\ i % format.bytes = x[2]
          /\ (i \div format.bytes) % NChannels = c /\ (i \div format.bytes) \div NChannels = x[1]
      BY <1>1, <2>3, <3>1, PlaceFacts
    <3> QED BY <2>2, <3>2
  <2>4. CASE d = c
    <3> DEFINE p == chosen(i)
    <3>1. <<n, k>> \in places /\ Is(i, <<n, k>>)
      BY <2>1, <2>4
    <3>2. p \in places /\ Is(i, p)
      <4> HIDE DEF Is, places
      <4> QED BY <3>1
    <3>3. p[1] = n /\ p[2] = k
      <4> HIDE DEF p
      <4> QED BY <2>3, <3>2
    <3>4. Filled(c, samples)[i] = Encode(format, samples[p[1] + 1])[p[2]]
      <4> HIDE DEF places, Is, chosen
      <4> QED BY <1>3, <2>2, <3>1
    <3> HIDE DEF p
    <3> QED BY <2>1, <2>4, <3>3, <3>4
  <2>5. CASE d # c
    <3>1. ~\E x \in places : Place(format, c, x[1], x[2]) = i
      BY <2>3, <2>5
    <3> QED BY <1>3, <2>1, <2>2, <2>5, <3>1
  <2> QED BY <2>4, <2>5
<1>6. CASE d = c
  <2>1. BytesAt(Filled(c, samples), format, d, n) =
          [k \in 0 .. format.bytes - 1 |-> Encode(format, samples[n + 1])[k]]
    BY <1>5, <1>6 DEF BytesAt
  <2>2. Encode(format, samples[n + 1]) = [k \in 0 .. format.bytes - 1 |-> Encode(format, samples[n + 1])[k]]
    BY <1>4
  <2> QED BY <1>1, <1>6, <2>1, <2>2
<1>7. CASE d # c
  BY <1>1, <1>5, <1>7 DEF BytesAt
<1> QED BY <1>6, <1>7

-----------------------------------------------------------------------------
(* What a sample becomes.                                                  *)

\* y is the value of the output format that is nearest to the sample, or the
\* limit that it is beyond of.
Nearest(c, n, y) ==
  LET x == Wanted(c, n) IN
  IF Format(outFormat).isfloat THEN y = x
  ELSE IF 2 * x > (2 * IMax + 1) * One THEN y = IMax
  ELSE IF 2 * x < (2 * IMin - 1) * One THEN y = IMin
  ELSE 2 * Abs(y * One - x) <= One

\* y is not farther from the sample than error feedback and dither move it.
Near(c, n, y) == 2 * Abs(y * One - Wanted(c, n)) <= 9 * One

\* The output format has the value y.
Fits(y) == Format(outFormat).isfloat \/ y \in IMin .. IMax

\* The errors kept for the feedback are those of samples that were not clipped.
Small(f) == 2 * Abs(f[1]) <= 3 * One /\ 2 * Abs(f[2]) <= 3 * One

\* Without dither, half a step up and down again is the nearest value.
LEMMA PlainNearest ==
  ASSUME outFormat \in FormatNames, ~Format(outFormat).isfloat,
         realsize = 8 \/ Format(outFormat).bytes # 4, NEW c, NEW n, Wanted(c, n) \in Int
  PROVE  LET q == Quantised(Real(Wanted(c, n) + One \div 2)) IN
         q \in IMin .. IMax /\ q \in Int /\ Nearest(c, n, q)
<1>1. PICK x \in Int : x = Wanted(c, n)
  OBVIOUS
<1>2. PICK h \in Nat \ {0}, o \in Nat \ {0} : o = One /\ h = One \div 2 /\ o = 2 * h
  BY OneFacts
<1>3. PICK w \in Int : w = x + h
  OBVIOUS
<1>4. PICK q : q = Quantised(Real(w))
  OBVIOUS
<1>5. PICK m \in Nat \ {0} : m = Half(Format(outFormat).bytes)
  <2>1. Format(outFormat).bytes \in 1 .. 4
    BY FormatFacts
  <2> QED BY <2>1, PowerFacts
<1>6. PICK k \in Int : k = m * o
  BY SMT
<1>7. /\ IMin = -m /\ IMax = m - 1 /\ q \in IMin .. IMax
      /\ w >= m * One => q = IMax
      /\ w <= -(m * One) => q = IMin
      /\ w > -(m * One) /\ w < m * One => w - q * One \in 0 .. One
  BY <1>4, <1>5, QuantisedFacts
<1>8. /\ IMin = -m /\ IMax = m - 1 /\ q \in -m .. m - 1
      /\ w >= k => q = IMax
      /\ w <= -k => q = IMin
      /\ w > -k /\ w < k => w - q * o \in 0 .. o
  BY ONLY <1>2, <1>6, <1>7
<1>9. (2 * IMax + 1) * One = 2 * k - o /\ (2 * IMin - 1) * One = -(2 * k) - o
  <2>1. (2 * (m - 1) + 1) * o = 2 * (m * o) - o /\ (2 * (-m) - 1) * o = -(2 * (m * o)) - o
    BY SMT
  <2> QED BY ONLY <1>2, <1>6, <1>8, <2>1
<1>10. q \in Int
  BY <1>8
<1>11. PICK p \in Int : p = q * o
  BY <1>10, SMT
<1>12. CASE 2 * x > 2 * k - o
  <2>1. q = IMax
    BY <1>2, <1>3, <1>8, <1>12
  <2> QED BY <1>1, <1>2, <1>3, <1>4, <1>7, <1>9, <1>10, <1>12, <2>1 DEF Nearest
<1>13. CASE 2 * x < -(2 * k) - o
  <2>1. q = IMin
    BY <1>2, <1>3, <1>8, <1>13
  <2>2. k > 0
    BY <1>6, SMT
  <2>3. ~(2 * x > 2 * k - o)
    BY <1>13, <2>2
  <2> QED BY <1>1, <1>2, <1>3, <1>4, <1>7, <1>9, <1>10, <1>13, <2>1, <2>3 DEF Nearest
<1>14. CASE 2 * x <= 2 * k - o /\ 2 * x >= -(2 * k) - o
  <2>1. k > 0
    BY <1>6, SMT
  <2>2. w <= k /\ w >= -k
    BY <1>2, <1>3, <1>14
  <2>3. w - p \in 0 .. o
    <3>1. CASE w < k /\ w > -k
      BY <1>8, <1>11, <3>1
    <3>2. CASE w = k
      <4>1. q = m - 1
        BY <1>8, <3>2
      <4>2. (m - 1) * o = m * o - o
        BY SMT
      <4>3. p = k - o
        BY ONLY <1>6, <1>11, <4>1, <4>2
      <4> QED BY <3>2, <4>3
    <3>3. CASE w = -k
      <4>1. q = -m
        BY <1>8, <2>1, <3>3
      <4>2. (-m) * o = -(m * o)
        BY SMT
      <4>3. p = -k
        BY ONLY <1>6, <1>11, <4>1, <4>2
      <4> QED BY <3>3, <4>3
    <3> QED BY <2>2, <3>1, <3>2, <3>3
  <2>4. 2 * Abs(p - x) <= o
    BY <1>2, <1>3, <2>3 DEF Abs
  <2>5. Nearest(c, n, q)
    BY <1>1, <1>2, <1>9, <1>11, <1>14, <2>4 DEF Nearest
  <2> QED BY <1>1, <1>2, <1>3, <1>4, <1>7, <1>10, <2>5
<1> QED BY <1>12, <1>13, <1>14

\* A number that a float cannot hold is rounded by half a step at most, if it
\* is not far beyond full scale.
LEMMA RealRounds ==
  ASSUME NEW x \in Int
  PROVE  \/ Real(x) = x
         \/ \E q \in Int : Real(x) = q * One /\ 2 * Abs(Real(x) - x) <= One
         \/ realsize # 8 /\ Abs(Real(x)) >= 2 * Large
<1>1. PICK h \in Nat \ {0} : h = Half(3) /\ Power[3] = 2 * h
  BY PowerFacts
<1>2. PICK o \in Nat \ {0} : o = One
  BY OneFacts
<1>3. PICK l \in Nat \ {0} : l = h * o
  BY SMT
<1>4. Large = l /\ Power[3] * One = 2 * l
  <2>1. (2 * h) * o = 2 * l
    BY <1>3, SMT
  <2> QED BY <1>1, <1>2, <1>3, <2>1 DEF Large
<1>5. Real(x) = IF realsize = 8 \/ 2 * Abs(x) < 2 * l THEN x
                ELSE IF Abs(x) < 2 * l THEN ToStep(x, o)
                ELSE IF Abs(x) < 2 * (2 * l) THEN ToStep(x, 2 * o) ELSE ToStep(x, 4 * o)
  BY <1>2, <1>4 DEF Real
<1>6. Abs(x) = IF x < 0 THEN -x ELSE x
  BY DEF Abs
<1>7. \E q \in Int : ToStep(x, o) = q * o /\ 2 * Abs(ToStep(x, o) - x) <= o
  <2>1. PICK d \in Int, r \in 0 .. o - 1 : d = x \div o /\ r = x % o /\ x = o * d + r
    BY Divided
  <2>2. o * d = d * o /\ d * o \in Int /\ (d + 1) * o = d * o + o /\ d + 1 \in Int
    BY SMT
  <2>3. ToStep(x, o) = IF 2 * r < o \/ (2 * r = o /\ d % 2 = 0) THEN d * o ELSE (d + 1) * o
    BY <2>1 DEF ToStep
  <2>4. CASE 2 * r < o \/ (2 * r = o /\ d % 2 = 0)
    <3>1. ToStep(x, o) = d * o /\ 2 * Abs(d * o - x) <= o
      BY <2>1, <2>2, <2>3, <2>4 DEF Abs
    <3> QED BY <3>1
  <2>5. CASE ~(2 * r < o \/ (2 * r = o /\ d % 2 = 0))
    <3>1. ToStep(x, o) = (d + 1) * o /\ 2 * Abs((d + 1) * o - x) <= o
      <4>1. 2 * r >= o
        BY <2>1, <2>5
      <4> QED BY <2>1, <2>2, <2>3, <2>5, <4>1 DEF Abs
    <3> QED BY <2>2, <3>1
  <2> QED BY <2>4, <2>5
<1>8. CASE realsize = 8 \/ 2 * Abs(x) < 2 * l
  BY <1>5, <1>8
<1>9. CASE ~(realsize = 8 \/ 2 * Abs(x) < 2 * l) /\ Abs(x) < 2 * l
  BY <1>2, <1>5, <1>7, <1>9
<1>10. CASE ~(realsize = 8 \/ 2 * Abs(x) < 2 * l) /\ Abs(x) >= 2 * l
  <2>1. /\ 2 * o \in Nat \ {0} /\ 4 * o \in Nat \ {0} /\ -h \in Int /\ h \in Int
        /\ h * (2 * o) = 2 * l /\ h * (4 * o) = 4 * l
        /\ (-h) * (2 * o) = -(2 * l) /\ (-h) * (4 * o) = -(4 * l)
    BY <1>3, SMT
  <2>2. /\ ToStep(x, 2 * o) \in Int /\ ToStep(x, 4 * o) \in Int
        /\ x >= 2 * l => ToStep(x, 2 * o) >= 2 * l
        /\ x <= -(2 * l) => ToStep(x, 2 * o) <= -(2 * l)
        /\ x >= 4 * l => ToStep(x, 4 * o) >= 4 * l
        /\ x <= -(4 * l) => ToStep(x, 4 * o) <= -(4 * l)
    BY <2>1, StepFacts
  <2>3. PICK y \in Int : y = Real(x) /\ (y >= 2 * l \/ y <= -(2 * l))
    BY <1>5, <1>6, <1>10, <2>2
  <2>4. Abs(y) >= 2 * l
    BY <2>3 DEF Abs
  <2> QED BY <1>4, <1>10, <2>3, <2>4
<1>11. Abs(x) \in Int
  BY <1>6
<1> QED BY <1>8, <1>9, <1>10, <1>11

\* Full scale is more than a step and a half.
LEMMA LargeFacts == 2 * Large >= 3 * One /\ Large \in Nat \ {0}
<1>1. PICK h \in Nat \ {0} : h = Half(3) /\ h >= 2
  <2>1. Power[1] = Byte * Power[0] /\ Power[2] = Byte * Power[1] /\ Power[0] = 1 /\ Power[2] \in Nat
        /\ Byte \in Nat /\ Byte >= 2
    BY PowerUnfold, PowerFacts
  <2>2. Power[2] >= 4
    <3>1. Byte * Byte >= 4
      BY <2>1, SMT
    <3> QED BY <2>1, <3>1
  <2>3. Half(2) \in Nat /\ Power[2] = 2 * Half(2) /\ Half(2) <= Half(3) /\ Half(3) \in Nat \ {0}
    BY PowerFacts
  <2> QED BY <2>1, <2>2, <2>3
<1>2. PICK o \in Nat \ {0} : o = One
  BY OneFacts
<1>3. h * o >= 2 * o /\ h * o \in Nat \ {0}
  BY <1>1, SMT
<1> QED BY <1>1, <1>2, <1>3 DEF Large

\* Dither is between half a step down and one and a half up.
LEMMA RandMapFacts ==
  ASSUME NEW d \in -(Byte - 1) .. Byte - 1, d <= MapLast
  PROVE  RandMap(d) \in Int /\ 2 * RandMap(d) > -One /\ 2 * RandMap(d) <= 3 * One
<1>1. PICK b \in Nat \ {0} : b = Byte - 1
  BY PowerFacts
<1>2. PICK o \in Nat \ {0} : o = One /\ o % (2 * b) = 0
  BY <1>1, FormatAssumption
<1>3. PICK t \in Nat \ {0} : t = 2 * b
  OBVIOUS
<1>4. PICK g \in Int : o = t * g
  <2>1. o % t = 0 /\ o \in Int
    BY <1>2, <1>3
  <2>2. o \div t \in Int /\ o = t * (o \div t) + (o % t)
    BY ONLY <2>1, Divided, t \in Nat \ {0}
  <2>3. t * (o \div t) \in Int
    BY <2>2, SMT
  <2> QED BY <2>1, <2>2, <2>3
<1>5. PICK f \in Int : f = b * g /\ o = 2 * f
  <2>1. (2 * b) * g = 2 * (b * g) /\ b * g \in Int
    BY SMT
  <2> QED BY <1>3, <1>4, <2>1
<1>6. One \div 2 = f
  <2>1. o = 2 * f + 0 /\ 0 \in 0 .. 2 - 1 /\ 2 \in Nat \ {0} /\ o \in Int
    BY <1>5
  <2>2. o \div 2 = f
    BY ONLY <2>1, Unique, f \in Int
  <2> QED BY <1>2, <2>2
<1>7. One \div b = 2 * g
  <2>1. (2 * g) * b = o /\ 2 * g \in Int
    BY <1>3, <1>4, SMT
  <2> QED BY <1>2, <2>1, Multiple
<1>8. PICK e \in Int : e = d + 1 /\ e >= 1 - b /\ e <= b
  BY <1>1, PowerFacts DEF MapLast
<1>9. g >= 1
  <2>1. SUFFICES ASSUME g <= 0 PROVE FALSE
    OBVIOUS
  <2>2. t * g <= 0
    BY <2>1, SMT
  <2> QED BY <1>4, <2>2
<1>10. g * e <= g * b /\ g * e >= g * (1 - b)
  BY <1>8, <1>9, SMT
<1>11. g * b = f /\ g * (1 - b) = g - f /\ (2 * g) * e = 2 * (g * e) /\ g * e \in Int
  BY <1>5, SMT
<1>12. RandMap(d) = f + 2 * (g * e)
  BY <1>1, <1>6, <1>7, <1>8, <1>11 DEF RandMap
<1> QED BY <1>2, <1>5, <1>9, <1>10, <1>11, <1>12

\* With dither, a sample that is not clipped is off by one and a half steps,
\* and by the errors that are fed back.
LEMMA DitheredNear ==
  ASSUME outFormat \in FormatNames, ~Format(outFormat).isfloat,
         realsize = 8 \/ Format(outFormat).bytes # 4, NEW x \in Int, NEW f \in Int \X Int, Small(f),
         NEW r \in Int, 2 * r > -One, 2 * r <= 3 * One,
         NEW z, z = Real(x + f[1] - f[2]), ~Counted(Real(z + r)), NEW q, q = Quantised(Real(z + r))
  PROVE  2 * Abs(q * One - x) <= 9 * One /\ 2 * Abs(z - q * One) <= 3 * One
<1>1. PICK o \in Nat \ {0} : o = One
  BY OneFacts
<1>2. PICK s \in Int : s = f[1] - f[2] /\ 2 * s <= 6 * o /\ 2 * s >= -(6 * o)
  BY <1>1 DEF Small, Abs
<1>3. PICK u \in Int : u = x + s /\ z = Real(u)
  <2>1. x + f[1] - f[2] = x + s
    BY <1>2
  <2> QED BY <2>1
<1>4. z \in Int
  BY <1>3, RealFacts
<1>5. PICK w \in Int : w = z + r
  BY <1>4
<1>6. PICK b \in 1 .. 4 : b = Format(outFormat).bytes
  BY FormatFacts
<1>7. PICK m \in Nat \ {0} : m = Half(b)
  BY PowerFacts
<1>8. PICK k \in Int : k = m * o
  BY SMT
<1>9. w > -k /\ w < k /\ q \in -m .. m - 1 /\ w - q * o \in 0 .. o
  BY <1>1, <1>5, <1>6, <1>7, <1>8, QuantisedFacts
<1>10. PICK p \in Int : p = q * o
  <2>1. q \in Int
    BY <1>9
  <2> QED BY <2>1, SMT
<1>11. 2 * (z - p) >= -(3 * o) /\ 2 * (z - p) < 3 * o
  BY <1>1, <1>4, <1>5, <1>9, <1>10
<1>12. 2 * Abs(z - p) <= 3 * o
  BY <1>4, <1>11 DEF Abs
<1>13. CASE z = u
  <2>1. 2 * Abs(p - x) <= 9 * o
    BY <1>2, <1>3, <1>4, <1>11, <1>13 DEF Abs
  <2> QED BY <1>1, <1>10, <1>12, <2>1
<1>14. ASSUME NEW j \in Int, z = j * o, 2 * Abs(z - u) <= o
       PROVE  2 * Abs(p - x) <= 9 * o
  <2>1. q \in Int
    BY <1>9
  <2>2. PICK i \in Int : i = j - q /\ z - p = i * o
    <3>1. (j - q) * o = j * o - q * o /\ j - q \in Int /\ j * o \in Int /\ q * o \in Int
      BY <2>1, SMT
    <3> QED BY <1>10, <1>14, <3>1
  <2>3. i <= 1
    <3>1. SUFFICES ASSUME i >= 2 PROVE FALSE
      OBVIOUS
    <3>2. i * o >= 2 * o
      BY <3>1, SMT
    <3> QED BY <1>4, <1>11, <2>2, <3>2
  <2>4. i >= -1
    <3>1. SUFFICES ASSUME i <= -2 PROVE FALSE
      OBVIOUS
    <3>2. i * o <= (-2) * o /\ (-2) * o = -(2 * o) /\ i * o \in Int
      BY <3>1, SMT
    <3> QED BY <1>4, <1>11, <2>2, <3>2
  <2>5. z - p \in {-o, 0, o}
    <3>1. i \in {-1, 0, 1} /\ (-1) * o = -o /\ 0 * o = 0 /\ 1 * o = o
      BY <2>3, <2>4
    <3> QED BY <2>2, <3>1
  <2>6. 2 * (z - u) <= o /\ 2 * (z - u) >= -o
    BY <1>3, <1>4, <1>14 DEF Abs
  <2> QED BY <1>2, <1>3, <1>4, <2>5, <2>6 DEF Abs
<1>15. ASSUME realsize # 8, Abs(z) >= 2 * Large PROVE FALSE
  <2>1. PICK l \in Nat \ {0} : l = Large /\ 2 * l >= 3 * o
    BY <1>1, LargeFacts
  <2>2. k <= l
    <3>1. b \in {1, 2, 3}
      BY <1>6, <1>15
    <3>2. PICK h \in Nat : h = Half(3) /\ m <= h
      <4>1. Half(1) \in Nat /\ Half(2) \in Nat /\ Half(3) \in Nat
        BY PowerFacts
      <4> QED BY <1>7, <3>1, <4>1, PowerFacts
    <3>3. m * o <= h * o
      BY <3>2, SMT
    <3> QED BY <1>1, <1>8, <2>1, <3>2, <3>3 DEF Large
  <2>3. z >= 2 * l \/ z <= -(2 * l)
    BY <1>4, <1>15, <2>1 DEF Abs
  <2> QED BY <1>1, <1>4, <1>5, <1>9, <2>1, <2>2, <2>3
<1>16. \/ z = u
       \/ \E j \in Int : z = j * o /\ 2 * Abs(z - u) <= o
       \/ realsize # 8 /\ Abs(z) >= 2 * Large
  BY <1>1, <1>3, RealRounds
<1> QED BY <1>1, <1>10, <1>12, <1>13, <1>14, <1>15, <1>16

-----------------------------------------------------------------------------
(* What a block becomes.                                                   *)

\* A turn of the loop that makes u of t adds a value that is right for the
\* sample n of channel c, d being its difference of random numbers.
AddsRight(t, u, c, n, d) ==
  \E y \in Int :
    /\ u.samples = Append(t.samples, y) /\ Fits(y)
    /\ ~UsesDither => Nearest(c, n, y)
    /\ UsesDither /\ d <= MapLast /\ u.of.n_overflows = 0 =>
         t.of.n_overflows = 0 /\ (Small(t.sf) => Near(c, n, y) /\ Small(u.sf))

\* Every turn of the loop does.
LEMMA TurnRight ==
  ASSUME SamplesTyped, FloatsHeld, Exact, NEW c \in Channels, NEW n \in 0 .. BlockLength - 1,
         NEW t \in TurnType, NEW d, UsesDither => d \in -(Byte - 1) .. Byte - 1,
         NEW beyond \in Int, NEW u, u = Turned(t, Sample(c, n), d, beyond)
  PROVE  AddsRight(t, u, c, n, d)
<1>1. PICK x \in Int : x = Sample(c, n) /\ x = Wanted(c, n)
  BY SampleWanted
<1>2. outFormat \in FormatNames /\ applyDither \in BOOLEAN
  BY DEF SamplesTyped
<1>3. CASE Format(outFormat).isfloat
  <2>1. u = PassFloat(t, x)
    BY <1>1, <1>3 DEF Turned
  <2>2. u.samples = Append(t.samples, x)
    BY <2>1, PassFloatType
  <2>3. ~UsesDither
    BY <1>3 DEF UsesDither
  <2>4. Fits(x) /\ Nearest(c, n, x)
    BY <1>1, <1>3 DEF Fits, Nearest
  <2> QED BY <2>2, <2>3, <2>4 DEF AddsRight
<1>4. CASE ~Format(outFormat).isfloat /\ ~applyDither
  <2>1. u = Plain(t, x)
    BY <1>1, <1>4 DEF Turned
  <2>2. PICK y : y = Quantised(Real(x + One \div 2))
    OBVIOUS
  <2>3. u.samples = Append(t.samples, y)
    BY <1>2, <1>4, <2>1, <2>2, PlainType
  <2>4. y \in IMin .. IMax /\ y \in Int /\ Nearest(c, n, y)
    <3>1. realsize = 8 \/ Format(outFormat).bytes # 4
      BY <1>2, <1>4, ExactFacts
    <3> QED BY <1>1, <1>2, <1>4, <2>2, <3>1, PlainNearest
  <2>5. ~UsesDither
    BY <1>4 DEF UsesDither
  <2> QED BY <2>3, <2>4, <2>5 DEF Fits, AddsRight
<1>5. CASE ~Format(outFormat).isfloat /\ applyDither
  <2>1. UsesDither
    BY <1>5 DEF UsesDither
  <2>2. d \in Int /\ d \in -(Byte - 1) .. Byte - 1
    BY <2>1, PowerFacts
  <2>3. u = Dithered(t, x, d, beyond)
    BY <1>1, <1>5 DEF Turned
  <2>4. realsize = 8 \/ Format(outFormat).bytes # 4
    BY <1>2, <1>5, ExactFacts
  <2>5. PICK r : r = IF d > MapLast THEN beyond ELSE RandMap(d)
    OBVIOUS
  <2>6. PICK z : z = Real(x + t.sf[1] - t.sf[2])
    OBVIOUS
  <2>7. PICK y : y = Quantised(Real(z + r))
    OBVIOUS
  <2>8. /\ z \in Int /\ z + r \in Int /\ u.samples = Append(t.samples, y)
        /\ u.sf = <<z - y * One, t.sf[1]>>
        /\ u.of.n_overflows = t.of.n_overflows + (IF Counted(Real(z + r)) THEN 1 ELSE 0)
    BY <1>2, <1>5, <2>2, <2>3, <2>5, <2>6, <2>7, DitheredType
  <2>9. y \in IMin .. IMax /\ y \in Int
    <3>1. PICK m \in Nat \ {0} : m = Half(Format(outFormat).bytes)
      <4>1. Format(outFormat).bytes \in 1 .. 4
        BY <1>2, <1>5, FormatFacts
      <4> QED BY <4>1, PowerFacts
    <3>2. IMin = -m /\ IMax = m - 1 /\ y \in IMin .. IMax
      BY <1>2, <1>5, <2>4, <2>7, <2>8, <3>1, QuantisedFacts
    <3> QED BY <3>1, <3>2
  <2>10. t.of.n_overflows \in Nat /\ t.sf \in Int \X Int
    BY TurnParts DEF OfType
  <2>11. ASSUME d <= MapLast, u.of.n_overflows = 0
         PROVE  t.of.n_overflows = 0 /\ (Small(t.sf) => Near(c, n, y) /\ Small(u.sf))
    <3>1. ~Counted(Real(z + r)) /\ t.of.n_overflows = 0
      BY <2>8, <2>10, <2>11
    <3>2. r = RandMap(d) /\ r \in Int /\ 2 * r > -One /\ 2 * r <= 3 * One
      <4>1. MapLast \in Int
        BY PowerFacts DEF MapLast
      <4>2. ~(d > MapLast)
        BY <2>2, <2>11, <4>1
      <4>3. r = RandMap(d)
        BY <2>5, <4>2
      <4> QED BY <2>2, <2>11, <4>3, RandMapFacts
    <3>3. ASSUME Small(t.sf) PROVE Near(c, n, y) /\ Small(u.sf)
      <4>1. 2 * Abs(y * One - x) <= 9 * One /\ 2 * Abs(z - y * One) <= 3 * One
        BY <1>2, <1>5, <2>4, <2>6, <2>7, <2>10, <3>1, <3>2, <3>3, DitheredNear
      <4>2. u.sf[1] = z - y * One /\ u.sf[2] = t.sf[1]
        BY <2>8
      <4> QED BY <1>1, <3>3, <4>1, <4>2 DEF Near, Small
    <3> QED BY <3>1, <3>3
  <2> QED BY <2>1, <2>8, <2>9, <2>11 DEF Fits, AddsRight
<1> QED BY <1>2, <1>3, <1>4, <1>5

\* The first n samples of channel c, converted, are right; near only if
\* nothing has been counted and no number was past the end of the map (calm).
Part(s, c, n, calm) ==
  /\ Len(s[n].samples) = n
  /\ \A i \in 1 .. n :
       /\ s[n].samples[i] \in Int /\ Fits(s[n].samples[i])
       /\ ~UsesDither => Nearest(c, i - 1, s[n].samples[i])
       /\ UsesDither /\ calm /\ s[n].of.n_overflows = 0 => Near(c, i - 1, s[n].samples[i])
  /\ UsesDither /\ calm /\ s[n].of.n_overflows = 0 => Small(s[n].sf)

\* So are they all, by induction.
LEMMA BlockRight ==
  ASSUME SamplesTyped, FloatsHeld, Exact, NEW c \in Channels, NEW beyond \in Int,
         NEW s, Turns(s, c, beyond), NEW calm,
         UsesDither => \A n \in 1 .. BlockLength : Diff(c, n) \in -(Byte - 1) .. Byte - 1,
         UsesDither /\ calm =>
           /\ \A n \in 1 .. BlockLength : Diff(c, n) <= MapLast
           /\ overflow[c].n_overflows = 0 => Small(sf[c])
  PROVE  Part(s, c, BlockLength, calm)
<1> DEFINE S == {n \in Nat : n <= BlockLength => Part(s, c, n, calm)}
<1>1. BlockLength \in Nat \ {0}
  BY DitherAssumption
<1>2. 0 \in S
  <2>1. s[0] = Begin(c)
    BY DEF Turns
  <2>2. s[0].samples = <<>> /\ s[0].sf = sf[c] /\ s[0].of = overflow[c]
    BY <2>1 DEF Begin
  <2>3. Len(s[0].samples) = 0
    BY <2>2
  <2> QED BY <2>2, <2>3 DEF Part
<1>3. ASSUME NEW n \in Nat, n \in S PROVE n + 1 \in S
  <2>1. SUFFICES ASSUME n + 1 <= BlockLength PROVE Part(s, c, n + 1, calm)
    OBVIOUS
  <2>2. n \in 0 .. BlockLength /\ n + 1 \in 1 .. BlockLength /\ (n + 1) - 1 = n
        /\ n \in 0 .. BlockLength - 1
    BY <1>1, <2>1
  <2>3. PICK t \in TurnType : t = s[n]
    BY <2>2 DEF Turns
  <2>4. /\ Len(t.samples) = n
        /\ \A i \in 1 .. n :
             /\ t.samples[i] \in Int /\ Fits(t.samples[i])
             /\ ~UsesDither => Nearest(c, i - 1, t.samples[i])
             /\ UsesDither /\ calm /\ t.of.n_overflows = 0 => Near(c, i - 1, t.samples[i])
        /\ UsesDither /\ calm /\ t.of.n_overflows = 0 => Small(t.sf)
    BY <1>3, <2>2, <2>3 DEF Part
  <2>5. PICK u : u = s[n + 1] /\ u = Turned(t, Sample(c, n), Diff(c, n + 1), beyond)
    BY <2>2, <2>3 DEF Turns
  <2>6. UsesDither => Diff(c, n + 1) \in -(Byte - 1) .. Byte - 1
    BY <2>2
  <2>7. PICK y \in Int :
           /\ u.samples = Append(t.samples, y) /\ Fits(y)
           /\ ~UsesDither => Nearest(c, n, y)
           /\ UsesDither /\ Diff(c, n + 1) <= MapLast /\ u.of.n_overflows = 0 =>
                t.of.n_overflows = 0 /\ (Small(t.sf) => Near(c, n, y) /\ Small(u.sf))
    <3>1. PICK d : d = Diff(c, n + 1)
      OBVIOUS
    <3>2. n \in 0 .. BlockLength - 1 /\ (UsesDither => d \in -(Byte - 1) .. Byte - 1)
      BY <2>2, <2>6, <3>1
    <3>3. u = Turned(t, Sample(c, n), d, beyond)
      BY <2>5, <3>1
    <3>4. AddsRight(t, u, c, n, d)
      BY <3>2, <3>3, TurnRight
    <3> QED BY <3>1, <3>4 DEF AddsRight
  <2>8. UsesDither /\ calm => Diff(c, n + 1) <= MapLast
    BY <2>2
  <2>9. t.samples \in Seq(Int)
    BY TurnParts
  <2>10. Len(u.samples) = n + 1 /\ u.samples[n + 1] = y
         /\ \A i \in 1 .. n : u.samples[i] = t.samples[i]
    BY <2>4, <2>7, <2>9
  <2>11. UsesDither /\ calm /\ u.of.n_overflows = 0 =>
           t.of.n_overflows = 0 /\ Small(u.sf) /\ Near(c, n, y)
    BY <2>4, <2>7, <2>8
  <2>12. ASSUME NEW i \in 1 .. n + 1
         PROVE  /\ u.samples[i] \in Int /\ Fits(u.samples[i])
                /\ ~UsesDither => Nearest(c, i - 1, u.samples[i])
                /\ UsesDither /\ calm /\ u.of.n_overflows = 0 => Near(c, i - 1, u.samples[i])
    <3>1. CASE i \in 1 .. n
      BY <2>4, <2>10, <2>11, <3>1
    <3>2. CASE i = n + 1
      <4>1. i - 1 = n
        BY <3>2
      <4> QED BY <2>7, <2>10, <2>11, <3>2, <4>1
    <3> QED BY <3>1, <3>2
  <2> QED BY <2>5, <2>10, <2>11, <2>12 DEF Part
<1> HIDE DEF S
<1>4. Nat \subseteq S
  BY <1>2, <1>3, Induction
<1>5. BlockLength \in S
  BY <1>1, <1>4
<1> QED BY <1>1, <1>5 DEF S

-----------------------------------------------------------------------------
(* Blocks after blocks.                                                    *)

\* The sample n of channel c has come out as it should.
Right(c, n) ==
  IF UsesDither THEN ~strayed /\ overflow[c].n_overflows = 0 => Near(c, n, Output(c, n))
  ELSE Nearest(c, n, Output(c, n))

\* The channels that have had their turn in this block are right, and so is
\* what they keep for the next.
PassInv ==
  /\ CountInv
  /\ blocks \in Nat /\ running \in BOOLEAN
  /\ running => blocks > 0
  /\ ~running => turn = 0
  /\ blocks > 0 => FloatsHeld
  /\ Exact => \A c \in Channels :
       /\ UsesDither /\ ~strayed /\ overflow[c].n_overflows = 0 => Small(sf[c])
       /\ blocks > 0 /\ (~running \/ c < turn) => \A n \in 0 .. BlockLength - 1 : Right(c, n)

\* At first the feedback is silent.
LEMMA InitPass == Init => PassInv
<1> SUFFICES ASSUME Init PROVE PassInv
  OBVIOUS
<1>1. CountInv
  BY InitCount
<1>2. blocks = 0 /\ running = FALSE /\ turn = 0 /\ \A c \in Channels : sf[c] = <<0, 0>>
  BY DEF Init, DitherInit
<1>3. Small(<<0, 0>>)
  BY OneFacts DEF Small, Abs
<1>4. \A c \in Channels : Small(sf[c])
  BY <1>2, <1>3
<1>5. blocks \in Nat /\ running \in BOOLEAN /\ ~running /\ ~(blocks > 0)
  <2>1. running \in BOOLEAN /\ ~running
    BY <1>2, Zenon
  <2>2. blocks \in Nat /\ ~(blocks > 0)
    BY <1>2
  <2> QED BY <2>1, <2>2
<1> QED BY <1>1, <1>2, <1>4, <1>5 DEF PassInv

\* A new block is of samples that a float holds, and no channel has had its turn.
LEMMA NewBlockPass ==
  ASSUME PassInv, NEW v \in Samples(inFormat), NewBlock(v)
  PROVE  PassInv'
<1>1. CountInv /\ SamplesTyped /\ inFormat \in FormatNames
  BY DEF PassInv, CountInv, SamplesTyped
<1>2. CountInv'
  BY <1>1, NewBlockCount
<1>3. /\ UNCHANGED <<turn, inFormat, outFormat, realsize, applyDither, overflow, sf, strayed>>
      /\ ~running /\ running' = TRUE /\ blocks' = blocks + 1
  BY DEF NewBlock, ditherVars
<1>4. FloatsHeld'
  <2>1. SUFFICES ASSUME Format(inFormat).isfloat, NEW c \in Channels, NEW n \in 0 .. BlockLength - 1
                 PROVE  2 * Abs(Value(Format(inFormat), BytesAt(inbuf', Format(inFormat), c, n)))
                          < Power[3] * One
    BY <1>3 DEF FloatsHeld
  <2>2. /\ Len(v) \in Nat \ {0} /\ v \in Seq(Int)
        /\ BytesAt(inbuf', Format(inFormat), c, n) = Encode(Format(inFormat), v[((n + c) % Len(v)) + 1])
    BY <1>1, NewBlockBytes
  <2>3. PICK i \in 1 .. Len(v) : i = ((n + c) % Len(v)) + 1
    <3>1. n + c \in Int
      BY DitherAssumption DEF Channels
    <3>2. (n + c) % Len(v) \in 0 .. Len(v) - 1
      BY ONLY <2>2, <3>1, Divided
    <3> QED BY <2>2, <3>2
  <2>4. v[i] \in Int
    BY <2>2
  <2>5. Value(Format(inFormat), Encode(Format(inFormat), v[i])) = v[i]
    BY <1>1, <2>1, <2>4, EncodeValue
  <2>6. 2 * Abs(v[i]) < Power[3] * One
    BY <1>1, <2>1, SamplesAssumption
  <2> QED BY <2>2, <2>3, <2>5, <2>6
<1>5. turn' = 0 /\ \A c \in Channels : ~(c < turn')
  BY <1>3, DitherAssumption DEF PassInv, Channels
<1>6. (Exact' <=> Exact) /\ (UsesDither' <=> UsesDither)
  BY <1>3 DEF Exact, UsesDither
<1>7. blocks' \in Nat /\ blocks' > 0
  BY <1>3 DEF PassInv
<1> QED BY <1>2, <1>3, <1>4, <1>5, <1>6, <1>7 DEF PassInv

\* A channel's turn makes its samples right, and leaves the others'.
LEMMA RunPass ==
  ASSUME PassInv, NEW beyond \in {0, 100 * One}, RunChannel(beyond)
  PROVE  PassInv'
<1>1. CountInv /\ SamplesTyped /\ outFormat \in FormatNames
  BY DEF PassInv, CountInv, SamplesTyped
<1>2. CountInv'
  BY <1>1, RunCount
<1>3. /\ UNCHANGED <<inFormat, outFormat, realsize, applyDither, inbuf, blocks>>
      /\ running /\ running' = (turn # NChannels - 1)
      /\ turn' = IF turn = NChannels - 1 THEN 0 ELSE turn + 1
  BY DEF RunChannel, NextTurn
<1>4. NChannels \in Nat \ {0} /\ BlockLength \in Nat \ {0} /\ turn \in Channels /\ turn \in 0 .. NChannels - 1
  BY <1>1, DitherAssumption, RunFacts DEF Channels
<1>5. /\ blocks' \in Nat /\ blocks > 0 /\ blocks' = blocks /\ FloatsHeld /\ running' \in BOOLEAN
      /\ ~running' => turn' = 0
  BY <1>3 DEF PassInv
<1>6. FloatsHeld' /\ (Exact' <=> Exact) /\ (UsesDither' <=> UsesDither)
  BY <1>3, <1>5 DEF FloatsHeld, Exact, UsesDither
<1>7. ASSUME NEW c \in Channels, NEW n \in 0 .. BlockLength - 1
      PROVE  \A y : (Nearest(c, n, y)' <=> Nearest(c, n, y)) /\ (Near(c, n, y)' <=> Near(c, n, y))
  BY <1>3 DEF Nearest, Near, Wanted, IMin, IMax, BytesAt
<1>8. PICK s : /\ Turns(s, turn, beyond)
               /\ overflow' = [overflow EXCEPT ![turn] = s[BlockLength].of]
               /\ sf' = [sf EXCEPT ![turn] = s[BlockLength].sf]
               /\ outbuf' = Filled(turn, s[BlockLength].samples)
  BY <1>1, RunFacts
<1>9. PICK calm \in BOOLEAN : calm = ~strayed'
  OBVIOUS
<1>10. UsesDither /\ calm => ~strayed /\ \A n \in 1 .. BlockLength : Diff(turn, n) <= MapLast
  <2>1. SUFFICES ASSUME UsesDither, ~strayed'
                 PROVE  ~strayed /\ \A n \in 1 .. BlockLength : Diff(turn, n) <= MapLast
    BY <1>9
  <2>2. ~strayed /\ ~Strays(turn)
    BY <2>1 DEF RunChannel
  <2>3. ASSUME NEW n \in 1 .. BlockLength PROVE Diff(turn, n) <= MapLast
    <3>1. n - 1 \in 0 .. BlockLength - 1
      BY <1>4
    <3>2. PICK p \in Int : p = From(turn)
      BY <1>1, <1>4, <2>1, FromFacts DEF CountInv, NumbersInv, DitherInv
    <3>3. p + (n - 1) = p + n - 1 /\ p + (n - 1) - 1 = p + n - 2
      OBVIOUS
    <3>4. ~(At(Carried(turn), p + (n - 1)) - At(Carried(turn), p + (n - 1) - 1) > MapLast)
      BY <2>2, <3>1, <3>2 DEF Strays, From
    <3>5. ~(Diff(turn, n) > MapLast)
      BY <3>2, <3>3, <3>4 DEF Diff
    <3>6. Diff(turn, n) \in -(Byte - 1) .. Byte - 1
      BY <1>1, <2>1, RunFacts
    <3> QED BY <3>5, <3>6, PowerFacts DEF MapLast
  <2> QED BY <2>2, <2>3
<1>11. ~UsesDither => strayed' = strayed
  BY DEF RunChannel
<1>12. PICK e \in TurnType : e = s[BlockLength]
  BY <1>4, <1>8 DEF Turns
<1>13. ASSUME Exact PROVE Part(s, turn, BlockLength, calm)
  <2>1. UsesDither => \A n \in 1 .. BlockLength : Diff(turn, n) \in -(Byte - 1) .. Byte - 1
    BY <1>1, RunFacts
  <2>2. beyond \in Int
    BY <1>1, RunFacts
  <2>3. UsesDither /\ calm =>
           /\ \A n \in 1 .. BlockLength : Diff(turn, n) <= MapLast
           /\ overflow[turn].n_overflows = 0 => Small(sf[turn])
    BY <1>4, <1>10, <1>13 DEF PassInv
  <2> QED BY <1>1, <1>4, <1>5, <1>8, <1>13, <2>1, <2>2, <2>3, BlockRight
<1>14. /\ overflow'[turn] = e.of /\ sf'[turn] = e.sf
       /\ \A c \in Channels : c # turn => overflow'[c] = overflow[c] /\ sf'[c] = sf[c]
  BY <1>1, <1>4, <1>8, <1>12 DEF SamplesTyped
<1>15. ASSUME Exact, NEW c \in Channels, NEW n \in 0 .. BlockLength - 1
       PROVE  /\ c = turn => Output(c, n)' = e.samples[n + 1]
              /\ c # turn => Output(c, n)' = Output(c, n)
  <2>1. n + 1 \in 1 .. BlockLength
    BY <1>4
  <2>2. PICK y \in Int : y = e.samples[n + 1] /\ Fits(y)
    BY <1>12, <1>13, <1>15, <2>1 DEF Part
  <2>3. BytesAt(outbuf', Format(outFormat), c, n) =
          IF c = turn THEN Encode(Format(outFormat), y) ELSE BytesAt(outbuf, Format(outFormat), c, n)
    BY <1>1, <1>4, <1>8, <1>12, <2>2, FilledFacts
  <2>4. Output(c, n)' = Value(Format(outFormat), BytesAt(outbuf', Format(outFormat), c, n))
    BY <1>3 DEF Output
  <2>5. Value(Format(outFormat), Encode(Format(outFormat), y)) = y
    <3>1. Format(outFormat).isfloat \/ y \in -Half(Format(outFormat).bytes) .. Half(Format(outFormat).bytes) - 1
      BY <2>2 DEF Fits, IMin, IMax, Half
    <3> QED BY <1>1, <3>1, EncodeValue
  <2> QED BY <2>2, <2>3, <2>4, <2>5 DEF Output
<1>16. ASSUME Exact, NEW c \in Channels, UsesDither, ~strayed', overflow'[c].n_overflows = 0
       PROVE  Small(sf'[c])
  <2>1. CASE c = turn
    BY <1>9, <1>12, <1>13, <1>14, <1>16, <2>1 DEF Part
  <2>2. CASE c # turn
    <3>1. ~strayed /\ overflow[c].n_overflows = 0
      BY <1>9, <1>10, <1>14, <1>16, <2>2
    <3> QED BY <1>14, <1>16, <2>2, <3>1 DEF PassInv
  <2> QED BY <2>1, <2>2
<1>17. ASSUME Exact, NEW c \in Channels, ~running' \/ c < turn', NEW n \in 0 .. BlockLength - 1
       PROVE  Right(c, n)'
  <2>1. PICK y : y = Output(c, n)'
    OBVIOUS
  <2>2. Right(c, n)' <=> IF UsesDither THEN ~strayed' /\ overflow'[c].n_overflows = 0 => Near(c, n, y)
                         ELSE Nearest(c, n, y)
    BY <1>6, <1>7, <2>1 DEF Right
  <2>3. CASE c = turn
    <3>1. y = e.samples[n + 1] /\ n + 1 \in 1 .. BlockLength /\ (n + 1) - 1 = n
      BY <1>4, <1>15, <1>17, <2>1, <2>3
    <3>2. /\ ~UsesDither => Nearest(c, n, y)
          /\ UsesDither /\ calm /\ e.of.n_overflows = 0 => Near(c, n, y)
      BY <1>12, <1>13, <1>17, <2>3, <3>1 DEF Part
    <3> QED BY <1>9, <1>14, <2>2, <2>3, <3>2
  <2>4. CASE c # turn
    <3>1. c < turn
      <4>1. c \in 0 .. NChannels - 1
        BY DEF Channels
      <4>2. CASE turn = NChannels - 1
        BY <1>4, <2>4, <4>1, <4>2
      <4>3. CASE turn # NChannels - 1
        <5>1. running' = TRUE /\ turn' = turn + 1
          BY <1>3, <4>3
        <5> QED BY <1>4, <1>17, <2>4, <4>1, <5>1
      <4> QED BY <4>2, <4>3
    <3>2. Right(c, n)
      BY <1>3, <1>5, <1>17, <3>1 DEF PassInv
    <3>3. y = Output(c, n)
      BY <1>15, <1>17, <2>1, <2>4
    <3>4. UsesDither /\ ~strayed' => ~strayed
      BY <1>9, <1>10
    <3> QED BY <1>14, <2>2, <2>4, <3>2, <3>3, <3>4 DEF Right
  <2> QED BY <2>3, <2>4
<1>18. PassInv' <=>
         /\ CountInv'
         /\ blocks' \in Nat /\ running' \in BOOLEAN
         /\ running' => blocks' > 0
         /\ ~running' => turn' = 0
         /\ blocks' > 0 => FloatsHeld'
         /\ Exact' => \A c \in Channels :
              /\ UsesDither' /\ ~strayed' /\ overflow'[c].n_overflows = 0 => Small(sf'[c])
              /\ blocks' > 0 /\ (~running' \/ c < turn') => \A n \in 0 .. BlockLength - 1 : Right(c, n)'
  BY DEF PassInv, Small
<1> QED BY <1>2, <1>5, <1>6, <1>16, <1>17, <1>18

\* Every step keeps what has come out right.
LEMMA StepPass == PassInv /\ [Next]_vars => PassInv'
<1> SUFFICES ASSUME PassInv, [Next]_vars PROVE PassInv'
  OBVIOUS
<1>1. CASE \E v \in Samples(inFormat) : NewBlock(v)
  BY <1>1, NewBlockPass
<1>2. CASE \E beyond \in {0, 100 * One} : RunChannel(beyond)
  BY <1>2, RunPass
<1>3. CASE UNCHANGED vars
  <2>1. CountInv'
    BY StepCount DEF PassInv
  <2>2. UNCHANGED <<turn, inFormat, outFormat, realsize, applyDither, inbuf, outbuf, overflow, sf,
                    running, blocks, strayed>>
    BY <1>3 DEF vars, ditherVars
  <2>3. /\ (FloatsHeld' <=> FloatsHeld) /\ (Exact' <=> Exact) /\ (UsesDither' <=> UsesDither)
        /\ \A c \in Channels, n \in 0 .. BlockLength - 1 : Right(c, n)' <=> Right(c, n)
    BY <2>2 DEF FloatsHeld, Exact, UsesDither, Right, Near, Nearest, Wanted, Output, IMin, IMax, BytesAt
  <2> QED BY <2>1, <2>2, <2>3 DEF PassInv
<1> QED BY <1>1, <1>2, <1>3 DEF Next

\* So it always holds.
LEMMA PassAlways == Spec => []PassInv
BY InitPass, StepPass, PTL DEF Spec

\* With every pair of formats, number of channels and length of blocks, and
\* whatever is played: without dither every sample comes out as the nearest
\* value that the output format has (raw2real.cpp:15-220, real2raw.cpp:321-620).
THEOREM SamplesPassHolds == Spec => []SamplesPass
<1>1. ASSUME PassInv PROVE SamplesPass
  <2>1. ASSUME blocks > 0, ~running, ~UsesDither, Exact, NEW c \in Channels,
               NEW n \in 0 .. BlockLength - 1
        PROVE  Nearest(c, n, Output(c, n))
    BY <1>1, <2>1 DEF PassInv, Right
  <2> QED BY <2>1 DEF SamplesPass, Nearest
<1> QED BY <1>1, PassAlways, PTL

\* With dither every sample of a channel that nothing was clipped of comes
\* out within four and a half steps, if no difference of random numbers was
\* past the end of its map (dither.cpp:80-108, 148-210).
THEOREM DitherStaysNearHolds == Spec => []DitherStaysNear
<1>1. ASSUME PassInv PROVE DitherStaysNear
  <2>1. ASSUME blocks > 0, ~running, UsesDither, Exact, ~strayed, NEW c \in Channels,
               overflow[c].n_overflows = 0, NEW n \in 0 .. BlockLength - 1
        PROVE  Near(c, n, Output(c, n))
    BY <1>1, <2>1 DEF PassInv, Right
  <2> QED BY <2>1 DEF DitherStaysNear, Near
<1> QED BY <1>1, PassAlways, PTL

================================================================================
