--------------------------------- MODULE Dither ---------------------------------
(***************************************************************************)
(* The random numbers of class dither: one table for all the channels, in  *)
(* which every channel starts at a place of its own and goes on by a block *)
(* at a time.  A sample is dithered with the difference of its number and  *)
(* the one before, so that the noise of a channel has no low frequencies.  *)
(***************************************************************************)
EXTENDS Integers

CONSTANTS NChannels,         \* n_channels
          SampleRate,        \* sample_rate
          MaxSize,           \* max_size of the table, 0 for no limit
          BlockLength,       \* max_samples_per_loop, of which all loops make use
          RandtabSpacing,    \* RANDTAB_SPACING, in seconds
          MinRandtabSpacing, \* MIN_RANDTAB_SPACING
          Numbers,           \* the values of an int8_t
          Random(_)          \* tausrand: Random(n) is the n-th number

Greater(a, b) == IF a > b THEN a ELSE b

MinSpacing == Greater(MinRandtabSpacing * SampleRate, BlockLength)

\* How far apart the channels start.  The constructor throws if a limited
\* table leaves less than MinSpacing.
Spacing ==
  LET wanted == Greater(RandtabSpacing * SampleRate, MinSpacing)
  IN  IF MaxSize > 0 /\ NChannels * wanted > MaxSize THEN MaxSize \div NChannels ELSE wanted

ASSUME DitherAssumption ==
  /\ NChannels \in Nat \ {0} /\ BlockLength \in Nat \ {0}
  /\ SampleRate \in Nat /\ MaxSize \in Nat
  /\ RandtabSpacing \in Nat /\ MinRandtabSpacing \in Nat
  /\ Spacing \in Nat /\ Spacing >= MinSpacing
  /\ \A n \in 0 .. NChannels * Spacing : Random(n) \in Numbers

VARIABLES randtab,    \* dither_randtab
          randtabPtr, \* dither_state[c].randtab_ptr
          start,      \* dither_state[c].randtab, as an index
          turn,       \* the channel whose block is next
          last        \* history: the last number each channel used

ditherVars == <<randtab, randtabPtr, start, turn, last>>

Channels == 0 .. NChannels - 1
RandtabSize == NChannels * Spacing + 1

DitherInit ==
  /\ randtab = [n \in 0 .. RandtabSize - 1 |-> Random(n)]
  /\ randtabPtr = [c \in Channels |-> c * Spacing + 1]
  /\ start = [c \in Channels |-> c * Spacing + 1]
  /\ turn = 0
  /\ last = [c \in Channels |-> Random(c * Spacing)]

\* The table's entry n; there is nothing behind its end.
At(table, n) == IF n \in DOMAIN table THEN table[n] ELSE 0

\* Mutant: the last number of the pass before is forgotten.
CarriedForgotten(c) == randtab

\* Mutant: wrapped a block early.
WrapsEarly(c) == randtabPtr[c] + 2 * BlockLength >= RandtabSize

\* The rest of the table does not suffice for the block.
Wraps(c) == randtabPtr[c] + BlockLength >= RandtabSize

\* The table that the next block of channel c is taken from.
Carried(c) ==
  IF Wraps(c) THEN [randtab EXCEPT ![0] = At(randtab, randtabPtr[c] - 1)] ELSE randtab

\* dither_preloop_real2int_hp_tpdf, and the loop's use of the numbers.
Preloop(c) ==
  LET from == IF Wraps(c) THEN 1 ELSE randtabPtr[c] IN
  /\ randtab' = Carried(c)
  /\ start' = [start EXCEPT ![c] = from]
  /\ randtabPtr' = [randtabPtr EXCEPT ![c] = from + BlockLength]
  /\ last' = [last EXCEPT ![c] = At(Carried(c), from + BlockLength - 1)]

NextTurn == turn' = IF turn = NChannels - 1 THEN 0 ELSE turn + 1

DitherBlock == Preloop(turn) /\ NextTurn

DitherSpec == DitherInit /\ [][DitherBlock]_ditherVars

-----------------------------------------------------------------------------
(* Properties.                                                             *)

DitherTypeOK ==
  /\ randtab \in [0 .. RandtabSize - 1 -> Numbers]
  /\ randtabPtr \in [Channels -> Nat] /\ start \in [Channels -> Nat]
  /\ turn \in Channels
  /\ last \in [Channels -> Numbers]

\* Every number a block uses, and the one before its first, lies in the
\* table (dither.cpp:133-146).
InTable == \A c \in Channels : start[c] >= 1 /\ start[c] + BlockLength <= RandtabSize

\* After a block for each channel, no two have used the same numbers.
Apart ==
  \A c, d \in Channels :
    c # d => start[c] + BlockLength <= start[d] \/ start[d] + BlockLength <= start[c]

\* Every block lies in the table, and no two channels use the same numbers in
\* a block, although they share the table and start over at different times
\* (dither.cpp:110-114, 133-146); unless the spacing is not larger than a
\* block, when the last channel starts over at once and meets the first.
WindowsFit ==
  /\ DitherTypeOK /\ InTable
  /\ turn = 0 /\ Spacing > BlockLength => Apart

\* The first difference of a block begins with the number the channel's last
\* block ended with, also when the table starts over and although the other
\* channels write its entry 0 too (dither.cpp:137-145, 163-166).
NoiseIsContinuous ==
  [][\A c \in Channels :
       randtabPtr'[c] # randtabPtr[c] => randtab'[start'[c] - 1] = last[c]]_ditherVars

================================================================================
