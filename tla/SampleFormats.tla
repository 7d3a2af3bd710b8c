----------------------------- MODULE SampleFormats -----------------------------
(***************************************************************************)
(* The conversion of samples on their way through brutefir::run():         *)
(* raw2real takes a channel out of the interleaved input, the filter       *)
(* scales it (here it does nothing else), real2raw rounds it, with or      *)
(* without dither, and puts it into the interleaved output.                *)
(*                                                                         *)
(* A byte has Byte values instead of 256, so that an int of four of them   *)
(* is small; an int8_t, of which the dither is made, has as many.          *)
(* A real number is counted in units of 1 / One.  Floats, which have three *)
(* bytes for their digits, hold smaller numbers exactly and larger ones in *)
(* steps; doubles hold all that occur.                                     *)
(***************************************************************************)
EXTENDS Dither, Sequences

CONSTANTS Byte,       \* the number of values of a byte
          One,        \* the number of units in 1
          Pairs,      \* <<input format, output format>>
          Samples(_), \* sequences of values that an input of the format may have
          MaxBlocks   \* bound: blocks

FormatNames == {"S8", "S16_LE", "S16_BE", "S24_LE", "S24_BE", "S32_LE", "S32_BE",
                "FLOAT_LE", "FLOAT_BE", "FLOAT64_LE", "FLOAT64_BE"}

\* The number of values of an integer of so many bytes.
Power[bytes \in 0 .. 4] == IF bytes = 0 THEN 1 ELSE Byte * Power[bytes - 1]

ASSUME FormatAssumption ==
  /\ Byte \in Nat \ {0} /\ Byte % 2 = 0
  /\ One \in Nat \ {0} /\ One % (2 * (Byte - 1)) = 0 /\ One % (Power[4] \div 2) = 0
  /\ Numbers \subseteq -(Byte \div 2) .. Byte \div 2 - 1
  /\ Pairs \subseteq FormatNames \X FormatNames
  /\ \A name \in FormatNames : Samples(name) \subseteq Seq(Int) \ {<<>>}

VARIABLES inFormat, outFormat,
          realsize,
          applyDither,
          inbuf, outbuf, \* interleaved bytes
          overflow,      \* bfoverflow_t of each channel
          sf,            \* dither_state[c].sf or .sd
          running,       \* run() is in its loop over the channels
          blocks,        \* history: blocks begun
          clipped,       \* history: samples of a channel that left the range
          strayed        \* history: a number past the end of the map was used

vars == <<ditherVars, inFormat, outFormat, realsize, applyDither, inbuf, outbuf,
          overflow, sf, running, blocks, clipped, strayed>>

-----------------------------------------------------------------------------
(* Formats.                                                                *)

Format(name) ==
  [bytes |-> IF name = "S8" THEN 1
             ELSE IF name \in {"S16_LE", "S16_BE"} THEN 2
             ELSE IF name \in {"S24_LE", "S24_BE"} THEN 3
             ELSE IF name \in {"FLOAT64_LE", "FLOAT64_BE"} THEN 8 ELSE 4,
   isfloat |-> name \in {"FLOAT_LE", "FLOAT_BE", "FLOAT64_LE", "FLOAT64_BE"},
   swap |-> name \in {"S16_BE", "S24_BE", "S32_BE", "FLOAT_BE", "FLOAT64_BE"}]

\* The value of n in an integer of so many bytes, in two's complement.
Signed(n, bytes) ==
  LET m == n % Power[bytes] IN IF 2 * m >= Power[bytes] THEN m - Power[bytes] ELSE m

\* 1 << (8 * bytes - 1), an int: negative if there are four bytes.
FullScale(bytes) == Signed(Power[bytes] \div 2, 4)

\* What the input and the output scale multiply a sample with.
Scaled(x) ==
  LET in == Format(inFormat)  out == Format(outFormat)
      up == IF out.isfloat THEN x ELSE x * FullScale(out.bytes)
  IN  IF in.isfloat THEN up
      ELSE IF FullScale(in.bytes) > 0 THEN up \div FullScale(in.bytes)
      ELSE -(up \div (-FullScale(in.bytes)))

\* The place of byte k of the channel's sample n: byte_offset, and
\* sample_spacing samples from one to the next.
Place(format, c, n, k) == (n * NChannels + c) * format.bytes + k

BufferOf(format) == 0 .. BlockLength * NChannels * format.bytes - 1

\* The bytes of a sample, in the order of the format.  Those of a float are
\* not told apart but by their places.
Encode(format, v) ==
  [k \in 0 .. format.bytes - 1 |->
     LET place == IF format.swap THEN format.bytes - 1 - k ELSE k
     IN  IF format.isfloat THEN <<"float", v, place>>
         ELSE <<"int", (v \div Power[place]) % Byte, place>>]

\* What the bytes b stand for; bytes of a float out of order are no number
\* that ever went in.
Value(format, b) ==
  LET digit(k) == b[IF format.swap THEN format.bytes - 1 - k ELSE k]
      sum[k \in 0 .. format.bytes] ==
        IF k = 0 THEN 0 ELSE sum[k - 1] + digit(k - 1)[2] * Power[k - 1]
  IN  IF ~format.isfloat THEN Signed(sum[format.bytes], format.bytes)
      ELSE IF \A k \in 0 .. format.bytes - 1 : digit(k)[3] = k THEN b[0][2]
      ELSE 1000 * One

BytesAt(buf, format, c, n) == [k \in 0 .. format.bytes - 1 |-> buf[Place(format, c, n, k)]]

-----------------------------------------------------------------------------
(* Numbers.                                                                *)

Abs(x) == IF x < 0 THEN -x ELSE x

\* The samples of a float are held by a float exactly.
ASSUME SamplesAssumption ==
  \A name \in FormatNames :
    Format(name).isfloat =>
      \A v \in Samples(name) : \A n \in 1 .. Len(v) : 2 * Abs(v[n]) < Power[3] * One

\* To the nearest of the numbers that are `step' apart, to the even one of two.
ToStep(x, step) ==
  LET q == x \div step
      r == x % step
  IN  IF 2 * r < step \/ (2 * r = step /\ q % 2 = 0) THEN q * step ELSE (q + 1) * step

\* A real as a float or a double holds it.  The steps of a float that are
\* smaller than one are left out.
Real(x) ==
  LET top == Power[3] * One IN
  IF realsize = 8 \/ 2 * Abs(x) < top THEN x
  ELSE IF Abs(x) < top THEN ToStep(x, One)
  ELSE IF Abs(x) < 2 * top THEN ToStep(x, 2 * One) ELSE ToStep(x, 4 * One)

\* (int32_t)x: towards zero; what does not fit becomes the smallest int.
ToInt(x) ==
  LET n == IF x >= 0 THEN x \div One ELSE -((-x) \div One)
  IN  IF n = Signed(n, 4) THEN n ELSE -(Power[4] \div 2)

-----------------------------------------------------------------------------
(* raw2real                                                                *)

RealSample(c, n) ==
  LET format == Format(inFormat)
      v == Value(format, BytesAt(inbuf, format, c, n))
  IN  IF format.isfloat THEN Real(v) ELSE Real(v * One)

-----------------------------------------------------------------------------
(* real2raw.  A turn of its loop takes [sf, of, samples, clipped] on by the *)
(* sample x.                                                               *)

\* REAL_OVERFLOW_UPDATE
OverflowUpdate(of, x) ==
  [of EXCEPT !.n_overflows = IF Abs(x) > One THEN @ + 1 ELSE @,
             !.largest = IF Abs(x) > @ THEN Abs(x) ELSE @]

\* A float is passed on as it is.
PassFloat(s, x) ==
  [s EXCEPT !.of = OverflowUpdate(@, x),
            !.clipped = IF Abs(x) > One THEN @ + 1 ELSE @,
            !.samples = Append(@, x)]

IMin == -(Power[Format(outFormat).bytes] \div 2)
IMax == Power[Format(outFormat).bytes] \div 2 - 1

\* Mutant: what does not reach past the range by more than a step is clipped
\* but not counted.
CountedLoosely(y) == y <= Real(IMin * One) - One \/ y > Real(IMax * One) + One

Counted(y) == y <= Real(IMin * One) \/ y > Real(IMax * One)

\* Mutant: negative samples are truncated towards zero.
QuantisedUp(y) ==
  IF y < 0 THEN (IF y <= Real(IMin * One) THEN IMin ELSE ToInt(y))
  ELSE IF y > Real(IMax * One) THEN IMax ELSE ToInt(y)

\* What both functions of the dither do with the dithered sample y of x.
Quantised(y) ==
  IF y < 0 THEN (IF y <= Real(IMin * One) THEN IMin ELSE ToInt(y) - 1)
  ELSE IF y > Real(IMax * One) THEN IMax ELSE ToInt(y)

\* The peak is kept in `largest' if the sample was clipped, else in
\* `intlargest'; what is compared is x, what is kept is y.
Measured(of, x, y) ==
  LET q == Quantised(y) IN
  IF Counted(y)
  THEN [of EXCEPT !.n_overflows = @ + 1,
                  !.largest = IF Abs(x) > @ /\ (x < 0) = (y < 0) THEN Abs(y) ELSE @]
  ELSE IF y < 0
  THEN [of EXCEPT !.intlargest = IF q < Signed(-@, 4) THEN Signed(-q, 4) ELSE @]
  ELSE [of EXCEPT !.intlargest = IF q > @ THEN q ELSE @]

\* What the dithered sample is rounded down to is out of the range.
OutOfRange(y) == y < IMin * One \/ y >= (IMax + 1) * One

\* real2int_no_dither
Plain(s, x) ==
  LET y == Real(x + One \div 2)
  IN  [s EXCEPT !.of = Measured(@, y, y),
                !.clipped = IF OutOfRange(y) THEN @ + 1 ELSE @,
                !.samples = Append(@, Quantised(y))]

\* dither_randmap: from a difference of two numbers to dither between -1/2
\* and 3/2; the largest difference is past its end.
MapLast == Byte - 2

\* Mutant: a number is taken to reach half as far.
RandMapWide(d) == One \div 2 + 2 * (One \div (Byte - 1)) * (d + 1)

RandMap(d) == One \div 2 + (One \div (Byte - 1)) * (d + 1)

\* The errors of the last two samples, with coefficients {1, -1}.
Feedback(s) == s.sf[1] - s.sf[2]

\* real2int_hp_tpdf, with the difference d of random numbers.
Dithered(s, x, d, beyond) ==
  LET z == Real(x + Feedback(s))
      y == Real(z + (IF d > MapLast THEN beyond ELSE RandMap(d)))
  IN  [s EXCEPT !.of = Measured(@, z, y),
                !.sf = <<z - Quantised(y) * One, @[1]>>,
                !.clipped = IF OutOfRange(y) THEN @ + 1 ELSE @,
                !.samples = Append(@, Quantised(y))]

UsesDither == applyDither /\ ~Format(outFormat).isfloat

\* convolver_cbuf2raw for channel c.
Converted(c, beyond) ==
  LET table == Carried(c)
      from == IF Wraps(c) THEN 1 ELSE randtabPtr[c]
      s[n \in 0 .. BlockLength] ==
        IF n = 0
        THEN [of |-> overflow[c], sf |-> sf[c], clipped |-> clipped[c], samples |-> <<>>]
        ELSE LET x == Scaled(RealSample(c, n - 1))
                 d == At(table, from + n - 1) - At(table, from + n - 2)
             IN  IF Format(outFormat).isfloat THEN PassFloat(s[n - 1], x)
                 ELSE IF applyDither THEN Dithered(s[n - 1], x, d, beyond)
                 ELSE Plain(s[n - 1], x)
  IN  s[BlockLength]

\* Some difference of the block is past the end of the map.
Strays(c) ==
  LET from == IF Wraps(c) THEN 1 ELSE randtabPtr[c]
  IN  \E n \in 0 .. BlockLength - 1 : At(Carried(c), from + n) - At(Carried(c), from + n - 1) > MapLast

-----------------------------------------------------------------------------

NoBytes(format) == [i \in BufferOf(format) |-> <<"int", 0, 0>>]

Init ==
  /\ DitherInit
  /\ \E p \in Pairs : inFormat = p[1] /\ outFormat = p[2]
  /\ realsize \in {4, 8} /\ applyDither \in BOOLEAN
  /\ inbuf = NoBytes(Format(inFormat)) /\ outbuf = NoBytes(Format(outFormat))
  /\ overflow = [c \in Channels |-> [n_overflows |-> 0, intlargest |-> 0, largest |-> 0]]
  /\ sf = [c \in Channels |-> <<0, 0>>]
  /\ running = FALSE /\ blocks = 0
  /\ clipped = [c \in Channels |-> 0] /\ strayed = FALSE

\* run() is called with a block whose samples take turns with the values of
\* v, each channel a step behind the one before.
NewBlock(v) ==
  /\ ~running /\ running' = TRUE /\ blocks < MaxBlocks /\ blocks' = blocks + 1
  /\ LET format == Format(inFormat)
         sample(c, n) == v[((n + c) % Len(v)) + 1]
     IN  inbuf' = [i \in BufferOf(format) |->
                     LET at == i \div format.bytes
                     IN  Encode(format, sample(at % NChannels, at \div NChannels))[i % format.bytes]]
  /\ UNCHANGED <<ditherVars, inFormat, outFormat, realsize, applyDither,
                 outbuf, overflow, sf, clipped, strayed>>

\* The output with the samples of channel c put in.
Filled(c, samples) ==
  LET format == Format(outFormat)
      places == {<<n, k>> : n \in 0 .. BlockLength - 1, k \in 0 .. format.bytes - 1}
  IN  [i \in DOMAIN outbuf |->
         IF \E p \in places : Place(format, c, p[1], p[2]) = i
         THEN LET p == CHOOSE p \in places : Place(format, c, p[1], p[2]) = i
              IN  Encode(format, samples[p[1] + 1])[p[2]]
         ELSE outbuf[i]]

\* A turn of the loop in run(), for the channel `turn'; `beyond' is what is
\* found behind the end of dither_randmap.
RunChannel(beyond) ==
  LET done == Converted(turn, beyond) IN
  /\ running /\ running' = (turn # NChannels - 1)
  /\ NextTurn
  /\ IF UsesDither
     THEN Preloop(turn) /\ strayed' = (strayed \/ Strays(turn))
     ELSE UNCHANGED <<randtab, randtabPtr, start, last, strayed>>
  /\ outbuf' = Filled(turn, done.samples)
  /\ overflow' = [overflow EXCEPT ![turn] = done.of]
  /\ sf' = [sf EXCEPT ![turn] = done.sf]
  /\ clipped' = [clipped EXCEPT ![turn] = done.clipped]
  /\ UNCHANGED <<inFormat, outFormat, realsize, applyDither, inbuf, blocks>>

Next ==
  \/ \E v \in Samples(inFormat) : NewBlock(v)
  \/ \E beyond \in {0, 100 * One} : RunChannel(beyond)

Spec == Init /\ [][Next]_vars

-----------------------------------------------------------------------------
(* Properties.                                                             *)

TypeOK ==
  /\ DOMAIN inbuf = BufferOf(Format(inFormat)) /\ DOMAIN outbuf = BufferOf(Format(outFormat))
  /\ \A c \in Channels :
       /\ overflow[c].n_overflows \in Nat /\ overflow[c].largest \in Nat
       /\ Signed(overflow[c].intlargest, 4) = overflow[c].intlargest
       /\ sf[c] \in Int \X Int /\ clipped[c] \in Nat

IsInt4(name) == Format(name).bytes = 4 /\ ~Format(name).isfloat

TrueScale(name) == IF Format(name).isfloat THEN 1 ELSE Power[Format(name).bytes] \div 2

\* The sample that should come out, in units.
Wanted(c, n) ==
  LET v == Value(Format(inFormat), BytesAt(inbuf, Format(inFormat), c, n))
      x == IF Format(inFormat).isfloat THEN v ELSE v * (One \div TrueScale(inFormat))
  IN  x * TrueScale(outFormat) * (IF IsInt4(inFormat) = IsInt4(outFormat) THEN 1 ELSE -1)

Output(c, n) == Value(Format(outFormat), BytesAt(outbuf, Format(outFormat), c, n))

\* A float is too small for the samples of a four-byte format.
Exact == realsize = 8 \/ ~(IsInt4(inFormat) \/ IsInt4(outFormat))

\* Without dither every sample of every channel comes out as the nearest
\* value of the output format, or as its limit, at its place and in its byte
\* order; with the sign changed if one of the formats is a four-byte
\* integer, whose scale overflows (brutefir.cpp:397-401, raw2real.cpp:15-220,
\* real2raw.cpp:321-620, dither.cpp:212-268).
SamplesPass ==
  blocks > 0 /\ ~running /\ ~UsesDither /\ Exact =>
    \A c \in Channels, n \in 0 .. BlockLength - 1 :
      LET x == Wanted(c, n)  y == Output(c, n) IN
      IF Format(outFormat).isfloat THEN y = x
      ELSE IF 2 * x > (2 * IMax + 1) * One THEN y = IMax
      ELSE IF 2 * x < (2 * IMin - 1) * One THEN y = IMin
      ELSE 2 * Abs(y * One - x) <= One

\* A sample that left the range has been counted, block for block; but not
\* the largest value of a four-byte format that a float has rounded up, which
\* comes out as the smallest (dither.cpp:148-268, real2raw.cpp:17-32).
EveryClipIsCounted ==
  /\ TypeOK
  /\ Exact => \A c \in Channels : clipped[c] <= overflow[c].n_overflows

\* As long as nothing was clipped, error feedback and dither move a sample
\* by no more than three times the one and a half steps that one sample can
\* be off, unless a difference of random numbers was past the end of its map
\* (dither.cpp:80-108, 148-210).
DitherStaysNear ==
  blocks > 0 /\ ~running /\ UsesDither /\ Exact /\ ~strayed =>
    \A c \in Channels : overflow[c].n_overflows = 0 =>
      \A n \in 0 .. BlockLength - 1 : 2 * Abs(Output(c, n) * One - Wanted(c, n)) <= 9 * One

================================================================================
