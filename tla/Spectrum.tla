-------------------------------- MODULE Spectrum --------------------------------
(***************************************************************************)
(* The convolver's arithmetic, class fftw_convolver: overlap-save          *)
(* convolution with FFTW's half-complex transforms and the reordered       *)
(* spectra ("cbufs") its kernels work on, for each of the networks they    *)
(* can be put together to.  One call of a function of the class is one     *)
(* action; `todo' holds the calls that are still to be made for the block. *)
(*                                                                         *)
(* Real numbers are abstracted to the field of P elements, in which the    *)
(* sines and cosines of the transform exist as they do among the complex   *)
(* numbers: what the kernels compute is a polynomial in them, so that two  *)
(* orders of computation that agree for all reals agree here, and rounding *)
(* is left out.                                                            *)
(***************************************************************************)
EXTENDS Integers, Sequences

CONSTANTS P, Generator,     \* a prime, and a generator of its field
          Lengths,          \* the filter lengths of the convolver
          RealSizes,        \* 4: float, 8: double
          Nets,             \* the networks
          CoeffLengths,     \* how many coefficients there are
          Taps(_, _),       \* Taps(name, n): the n-th coefficient
          InScale, OutScale, CoeffScale,
          Blocks(_),        \* the blocks that may be given, by their length
          MaxBlocks         \* bound: blocks

ASSUME SpectrumAssumption ==
  /\ \A n \in Lengths : n \in Nat /\ n >= 4 /\ n % 4 = 0 /\ (P - 1) % (2 * n) = 0
  /\ RealSizes \subseteq {4, 8}
  /\ Nets \subseteq {"single", "partitioned", "runtime", "series", "dirac", "mixed", "crossfade", "subsample"}
  /\ CoeffLengths \subseteq Nat \ {0}
  /\ \A c \in CoeffLengths : \A n \in 0 .. c - 1 : Taps("A", n) \in Int /\ Taps("B", n) \in Int
  /\ \A n \in 0 .. 2 : Taps("early", n) \in Int /\ Taps("late", n) \in Int
  /\ {InScale, OutScale, CoeffScale} \subseteq Int
  /\ \A n \in Lengths : Blocks(n) \subseteq [0 .. n - 1 -> 0 .. P - 1]
  /\ MaxBlocks \in Nat

VARIABLES length,   \* n_fft2; n_fft is twice that
          realsize,
          net,      \* the network
          nCoeffs,  \* the number of coefficients
          todo,     \* the calls still to be made
          cbuf,     \* the buffers, by name
          subdelay, \* the argument of subsample_update
          fed,      \* history: the blocks given
          chosen    \* history: the subdelay of each

vars == <<length, realsize, net, nCoeffs, todo, cbuf, subdelay, fed, chosen>>

NFft == 2 * length
Half == 0 .. length - 1
Whole == 0 .. NFft - 1
Channels == {1, 2, 3}

\* 1 << log2_roof(n)
TdBlockLength(n) == CHOOSE b \in {1, 2, 4, 8, 16} : b >= n /\ b < 2 * n

SubFilterLength == 3        \* 2 * half_filter_length + 1
StepCount == 2
SubSteps == -(StepCount - 1) .. StepCount - 1
SubBlock == TdBlockLength(SubFilterLength)

-----------------------------------------------------------------------------
(* The field.                                                              *)

\* f[0] + ... + f[n - 1]
Sum(f, n) ==
  LET s[k \in 0 .. n] == IF k = 0 THEN 0 ELSE (s[k - 1] + f[k - 1]) % P IN s[n]

Power[k \in 0 .. P - 2] == IF k = 0 THEN 1 ELSE (Power[k - 1] * Generator) % P

ASSUME FieldAssumption ==
  /\ P \in Nat \ {0, 1} /\ \A a, b \in 1 .. P - 1 : (a * b) % P # 0
  /\ Generator \in 1 .. P - 1
  /\ \A x \in 1 .. P - 1 : \E k \in 0 .. P - 2 : Power[k] = x
  /\ \A j, k \in 0 .. P - 2 : Power[j] = Power[k] => j = k

Inverse(x) == CHOOSE y \in 1 .. P - 1 : (x * y) % P = 1

\* exp(2 pi i k / n)
Root(n, k) == Power[(((P - 1) \div n) * k) % (P - 1)]

Cos(n, k) == ((Root(n, k) + Root(n, n - (k % n))) * Inverse(2)) % P

Sin(n, k) == ((Root(n, k) - Root(n, n - (k % n))) * Inverse(2 * Root(n, n \div 4))) % P

Transforms == {2 * l : l \in Lengths} \cup {2 * SubBlock}

CosTable == [n \in Transforms |-> [k \in 0 .. n - 1 |-> Cos(n, k)]]
SinTable == [n \in Transforms |-> [k \in 0 .. n - 1 |-> Sin(n, k)]]

-----------------------------------------------------------------------------
(* FFTW: the real parts of the spectrum first, then the imaginary parts in *)
(* reverse order; the transforms are not normalised.                       *)

R2HC(n, x) ==
  [k \in 0 .. n - 1 |->
     IF k <= n \div 2
     THEN Sum([j \in 0 .. n - 1 |-> x[j] * CosTable[n][(j * k) % n]], n)
     ELSE (-Sum([j \in 0 .. n - 1 |-> x[j] * SinTable[n][(j * (n - k)) % n]], n)) % P]

HC2R(n, y) ==
  [j \in 0 .. n - 1 |->
     (y[0] + (IF j % 2 = 0 THEN 1 ELSE -1) * y[n \div 2]
      + 2 * Sum([i \in 0 .. n \div 2 - 2 |-> y[i + 1] * CosTable[n][(j * (i + 1)) % n]
                                             - y[n - (i + 1)] * SinTable[n][(j * (i + 1)) % n]],
                n \div 2 - 1)) % P]

-----------------------------------------------------------------------------
(* The kernels.  A cbuf has its real and imaginary parts by turns, four of *)
(* each; in the place of the first imaginary part, which is zero, stands   *)
(* the last real one.                                                      *)

\* CONVOLVER_MIXMODE_INPUT: where in the spectrum entry p of a cbuf comes from.
Gathered(p) ==
  IF p % 8 < 4 THEN 4 * (p \div 8) + (p % 8)
  ELSE LET k == 4 * (p \div 8) + (p % 8) - 4 IN IF k = 0 THEN length ELSE NFft - k

\* CONVOLVER_MIXMODE_OUTPUT: where in a cbuf entry i of the spectrum comes from.
Scattered(i) ==
  IF i < length THEN 8 * (i \div 4) + (i % 4)
  ELSE IF i = length THEN 4
  ELSE 8 * ((NFft - i) \div 4) + ((NFft - i) % 4) + 4

MixInput(bufs, scales) ==
  [p \in Whole |-> Sum([i \in 0 .. Len(bufs) - 1 |-> bufs[i + 1][Gathered(p)] * scales[i + 1]],
                       Len(bufs))]

MixOutput(bufs, scales) ==
  [i \in Whole |-> Sum([n \in 0 .. Len(bufs) - 1 |-> bufs[n + 1][Scattered(i)] * scales[n + 1]],
                       Len(bufs))]

\* convolve: the product of two spectra.
Product(b, c) ==
  [p \in Whole |->
     (IF p \in {0, 4} THEN b[p] * c[p]
      ELSE IF p % 8 < 4 THEN b[p] * c[p] - b[p + 4] * c[p + 4]
      ELSE b[p - 4] * c[p] + b[p] * c[p - 4]) % P]

ConvolveAdd(b, c, d) == [p \in Whole |-> (d[p] + Product(b, c)[p]) % P]

\* Mutant: without the copy of the four real parts, the imaginary parts are
\* computed from the new ones.
ConvolveInplaceAliased(b, c) ==
  [p \in Whole |->
     IF p % 8 < 4 \/ p = 4 THEN Product(b, c)[p]
     ELSE (Product(b, c)[p - 4] * c[p] + b[p] * c[p - 4]) % P]

\* convolve_inplace: the real parts are saved before they are overwritten.
ConvolveInplace(b, c) ==
  [p \in Whole |->
     (IF p \in {0, 4} THEN b[p] * c[p]
      ELSE LET a == b[8 * (p \div 8) + (p % 4)]
               im == b[8 * (p \div 8) + (p % 4) + 4]
               re == 8 * (p \div 8) + (p % 4)
           IN  IF p % 8 < 4 THEN a * c[re] - im * c[re + 4] ELSE a * c[re + 4] + im * c[re]) % P]

\* dirac_convolve: a unit impulse at n_fft2, which needs no coefficients.
DiracConvolve(b) == [p \in Whole |-> (b[p] * (IF p % 2 = 0 THEN 1 ELSE -1) * Inverse(NFft)) % P]

\* convolve_inplace_ordered: the product in FFTW's own order, of n entries.
ConvolveOrdered(n, b, c) ==
  [k \in 0 .. n - 1 |->
     (IF k = 0 \/ k = n \div 2 THEN b[k] * c[k]
      ELSE IF k < n \div 2 THEN b[k] * c[k] - b[n - k] * c[n - k]
      ELSE b[n - k] * c[k] + b[k] * c[n - k]) % P]

-----------------------------------------------------------------------------
(* Coefficients.                                                           *)

\* What preprocess_coeff gives to the convolver as block b of a set of
\* nCoeffs coefficients, and how many: a block past the end is all zeros.
PieceLength(b) ==
  IF b * length > nCoeffs THEN 0
  ELSE IF (b + 1) * length > nCoeffs THEN nCoeffs - b * length ELSE length

Piece(name, b) == [n \in 0 .. PieceLength(b) - 1 |-> Taps(name, b * length + n)]

\* convolver_coeffs2cbuf: the scaled coefficients in the second half of the
\* buffer, transformed and put in order.
Coeffs2Cbuf(coeffs, n, scale) ==
  LET rcoeffs == [i \in Whole |->
                    IF length <= i /\ i < length + n THEN (coeffs[i - length] * scale) % P ELSE 0]
  IN  MixInput(<<R2HC(NFft, rcoeffs)>>, <<Inverse(NFft)>>)

\* convolver_runtime_coeffs2cbuf: src holds n_fft2 coefficients.
RuntimeCoeffs2Cbuf(src) ==
  MixInput(<<R2HC(NFft, [i \in Whole |-> IF i < length THEN 0 ELSE src[i - length]])>>,
           <<Inverse(NFft)>>)

\* convolver_debug_dump_cbuf: the coefficients it writes.
Dumped(b) ==
  LET coeffs == HC2R(NFft, MixOutput(<<b>>, <<1>>))
  IN  [i \in Whole |-> IF i < length THEN coeffs[length + i] ELSE 0]

\* subsample_init: the filter without delay is an impulse in the middle, the
\* others are windowed sinc functions.
SubFilter(s, n) ==
  IF s = 0 THEN (IF n = SubFilterLength \div 2 THEN 1 ELSE 0)
  ELSE Taps(IF s < 0 THEN "early" ELSE "late", n)

\* convolver_td_new
TdCoeffs(s) ==
  LET coeffs == [i \in 0 .. 2 * SubBlock - 1 |->
                   IF SubBlock <= i /\ i < SubBlock + SubFilterLength
                   THEN SubFilter(s, i - SubBlock) ELSE 0]
      freq == R2HC(2 * SubBlock, coeffs)
  IN  [k \in DOMAIN freq |-> (freq[k] * Inverse(2 * SubBlock)) % P]

\* convolver_td_convolve
TdConvolve(coeffs, block) ==
  HC2R(2 * SubBlock, ConvolveOrdered(2 * SubBlock, R2HC(2 * SubBlock, block), coeffs))

-----------------------------------------------------------------------------
(* The calls a network makes.                                              *)

Call(op, from, to, by) == [op |-> op, from |-> from, to |-> to, by |-> by]

None == <<"none", 0>>
Coeffs(name, b) == <<name, b>>
Buffers == {<<"time", c>> : c \in Channels} \cup {<<"freq", c>> : c \in Channels}
           \cup ({"win", "acc", "A", "B"} \X {0, 1})
           \cup ({"fade", "ofreq", "otime", "eval", "buf", "rest", "dump"} \X {0})
           \cup {<<"td", s>> : s \in SubSteps}

Time2Freq(c) == <<Call("time2freq", <<<<"time", c>>>>, <<"freq", c>>, None)>>

Analyse(to) == Time2Freq(1) \o <<Call("mixin", <<<<"freq", 1>>>>, to, None)>>

Synthesise(from) ==
  <<Call("mixout", from, <<"ofreq", 0>>, None),
    Call("freq2time", <<<<"ofreq", 0>>>>, <<"otime", 0>>, None)>>

\* From one filter to the next.
Between(from, to) ==
  <<Call("mixout", <<from>>, <<"ofreq", 0>>, None),
    Call("eval", <<<<"ofreq", 0>>>>, <<"ofreq", 0>>, None),
    Call("mixin", <<<<"ofreq", 0>>>>, to, None)>>

Setup(nt) ==
  CASE nt \in {"single", "partitioned"} ->
         <<Call("coeffs2cbuf", <<>>, Coeffs("A", 0), None),
           Call("coeffs2cbuf", <<>>, Coeffs("A", 1), None),
           Call("dump", <<Coeffs("A", 0)>>, <<"dump", 0>>, None)>>
    [] nt = "runtime" -> <<Call("runtime_coeffs2cbuf", <<>>, Coeffs("A", 0), None)>>
    [] nt \in {"series", "mixed", "crossfade"} ->
         <<Call("coeffs2cbuf", <<>>, Coeffs("A", 0), None),
           Call("coeffs2cbuf", <<>>, Coeffs("B", 0), None)>>
    [] nt = "dirac" -> <<>>
    [] nt = "subsample" ->
         <<Call("td_new", <<>>, <<"td", -1>>, None), Call("td_new", <<>>, <<"td", 0>>, None),
           Call("td_new", <<>>, <<"td", 1>>, None)>>

\* The calls for block number k, and for the subdelay s.
Calls(nt, k, s) ==
  CASE nt \in {"single", "runtime"} ->
         Analyse(<<"acc", 0>>)
         \o <<Call("convolve_inplace", <<>>, <<"acc", 0>>, Coeffs("A", 0))>>
         \o Synthesise(<<<<"acc", 0>>>>)
    [] nt = "partitioned" ->
         Analyse(<<"win", k % 2>>)
         \o <<Call("convolve", <<<<"win", k % 2>>>>, <<"acc", 0>>, Coeffs("A", 0))>>
         \o (IF k > 1 THEN <<Call("convolve_add", <<<<"win", (k - 1) % 2>>>>, <<"acc", 0>>, Coeffs("A", 1))>>
             ELSE <<>>)
         \o Synthesise(<<<<"acc", 0>>>>)
    [] nt = "series" ->
         Analyse(<<"win", 0>>)
         \o <<Call("convolve", <<<<"win", 0>>>>, <<"acc", 0>>, Coeffs("A", 0))>>
         \o Between(<<"acc", 0>>, <<"acc", 1>>)
         \o <<Call("convolve_inplace", <<>>, <<"acc", 1>>, Coeffs("B", 0))>>
         \o Synthesise(<<<<"acc", 1>>>>)
    [] nt = "dirac" ->
         Analyse(<<"win", 0>>)
         \o <<Call("dirac_convolve", <<<<"win", 0>>>>, <<"acc", 0>>, None)>>
         \o Between(<<"acc", 0>>, <<"acc", 1>>)
         \o <<Call("dirac_convolve", <<<<"acc", 1>>>>, <<"acc", 1>>, None)>>
         \o Synthesise(<<<<"acc", 1>>>>)
    [] nt = "mixed" ->
         Time2Freq(1) \o Time2Freq(2) \o Time2Freq(3)
         \o <<Call("mixin", <<<<"freq", 1>>, <<"freq", 2>>, <<"freq", 3>>>>, <<"win", 0>>, None),
              Call("convolve", <<<<"win", 0>>>>, <<"acc", 0>>, Coeffs("A", 0)),
              Call("convolve", <<<<"win", 0>>>>, <<"acc", 1>>, Coeffs("B", 0))>>
         \o Synthesise(<<<<"acc", 0>>, <<"acc", 1>>>>)
    [] nt = "crossfade" ->
         Analyse(<<"win", 0>>)
         \o <<Call("convolve", <<<<"win", 0>>>>, <<"fade", 0>>, Coeffs("A", 0)),
              Call("convolve_inplace", <<>>, <<"win", 0>>, Coeffs("B", 0)),
              Call("crossfade", <<<<"fade", 0>>>>, <<"win", 0>>, None)>>
         \o Synthesise(<<<<"win", 0>>>>)
    [] nt = "subsample" ->
         IF s \notin SubSteps THEN <<>>
         ELSE [i \in 1 .. length \div SubBlock |->
                 Call("td_convolve", <<>>, <<"buf", (i - 1) * SubBlock>>, <<"td", s>>)]

-----------------------------------------------------------------------------
(* The actions.                                                            *)

Zeros == [i \in Whole |-> 0]

Init ==
  /\ length \in Lengths /\ realsize \in RealSizes /\ net \in Nets
  /\ nCoeffs \in CoeffLengths
  /\ todo = Setup(net)
  /\ cbuf = [b \in Buffers |-> Zeros]
  /\ subdelay = 0 /\ fed = <<>> /\ chosen = <<>>

\* The channels of a mixed network get the same block turned round.
ChannelBlock(x, c) == [k \in Half |-> x[(k + c - 1) % length]]

\* convolver_raw2cbuf: the overlap is the last block.
RawToCbuf(c, x) ==
  [i \in Whole |-> IF i < length THEN cbuf[<<"time", c>>][i + length] ELSE ChannelBlock(x, c)[i - length]]

NextBlock(x, s) ==
  /\ todo = <<>> /\ Len(fed) < MaxBlocks
  /\ fed' = Append(fed, x) /\ chosen' = Append(chosen, s) /\ subdelay' = s
  /\ todo' = Calls(net, Len(fed) + 1, s)
  /\ UNCHANGED <<length, realsize, net, nCoeffs>>

TakeBlock(x) ==
  /\ net # "subsample"
  /\ NextBlock(x, 0)
  /\ cbuf' = [b \in Buffers |-> IF b[1] = "time" THEN RawToCbuf(b[2], x) ELSE cbuf[b]]

\* A subdelay out of range leaves the buffer and the rest alone.
SubsampleUpdate(x, s) ==
  /\ net = "subsample"
  /\ NextBlock(x, s)
  /\ cbuf' = [cbuf EXCEPT ![<<"buf", 0>>] = [i \in Whole |-> IF i < length THEN x[i] ELSE 0]]

\* A call op, whose result is v.
Does(op, v) ==
  /\ todo # <<>> /\ todo[1].op = op
  /\ cbuf' = [cbuf EXCEPT ![todo[1].to] = v]
  /\ todo' = Tail(todo)
  /\ UNCHANGED <<length, realsize, net, nCoeffs, subdelay, fed, chosen>>

To == cbuf[todo[1].to]
From(i) == cbuf[todo[1].from[i]]
By == cbuf[todo[1].by]
Inputs == [i \in DOMAIN todo[1].from |-> From(i)]

ToCbuf ==
  Does("coeffs2cbuf",
       Coeffs2Cbuf(Piece(todo[1].to[1], todo[1].to[2]), PieceLength(todo[1].to[2]), CoeffScale))

RuntimeToCbuf ==
  Does("runtime_coeffs2cbuf",
       RuntimeCoeffs2Cbuf([n \in Half |-> IF n < nCoeffs THEN (Taps("A", n) * CoeffScale) % P ELSE 0]))

Dump == Does("dump", Dumped(From(1)))

Time2FreqCall == Does("time2freq", R2HC(NFft, From(1)))

Freq2TimeCall == Does("freq2time", HC2R(NFft, From(1)))

MixInputCall == Does("mixin", MixInput(Inputs, [i \in DOMAIN Inputs |-> InScale + i - 1]))

MixOutputCall == Does("mixout", MixOutput(Inputs, [i \in DOMAIN Inputs |-> OutScale + i - 1]))

ConvolveCall == Does("convolve", Product(From(1), By))

ConvolveAddCall == Does("convolve_add", ConvolveAdd(From(1), By, To))

ConvolveInplaceCall == Does("convolve_inplace", ConvolveInplace(To, By))

DiracConvolveCall == Does("dirac_convolve", DiracConvolve(From(1)))

\* Sample n of a crossfade.
Blend(n, from, to) == (from * (1 - Inverse(length - 1) * n) + to * Inverse(length - 1) * n) % P

\* convolver_crossfade_inplace: with doubles, what is blended is the new
\* output and the memory behind the buffer.  The other buffer, which is
\* overwritten on the way, is left as it was: nothing reads it afterwards.
CrossfadeInplace(beyond) ==
  LET old == HC2R(NFft, MixOutput(<<From(1)>>, <<1>>))
      new == HC2R(NFft, MixOutput(<<To>>, <<1>>))
      faded == [n \in Whole |->
                  IF n >= length THEN new[n]
                  ELSE IF realsize = 4 THEN Blend(n, old[n], new[n]) ELSE Blend(n, new[n], beyond)]
  IN  MixInput(<<R2HC(NFft, faded)>>, <<Inverse(NFft)>>)

CrossfadeCall == \E beyond \in {0, 1} : Does("crossfade", CrossfadeInplace(beyond))

\* convolver_convolve_eval: the buffer keeps the last output as the overlap.
EvalCall ==
  /\ todo # <<>> /\ todo[1].op = "eval"
  /\ LET new == HC2R(NFft, From(1))
         window == [i \in Whole |-> IF i < length THEN cbuf[<<"eval", 0>>][i] ELSE new[i - length]]
     IN  cbuf' = [cbuf EXCEPT ![todo[1].to] = R2HC(NFft, window),
                              ![<<"eval", 0>>] = [i \in Whole |-> IF i < length THEN new[i] ELSE 0]]
  /\ todo' = Tail(todo)
  /\ UNCHANGED <<length, realsize, net, nCoeffs, subdelay, fed, chosen>>

TdNew ==
  Does("td_new", [i \in Whole |-> IF i < 2 * SubBlock THEN TdCoeffs(todo[1].to[2])[i] ELSE 0])

\* Mutant: the block that came out is kept as the rest.
Kept(offset, result) == [i \in Whole |-> IF i < SubBlock THEN result[i] ELSE 0]

\* What the next turn overlaps with: the samples that went in.
Rest(offset, result) == [i \in Whole |-> IF i < SubBlock THEN cbuf[<<"buf", 0>>][offset + i] ELSE 0]

\* A turn of the loop in subsample_update, at the offset in to[2].
SubsampleTurn ==
  /\ todo # <<>> /\ todo[1].op = "td_convolve"
  /\ LET offset == todo[1].to[2]
         buf == cbuf[<<"buf", 0>>]
         block == [i \in 0 .. 2 * SubBlock - 1 |->
                     IF i < SubBlock THEN cbuf[<<"rest", 0>>][i] ELSE buf[offset + i - SubBlock]]
         result == TdConvolve(By, block)
     IN  cbuf' = [cbuf EXCEPT
                    ![<<"rest", 0>>] = Rest(offset, result),
                    ![<<"buf", 0>>] = [i \in Whole |->
                                         IF offset <= i /\ i < offset + SubBlock
                                         THEN result[i - offset] ELSE buf[i]]]
  /\ todo' = Tail(todo)
  /\ UNCHANGED <<length, realsize, net, nCoeffs, subdelay, fed, chosen>>

Next ==
  \/ \E x \in Blocks(length) : TakeBlock(x)
  \/ \E x \in Blocks(length) : \E s \in -StepCount .. StepCount : SubsampleUpdate(x, s)
  \/ ToCbuf \/ RuntimeToCbuf \/ Dump \/ Time2FreqCall \/ Freq2TimeCall
  \/ MixInputCall \/ MixOutputCall
  \/ ConvolveCall \/ ConvolveAddCall \/ ConvolveInplaceCall \/ DiracConvolveCall
  \/ CrossfadeCall \/ EvalCall
  \/ TdNew \/ SubsampleTurn

Spec == Init /\ [][Next]_vars

-----------------------------------------------------------------------------
(* Properties.                                                             *)

Done == todo = <<>> /\ fed # <<>>

\* Sample t of channel c, since the first block; the channels of a mixed
\* network are scaled and added.
Sample(c, t) == IF t < 0 THEN 0 ELSE ChannelBlock(fed[t \div length + 1], c)[t % length]

Signal(t) ==
  IF net = "mixed" THEN Sum([c \in 0 .. 2 |-> (InScale + c) * Sample(c + 1, t)], 3)
  ELSE IF net = "subsample" THEN Sample(1, t)
  ELSE InScale * Sample(1, t)

\* The convolution by its definition: the signal at time t through n taps.
Direct(taps(_), n, signal(_), t) == Sum([i \in 0 .. n - 1 |-> taps(i) * signal(t - i)], n)

TapCount == IF net = "partitioned" THEN 2 * length ELSE length
Filter(name, t, signal(_)) ==
  LET taps(i) == IF i < nCoeffs THEN CoeffScale * Taps(name, i) ELSE 0
  IN  Direct(taps, TapCount, signal, t)

\* What should come out at time t.
Expected(t) ==
  CASE net \in {"single", "runtime", "partitioned"} -> OutScale * Filter("A", t, Signal)
    [] net = "series" ->
         LET between(u) == OutScale * InScale * Filter("A", u, Signal)
         IN  OutScale * Filter("B", t, between)
    [] net = "dirac" -> OutScale * InScale * OutScale * Signal(t)
    [] net = "mixed" -> OutScale * Filter("A", t, Signal) + (OutScale + 1) * Filter("B", t, Signal)
    [] net = "crossfade" ->
         LET part == Inverse(length - 1) * (t % length)
         IN  OutScale * ((1 - part) * Filter("A", t, Signal) + part * Filter("B", t, Signal))

Time(j) == (Len(fed) - 1) * length + j

\* Cbufs hold numbers of the field.
TypeOK ==
  /\ length \in Lengths /\ realsize \in RealSizes /\ net \in Nets /\ nCoeffs \in CoeffLengths
  /\ DOMAIN cbuf = Buffers /\ \A b \in Buffers : cbuf[b] \in [Whole -> 0 .. P - 1]
  /\ Len(chosen) = Len(fed) /\ Len(fed) <= MaxBlocks

\* Block for block, every network gives the convolution of all that was fed
\* to it with its coefficients: the halves of the overlap, the order of the
\* spectra, the places of the unpaired entries, the partitions of a long
\* filter, filters in series and the scales fit together
\* (fftw_convolver.cpp:152-403, 474-567, 858-1556).  A crossfade starts at
\* the output of the old coefficients and ends at that of the new ones, in
\* floats (268-321); with doubles it ends at whatever lies behind the buffer.
\* What is written for debugging are the coefficients as given (604-651).
OutputIsConvolution ==
  /\ TypeOK
  /\ Done /\ net # "subsample" /\ (net = "crossfade" => realsize = 4) =>
       \A j \in Half : cbuf[<<"otime", 0>>][j] = Expected(Time(j)) % P
  /\ Done /\ net = "single" =>
       \A i \in Half :
         cbuf[<<"dump", 0>>][i] = IF i < nCoeffs THEN (CoeffScale * Taps("A", i)) % P ELSE 0

\* Only the first block of the subsample delay, and only after a call with a
\* delay out of range, overlaps with something older than the call before.
OverlapsStale(j) ==
  j < SubBlock /\ Len(fed) > 1 /\ chosen[Len(fed) - 1] \notin SubSteps

\* The subsample delay goes on over the edges of its blocks and of the
\* fragments, also when the delay changes; a call with a delay out of range
\* leaves the fragment as it is (delay.cpp:148-180).
SubsampleIsSeamless ==
  Done /\ net = "subsample" =>
    \A j \in Half :
      IF subdelay \notin SubSteps THEN cbuf[<<"buf", 0>>][j] = fed[Len(fed)][j]
      ELSE \/ OverlapsStale(j)
           \/ cbuf[<<"buf", 0>>][j] =
                Direct(LAMBDA n : SubFilter(subdelay, n), SubFilterLength, Signal, Time(j))

================================================================================
