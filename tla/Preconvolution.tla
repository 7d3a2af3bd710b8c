------------------------------ MODULE Preconvolution ------------------------------
(***************************************************************************)
(* What preprocessor::convolve_impulses() computes from a chain of         *)
(* impulses: a filter is given a dirac impulse, each impulse is sent       *)
(* through it, and what comes out becomes the filter's coefficients for    *)
(* the next.  Samples are integers, all channels hold the same.  The       *)
(* chain is a sequence of [data, scale].                                   *)
(***************************************************************************)
EXTENDS Integers, Sequences

CONSTANT FilterLength \* FILTER_LEN

ASSUME FilterAssumption == FilterLength \in Nat \ {0}

\* f[0] + ... + f[n - 1]
Sum(f, n) ==
  LET s[k \in 0 .. n] == IF k = 0 THEN 0 ELSE s[k - 1] + f[k - 1] IN s[n]

Longer(m, n) == IF m > n THEN m ELSE n

\* util::get_next_multiple, of which there is at least one.
NextMultiple(value, factor) == Longer(1, (value + factor - 1) \div factor) * factor

\* Sample n of s, counted from 0; silence around it.
Sample(s, n) == IF n >= 0 /\ n < Len(s) THEN s[n + 1] ELSE 0

Padded(s, length) == [n \in 1 .. length |-> Sample(s, n - 1)]

\* set_coeff is told that the buffers are as long as one block of the filter,
\* so that preprocess_coeff leaves the others silent.
Coefficients(out, scale) == [n \in 1 .. FilterLength |-> scale * out[n]]

\* The filter's next outputs, for so many samples that follow the input it
\* has had so far.
Run(coeffs, before, input) ==
  LET x == before \o input
      terms(n) == [k \in 0 .. Len(coeffs) - 1 |-> coeffs[k + 1] * Sample(x, Len(before) + n - 1 - k)]
  IN  [n \in 1 .. Len(input) |-> Sum(terms(n), Len(coeffs))]

\* Mutant: a scale too late.
ScaleLate(chain, j) == IF j = 1 THEN 1 ELSE chain[j - 1].scale

\* An impulse's scale is applied to what has come out for it.
ScaleOf(chain, j) == chain[j].scale

\* What is loaded of the impulse s into a buffer of the whole filter.
Loaded(s, frames) ==
  LET length == NextMultiple(frames, FilterLength)
  IN  IF Len(s) > length THEN SubSeq(s, 1, length) ELSE s

\* After each impulse: the filter's coefficients, its memory, which it keeps
\* from one impulse to the next, and what has come out.
Turns(chain, length) ==
  LET turn[j \in 0 .. Len(chain)] ==
        IF j = 0
        THEN [coeffs |-> Padded(<<1>>, FilterLength), before |-> <<>>, out |-> Padded(<<>>, length)]
        ELSE LET input == Padded(chain[j].data, length)
                 out == Run(turn[j - 1].coeffs, turn[j - 1].before, input)
             IN  [coeffs |-> Coefficients(out, ScaleOf(chain, j)),
                  before |-> turn[j - 1].before \o input,
                  out |-> out]
  IN  turn

\* The convolved chain, for which so many frames are saved.
Preconvolved(chain, frames) ==
  SubSeq(Turns(chain, NextMultiple(frames, FilterLength))[Len(chain)].out, 1, frames)

-----------------------------------------------------------------------------
(* What it is for.                                                         *)

Convolution(a, b) ==
  LET terms(n) == [k \in 0 .. Len(a) - 1 |-> Sample(a, k) * Sample(b, n - 1 - k)]
  IN  [n \in 1 .. (IF a = <<>> \/ b = <<>> THEN 0 ELSE Len(a) + Len(b) - 1) |-> Sum(terms(n), Len(a))]

\* The convolutions of the first impulses of the chain, with the first
\* `scales' scales.
Singles(chain, scales) ==
  LET s[j \in 0 .. Len(chain)] ==
        IF j = 0 THEN <<1>>
        ELSE LET x == Convolution(s[j - 1], chain[j].data)
             IN  [n \in DOMAIN x |-> x[n] * (IF j <= scales THEN chain[j].scale ELSE 1)]
  IN  s

Single(chain, scales) == Singles(chain, scales)[Len(chain)]

\* How many samples the first impulses make.
Reach(chain) ==
  LET r[j \in 0 .. Len(chain)] == IF j = 0 THEN 1 ELSE r[j - 1] + Len(chain[j].data) - 1
  IN  r

\* All impulses but the last, convolved, fit into a block; the last does not.
FitsOneBlock(chain) ==
  /\ Reach(chain)[Len(chain) - 1] <= FilterLength
  /\ Len(chain[Len(chain)].data) > FilterLength

================================================================================
