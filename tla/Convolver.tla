------------------------------- MODULE Convolver -------------------------------
(***************************************************************************)
(* The partitioned convolution engine, class brutefir: per input channel a *)
(* pair of time-domain buffers that overlap by a block, a ring of nBlocks  *)
(* transformed windows, and the counters that run() and reset() move.      *)
(*                                                                         *)
(* Samples are abstracted to blocks.  The block given to the k-th          *)
(* successful run() carries the number k, silence is 0, a block in which a *)
(* value is not finite is BAD, and a finite block that came together with  *)
(* a bad one on another channel is LOST.  A window is the pair of blocks   *)
(* that one transform covers; scaling, the transforms and the sum over     *)
(* the coefficient blocks are exact, so that an output is known by which   *)
(* window each coefficient block was multiplied with.                      *)
(***************************************************************************)
EXTENDS Integers, FiniteSets

CONSTANTS NChannels,   \* bfconf->n_channels
          BlockCounts, \* the filter_blocks a filter may be constructed with
          Wrap,        \* values of the unsigned blockcounter: 2^32 in the code
          MaxRuns,     \* bound: successful runs
          MaxResets    \* bound: calls of reset() after the constructor's

ASSUME ConvolverAssumption ==
  /\ NChannels \in Nat \ {0}
  /\ BlockCounts \subseteq Nat \ {0}
  /\ Wrap \in Nat /\ \A b \in BlockCounts : b <= Wrap
  /\ MaxRuns \in Nat /\ MaxResets \in Nat

VARIABLES nBlocks,      \* bfconf->n_blocks
          coeffBlocks,  \* coeffs[n].n_blocks, 0 while no coefficients are set
          timecbuf,     \* input_timecbuf[n][b]: its first and second half
          cbuf,         \* cbuf[n][slot], the ring of windows
          procblocks,   \* procblocks[n]
          curbuf,       \* which of the two input_timecbuf is current
          blockcounter,
          outbuf,       \* outbuf[n][i]: the window given to coefficient block i
          result,       \* of the last call, if that was run(): "ok", "failed"
          fed,          \* history: how many blocks were convolved
          base,         \* history: the value of fed at the last reset()
          resets,       \* history: calls of reset() after the constructor's
          bad           \* history: the bad channels of the last run()'s input

ring == <<timecbuf, cbuf, procblocks, curbuf, blockcounter>>
vars == <<nBlocks, coeffBlocks, ring, outbuf, result, fed, base, resets, bad>>

Channels == 0 .. NChannels - 1
BAD == -1
LOST == -2
Labels == {BAD, LOST} \cup Nat
Windows == Labels \X Labels
Silence == <<0, 0>>

TypeOK ==
  /\ nBlocks \in BlockCounts /\ coeffBlocks \in 0 .. nBlocks
  /\ timecbuf \in [Channels -> [{0, 1} -> Windows]]
  /\ cbuf \in [Channels -> [0 .. nBlocks - 1 -> Windows]]
  /\ procblocks \in [Channels -> 0 .. nBlocks]
  /\ curbuf \in {0, 1} /\ blockcounter \in 0 .. Wrap - 1
  /\ outbuf \in [Channels -> [0 .. nBlocks - 1 -> Windows]]
  /\ result \in {"none", "ok", "failed"}
  /\ fed \in Nat /\ base \in 0 .. fed /\ resets \in Nat
  /\ bad \subseteq Channels

-----------------------------------------------------------------------------
(* brutefir::brutefir, with init_buffers: all buffers are zero.            *)

Init ==
  /\ nBlocks \in BlockCounts /\ coeffBlocks = 0
  /\ timecbuf = [n \in Channels |-> [b \in {0, 1} |-> Silence]]
  /\ cbuf = [n \in Channels |-> [s \in 0 .. nBlocks - 1 |-> Silence]]
  /\ procblocks = [n \in Channels |-> 0]
  /\ curbuf = 0 /\ blockcounter = 0
  /\ outbuf = [n \in Channels |-> [i \in 0 .. nBlocks - 1 |-> Silence]]
  /\ result = "none" /\ fed = 0 /\ base = 0 /\ resets = 0 /\ bad = {}

\* Both set_coeff(): the filter's memory of its input stays as it is.  A
\* file that is refused or cannot be loaded leaves everything unchanged.
SetCoeff(k) ==
  /\ coeffBlocks' = k
  /\ result' = "none"
  /\ UNCHANGED <<nBlocks, ring, outbuf, fed, base, resets, bad>>

\* preprocess_coeff() has no coefficients for a channel: those that were set
\* before are freed by then, and the filter is no longer initialized.
SetCoeffFails ==
  /\ coeffBlocks' = 0
  /\ result' = "none"
  /\ UNCHANGED <<nBlocks, ring, outbuf, fed, base, resets, bad>>

-----------------------------------------------------------------------------
(* run(): x[n] is the block on channel n.                                  *)

\* Mutant: a block ahead instead of behind.
SlotAhead(i) == ((blockcounter + i) % Wrap) % nBlocks

\* (blockcounter - i) % n_blocks, in unsigned arithmetic.
Slot(i) == ((blockcounter - i) % Wrap) % nBlocks

\* convolver_raw2cbuf: the new block becomes the second half of the current
\* buffer and the first half of the other one.
TakeBlock(n, x) ==
  [timecbuf[n] EXCEPT ![curbuf] = <<@[1], x[n]>>, ![1 - curbuf] = <<x[n], @[2]>>]

PutWindow(n, x) == [cbuf[n] EXCEPT ![Slot(0)] = <<timecbuf[n][curbuf][1], x[n]>>]

\* Mutant: without the limit.
CountBlockForEver(n) == procblocks[n] + 1

CountBlock(n) == IF procblocks[n] < nBlocks THEN procblocks[n] + 1 ELSE procblocks[n]

\* The first coefficient block is always used, the others as far as blocks
\* have been processed.  With one block, ocbuf and cbuf share their memory,
\* and the window is written anew by each run.
Convolve(n, x) ==
  [i \in 0 .. nBlocks - 1 |->
     IF i < coeffBlocks /\ (i = 0 \/ i < CountBlock(n))
     THEN PutWindow(n, x)[Slot(i)] ELSE Silence]

\* Not a number spreads over the whole transform, so that the one sample
\* that is tested shows it wherever it was.
NotFinite(w) == \E i \in DOMAIN w : w[i][1] = BAD \/ w[i][2] = BAD

Fails(n, x) == NotFinite(Convolve(n, x))

\* The channels the loop gets to: it returns at the first one that fails.
Reached(x) == {n \in Channels : \A m \in 0 .. n - 1 : ~Fails(m, x)}

RunChannels(x) ==
  /\ timecbuf' = [n \in Channels |-> IF n \in Reached(x) THEN TakeBlock(n, x) ELSE timecbuf[n]]
  /\ cbuf' = [n \in Channels |-> IF n \in Reached(x) THEN PutWindow(n, x) ELSE cbuf[n]]
  /\ procblocks' = [n \in Channels |-> IF n \in Reached(x) THEN CountBlock(n) ELSE procblocks[n]]
  /\ outbuf' = [n \in Channels |->
                  IF n \in Reached(x) /\ ~Fails(n, x) THEN Convolve(n, x) ELSE outbuf[n]]

Advance ==
  /\ curbuf' = 1 - curbuf
  /\ blockcounter' = (blockcounter + 1) % Wrap

\* Mutant of the failing return: after the buffers were swapped.
StayPutSwapped ==
  /\ curbuf' = 1 - curbuf
  /\ UNCHANGED blockcounter

StayPut == UNCHANGED <<curbuf, blockcounter>>

RunSucceeds(x) ==
  /\ \A n \in Channels : ~Fails(n, x)
  /\ RunChannels(x)
  /\ Advance
  /\ result' = "ok" /\ fed' = fed + 1
  /\ UNCHANGED <<nBlocks, coeffBlocks, base, resets>>

RunFails(x) ==
  /\ \E n \in Channels : Fails(n, x)
  /\ RunChannels(x)
  /\ StayPut
  /\ result' = "failed"
  /\ UNCHANGED <<nBlocks, coeffBlocks, fed, base, resets>>

\* The input, of which the channels in `faulty` are bad.
Input(faulty) ==
  [n \in Channels |-> IF n \in faulty THEN BAD ELSE IF faulty = {} THEN fed + 1 ELSE LOST]

Run(faulty) ==
  /\ coeffBlocks > 0
  /\ fed < MaxRuns
  /\ bad' = faulty
  /\ RunSucceeds(Input(faulty)) \/ RunFails(Input(faulty))

-----------------------------------------------------------------------------

\* reset() clears the counters and the overflow statistics, not the buffers.
Reset ==
  /\ resets < MaxResets
  /\ procblocks' = [n \in Channels |-> 0]
  /\ curbuf' = 0 /\ blockcounter' = 0
  /\ base' = fed /\ resets' = resets + 1
  /\ result' = "none"
  /\ UNCHANGED <<nBlocks, coeffBlocks, timecbuf, cbuf, outbuf, fed, bad>>

Next ==
  \/ \E k \in 1 .. nBlocks : SetCoeff(k)
  \/ SetCoeffFails
  \/ \E faulty \in SUBSET Channels : Run(faulty)
  \/ Reset

Spec == Init /\ [][Next]_vars

-----------------------------------------------------------------------------
(* Properties.                                                             *)

\* The indices into the ring are right as long as the counter has not
\* wrapped, or for ever if 2^32 is a multiple of n_blocks; and as long as no
\* run has failed before the ring was full, unless, again, 2^32 is a
\* multiple and the ring held nothing but silence.
RingInStep ==
  /\ Wrap % nBlocks = 0 \/ fed - base <= Wrap
  /\ (Wrap % nBlocks = 0 /\ resets = 0) \/ \A n \in Channels : procblocks[n] <= fed - base

\* What coefficient block i should have been multiplied with, s = fed - i:
\* only the first window after a reset() may hold an older block, in its
\* first half.
RightWindow(s, w) ==
  \/ s <= base /\ w = Silence
  \/ s > base /\ w = <<s - 1, s>>
  \/ s = base + 1 /\ resets > 0 /\ w[2] = s

\* Every block run() returns is the convolution of all the blocks it has
\* accepted since the constructor or the last reset(), whichever runs failed
\* in between, on whichever channel, and whenever coefficients were set
\* (brutefir.cpp:245-343, 346-367).
OutputIsConvolution ==
  result = "ok" /\ RingInStep =>
    \A n \in Channels : \A i \in 0 .. coeffBlocks - 1 : RightWindow(fed - i, outbuf[n][i])

\* A block with a bad value is rejected, and leaves nothing behind: the next
\* block is rejected only if it is bad itself, though the failing run has
\* written to the buffers and returned half way (brutefir.cpp:314-322).
BadInputLeavesNoTrace ==
  resets = 0 => /\ result = "failed" => bad # {}
                /\ result = "ok" => bad = {}

=============================================================================
