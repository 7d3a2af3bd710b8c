----------------------------- MODULE DelayService -----------------------------
(***************************************************************************)
(* What a delay line promises its user: every fragment that goes in comes  *)
(* out with each sample replaced by the one `curdelay' samples older.  A   *)
(* longer delay begins with silence; a shorter one may let samples from    *)
(* before the change be heard, in any order, but not for a sample longer   *)
(* than the new delay, and the samples from after the change are exact.    *)
(***************************************************************************)
EXTENDS Integers

CONSTANTS FragSize, \* samples of a fragment
          Requests  \* the delays that may be asked for

VARIABLES exact,    \* the line is of a kind that keeps the promise
          maxdelay, \* the largest delay, negative if it cannot be changed
          curdelay, \* the delay in force
          taken,    \* how many samples went in; sample s is the s-th of them
          since,    \* the value of taken when the delay was set
          grown,    \* the delay was set to a longer one than before
          out       \* the last fragment that came out; 0 is silence

vars == <<exact, maxdelay, curdelay, taken, since, grown, out>>

Cells == 0 .. FragSize - 1

Init ==
  /\ exact \in BOOLEAN
  /\ maxdelay \in Int /\ curdelay \in Nat
  /\ taken = 0 /\ since = 0 /\ grown = TRUE
  /\ out = [k \in Cells |-> 0]

Accepted(d) == d # curdelay /\ d <= maxdelay

\* What may stand in cell k: the sample that is due or, when that one went
\* in before the delay was set, silence, and with a shorter delay any
\* sample from before.
Due(k, v) ==
  LET s == taken + k + 1 - curdelay' IN
  IF s > since' THEN v = s ELSE IF grown' THEN v = 0 ELSE v \in 0 .. since'

Update(d) ==
  /\ curdelay' = IF Accepted(d) THEN d ELSE curdelay
  /\ since' = IF Accepted(d) THEN taken ELSE since
  /\ grown' = IF Accepted(d) THEN d > curdelay ELSE grown
  /\ taken' = taken + FragSize
  /\ exact => \A k \in Cells : Due(k, out'[k])
  /\ UNCHANGED <<exact, maxdelay>>

Next == \E d \in Requests : Update(d)

Spec == Init /\ [][Next]_vars

===============================================================================
