------------------------------ MODULE MCSpectrum ------------------------------
(* Values for the constants of Spectrum that a configuration cannot write. *)
EXTENDS Spectrum

\* Coefficients without any regularity, some of them zero.
MCTaps(name, n) ==
  CASE name = "A" -> (n * n + 5 * n + 1) % P
    [] name = "B" -> (n * n * n + 2 * n + 3) % P
    [] name = "early" -> (7 * n + 2) % P
    [] name = "late" -> (n * n + 9) % P

\* The first and the last sample alone, and a block of many values.
MCBlocks(n) ==
  {[k \in 0 .. n - 1 |-> IF k = i THEN 1 ELSE 0] : i \in {0, n - 1}}
  \cup {[k \in 0 .. n - 1 |-> (3 * k * k + k + 2) % P]}

================================================================================
