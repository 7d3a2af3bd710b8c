------------------------------ MODULE MCDelayLine ------------------------------
(* Values for the constants of DelayLine that a configuration cannot write. *)
EXTENDS DelayLine

\* The delay cannot be changed; no delay at all; one that fits a fragment;
\* one that takes several fragments and a rest.
MCMaxDelays == {-1, 0, 2, 5}

================================================================================
