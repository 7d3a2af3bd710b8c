------------------------------ MODULE MCDspChunk ------------------------------
(***************************************************************************)
(* DspChunk with a mono and two stereo formats: channels and rate change,  *)
(* together and apart, to more channels and to fewer.                      *)
(***************************************************************************)
EXTENDS DspChunk

MCFormats ==
  {[channels |-> 1, rate |-> 44], [channels |-> 2, rate |-> 44], [channels |-> 2, rate |-> 96]}

=============================================================================
