------------------------------ MODULE MCSettings ------------------------------
(***************************************************************************)
(* An instance of Settings: a file that clips by more than the sliders can *)
(* take back.                                                              *)
(***************************************************************************)
EXTENDS Settings

MCFileNames == {"overloud"}
MCAttenuation == [f \in MCFileNames |-> -2]
MCRequests == {-2}

=============================================================================
