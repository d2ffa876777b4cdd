------------------------------ MODULE MCRunStream ------------------------------
(* RunStream with a few events; a viewer is any viewer. *)
EXTENDS RunStream, TLC

\* Neither the emitters nor the viewers are told apart.
StreamSymmetry == Permutations(Emitters) \cup Permutations(Viewers)
=============================================================================
