---------------------------- MODULE MCSingleSiteRun ----------------------------
(* SingleSiteRun, the run on one deployment, with the symmetry TLC may use. *)
EXTENDS SingleSiteRun, TLC

\* The clients are interchangeable.
ClientSymmetry == Permutations(Clients)
=============================================================================
