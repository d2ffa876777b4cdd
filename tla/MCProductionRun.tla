---------------------------- MODULE MCProductionRun ----------------------------
(* ProductionRun on one or several deployments, with the symmetry TLC may use. *)
EXTENDS ProductionRun, TLC

\* The clients are interchangeable.
ClientSymmetry == Permutations(Clients)
=============================================================================
