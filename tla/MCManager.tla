----------------------------- MODULE MCManager -----------------------------
(***************************************************************************)
(* Instances of Manager for TLC. Execute calls are interchangeable.        *)
(***************************************************************************)
EXTENDS Manager, TLC

Symmetry == Permutations(Requests \ Runs)

=============================================================================
