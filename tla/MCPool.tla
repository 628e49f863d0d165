------------------------------- MODULE MCPool -------------------------------
(***************************************************************************)
(* Instances of Pool for TLC. Requests are interchangeable in every        *)
(* definition, so the set of requests is a symmetry set; sentry IDs are    *)
(* numbered in the order of their spawns and are not.                      *)
(***************************************************************************)
EXTENDS Pool, TLC

Symmetry == Permutations(Requests)

=============================================================================
