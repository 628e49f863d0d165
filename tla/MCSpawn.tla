------------------------------ MODULE MCSpawn ------------------------------
(***************************************************************************)
(* Instances of Spawn for TLC.                                             *)
(***************************************************************************)
EXTENDS Spawn

\* The goroutine of Start, and one that refills or evicts beside it.
MCGoroutines == {"main", "recycle"}

=============================================================================
