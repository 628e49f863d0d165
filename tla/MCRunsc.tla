------------------------------ MODULE MCRunsc ------------------------------
(***************************************************************************)
(* Instances of Runsc for TLC: a configuration with --warm-sentry.         *)
(***************************************************************************)
EXTENDS Runsc

MCCalls == {"a", "b", "c", "d"}
WarmFlags == <<"--warm-sentry", "--debug">>

=============================================================================
