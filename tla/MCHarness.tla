----------------------------- MODULE MCHarness -----------------------------
(***************************************************************************)
(* Instances of Harness for TLC.                                           *)
(***************************************************************************)
EXTENDS Harness

CONSTANTS q1, q2

MCRequests == {q1, q2}

\* q1 can reach both limits and fill a pipe beyond; q2 only starts and ends,
\* beside it: requests meet in the exit of the process and nowhere else.
MCLimit == [f \in Streams |-> IF f = "stdout" THEN 2 ELSE 1]
MCMaxWrites == [q \in MCRequests |-> IF q = q1 THEN 3 ELSE 0]
MCForking == {q1}

=============================================================================
