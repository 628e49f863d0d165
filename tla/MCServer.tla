------------------------------ MODULE MCServer ------------------------------
(***************************************************************************)
(* Instances of Server for TLC: connections that drain and ones that do    *)
(* not.                                                                    *)
(***************************************************************************)
EXTENDS Server

MCDrains2 == {"d1", "d2"}
MCConns3 == {"d1", "d2", "c1"}
MCDrains1 == {"d1"}
MCConns2 == {"d1", "c1"}

=============================================================================
