------------------------------ MODULE MCPipes ------------------------------
(***************************************************************************)
(* Pipes on a small instance: a value that a configuration cannot write.   *)
(***************************************************************************)
EXTENDS Pipes, TLC

\* Three nodes: 0 throws to itself or to 1, 1 to 0 or 2, 2 to 1.
MCSiec == 0 :> {0, 1} @@ 1 :> {0, 2} @@ 2 :> {1}

\* The amounts that a number may change by.
MCLosowe == {-1, 0, 1}
=============================================================================
