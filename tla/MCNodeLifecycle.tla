--------------------------- MODULE MCNodeLifecycle ---------------------------
(***************************************************************************)
(* Instances of NodeLifecycle for TLC: one node driven by two threads, and *)
(* two nodes of one process.                                               *)
(***************************************************************************)
EXTENDS NodeLifecycle

CONSTANTS t1, t2, n1, n2

=============================================================================
