---------------------------- MODULE MCActionServer ----------------------------
(***************************************************************************)
(* Instances of ActionServer for TLC.                                      *)
(***************************************************************************)
EXTENDS ActionServer

CONSTANTS w1, w2, g1

=============================================================================
