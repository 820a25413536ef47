------------------------------ MODULE MCActions ------------------------------
(***************************************************************************)
(* Instances of Actions for TLC: one client and one application thread of  *)
(* the server.                                                             *)
(***************************************************************************)
EXTENDS Actions

CONSTANTS t1, c1, actA, w1

MCClientOf == [t \in Threads |-> c1]
MCActionOf == [c \in Clients |-> actA]
MCGoalsOf == [c \in Clients |-> MaxGoals]

=============================================================================
