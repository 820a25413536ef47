--------------------------- MODULE MCPendingCalls ---------------------------
(***************************************************************************)
(* Instances of PendingCalls for TLC: two threads share one ServiceClient, *)
(* a third, where it exists, uses another client of the same process, so   *)
(* that the session counter is contended within and across clients.        *)
(***************************************************************************)
EXTENDS PendingCalls

CONSTANTS t1, t2, t3, c1, c2, p1

MCClientOf == [t \in Threads |-> IF t = t3 THEN c2 ELSE c1]
MCProcessOf == [c \in Clients |-> p1]

=============================================================================
