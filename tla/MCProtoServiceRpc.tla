-------------------------- MODULE MCProtoServiceRpc --------------------------
(***************************************************************************)
(* Instances of ProtoServiceRpc for TLC: one client and one server of one  *)
(* service.                                                                *)
(***************************************************************************)
EXTENDS ProtoServiceRpc

CONSTANTS t1, c1, p1, s1, svcA, m1, default, detections

MCClientOf == [t \in Threads |-> c1]

MCProcessOf == [c \in Clients |-> p1]

MCServiceOf == [c \in Clients |-> svcA]

MCServedBy == [s \in Servers |-> svcA]

=============================================================================
