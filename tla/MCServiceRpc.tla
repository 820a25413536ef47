---------------------------- MODULE MCServiceRpc ----------------------------
(***************************************************************************)
(* Instances of ServiceRpc for TLC: two clients in one process, each with  *)
(* a thread of its own, that call different services or one and the same.  *)
(***************************************************************************)
EXTENDS ServiceRpc

CONSTANTS t1, t3, c1, c2, p1, s1, s2, d1, d2, svcA, svcB, m1

MCClientOf == [t \in Threads |-> IF t = t3 THEN c2 ELSE c1]

\* One process: the calls share a session counter.  When both read it before
\* either writes it they get one id, as two processes give out.
MCProcessOf == [c \in Clients |-> p1]

\* The clients call different services.
MCServiceOf == [c \in Clients |-> IF c = c2 THEN svcB ELSE svcA]

\* The clients call one service: all responses come on one topic.
MCSharedService == [c \in Clients |-> svcA]

MCServedBy == [s \in Servers |-> IF s = s2 THEN svcB ELSE svcA]

\* Each server's requests arrive on a thread of their own.
MCOneThreadEach == [s \in Servers |-> IF s = s2 THEN d2 ELSE d1]

\* A thread's session id and its promise's response count while it uses them.
UsesId(t) == pc[t] \in Filed \cup {"store", "register"} \/ outcome[t] = "value"
UsesValue(t) == pc[t] \in Filed \/ outcome[t] = "value"

\* What tells states apart with one server whose mdds keeps readers: where
\* offer() is does not matter once the reader is there, all responses are on
\* the server's topic, and no client looks at the error of one.
MCView ==
    <<nextSessionId, pc, pending, future, calls, issued, requests, leaked, handlers,
      {t \in Threads : outcome[t] = "value"},
      [t \in Threads |-> IF UsesId(t) THEN sessionId[t] ELSE 0],
      [t \in Threads |-> IF UsesValue(t) /\ value[t] # NoResponse THEN value[t].call
                         ELSE NoResponse],
      {r.call : r \in responses},
      {s \in Servers : reader[s] # "none"}>>

=============================================================================
