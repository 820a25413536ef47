------------------------ MODULE ProtoServiceRpcProofs ------------------------
(***************************************************************************)
(* Proofs about ProtoServiceRpc, for any number of threads, clients,       *)
(* servers and processes.                                                  *)
(***************************************************************************)
EXTENDS ProtoServiceRpc, PendingCallsProofs

-----------------------------------------------------------------------------
(* The client's half is PendingCalls *)

LEMMA ServerLeavesClients ==
    ASSUME NEW s \in Servers, ServerStep(s)
    PROVE  UNCHANGED clientVars
BY DEF ServerStep, OfferSubscribes, OfferReturns, StopOffer, RegisterMethod, Receive,
   HandlerEnds, MethodNotFound, HandlerReturns, HandlerThrows, HandlerMiscast,
   HandlerRegisters, Respond

LEMMA TableStepSimulated ==
    ProtoTypeOK /\ [ProtoNext]_protoVars => [TableNext]_tableVars
<1> SUFFICES ASSUME ProtoTypeOK, [ProtoNext]_protoVars PROVE [TableNext]_tableVars
  OBVIOUS
<1>1. ASSUME NEW t \in Threads, ClientStep(t) PROVE [TableNext]_tableVars
  BY <1>1 DEF ClientStep, TableOnly, File, Write, WriteTooLong, WriteNull, Leave,
     TableNext, TableStep, clientVars
<1>2. ASSUME NEW c \in Clients, NEW r \in responses, Deliver(c, r)
      PROVE  TableNext
  <2>1. r.call.sid \in SessionIds
    BY DEF ProtoTypeOK, Responses, CallIds
  <2> QED
    BY <1>2, <2>1 DEF Deliver, TableNext
<1>3. ASSUME NEW s \in Servers, ServerStep(s) PROVE UNCHANGED tableVars
  BY <1>3, ServerLeavesClients DEF clientVars
<1>4. ASSUME NEW c \in Clients, Connect(c) PROVE UNCHANGED tableVars
  BY <1>4 DEF Connect
<1>5. CASE UNCHANGED protoVars
  BY <1>5 DEF protoVars, clientVars
<1> QED
  BY <1>1, <1>2, <1>3, <1>4, <1>5 DEF ProtoNext, ClientReceives

LEMMA ProtoTypeStep == ProtoTypeOK /\ [ProtoNext]_protoVars => ProtoTypeOK'
<1> SUFFICES ASSUME ProtoTypeOK, [ProtoNext]_protoVars PROVE ProtoTypeOK'
  OBVIOUS
<1> USE CallersAssumption, ProtoAssumption
<1>1. TableTypeOK'
  BY TableStepSimulated, TypeStep DEF ProtoTypeOK
<1> USE DEF ProtoTypeOK, clientVars, endpointVars, callVars, transportVars, serverVars,
        offerVars, handlingVars
<1>2. ASSUME NEW t \in Threads, TableOnly(t) PROVE ProtoTypeOK'
  BY <1>1, <1>2 DEF TableOnly
<1>3. ASSUME NEW t \in Threads, File(t) PROVE ProtoTypeOK'
  BY <1>1, <1>3 DEF File
<1>4. ASSUME NEW t \in Threads, Write(t) PROVE ProtoTypeOK'
  <2>1. ASSUME NEW m \in Methods
        PROVE  [service |-> ServiceOf[ClientOf[t]], call |-> Issue(t), method |-> m]
                   \in Requests
    BY DEF Requests, CallIds, Issue, TableTypeOK
  <2> QED
    BY <1>1, <1>4, <2>1 DEF Write
<1>5. ASSUME NEW t \in Threads, WriteTooLong(t) PROVE ProtoTypeOK'
  BY <1>1, <1>5 DEF WriteTooLong
<1>6. ASSUME NEW t \in Threads, WriteNull(t) PROVE ProtoTypeOK'
  BY <1>1, <1>6 DEF WriteNull
<1>7. ASSUME NEW t \in Threads, Leave(t) PROVE ProtoTypeOK'
  BY <1>1, <1>7 DEF Leave
<1>8. ASSUME NEW c \in Clients, NEW r \in responses, Deliver(c, r) PROVE ProtoTypeOK'
  BY <1>1, <1>8 DEF Deliver
<1>9. ASSUME NEW c \in Clients, Connect(c) PROVE ProtoTypeOK'
  BY <1>1, <1>9 DEF Connect
<1>10. ASSUME NEW s \in Servers, OfferSubscribes(s) PROVE ProtoTypeOK'
  BY <1>1, <1>10 DEF OfferSubscribes
<1>11. ASSUME NEW s \in Servers, OfferReturns(s) PROVE ProtoTypeOK'
  BY <1>1, <1>11 DEF OfferReturns
<1>12. ASSUME NEW s \in Servers, StopOffer(s) PROVE ProtoTypeOK'
  <2>1. disturbed' \subseteq Servers /\ dead' \subseteq Processes \cup Servers
    BY <1>12 DEF StopOffer
  <2> QED
    BY <1>1, <1>12, <2>1 DEF StopOffer
<1>13. ASSUME NEW s \in Servers, NEW m \in Methods, RegisterMethod(s, m)
       PROVE  ProtoTypeOK'
  BY <1>1, <1>13 DEF RegisterMethod
<1>14. ASSUME NEW s \in Servers, NEW q \in requests, Receive(s, q) PROVE ProtoTypeOK'
  BY <1>1, <1>14 DEF Receive
<1>15. ASSUME NEW s \in Servers, NEW e \in Errors, NEW p \in Replies, Respond(s, e, p),
              handling[s] # NoRequest, replied' \subseteq [call : CallIds, reply : Replies]
       PROVE  ProtoTypeOK'
  <2>1. handling[s].call \in CallIds
    BY <1>15 DEF Requests
  <2>2. [service |-> ServedBy[s], call |-> handling[s].call, error |-> e, payload |-> p]
            \in Responses
    BY <2>1 DEF Responses
  <2> QED
    BY <1>1, <1>15, <2>2 DEF Respond
<1>16. ASSUME NEW s \in Servers, HandlerEnds(s) PROVE ProtoTypeOK'
  <2>1. ASSUME MethodNotFound(s) \/ HandlerThrows(s) PROVE ProtoTypeOK'
    BY <1>15, <2>1 DEF MethodNotFound, HandlerThrows, Misses, Handles, Errors
  <2>2. ASSUME NEW reply \in Replies, HandlerReturns(s, reply) PROVE ProtoTypeOK'
    <3>1. handling[s].call \in CallIds
      BY <2>2 DEF HandlerReturns, Handles, Requests
    <3> QED
      BY <1>15, <2>2, <3>1 DEF HandlerReturns, Handles, Errors
  <2> QED
    BY <1>16, <2>1, <2>2 DEF HandlerEnds
<1>17. ASSUME NEW s \in Servers, HandlerMiscast(s) \/ HandlerRegisters(s)
       PROVE  ProtoTypeOK'
  BY <1>1, <1>17 DEF HandlerMiscast, HandlerRegisters
<1>18. CASE UNCHANGED protoVars
  BY <1>1, <1>18 DEF protoVars
<1> QED
  BY <1>2, <1>3, <1>4, <1>5, <1>6, <1>7, <1>8, <1>9, <1>10, <1>11, <1>12, <1>13, <1>14,
     <1>16, <1>17, <1>18 DEF ProtoNext, ClientStep, ClientReceives, ServerStep

LEMMA ProtoTypeInit == ProtoInit => ProtoTypeOK
BY TypeInit, ProtoAssumption DEF ProtoInit, ProtoTypeOK

LEMMA ProtoTypeInvariant == ProtoSafety => []ProtoTypeOK
BY ProtoTypeInit, ProtoTypeStep, PTL DEF ProtoSafety

\* Every variable of the model keeps its type.
THEOREM ProtoTypeCorrect == ProtoSafety => []ProtoTypeOK
BY ProtoTypeInvariant

\* A ProtoServiceClient's table is that of PendingCalls, too: the session ids
\* and pending promises of both kinds of client obey one specification.
THEOREM ProtoImplementsTable == ProtoSafety => TableSafety
<1>1. ProtoInit => TableInit
  BY DEF ProtoInit
<1> QED
  BY <1>1, ProtoTypeInvariant, TableStepSimulated, PTL DEF ProtoSafety, TableSafety

-----------------------------------------------------------------------------
(* The null publisher *)

\* offer() has returned once offered_ is set, and then response_pub_ has been
\* assigned; an undisturbed request is handled between offer() and
\* stop_offer().
OfferInv ==
    \A s \in Servers :
        /\ offering[s] => ~ offered[s]
        /\ offered[s] => responsePub[s] # "null"
        /\ (handling[s] # NoRequest /\ s \notin disturbed) => offered[s]
        /\ s \in dead =>
               \/ s \in disturbed \/ responsePub[s] = "failed"
               \/ handling[s] # NoRequest /\ handling[s].method \in Miscast

LEMMA OfferStep ==
    ASSUME ProtoTypeOK, OfferInv, [ProtoNext]_protoVars
    PROVE  OfferInv'
<1> USE ProtoAssumption
    DEF ProtoTypeOK, OfferInv, clientVars, transportVars, serverVars, offerVars,
        handlingVars
<1>1. ASSUME UNCHANGED <<serverVars, dead>> PROVE OfferInv'
  BY <1>1
<1>2. ASSUME NEW t \in Threads, ClientStep(t) PROVE OfferInv'
  <2>1. ASSUME WriteNull(t) PROVE OfferInv'
    <3>1. dead' \cap Servers = dead \cap Servers
      BY <2>1, CallersAssumption DEF WriteNull
    <3> QED
      BY <2>1, <3>1 DEF WriteNull
  <2> QED
    BY <1>1, <1>2, <2>1 DEF ClientStep, TableOnly, File, Write, WriteTooLong, Leave
<1>3. ASSUME NEW c \in Clients, NEW r \in responses, Deliver(c, r) PROVE OfferInv'
  BY <1>1, <1>3 DEF Deliver
<1>4. ASSUME NEW c \in Clients, Connect(c) PROVE OfferInv'
  BY <1>1, <1>4 DEF Connect
<1>5. ASSUME NEW s \in Servers, s \notin dead, OfferSubscribes(s) PROVE OfferInv'
  BY <1>5 DEF OfferSubscribes
<1>6. ASSUME NEW s \in Servers, s \notin dead, OfferReturns(s) PROVE OfferInv'
  BY <1>6 DEF OfferReturns
<1>7. ASSUME NEW s \in Servers, s \notin dead, StopOffer(s) PROVE OfferInv'
  <2>1. CASE handling[s] = NoRequest
    BY <1>7, <2>1 DEF StopOffer
  <2>2. CASE handling[s] # NoRequest
    BY <1>7, <2>2 DEF StopOffer
  <2> QED
    BY <2>1, <2>2
<1>8. ASSUME NEW s \in Servers, NEW m \in Methods, RegisterMethod(s, m) PROVE OfferInv'
  BY <1>8 DEF RegisterMethod
<1>9. ASSUME NEW s \in Servers, s \notin dead, NEW q \in requests, Receive(s, q)
      PROVE  OfferInv'
  BY <1>9 DEF Receive
<1>10. ASSUME NEW s \in Servers, s \notin dead, NEW e, NEW p, Respond(s, e, p),
              handling[s] # NoRequest
       PROVE  OfferInv'
  BY <1>10 DEF Respond
<1>11. ASSUME NEW s \in Servers, s \notin dead, HandlerEnds(s) PROVE OfferInv'
  BY <1>10, <1>11 DEF HandlerEnds, MethodNotFound, HandlerThrows, HandlerReturns, Misses,
     Handles
<1>12. ASSUME NEW s \in Servers, HandlerMiscast(s) \/ HandlerRegisters(s)
       PROVE  OfferInv'
  BY <1>12 DEF HandlerMiscast, HandlerRegisters, Handles
<1>13. CASE UNCHANGED protoVars
  BY <1>1, <1>13 DEF protoVars
<1> QED
  BY <1>2, <1>3, <1>4, <1>5, <1>6, <1>7, <1>8, <1>9, <1>11, <1>12, <1>13
     DEF ProtoNext, ClientReceives, ServerStep

\* A server uses a null publisher only for a request that offer() or
\* stop_offer() overlapped, or when the publisher could not be created.
THEOREM NullPublisherOnlyDisturbed == ProtoSafety => []ServerDiesOnlyDisturbed
<1>1. ProtoInit => OfferInv
  BY DEF ProtoInit, OfferInv
<1>2. OfferInv => ServerDiesOnlyDisturbed
  BY DEF OfferInv, ServerDiesOnlyDisturbed
<1> QED
  BY <1>1, <1>2, OfferStep, ProtoTypeInvariant, PTL DEF ProtoSafety

-----------------------------------------------------------------------------
(* What a call returns *)

\* The service whose topics a call uses.
CallService(call) == ServiceOf[ClientOf[call.thread]]

\* What is on the wire or being handled belongs to a call that drew its id,
\* and every OK response to one that a handler returned from; every response is
\* an empty message.
Wire ==
    /\ \A q \in requests : q.call \in issued /\ q.service = CallService(q.call)
    /\ \A s \in Servers : handling[s] # NoRequest =>
           /\ handling[s].call \in issued
           /\ CallService(handling[s].call) = ServedBy[s]
    /\ \A r \in responses :
           /\ r.call \in issued /\ r.service = CallService(r.call)
           /\ r.payload = Default
           /\ r.error = "OK" => \E x \in replied : x.call = r.call

\* r came for a call with the id of t's call, on the topic of t's client.
CameFor(t, r) ==
    /\ Issue(t) \in issued /\ r \in responses
    /\ r.call.sid = sessionId[t] /\ r.service = ServiceOf[ClientOf[t]]

Got ==
    \A t \in Threads :
        /\ pc[t] \in Filed /\ future[t] = "value" => CameFor(t, value[t])
        /\ returned[t] # NoResponse =>
               pc[t] = "idle" /\ CameFor(t, returned[t]) /\ returned[t].error = "OK"

LEMMA WireStep ==
    ASSUME ProtoTypeOK, InHistory, Wire, [ProtoNext]_protoVars, issued \subseteq issued'
    PROVE  Wire' /\ responses \subseteq responses'
<1> USE DEF clientVars, transportVars, serverVars, offerVars, handlingVars
<1>1. ASSUME UNCHANGED <<transportVars, handling, replied>>
      PROVE  Wire' /\ responses \subseteq responses'
  BY <1>1 DEF Wire, CallService
<1>2. ASSUME NEW t \in Threads, Write(t) PROVE Wire' /\ responses \subseteq responses'
  <2>1. /\ Issue(t) \in issued
        /\ CallService(Issue(t)) = ServiceOf[ClientOf[t]]
    BY <1>2 DEF Write, Sent, Advance, Goto, InHistory, Filed, CallService, Issue
  <2> QED
    BY <1>2, <2>1 DEF Write, Wire, CallService
<1>3. ASSUME NEW t \in Threads, ClientStep(t)
      PROVE  Wire' /\ responses \subseteq responses'
  BY <1>1, <1>2, <1>3
     DEF ClientStep, TableOnly, File, WriteTooLong, WriteNull, Leave
<1>4. ASSUME NEW c \in Clients, NEW r \in responses, Deliver(c, r)
      PROVE  Wire' /\ responses \subseteq responses'
  BY <1>1, <1>4 DEF Deliver
<1>5. ASSUME NEW c \in Clients, Connect(c)
      PROVE  Wire' /\ responses \subseteq responses'
  BY <1>1, <1>5 DEF Connect
<1>6. ASSUME NEW s \in Servers, NEW m \in Methods, RegisterMethod(s, m)
      PROVE  Wire' /\ responses \subseteq responses'
  BY <1>1, <1>6 DEF RegisterMethod
<1>7. ASSUME NEW s \in Servers, OfferSubscribes(s) \/ OfferReturns(s) \/ StopOffer(s)
             \/ HandlerMiscast(s) \/ HandlerRegisters(s)
      PROVE  Wire' /\ responses \subseteq responses'
  BY <1>1, <1>7 DEF OfferSubscribes, OfferReturns, StopOffer, HandlerMiscast,
     HandlerRegisters
<1>8. ASSUME NEW s \in Servers, NEW q \in requests, Receive(s, q)
      PROVE  Wire' /\ responses \subseteq responses'
  BY <1>8 DEF Receive, Wire, CallService, ProtoTypeOK
<1>9. ASSUME NEW s \in Servers, handling[s] # NoRequest, NEW e,
             Respond(s, e, Default), replied \subseteq replied',
             e = "OK" => \E x \in replied' : x.call = handling[s].call
      PROVE  Wire' /\ responses \subseteq responses'
  <2>1. \A r \in responses' :
            \/ r \in responses
            \/ r = [service |-> ServedBy[s], call |-> handling[s].call, error |-> e,
                    payload |-> Default]
    BY <1>9 DEF Respond
  <2>2. responses \subseteq responses' /\ requests' = requests
    BY <1>9 DEF Respond
  <2>3. \A r \in responses' :
            /\ r.call \in issued' /\ r.service = CallService(r.call)
            /\ r.payload = Default
            /\ r.error = "OK" => \E x \in replied' : x.call = r.call
    BY <1>9, <2>1 DEF Wire
  <2>4. \A x \in Servers : handling'[x] # NoRequest => handling'[x] = handling[x]
    BY <1>9 DEF Respond, ProtoTypeOK
  <2> QED
    BY <2>2, <2>3, <2>4 DEF Wire, CallService
<1>10. ASSUME NEW s \in Servers, HandlerEnds(s)
       PROVE  Wire' /\ responses \subseteq responses'
  <2>1. ASSUME MethodNotFound(s) \/ HandlerThrows(s)
        PROVE  Wire' /\ responses \subseteq responses'
    BY <1>9, <2>1 DEF MethodNotFound, HandlerThrows, Misses, Handles
  <2>2. ASSUME NEW reply \in Replies, HandlerReturns(s, reply)
        PROVE  Wire' /\ responses \subseteq responses'
    <3>1. /\ replied \subseteq replied'
          /\ \E x \in replied' : x.call = handling[s].call
      <4> DEFINE x == [call |-> handling[s].call, reply |-> reply]
      <4>1. replied' = replied \cup {x}
        BY <2>2 DEF HandlerReturns
      <4>2. x.call = handling[s].call
        OBVIOUS
      <4> HIDE DEF x
      <4> QED
        BY <4>1, <4>2
    <3> QED
      BY <1>9, <2>2, <3>1 DEF HandlerReturns, Handles
  <2> QED
    BY <1>10, <2>1, <2>2 DEF HandlerEnds
<1>11. CASE UNCHANGED protoVars
  BY <1>1, <1>11 DEF protoVars
<1> QED
  BY <1>3, <1>4, <1>5, <1>6, <1>7, <1>8, <1>10, <1>11
     DEF ProtoNext, ClientReceives, ServerStep

\* A step that keeps what u's call was given, or returns it.
Keeps(u) ==
    /\ sessionId'[u] = sessionId[u] /\ calls'[u] = calls[u]
    /\ (pc'[u] \in Filed /\ future'[u] = "value") =>
           (pc[u] \in Filed /\ future[u] = "value" /\ value'[u] = value[u])
    /\ returned'[u] # NoResponse =>
           /\ pc'[u] = "idle"
           /\ \/ returned'[u] = returned[u]
              \/ /\ pc[u] \in Filed /\ future[u] = "value"
                 /\ returned'[u] = value[u] /\ value[u].error = "OK"

\* A step after which u's call has been given nothing.
Forgets(u) ==
    /\ ~ (pc'[u] \in Filed /\ future'[u] = "value")
    /\ returned'[u] = NoResponse

LEMMA GotThread ==
    ASSUME Got, NEW u \in Threads, issued \subseteq issued',
           responses \subseteq responses', Keeps(u) \/ Forgets(u)
    PROVE  /\ (pc'[u] \in Filed /\ future'[u] = "value") => CameFor(u, value[u])'
           /\ returned'[u] # NoResponse =>
                  /\ pc'[u] = "idle" /\ CameFor(u, returned[u])'
                  /\ returned'[u].error = "OK"
<1>1. CASE Keeps(u)
  <2>1. ASSUME NEW r, CameFor(u, r)
        PROVE  /\ Issue(u)' \in issued' /\ r \in responses'
               /\ r.call.sid = sessionId'[u] /\ r.service = ServiceOf[ClientOf[u]]
    BY <1>1, <2>1 DEF Keeps, CameFor, Issue
  <2>2. ASSUME pc'[u] \in Filed, future'[u] = "value" PROVE CameFor(u, value[u])'
    <3>1. value'[u] = value[u] /\ CameFor(u, value[u])
      BY <1>1, <2>2 DEF Keeps, Got
    <3> QED
      BY <2>1, <3>1 DEF CameFor
  <2>3. ASSUME returned'[u] # NoResponse
        PROVE  /\ pc'[u] = "idle" /\ CameFor(u, returned[u])'
               /\ returned'[u].error = "OK"
    <3>1. pc'[u] = "idle" /\ CameFor(u, returned'[u]) /\ returned'[u].error = "OK"
      BY <1>1, <2>3 DEF Keeps, Got
    <3>2. CameFor(u, returned[u])'
      BY <2>1, <3>1 DEF CameFor
    <3> QED
      BY <3>1, <3>2
  <2> QED
    BY <2>2, <2>3
<1>2. CASE Forgets(u)
  BY <1>2 DEF Forgets
<1> QED
  BY <1>1, <1>2

LEMMA GotStep ==
    ASSUME ProtoTypeOK, PendingOwned, InHistory, Got, [ProtoNext]_protoVars,
           issued \subseteq issued', responses \subseteq responses'
    PROVE  Got'
<1> USE CallersAssumption DEF clientVars, callVars, ProtoTypeOK, TableTypeOK
<1>1. \A u \in Threads : returned[u] # NoResponse => pc[u] = "idle"
  BY DEF Got
<1>2. ASSUME \A u \in Threads : Keeps(u) \/ Forgets(u) PROVE Got'
  BY <1>2, GotThread DEF Got
<1>3. ASSUME UNCHANGED clientVars PROVE \A u \in Threads : Keeps(u)
  BY <1>1, <1>3 DEF Keeps, tableVars
<1>4. ASSUME NEW t \in Threads, TableOnly(t), NEW u \in Threads
      PROVE  Keeps(u) \/ Forgets(u)
  <2>1. CASE u # t
    BY <1>1, <1>4, <2>1 DEF TableOnly, Begin, NoParticipant, LoadSessionId,
       StoreSessionId, SendFails, Prepared, WakeReady, WakeTimeout, Advance, Goto,
       Return, Erase, Abandon, Keeps
  <2>2. CASE u = t /\ pc[t] \in {"idle", "load"}
    BY <1>1, <1>4, <2>2 DEF TableOnly, Begin, NoParticipant, LoadSessionId,
       StoreSessionId, SendFails, Prepared, WakeReady, WakeTimeout, Advance, Goto,
       Return, Forgets, Filed
  <2>3. CASE u = t /\ pc[t] \notin {"idle", "load"}
    BY <1>1, <1>4, <2>3 DEF TableOnly, Begin, NoParticipant, LoadSessionId,
       StoreSessionId, SendFails, Prepared, WakeReady, WakeTimeout, Advance, Goto,
       Return, Erase, Abandon, Keeps, Filed
  <2> QED
    BY <2>1, <2>2, <2>3
<1>5. ASSUME NEW t \in Threads, File(t), NEW u \in Threads PROVE Keeps(u)
  BY <1>1, <1>5 DEF File, Register, Abandon, Goto, Keeps, Filed
<1>6. ASSUME NEW t \in Threads, Write(t) \/ WriteTooLong(t), NEW u \in Threads
      PROVE  Keeps(u)
  BY <1>1, <1>6 DEF Write, WriteTooLong, Sent, Advance, Goto, Keeps, Filed
<1>7. ASSUME NEW t \in Threads, WriteNull(t) PROVE \A u \in Threads : Keeps(u)
  BY <1>3, <1>7 DEF WriteNull
<1>8. ASSUME NEW t \in Threads, Leave(t), NEW u \in Threads PROVE Keeps(u)
  BY <1>1, <1>8 DEF Leave, FinishTimeout, FinishReady, Return, Goto, Erase, Abandon,
     Keeps, Filed
<1>9. ASSUME NEW c \in Clients, Connect(c), NEW u \in Threads PROVE Keeps(u)
  BY <1>1, <1>9 DEF Connect, tableVars, Keeps
<1>10. ASSUME NEW s \in Servers, ServerStep(s) PROVE \A u \in Threads : Keeps(u)
  BY <1>3, <1>10, ServerLeavesClients
<1>11. ASSUME NEW c \in Clients, NEW r \in responses, Deliver(c, r) PROVE Got'
  <2> DEFINE o == pending[c][r.call.sid]
  <2>1. r.call.sid \in SessionIds
    BY DEF Responses, CallIds
  <2>2. /\ o \in Threads /\ ClientOf[o] = c /\ sessionId[o] = r.call.sid
        /\ pc[o] \in Filed
    BY <1>11, <2>1 DEF PendingOwned, Deliver, Resolve
  <2>3. ASSUME NEW u \in Threads, u # o PROVE Keeps(u)
    BY <1>1, <1>11, <2>3 DEF Deliver, Resolve, Keeps
  <2>4. /\ value'[o] = r /\ returned'[o] = NoResponse
        /\ UNCHANGED <<sessionId, calls, issued, responses>>
    BY <1>1, <1>11, <2>2 DEF Deliver, Resolve, transportVars, Filed
  <2>5. r \in responses /\ r.service = ServiceOf[c] /\ Issue(o) \in issued
    BY <1>11, <2>2 DEF Deliver, InHistory
  <2>6. ASSUME NEW u \in Threads, u = o PROVE CameFor(u, value[u])'
    BY <2>2, <2>4, <2>5, <2>6 DEF CameFor, Issue
  <2> QED
    BY <2>3, <2>4, <2>6, GotThread DEF Got
<1>12. CASE UNCHANGED protoVars
  BY <1>2, <1>3, <1>12 DEF protoVars
<1> QED
  BY <1>2, <1>4, <1>5, <1>6, <1>7, <1>8, <1>9, <1>10, <1>11, <1>12
     DEF ProtoNext, ClientStep, ClientReceives

ReplyInv == ProtoTypeOK /\ TableSafe /\ InHistory /\ Wire /\ Got

LEMMA ReplyInvariant == ProtoSafety => []ReplyInv
<1>1. ProtoInit => ReplyInv
  <2> SUFFICES ASSUME ProtoInit PROVE ReplyInv
    OBVIOUS
  <2>1. TableSafe /\ InHistory
    BY CallersAssumption DEF ProtoInit, TableInit, TableSafe, PendingOwned,
       NoOrphanedWaiter, ReadyIsSet, InHistory, Filed
  <2>2. Wire /\ Got
    BY DEF ProtoInit, TableInit, Wire, Got, Filed
  <2> QED
    BY <2>1, <2>2, ProtoTypeInit DEF ReplyInv
<1>2. ReplyInv /\ [ProtoNext]_protoVars => ReplyInv'
  <2> SUFFICES ASSUME ReplyInv, [ProtoNext]_protoVars PROVE ReplyInv'
    OBVIOUS
  <2>1. ProtoTypeOK' /\ TableTypeOK /\ [TableNext]_tableVars
    BY ProtoTypeStep, TableStepSimulated DEF ReplyInv, ProtoTypeOK
  <2>2. TableSafe' /\ InHistory' /\ issued \subseteq issued'
    BY <2>1, SafeStep, HistoryStep DEF ReplyInv
  <2>3. Wire' /\ responses \subseteq responses'
    BY <2>2, WireStep DEF ReplyInv
  <2>4. Got'
    BY <2>2, <2>3, GotStep DEF ReplyInv, TableSafe
  <2> QED
    BY <2>1, <2>2, <2>3, <2>4 DEF ReplyInv
<1> QED
  BY <1>1, <1>2, PTL DEF ProtoSafety

\* What every call returns is an empty message, and its handler returned, if
\* the ids of calls to one service are distinct: neither a late response nor
\* one of another caller ends it.
THEOREM ValueWasHandled == ProtoSafety => []ValueMeansHandled
<1>1. ReplyInv => ValueMeansHandled
  <2> SUFFICES ASSUME ReplyInv, NEW t \in Threads, returned[t] # NoResponse
               PROVE  /\ returned[t].payload = Default
                      /\ IdsSeparate => \E x \in replied : x.call = Issue(t)
    BY DEF ValueMeansHandled
  <2> DEFINE r == returned[t]
  <2>1. CameFor(t, r) /\ r.error = "OK"
    BY DEF ReplyInv, Got
  <2>2. /\ r.call \in issued /\ r.service = CallService(r.call)
        /\ r.payload = Default
        /\ \E x \in replied : x.call = r.call
    BY <2>1 DEF ReplyInv, Wire, CameFor
  <2>3. Issue(t).sid = sessionId[t] /\ CallService(Issue(t)) = ServiceOf[ClientOf[t]]
    BY DEF Issue, CallService
  <2>4. ASSUME IdsSeparate PROVE r.call = Issue(t)
    BY <2>1, <2>2, <2>3, <2>4 DEF IdsSeparate, CameFor, CallService
  <2> QED
    BY <2>2, <2>4
<1> QED
  BY <1>1, ReplyInvariant, PTL

\* The table's promises hold for ProtoServiceClient too, crashes included: no
\* waiter is lost, and only an id clash makes a call throw.
THEOREM ProtoKeepsTablePromises ==
    ProtoSafety => [](PendingOwned /\ NoOrphanedWaiter /\ ThrowsOnlyOnClash)
<1>1. TableInv => PendingOwned /\ NoOrphanedWaiter /\ ThrowsOnlyOnClash
  BY DEF TableInv, TableSafe, NoBrokenPromise, ThrowsOnlyOnClash
<1> QED
  BY <1>1, ProtoImplementsTable, TableInvariant, PTL

\* Within a process the counter is enough: where the callers of a service share
\* it, its ids are drawn in turn and it has not wrapped, a call that returns a
\* message was handled.
THEOREM HandledInTurn ==
    ASSUME \A c, d \in Clients : ServiceOf[c] = ServiceOf[d] => ProcessOf[c] = ProcessOf[d]
    PROVE  ProtoSafety /\ []DrawsInTurn =>
               [](\A t \in Threads : returned[t] # NoResponse =>
                      \E x \in replied : x.call = Issue(t))
<1>1. TableTypeOK /\ UniqueInProcess => IdsSeparate
  BY CallersAssumption DEF UniqueInProcess, IdsSeparate, ProcessOfCall, TableTypeOK
<1>2. /\ ProtoTypeOK => TableTypeOK
      /\ ValueMeansHandled /\ IdsSeparate =>
             \A t \in Threads : returned[t] # NoResponse =>
                 \E x \in replied : x.call = Issue(t)
  BY DEF ProtoTypeOK, ValueMeansHandled
<1> QED
  BY <1>1, <1>2, ProtoTypeInvariant, ProtoImplementsTable, InTurnDistinct,
     ValueWasHandled, PTL

=============================================================================
