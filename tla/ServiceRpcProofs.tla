--------------------------- MODULE ServiceRpcProofs ---------------------------
(***************************************************************************)
(* Proofs about ServiceRpc, for any number of threads, clients, servers    *)
(* and processes, and for either behaviour of mdds.                        *)
(***************************************************************************)
EXTENDS ServiceRpc, PendingCallsProofs

-----------------------------------------------------------------------------
(* The client's half is PendingCalls *)

LEMMA ServerLeavesTable ==
    ASSUME NEW s \in Servers, ServerStep(s)
    PROVE  UNCHANGED <<tableVars, value, leaked>>
BY DEF ServerStep, OfferSubscribe, OfferReturn, StopOffer, RegisterMethod,
   UnregisterMethod, SetHandlers, Handle, MethodNotFound, HandlerReturns,
   HandlerThrows, SendResponse, SendErrorResponse, Reply

LEMMA TableStepSimulated ==
    RpcTypeOK /\ [RpcNext]_vars => [TableNext]_tableVars
<1> SUFFICES ASSUME RpcTypeOK, [RpcNext]_vars PROVE [TableNext]_tableVars
  OBVIOUS
<1>1. ASSUME NEW t \in Threads, ClientStep(t) PROVE TableNext
  BY <1>1 DEF ClientStep, TableOnly, File, Write, Leave, TableNext, TableStep
<1>2. ASSUME NEW c \in Clients, NEW r \in responses, Deliver(c, r)
      PROVE  TableNext
  <2>1. r.call.sid \in SessionIds
    BY DEF RpcTypeOK, Responses, CallIds
  <2> QED
    BY <1>2, <2>1 DEF Deliver, TableNext
<1>3. ASSUME NEW s \in Servers, ServerStep(s) PROVE UNCHANGED tableVars
  BY <1>3, ServerLeavesTable
<1>4. CASE UNCHANGED vars
  BY <1>4 DEF vars
<1> QED
  BY <1>1, <1>2, <1>3, <1>4 DEF RpcNext

LEMMA RpcTypeStep == RpcTypeOK /\ [RpcNext]_vars => RpcTypeOK'
<1> SUFFICES ASSUME RpcTypeOK, [RpcNext]_vars PROVE RpcTypeOK'
  OBVIOUS
<1> USE CallersAssumption, ServiceAssumption
<1>1. TableTypeOK'
  BY TableStepSimulated, TypeStep DEF RpcTypeOK
<1> USE DEF RpcTypeOK
<1>2. ASSUME NEW t \in Threads, TableOnly(t) PROVE RpcTypeOK'
  BY <1>1, <1>2 DEF TableOnly, rpcVars, serverVars, publisherVars
<1>3. ASSUME NEW t \in Threads, File(t) PROVE RpcTypeOK'
  BY <1>1, <1>3 DEF File, serverVars, publisherVars
<1>4. ASSUME NEW t \in Threads, Write(t) PROVE RpcTypeOK'
  <2>1. ASSUME NEW m \in Methods
        PROVE [topic |-> ServiceOf[ClientOf[t]], call |-> Issue(t), method |-> m]
                  \in Requests
    BY DEF Requests, CallIds, Issue, TableTypeOK
  <2> QED
    BY <1>1, <1>4, <2>1 DEF Write, serverVars, publisherVars
<1>5. ASSUME NEW t \in Threads, Leave(t) PROVE RpcTypeOK'
  BY <1>1, <1>5 DEF Leave, serverVars, publisherVars
<1>6. ASSUME NEW c \in Clients, NEW r \in responses, Deliver(c, r)
      PROVE  RpcTypeOK'
  BY <1>1, <1>6 DEF Deliver, serverVars, publisherVars
<1>7. ASSUME NEW s \in Servers,
             OfferSubscribe(s) \/ OfferReturn(s) \/ StopOffer(s)
      PROVE  RpcTypeOK'
  BY <1>1, <1>7 DEF OfferSubscribe, OfferReturn, StopOffer, publisherVars
<1>8. ASSUME NEW s \in Servers, NEW m \in Methods,
             RegisterMethod(s, m) \/ UnregisterMethod(s, m)
      PROVE  RpcTypeOK'
  BY <1>1, <1>8 DEF RegisterMethod, UnregisterMethod, SetHandlers, publisherVars
<1>9. ASSUME NEW s \in Servers, Handle(s) PROVE RpcTypeOK'
  <2>1. ASSUME NEW q \in requests, NEW topic \in Services, NEW error \in Errors
        PROVE  [topic |-> topic, call |-> q.call, error |-> error] \in Responses
    BY DEF Requests, Responses
  <2>2. /\ TopicOf(okPublisher, s) \in Services
        /\ TopicOf(errorPublisher, s) \in Services
    BY DEF TopicOf
  <2>3. /\ Bind(okPublisher, s) \in [Dispatchers -> Services \cup {NoTopic}]
        /\ Bind(errorPublisher, s) \in [Dispatchers -> Services \cup {NoTopic}]
    BY <2>2 DEF Bind
  <2> QED
    BY <1>1, <1>9, <2>1, <2>2, <2>3
       DEF Handle, MethodNotFound, HandlerReturns, HandlerThrows, SendResponse,
           SendErrorResponse, Reply, serverVars, Errors
<1>10. CASE UNCHANGED vars
  BY <1>1, <1>10 DEF vars, rpcVars, serverVars, publisherVars
<1> QED
  BY <1>2, <1>3, <1>4, <1>5, <1>6, <1>7, <1>8, <1>9, <1>10
     DEF RpcNext, ClientStep, ServerStep

LEMMA RpcTypeInit == RpcInit => RpcTypeOK
BY TypeInit, ServiceAssumption DEF RpcInit, RpcTypeOK

LEMMA RpcTypeInvariant == RpcSpec => []RpcTypeOK
BY RpcTypeInit, RpcTypeStep, PTL DEF RpcSpec

\* Every variable of the service model keeps its type.
THEOREM RpcTypeCorrect == RpcSpec => []RpcTypeOK
BY RpcTypeInvariant

\* The client's half of ServiceRpc only ever does what PendingCalls allows:
\* what is proved of the table there holds with topics and servers too.
THEOREM RpcImplementsTable == RpcSpec => TableSafety
<1>1. RpcInit => TableInit
  BY DEF RpcInit
<1> QED
  BY <1>1, RpcTypeInvariant, TableStepSimulated, PTL DEF RpcSpec, TableSafety

-----------------------------------------------------------------------------
(* Whose response a call returns *)

\* What is on the wire belongs to a call that drew its id.
Traffic ==
    /\ \A q \in requests : q.call \in issued /\ q.topic = ServiceOfCall(q.call)
    /\ \A r \in responses : r.call \in issued

\* With private dispatch a thread_local publisher writes to the topic of the
\* servers that use it.
Publishers ==
    PrivateDispatch => \A s \in Servers :
        /\ okPublisher[DispatchOf[s]] \in {NoTopic, ServedBy[s]}
        /\ errorPublisher[DispatchOf[s]] \in {NoTopic, ServedBy[s]}

\* The call of t was answered and has not been superseded by another.
Answered(t) ==
    \/ pc[t] \in Filed /\ future[t] = "value"
    \/ outcome[t] = "value"

\* The answer came on the topic of the call and under its session id.
Answers ==
    \A t \in Threads :
        /\ outcome[t] # "none" => pc[t] = "idle"
        /\ Answered(t) =>
               /\ Issue(t) \in issued
               /\ value[t] \in responses
               /\ value[t].call.sid = sessionId[t]
               /\ value[t].topic = ServiceOf[ClientOf[t]]

RpcInv ==
    /\ RpcTypeOK /\ TableSafe /\ InHistory
    /\ Traffic /\ Publishers /\ AnsweredAtHome /\ Answers

\* A step that leaves a thread's call as it is keeps its answer.
LEMMA AnswerKept ==
    ASSUME Answers, NEW t \in Threads,
           issued \subseteq issued', responses \subseteq responses',
           Answered(t)' => Answered(t),
           outcome'[t] # "none" => pc'[t] = "idle",
           Answered(t)' => /\ sessionId'[t] = sessionId[t] /\ calls'[t] = calls[t]
                           /\ value'[t] = value[t]
    PROVE  /\ outcome'[t] # "none" => pc'[t] = "idle"
           /\ Answered(t)' =>
               /\ Issue(t)' \in issued'
               /\ value'[t] \in responses'
               /\ value'[t].call.sid = sessionId'[t]
               /\ value'[t].topic = ServiceOf[ClientOf[t]]
BY DEF Answers, Issue

\* What each part of the system does to the wire.
LEMMA WireStep ==
    ASSUME RpcTypeOK, [RpcNext]_vars
    PROVE  \/ \E t \in Threads, m \in Methods :
                  /\ pc[t] = "write" /\ responses' = responses
                  /\ requests' = requests \cup
                        {[topic |-> ServiceOf[ClientOf[t]], call |-> Issue(t),
                          method |-> m]}
                  /\ UNCHANGED publisherVars
           \/ \E s \in Servers, q \in requests : Receives(s, q) /\
                  \/ SendResponse(s, q)
                  \/ \E e \in Errors : SendErrorResponse(s, q, e)
           \/ UNCHANGED <<requests, responses, publisherVars>>
<1>1. ASSUME NEW t \in Threads, TableOnly(t) \/ File(t) \/ Leave(t)
      PROVE  UNCHANGED <<requests, responses, publisherVars>>
  BY <1>1 DEF TableOnly, File, Leave, rpcVars
<1>2. ASSUME NEW t \in Threads, Write(t)
      PROVE  \E m \in Methods :
                  /\ pc[t] = "write" /\ responses' = responses
                  /\ requests' = requests \cup
                        {[topic |-> ServiceOf[ClientOf[t]], call |-> Issue(t),
                          method |-> m]}
                  /\ UNCHANGED publisherVars
  BY <1>2 DEF Write, Sent, Advance, Goto
<1>3. ASSUME NEW c \in Clients, NEW r \in responses, Deliver(c, r)
      PROVE  UNCHANGED <<requests, responses, publisherVars>>
  BY <1>3 DEF Deliver
<1>4. ASSUME NEW s \in Servers, ServerStep(s)
      PROVE  \/ \E q \in requests : Receives(s, q) /\
                  \/ SendResponse(s, q)
                  \/ \E e \in Errors : SendErrorResponse(s, q, e)
             \/ UNCHANGED <<requests, responses, publisherVars>>
  BY <1>4 DEF ServerStep, OfferSubscribe, OfferReturn, StopOffer, RegisterMethod,
     UnregisterMethod, SetHandlers, Handle, MethodNotFound, HandlerReturns,
     HandlerThrows, Errors
<1>5. CASE UNCHANGED vars
  BY <1>5 DEF vars, rpcVars
<1> QED
  BY <1>1, <1>2, <1>3, <1>4, <1>5 DEF RpcNext, ClientStep

LEMMA TrafficStep ==
    ASSUME RpcTypeOK, InHistory, Traffic, [RpcNext]_vars, issued \subseteq issued'
    PROVE  Traffic'
<1>1. ASSUME NEW t \in Threads, NEW m \in Methods,
             pc[t] = "write", responses' = responses,
             requests' = requests \cup
                 {[topic |-> ServiceOf[ClientOf[t]], call |-> Issue(t), method |-> m]}
      PROVE  Traffic'
  <2>1. Issue(t) \in issued /\ ServiceOfCall(Issue(t)) = ServiceOf[ClientOf[t]]
    BY <1>1 DEF InHistory, Filed, ServiceOfCall, Issue
  <2> QED
    BY <1>1, <2>1 DEF Traffic, ServiceOfCall
<1>2. ASSUME NEW s \in Servers, NEW q \in requests, NEW topic, NEW e \in Errors,
             Reply(topic, q, e)
      PROVE  Traffic'
  BY <1>2 DEF Reply, Traffic, ServiceOfCall
<1>3. ASSUME UNCHANGED <<requests, responses>> PROVE Traffic'
  BY <1>3 DEF Traffic, ServiceOfCall
<1> QED
  BY <1>1, <1>2, <1>3, WireStep DEF SendResponse, SendErrorResponse, Errors

LEMMA HomeStep ==
    ASSUME RpcTypeOK, Traffic, Publishers, AnsweredAtHome, [RpcNext]_vars
    PROVE  Publishers' /\ AnsweredAtHome'
<1> SUFFICES ASSUME PrivateDispatch PROVE Publishers' /\ AnsweredAtHome'
  BY DEF Publishers, AnsweredAtHome
<1> USE ServiceAssumption DEF RpcTypeOK
<1>1. ASSUME NEW s \in Servers
      PROVE  /\ TopicOf(okPublisher, s) = ServedBy[s]
             /\ TopicOf(errorPublisher, s) = ServedBy[s]
  BY DEF Publishers, TopicOf
<1>2. ASSUME NEW s \in Servers, NEW q \in requests, Receives(s, q), NEW e,
             Reply(ServedBy[s], q, e)
      PROVE  AnsweredAtHome'
  BY <1>2 DEF Reply, Receives, Traffic, AnsweredAtHome, ServiceOfCall
<1>3. ASSUME NEW s \in Servers
      PROVE  \A x \in Servers :
                 /\ Bind(okPublisher, s)[DispatchOf[x]] \in {NoTopic, ServedBy[x]}
                 /\ Bind(errorPublisher, s)[DispatchOf[x]] \in {NoTopic, ServedBy[x]}
  BY <1>1 DEF Bind, Publishers, PrivateDispatch
<1>4. ASSUME NEW s \in Servers, NEW q \in requests, Receives(s, q), NEW e \in Errors,
             SendResponse(s, q) \/ SendErrorResponse(s, q, e)
      PROVE  Publishers' /\ AnsweredAtHome'
  BY <1>1, <1>2, <1>3, <1>4 DEF SendResponse, SendErrorResponse, Publishers
<1>5. ASSUME UNCHANGED <<responses, publisherVars>>
      PROVE  Publishers' /\ AnsweredAtHome'
  BY <1>5 DEF Publishers, AnsweredAtHome, publisherVars, ServiceOfCall
<1> QED
  BY <1>4, <1>5, WireStep DEF Errors

LEMMA AnswersStep ==
    ASSUME RpcTypeOK, PendingOwned, InHistory, Answers, [RpcNext]_vars,
           issued \subseteq issued'
    PROVE  Answers'
<1> USE CallersAssumption
<1>1. responses \subseteq responses'
  BY WireStep DEF SendResponse, SendErrorResponse, Reply
<1>2. SUFFICES ASSUME NEW u \in Threads
               PROVE  /\ outcome'[u] # "none" => pc'[u] = "idle"
                      /\ Answered(u)' =>
                             /\ Issue(u)' \in issued'
                             /\ value'[u] \in responses'
                             /\ value'[u].call.sid = sessionId'[u]
                             /\ value'[u].topic = ServiceOf[ClientOf[u]]
  BY DEF Answers
<1>3. outcome[u] # "none" => pc[u] = "idle"
  BY DEF Answers
<1> USE DEF RpcTypeOK, TableTypeOK
<1>4. ASSUME NEW t \in Threads, TableOnly(t)
      PROVE  /\ outcome'[u] # "none" => pc'[u] = "idle"
             /\ Answered(u)' => /\ Answered(u) /\ sessionId'[u] = sessionId[u]
                                /\ calls'[u] = calls[u] /\ value'[u] = value[u]
  BY <1>3, <1>4 DEF TableOnly, Begin, NoParticipant, LoadSessionId, StoreSessionId,
     SendFails, Prepared, WakeReady, WakeTimeout, Advance, Goto, Return, Erase, Abandon,
     Answered, Filed, rpcVars
<1>5. ASSUME NEW t \in Threads, File(t)
      PROVE  /\ outcome'[u] # "none" => pc'[u] = "idle"
             /\ Answered(u)' => /\ Answered(u) /\ sessionId'[u] = sessionId[u]
                                /\ calls'[u] = calls[u] /\ value'[u] = value[u]
  BY <1>3, <1>5 DEF File, Register, Goto, Abandon, Answered, Filed
<1>6. ASSUME NEW t \in Threads, Write(t) \/ Leave(t)
      PROVE  /\ outcome'[u] # "none" => pc'[u] = "idle"
             /\ Answered(u)' => /\ Answered(u) /\ sessionId'[u] = sessionId[u]
                                /\ calls'[u] = calls[u] /\ value'[u] = value[u]
  BY <1>3, <1>6 DEF Write, Sent, Advance, Leave, FinishTimeout, FinishReady, Return,
     Goto, Erase, Abandon, Answered, Filed
<1>7. ASSUME NEW s \in Servers, ServerStep(s)
      PROVE  /\ outcome'[u] # "none" => pc'[u] = "idle"
             /\ Answered(u)' => /\ Answered(u) /\ sessionId'[u] = sessionId[u]
                                /\ calls'[u] = calls[u] /\ value'[u] = value[u]
  BY <1>3, <1>7, ServerLeavesTable DEF tableVars, Answered
<1>8. CASE UNCHANGED vars
  BY <1>1, <1>3, <1>8, AnswerKept DEF vars, tableVars, rpcVars, Answered
<1>9. ASSUME NEW c \in Clients, NEW r \in responses, Deliver(c, r),
             u = pending[c][r.call.sid]
      PROVE  /\ outcome'[u] # "none" => pc'[u] = "idle"
             /\ Issue(u)' \in issued'
             /\ value'[u] \in responses'
             /\ value'[u].call.sid = sessionId'[u]
             /\ value'[u].topic = ServiceOf[ClientOf[u]]
  <2>1. r.call.sid \in SessionIds
    BY DEF Responses, CallIds
  <2>2. ClientOf[u] = c /\ sessionId[u] = r.call.sid /\ pc[u] \in Filed
    BY <1>9, <2>1 DEF PendingOwned, Deliver, Deliverable, Resolve
  <2>3. value'[u] = r /\ r.topic = ServiceOf[c]
    BY <1>9 DEF Deliver, Deliverable
  <2>4. UNCHANGED <<sessionId, calls, issued, pc, outcome, responses>>
    BY <1>9 DEF Deliver, Resolve
  <2> QED
    BY <1>3, <2>2, <2>3, <2>4 DEF InHistory, Issue
<1>10. ASSUME NEW c \in Clients, NEW r \in responses, Deliver(c, r),
              u # pending[c][r.call.sid]
       PROVE  /\ outcome'[u] # "none" => pc'[u] = "idle"
              /\ Answered(u)' => /\ Answered(u) /\ sessionId'[u] = sessionId[u]
                                 /\ calls'[u] = calls[u] /\ value'[u] = value[u]
  BY <1>3, <1>10 DEF Deliver, Resolve, Answered
<1> QED
  BY <1>1, <1>4, <1>5, <1>6, <1>7, <1>8, <1>9, <1>10, AnswerKept
     DEF RpcNext, ClientStep

LEMMA RpcInvariant == RpcSpec => []RpcInv
<1>1. RpcInit => RpcInv
  <2> SUFFICES ASSUME RpcInit PROVE RpcInv
    OBVIOUS
  <2>1. TableSafe /\ InHistory
    BY CallersAssumption DEF RpcInit, TableInit, TableSafe, PendingOwned,
       NoOrphanedWaiter, ReadyIsSet, InHistory, Filed
  <2>2. Traffic /\ AnsweredAtHome
    BY DEF RpcInit, Traffic, AnsweredAtHome
  <2>3. Publishers /\ Answers
    BY ServiceAssumption DEF RpcInit, TableInit, Publishers, Answers, Answered, Filed
  <2> QED
    BY <2>1, <2>2, <2>3, RpcTypeInit DEF RpcInv
<1>2. RpcInv /\ [RpcNext]_vars => RpcInv'
  <2> SUFFICES ASSUME RpcInv, [RpcNext]_vars PROVE RpcInv'
    OBVIOUS
  <2>1. RpcTypeOK' /\ TableTypeOK /\ [TableNext]_tableVars
    BY RpcTypeStep, TableStepSimulated DEF RpcInv, RpcTypeOK
  <2>2. TableSafe' /\ InHistory' /\ issued \subseteq issued'
    BY <2>1, SafeStep, HistoryStep DEF RpcInv
  <2>3. Traffic' /\ Publishers' /\ AnsweredAtHome'
    BY <2>2, TrafficStep, HomeStep DEF RpcInv
  <2>4. Answers'
    BY <2>2, AnswersStep DEF RpcInv, TableSafe
  <2> QED
    BY <2>1, <2>2, <2>3, <2>4 DEF RpcInv
<1> QED
  BY <1>1, <1>2, PTL DEF RpcSpec

\* Every response is written on the topic its caller listens to, when no two
\* servers of different services share a callback thread.
THEOREM ResponsesStayHome == RpcSpec => []AnsweredAtHome
BY RpcInvariant, PTL DEF RpcInv

\* A call that returns a response returns its own, whatever mdds delays,
\* repeats or loses, as long as ids that can meet on a topic are distinct.
THEOREM CallsGetTheirOwnAnswer == RpcSpec => []OwnAnswer
<1>1. RpcInv => OwnAnswer
  <2> SUFFICES ASSUME RpcInv, IdsSeparate, NEW t \in Threads, outcome[t] = "value"
               PROVE  value[t].call = Issue(t)
    BY DEF OwnAnswer
  <2>1. /\ Issue(t) \in issued /\ value[t] \in responses
        /\ value[t].call.sid = sessionId[t]
        /\ value[t].topic = ServiceOf[ClientOf[t]]
    BY DEF RpcInv, Answers, Answered
  <2>2. /\ value[t].call \in issued
        /\ PrivateDispatch => value[t].topic = ServiceOfCall(value[t].call)
    BY <2>1 DEF RpcInv, Traffic, AnsweredAtHome
  <2>3. Issue(t).sid = sessionId[t] /\ ServiceOfCall(Issue(t)) = ServiceOf[ClientOf[t]]
    BY DEF Issue, ServiceOfCall
  <2> QED
    BY <2>1, <2>2, <2>3 DEF IdsSeparate
<1> QED
  BY <1>1, RpcInvariant, PTL

\* The table's promises hold with topics and servers too: entries belong to
\* calls in progress, waiters are filed, and only an id clash makes a call throw.
THEOREM RpcKeepsTablePromises ==
    RpcSpec => [](PendingOwned /\ NoOrphanedWaiter /\ ThrowsOnlyOnClash)
<1>1. TableInv => PendingOwned /\ NoOrphanedWaiter /\ ThrowsOnlyOnClash
  BY DEF TableInv, TableSafe, NoBrokenPromise, ThrowsOnlyOnClash
<1> QED
  BY <1>1, RpcImplementsTable, TableInvariant, PTL

\* A response to a call that waits can be delivered, and completes that call's
\* promise, whatever other calls have come and gone on its client.
THEOREM AnswersCanBeTaken == RpcSpec => []AnswerTakeable
<1>1. RpcInv => AnswerTakeable
  <2> SUFFICES ASSUME RpcInv, PrivateDispatch, NEW t \in Threads, NEW r \in responses,
                      pc[t] = "wait", future[t] = "unset", r.call = Issue(t),
                      sessionId[t] # 0
               PROVE  Deliverable(ClientOf[t], r) /\ Entry(t) = t
    BY DEF AnswerTakeable
  <2>1. Entry(t) = t /\ t # NoThread
    BY CallersAssumption DEF RpcInv, TableSafe, NoOrphanedWaiter, Filed
  <2>2. Hears(ClientOf[t])
    BY DEF Hears, Filed
  <2>3. r.topic = ServiceOf[ClientOf[t]] /\ r.call.sid = sessionId[t]
    BY DEF RpcInv, AnsweredAtHome, ServiceOfCall, Issue
  <2> QED
    BY <2>1, <2>2, <2>3 DEF Deliverable, Entry
<1> QED
  BY <1>1, RpcInvariant, PTL

\* Clients whose calls can meet on a topic live in one process.
MeetInProcess ==
    \A c, d \in Clients :
        (PrivateDispatch => ServiceOf[c] = ServiceOf[d]) => ProcessOf[c] = ProcessOf[d]

\* Within a process the counter is enough: where the callers of a service share
\* it, its ids are drawn in turn and it has not wrapped, a call that returns a
\* response returns its own.
THEOREM OwnAnswerInTurn ==
    ASSUME MeetInProcess
    PROVE  RpcSpec /\ []DrawsInTurn =>
               [](\A t \in Threads : outcome[t] = "value" => value[t].call = Issue(t))
<1>1. TableTypeOK /\ UniqueInProcess => IdsSeparate
  BY CallersAssumption
     DEF UniqueInProcess, IdsSeparate, ProcessOfCall, ServiceOfCall, MeetInProcess,
         TableTypeOK
<1>2. /\ RpcTypeOK => TableTypeOK
      /\ OwnAnswer /\ IdsSeparate =>
             \A t \in Threads : outcome[t] = "value" => value[t].call = Issue(t)
  BY DEF RpcTypeOK, OwnAnswer
<1> QED
  BY <1>1, <1>2, RpcTypeInvariant, RpcImplementsTable, InTurnDistinct,
     CallsGetTheirOwnAnswer, PTL

=============================================================================
