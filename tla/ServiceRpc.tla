----------------------------- MODULE ServiceRpc -----------------------------
(***************************************************************************)
(* Request/response calls: ServiceClient and ServiceServer over mdds       *)
(* topics.                                                                 *)
(*                                                                         *)
(* A (service id, instance id) pair names a request and a response topic   *)
(* and is called a service here.  A call writes its request on the request *)
(* topic; the reader a server installed in offer() runs handle_request on  *)
(* an mdds callback thread, which writes a response on a response topic;   *)
(* every client reader on that topic hands the response to its client's    *)
(* handle_response.  PendingCalls has the client's half; each of its       *)
(* actions is taken here together with what it does to the transport.      *)
(*                                                                         *)
(* mdds is not part of the repository.  It is modelled as a set of         *)
(* messages that only grows: a reader may receive a message of its topic   *)
(* late, several times, out of order, or never.  Whether mdds keeps a      *)
(* reader whose handle was dropped is a constant, because both offer() and *)
(* send_request drop theirs and rely on opposite answers.                  *)
(***************************************************************************)
EXTENDS PendingCalls

CONSTANTS
    Services,        \* (service id, instance id) pairs: each has two topics
    Servers,         \* ServiceServer objects
    Dispatchers,     \* mdds threads that run request callbacks
    Methods,         \* MethodIds
    ServiceOf,       \* the service a client calls
    ServedBy,        \* the service a server serves
    DispatchOf,      \* the callback thread a server's requests arrive on
    ReaderRetained,  \* mdds keeps a reader whose handle was dropped
    NoTopic,         \* a thread_local publisher not yet created
    NoResponse       \* no response was received

ASSUME ServiceAssumption ==
    /\ ServiceOf \in [Clients -> Services]
    /\ ServedBy \in [Servers -> Services]
    /\ DispatchOf \in [Servers -> Dispatchers]
    /\ ReaderRetained \in BOOLEAN
    /\ NoTopic \notin Services

VARIABLES
    requests,        \* requests written
    responses,       \* responses written
    value,           \* the response a thread's promise was given
    leaked,          \* clients with a reader that outlived its send_request
    offered,         \* ServiceServer::offered_
    reader,          \* the server's reader on its request topic
    handlers,        \* handlers_: the methods registered with a server
    okPublisher,     \* thread_local publisher of send_response: its topic
    errorPublisher   \* thread_local publisher of send_error_response

serverVars == <<offered, reader, handlers>>
publisherVars == <<okPublisher, errorPublisher>>
rpcVars == <<requests, responses, value, leaked, serverVars, publisherVars>>
vars == <<tableVars, rpcVars>>

CallIds == [sid : SessionIds, thread : Threads, call : 0 .. MaxCalls]
Requests == [topic : Services, call : CallIds, method : Methods]
Errors == {"OK", "METHOD_NOT_FOUND", "INTERNAL_ERROR"}
Responses == [topic : Services, call : CallIds, error : Errors]

RpcTypeOK ==
    /\ TableTypeOK
    /\ requests \subseteq Requests
    /\ responses \subseteq Responses
    /\ value \in [Threads -> Responses \cup {NoResponse}]
    /\ leaked \subseteq Clients
    /\ offered \in [Servers -> BOOLEAN]
    /\ reader \in [Servers -> {"none", "offering", "kept"}]
    /\ handlers \in [Servers -> SUBSET Methods]
    /\ okPublisher \in [Dispatchers -> Services \cup {NoTopic}]
    /\ errorPublisher \in [Dispatchers -> Services \cup {NoTopic}]

RpcInit ==
    /\ TableInit
    /\ requests = {} /\ responses = {}
    /\ value = [t \in Threads |-> NoResponse]
    /\ leaked = {}
    /\ offered = [s \in Servers |-> FALSE]
    /\ reader = [s \in Servers |-> "none"]
    /\ handlers = [s \in Servers |-> {}]
    /\ okPublisher = [d \in Dispatchers |-> NoTopic]
    /\ errorPublisher = [d \in Dispatchers |-> NoTopic]

-----------------------------------------------------------------------------
(* The client: send_request *)

\* The steps that only concern the table.
TableOnly(t) ==
    /\ \/ Begin(t) \/ NoParticipant(t) \/ LoadSessionId(t) \/ StoreSessionId(t)
       \/ SendFails(t) \/ Prepared(t) \/ WakeReady(t) \/ WakeTimeout(t)
    /\ UNCHANGED rpcVars

File(t) ==
    /\ Register(t)
    /\ value' = [value EXCEPT ![t] = NoResponse]
    /\ UNCHANGED <<requests, responses, leaked, serverVars, publisherVars>>

\* publisher->write(req_msg)
Write(t) ==
    /\ Sent(t)
    /\ \E m \in Methods :
           requests' = requests \cup
               {[topic |-> ServiceOf[ClientOf[t]], call |-> Issue(t), method |-> m]}
    /\ UNCHANGED <<responses, value, leaked, serverVars, publisherVars>>

\* send_request returns or throws, and drops its handle on the reader.
Leave(t) ==
    /\ FinishTimeout(t) \/ FinishReady(t)
    /\ leaked' = IF ReaderRetained THEN leaked \cup {ClientOf[t]} ELSE leaked
    /\ UNCHANGED <<requests, responses, value, serverVars, publisherVars>>

\* Mutant: only readers that outlived a call hear.
HearsLater(c) == c \in leaked

\* Some reader on the response topic runs this client's callback.
Hears(c) ==
    \/ c \in leaked
    \/ \E t \in Threads : ClientOf[t] = c /\ pc[t] \in Filed \ {"send"}

\* Mutant: the response completes whatever promise waits.
DeliverAnyId(c, r) ==
    /\ Hears(c)
    /\ r.topic = ServiceOf[c]
    /\ r.call.sid # 0
    /\ \E sid \in SessionIds :
           Resolve(c, sid) /\ value' = [value EXCEPT ![pending[c][sid]] = r]
    /\ UNCHANGED <<requests, responses, leaked, serverVars, publisherVars>>

\* Mutant: the completed promise stays in the table.
DeliverKeeps(c, r) ==
    /\ Hears(c)
    /\ r.topic = ServiceOf[c]
    /\ r.call.sid # 0 /\ pending[c][r.call.sid] # NoThread
    /\ future' = [future EXCEPT ![pending[c][r.call.sid]] = "value"]
    /\ value' = [value EXCEPT ![pending[c][r.call.sid]] = r]
    /\ UNCHANGED <<nextSessionId, pc, sessionId, pending, outcome, calls, issued,
                   requests, responses, leaked, serverVars, publisherVars>>

\* What handle_response may find when r arrives: some promise under its id.
\* The callback of send_request drops session id 0.
Deliverable(c, r) ==
    /\ Hears(c)
    /\ r.topic = ServiceOf[c]
    /\ r.call.sid # 0
    /\ pending[c][r.call.sid] # NoThread

\* handle_response.  Neither it nor the callback looks at the service, the
\* instance or the method.
Deliver(c, r) ==
    /\ Deliverable(c, r)
    /\ Resolve(c, r.call.sid)
    /\ value' = [value EXCEPT ![pending[c][r.call.sid]] = r]
    /\ UNCHANGED <<requests, responses, leaked, serverVars, publisherVars>>

-----------------------------------------------------------------------------
(* The server *)

\* offer() up to create_subscriber: requests may arrive from here on.
OfferSubscribe(s) ==
    /\ ~ offered[s] /\ reader[s] # "offering"
    /\ reader' = [reader EXCEPT ![s] = "offering"]
    /\ UNCHANGED <<tableVars, requests, responses, value, leaked, offered,
                   handlers, publisherVars>>

\* offer() returns and its local subscriber handle goes out of scope.
OfferReturn(s) ==
    /\ reader[s] = "offering"
    /\ offered' = [offered EXCEPT ![s] = TRUE]
    /\ reader' = [reader EXCEPT ![s] = IF ReaderRetained THEN "kept" ELSE "none"]
    /\ UNCHANGED <<tableVars, requests, responses, value, leaked, handlers,
                   publisherVars>>

StopOffer(s) ==
    /\ offered[s]
    /\ offered' = [offered EXCEPT ![s] = FALSE]
    /\ UNCHANGED <<tableVars, requests, responses, value, leaked, reader,
                   handlers, publisherVars>>

SetHandlers(s, ms) ==
    /\ handlers' = [handlers EXCEPT ![s] = ms]
    /\ UNCHANGED <<tableVars, requests, responses, value, leaked, offered,
                   reader, publisherVars>>

RegisterMethod(s, m) == SetHandlers(s, handlers[s] \cup {m})

UnregisterMethod(s, m) == SetHandlers(s, handlers[s] \ {m})

\* A request of the server's topic reaches the reader's callback.
Receives(s, q) == reader[s] # "none" /\ q.topic = ServedBy[s]

\* Mutant: a publisher that was never created is used.
TopicOfUncreated(publisher, s) == publisher[DispatchOf[s]]

\* The topic a static thread_local publisher writes to: that of the server
\* which first used it on this callback thread.
TopicOf(publisher, s) ==
    IF publisher[DispatchOf[s]] = NoTopic THEN ServedBy[s]
    ELSE publisher[DispatchOf[s]]

\* Mutant: the publisher is static but not thread_local.
BindStatic(publisher, s) == [d \in Dispatchers |-> TopicOf(publisher, s)]

Bind(publisher, s) ==
    [publisher EXCEPT ![DispatchOf[s]] = TopicOf(publisher, s)]

Reply(topic, q, error) ==
    /\ responses' = responses \cup
           {[topic |-> topic, call |-> q.call, error |-> error]}
    /\ UNCHANGED <<tableVars, requests, value, leaked, serverVars>>

SendResponse(s, q) ==
    /\ Reply(TopicOf(okPublisher, s), q, "OK")
    /\ okPublisher' = Bind(okPublisher, s)
    /\ UNCHANGED errorPublisher

SendErrorResponse(s, q, error) ==
    /\ Reply(TopicOf(errorPublisher, s), q, error)
    /\ errorPublisher' = Bind(errorPublisher, s)
    /\ UNCHANGED okPublisher

\* handle_request holds handlers_mutex_ throughout.  offered_ is not read.
MethodNotFound(s, q) ==
    /\ Receives(s, q) /\ q.method \notin handlers[s]
    /\ SendErrorResponse(s, q, "METHOD_NOT_FOUND")

HandlerReturns(s, q) ==
    /\ Receives(s, q) /\ q.method \in handlers[s]
    /\ SendResponse(s, q)

HandlerThrows(s, q) ==
    /\ Receives(s, q) /\ q.method \in handlers[s]
    /\ SendErrorResponse(s, q, "INTERNAL_ERROR")

-----------------------------------------------------------------------------

ClientStep(t) == TableOnly(t) \/ File(t) \/ Write(t) \/ Leave(t)

Handle(s) ==
    \E q \in requests :
        MethodNotFound(s, q) \/ HandlerReturns(s, q) \/ HandlerThrows(s, q)

ServerStep(s) ==
    \/ OfferSubscribe(s) \/ OfferReturn(s) \/ StopOffer(s)
    \/ \E m \in Methods : RegisterMethod(s, m) \/ UnregisterMethod(s, m)
    \/ Handle(s)

RpcNext ==
    \/ \E t \in Threads : ClientStep(t)
    \/ \E c \in Clients, r \in responses : Deliver(c, r)
    \/ \E s \in Servers : ServerStep(s)

RpcSpec == RpcInit /\ [][RpcNext]_vars

-----------------------------------------------------------------------------
(* Properties *)

ServiceOfCall(x) == ServiceOf[ClientOf[x.thread]]

\* Servers that share a callback thread serve the same service.
PrivateDispatch ==
    \A x, y \in Servers :
        DispatchOf[x] = DispatchOf[y] => ServedBy[x] = ServedBy[y]

\* Two calls have the same id only if they are calls to different services
\* and no response strays from the topic of one service to another's.
IdsSeparate ==
    \A x, y \in issued :
        x.sid = y.sid /\ (PrivateDispatch => ServiceOfCall(x) = ServiceOfCall(y))
            => x = y

\* A call that returns a response returns the response to its own request,
\* however late or often the responses to earlier calls of its client and to
\* those of other clients arrive on the topic, as long as the ids of calls that
\* can meet there are distinct.
OwnAnswer ==
    IdsSeparate => \A t \in Threads :
        outcome[t] = "value" => value[t].call = Issue(t)

\* A response is written on the topic its caller listens to, unless servers
\* of different services share a callback thread.
AnsweredAtHome ==
    PrivateDispatch => \A r \in responses : r.topic = ServiceOfCall(r.call)

\* A response to a call that still waits can be delivered, whatever other calls
\* have come and gone meanwhile: it is on the client's topic, a reader runs the
\* client's callback, and the promise it then completes is that call's.  The one
\* exception is session id 0, which the counter reaches when it wraps and which
\* the callback drops.
AnswerTakeable ==
    PrivateDispatch =>
        \A t \in Threads, r \in responses :
            /\ pc[t] = "wait" /\ future[t] = "unset"
            /\ r.call = Issue(t) /\ sessionId[t] # 0
            => Deliverable(ClientOf[t], r) /\ Entry(t) = t

=============================================================================
