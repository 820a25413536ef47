--------------------------- MODULE ProtoServiceRpc ---------------------------
(***************************************************************************)
(* ProtoServiceClient and ProtoServiceServer.                              *)
(*                                                                         *)
(* A client keeps one publisher and one subscriber from init() on, a       *)
(* server one subscriber and one publisher between offer() and             *)
(* stop_offer(); a service id names the two topics.  The client's table is *)
(* that of PendingCalls.  handle_request runs on the callback thread of    *)
(* the request subscriber, with handlers_mutex_ held from the lookup to    *)
(* the publication of the response, the application's handler included;    *)
(* offer and stop_offer take no lock.                                      *)
(*                                                                         *)
(* mdds is not part of the repository: what was written may arrive late,   *)
(* repeatedly, out of order, or never.                                     *)
(***************************************************************************)
EXTENDS PendingCalls

CONSTANTS
    Services,      \* service ids
    Servers,       \* ProtoServiceServer objects, one process each
    Methods,       \* method ids
    Miscast,       \* methods whose request type is not ServiceRequest itself
    ServiceOf,     \* the service id a client calls
    ServedBy,      \* the service id of a server
    Replies,       \* what a handler returns
    Default,       \* the reply in which no field is set
    NoRequest,     \* no request is being handled
    NoResponse     \* call returned nullopt

CallIds == [sid : SessionIds, thread : Threads, call : 0 .. MaxCalls]
Requests == [service : Services, call : CallIds, method : Methods]
Errors == {"OK", "METHOD_NOT_FOUND", "INTERNAL_ERROR"}
Responses == [service : Services, call : CallIds, error : Errors, payload : Replies]

ASSUME ProtoAssumption ==
    /\ ServiceOf \in [Clients -> Services]
    /\ ServedBy \in [Servers -> Services]
    /\ Default \in Replies
    /\ Miscast \subseteq Methods
    /\ NoRequest \notin Requests
    /\ NoResponse \notin Responses
    /\ Servers \cap Processes = {}

VARIABLES
    requests,     \* requests written
    responses,    \* responses written
    initialized,  \* ProtoServiceClient::initialized_
    requestPub,   \* the client's request_pub_ is set
    responseSub,  \* the client's response_sub_ is set
    value,        \* the response a thread's promise was given
    returned,     \* the response whose payload a thread's last call returned
    offering,     \* offer() is between its two endpoints
    offered,      \* ProtoServiceServer::offered_
    requestSub,   \* the server's request_sub_ is set
    responsePub,  \* the server's response_pub_, null or set; failed: null
                  \* because it could not be created
    handlers,     \* handlers_: the methods registered with a server
    handling,     \* the request handle_request works on
    stuck,        \* servers that wait for their own handlers_mutex_
    dead,         \* processes of clients, and servers, that used a null pointer
    disturbed,    \* history: servers whose request came before offer() had
                  \* returned or was under way when stop_offer() was called
    replied       \* history: what handlers returned, and to which call

transportVars == <<requests, responses>>
endpointVars == <<initialized, requestPub, responseSub>>
callVars == <<value, returned>>
offerVars == <<offering, offered, requestSub, responsePub>>
handlingVars == <<handlers, handling, stuck, disturbed, replied>>
clientVars == <<tableVars, endpointVars, callVars>>
serverVars == <<offerVars, handlingVars>>
protoVars == <<clientVars, transportVars, serverVars, dead>>

ProtoTypeOK ==
    /\ TableTypeOK
    /\ requests \subseteq Requests /\ responses \subseteq Responses
    /\ initialized \in [Clients -> BOOLEAN]
    /\ requestPub \in [Clients -> BOOLEAN] /\ responseSub \in [Clients -> BOOLEAN]
    /\ value \in [Threads -> Responses \cup {NoResponse}]
    /\ returned \in [Threads -> Responses \cup {NoResponse}]
    /\ offering \in [Servers -> BOOLEAN] /\ offered \in [Servers -> BOOLEAN]
    /\ requestSub \in [Servers -> BOOLEAN]
    /\ responsePub \in [Servers -> {"null", "failed", "set"}]
    /\ handlers \in [Servers -> SUBSET Methods]
    /\ handling \in [Servers -> Requests \cup {NoRequest}]
    /\ stuck \subseteq Servers
    /\ dead \subseteq Processes \cup Servers
    /\ disturbed \subseteq Servers
    /\ replied \subseteq [call : CallIds, reply : Replies]

ProtoInit ==
    /\ TableInit
    /\ requests = {} /\ responses = {}
    /\ initialized = [c \in Clients |-> FALSE]
    /\ requestPub = [c \in Clients |-> FALSE]
    /\ responseSub = [c \in Clients |-> FALSE]
    /\ value = [t \in Threads |-> NoResponse]
    /\ returned = [t \in Threads |-> NoResponse]
    /\ offering = [s \in Servers |-> FALSE] /\ offered = [s \in Servers |-> FALSE]
    /\ requestSub = [s \in Servers |-> FALSE]
    /\ responsePub = [s \in Servers |-> "null"]
    /\ handlers = [s \in Servers |-> {}]
    /\ handling = [s \in Servers |-> NoRequest]
    /\ stuck = {} /\ dead = {} /\ disturbed = {} /\ replied = {}

-----------------------------------------------------------------------------
(* ProtoServiceClient: init *)

\* Each endpoint may fail to be created; the client counts as initialised.
Connect(c) ==
    /\ ~ initialized[c]
    /\ initialized' = [initialized EXCEPT ![c] = TRUE]
    /\ \E pub, sub \in BOOLEAN :
           /\ requestPub' = [requestPub EXCEPT ![c] = pub]
           /\ responseSub' = [responseSub EXCEPT ![c] = sub]
    /\ UNCHANGED <<tableVars, callVars, transportVars, serverVars, dead>>

-----------------------------------------------------------------------------
(* ProtoServiceClient: call *)

\* The steps that only concern the table.
TableOnly(t) ==
    /\ \/ initialized[ClientOf[t]] /\ Begin(t)
       \/ ~ initialized[ClientOf[t]] /\ NoParticipant(t)
       \/ LoadSessionId(t) \/ StoreSessionId(t)
       \/ SendFails(t) \/ Prepared(t) \/ WakeReady(t) \/ WakeTimeout(t)
    /\ returned' = IF pc[t] = "idle" THEN [returned EXCEPT ![t] = NoResponse]
                   ELSE returned
    /\ UNCHANGED <<endpointVars, value, transportVars, serverVars, dead>>

File(t) ==
    /\ Register(t)
    /\ value' = [value EXCEPT ![t] = NoResponse]
    /\ UNCHANGED <<endpointVars, returned, transportVars, serverVars, dead>>

Write(t) ==
    /\ Sent(t)
    /\ requestPub[ClientOf[t]]
    /\ \E m \in Methods :
           requests' = requests \cup
               {[service |-> ServiceOf[ClientOf[t]], call |-> Issue(t), method |-> m]}
    /\ UNCHANGED <<endpointVars, callVars, responses, serverVars, dead>>

\* The serialised request is longer than MDDS_MAX_PAYLOAD_SIZE: publish drops
\* it without a word, and the call waits for its time limit.
WriteTooLong(t) ==
    /\ Sent(t)
    /\ requestPub[ClientOf[t]]
    /\ UNCHANGED <<endpointVars, callVars, transportVars, serverVars, dead>>

\* request_pub_ is null: the process dies.
WriteNull(t) ==
    /\ pc[t] = "write" /\ ~ requestPub[ClientOf[t]]
    /\ dead' = dead \cup {ProcessOf[ClientOf[t]]}
    /\ UNCHANGED <<clientVars, transportVars, serverVars>>

\* Mutant: resp.error() is not looked at.
LeaveUnchecked(t) ==
    /\ FinishTimeout(t) \/ FinishReady(t)
    /\ \/ /\ pc[t] = "ready" /\ future[t] = "value"
          /\ returned' = [returned EXCEPT ![t] = value[t]]
       \/ UNCHANGED returned
    /\ UNCHANGED <<endpointVars, value, transportVars, serverVars, dead>>

\* call returns the payload of the response if there was no error and it
\* parses, and nullopt otherwise.
Leave(t) ==
    /\ FinishTimeout(t) \/ FinishReady(t)
    /\ \/ /\ pc[t] = "ready" /\ future[t] = "value" /\ value[t].error = "OK"
          /\ returned' = [returned EXCEPT ![t] = value[t]]
       \/ UNCHANGED returned
    /\ UNCHANGED <<endpointVars, value, transportVars, serverVars, dead>>

\* Mutant: session id 0 is no session, as in ServiceClient.
DeliverNonZero(c, r) ==
    /\ responseSub[c] /\ r.service = ServiceOf[c]
    /\ r.call.sid # 0
    /\ Resolve(c, r.call.sid)
    /\ value' = [value EXCEPT ![pending[c][r.call.sid]] = r]
    /\ UNCHANGED <<endpointVars, returned, transportVars, serverVars, dead>>

\* handle_response
Deliver(c, r) ==
    /\ responseSub[c] /\ r.service = ServiceOf[c]
    /\ Resolve(c, r.call.sid)
    /\ value' = [value EXCEPT ![pending[c][r.call.sid]] = r]
    /\ UNCHANGED <<endpointVars, returned, transportVars, serverVars, dead>>

-----------------------------------------------------------------------------
(* ProtoServiceServer: offer, stop_offer, register_method *)

\* request_sub_ is assigned: requests may arrive from here on.
OfferSubscribes(s) ==
    /\ ~ offered[s] /\ ~ offering[s]
    /\ offering' = [offering EXCEPT ![s] = TRUE]
    /\ \E sub \in BOOLEAN : requestSub' = [requestSub EXCEPT ![s] = sub]
    /\ UNCHANGED <<clientVars, transportVars, offered, responsePub, handlingVars, dead>>

\* response_pub_ is assigned, perhaps null, and the server counts as offered.
OfferReturns(s) ==
    /\ offering[s]
    /\ offering' = [offering EXCEPT ![s] = FALSE]
    /\ offered' = [offered EXCEPT ![s] = TRUE]
    /\ \E pub \in {"failed", "set"} : responsePub' = [responsePub EXCEPT ![s] = pub]
    /\ UNCHANGED <<clientVars, transportVars, requestSub, handlingVars, dead>>

\* Mutant: the publisher is given up before the subscriber, and the server
\* still counts as offered.
StopPublisherOnly(s) ==
    /\ offered[s]
    /\ responsePub' = [responsePub EXCEPT ![s] = "null"]
    /\ UNCHANGED <<clientVars, transportVars, offering, offered, requestSub,
                   handlingVars, dead>>

\* A request being handled carries on, on the thread and with the mutex of a
\* subscriber that is gone; if that kills the process is left open.
StopOffer(s) ==
    /\ offered[s]
    /\ offered' = [offered EXCEPT ![s] = FALSE]
    /\ requestSub' = [requestSub EXCEPT ![s] = FALSE]
    /\ responsePub' = [responsePub EXCEPT ![s] = "null"]
    /\ IF handling[s] = NoRequest THEN UNCHANGED <<disturbed, dead>>
       ELSE disturbed' = disturbed \cup {s} /\ dead' \in {dead, dead \cup {s}}
    /\ UNCHANGED <<clientVars, transportVars, offering, handlers, handling, stuck,
                   replied>>

\* handlers_mutex_ is free unless a request is being handled.
RegisterMethod(s, m) ==
    /\ handling[s] = NoRequest
    /\ handlers' = [handlers EXCEPT ![s] = @ \cup {m}]
    /\ UNCHANGED <<clientVars, transportVars, offerVars, handling, stuck, disturbed,
                   replied, dead>>

-----------------------------------------------------------------------------
(* ProtoServiceServer: handle_request *)

Receive(s, q) ==
    /\ requestSub[s] /\ q.service = ServedBy[s]
    /\ handling[s] = NoRequest
    /\ handling' = [handling EXCEPT ![s] = q]
    /\ disturbed' = IF offered[s] THEN disturbed \ {s} ELSE disturbed \cup {s}
    /\ UNCHANGED <<clientVars, transportVars, offerVars, handlers, stuck, replied, dead>>

\* response_pub_->publish(resp), and the mutexes are released.
Respond(s, error, payload) ==
    LET r == [service |-> ServedBy[s], call |-> handling[s].call, error |-> error,
              payload |-> payload]
    IN
    /\ IF responsePub[s] = "set"
       THEN responses' = responses \cup {r} /\ UNCHANGED dead
       ELSE dead' = dead \cup {s} /\ UNCHANGED responses
    /\ handling' = [handling EXCEPT ![s] = NoRequest]
    /\ UNCHANGED <<clientVars, requests, offerVars, handlers, stuck, disturbed>>

\* A request is being handled, and its method is registered or is not.
Handles(s) ==
    handling[s] # NoRequest /\ handling[s].method \in handlers[s] /\ s \notin stuck
Misses(s) == handling[s] # NoRequest /\ handling[s].method \notin handlers[s]

MethodNotFound(s) ==
    /\ Misses(s)
    /\ Respond(s, "METHOD_NOT_FOUND", Default)
    /\ UNCHANGED replied

\* The wrapper that register_method files returns resp.New(), a new message of
\* the type of what the handler returned.
HandlerReturns(s, reply) ==
    /\ Handles(s)
    /\ replied' = replied \cup {[call |-> handling[s].call, reply |-> reply]}
    /\ Respond(s, "OK", Default)

HandlerThrows(s) ==
    /\ Handles(s)
    /\ Respond(s, "INTERNAL_ERROR", Default)
    /\ UNCHANGED replied

\* The wrapper hands the handler the ServiceRequest itself, cast to the type of
\* the method's requests, and not the payload: undefined.  Whatever the handler
\* returns or throws then is above; here the process dies of it.
HandlerMiscast(s) ==
    /\ Handles(s) /\ handling[s].method \in Miscast
    /\ dead' = dead \cup {s}
    /\ UNCHANGED <<clientVars, transportVars, serverVars>>

\* The handler calls register_method of its own server.
HandlerRegisters(s) ==
    /\ Handles(s)
    /\ stuck' = stuck \cup {s}
    /\ UNCHANGED <<clientVars, transportVars, offerVars, handlers, handling, disturbed,
                   replied, dead>>

-----------------------------------------------------------------------------

Alive(t) == ProcessOf[ClientOf[t]] \notin dead

ClientStep(t) ==
    Alive(t) /\ (TableOnly(t) \/ File(t) \/ Write(t) \/ WriteTooLong(t)
                 \/ WriteNull(t) \/ Leave(t))

ClientReceives(c) ==
    ProcessOf[c] \notin dead /\ \E r \in responses : Deliver(c, r)

HandlerEnds(s) ==
    \/ MethodNotFound(s) \/ HandlerThrows(s)
    \/ \E reply \in Replies : HandlerReturns(s, reply)

ServerStep(s) ==
    /\ s \notin dead
    /\ \/ OfferSubscribes(s) \/ OfferReturns(s) \/ StopOffer(s)
       \/ \E m \in Methods : RegisterMethod(s, m)
       \/ \E q \in requests : Receive(s, q)
       \/ HandlerEnds(s) \/ HandlerMiscast(s) \/ HandlerRegisters(s)

ProtoNext ==
    \/ \E t \in Threads : ClientStep(t)
    \/ \E c \in Clients : ProcessOf[c] \notin dead /\ Connect(c)
    \/ \E c \in Clients : ClientReceives(c)
    \/ \E s \in Servers : ServerStep(s)

ProtoSafety == ProtoInit /\ [][ProtoNext]_protoVars

\* A request no response to which was written.
Unanswered(q) == \A r \in responses : r.call # q.call

\* A request that can be received again and again is received, a handler that
\* runs returns, and a response that can be delivered is.  No time limit of a
\* call has to pass: an end that these promise is not due to one.
ProtoSpec ==
    /\ ProtoSafety
    /\ \A c \in Clients : WF_protoVars(ClientReceives(c))
    /\ \A s \in Servers :
           /\ SF_protoVars(/\ s \notin dead
                           /\ \E q \in requests : Unanswered(q) /\ Receive(s, q))
           /\ WF_protoVars(s \notin dead /\ HandlerEnds(s))
    /\ \A t \in Threads :
           WF_protoVars(Alive(t) /\ ((TableOnly(t) /\ pc'[t] = "ready") \/ Leave(t)))

-----------------------------------------------------------------------------
(* Properties *)

\* No two calls to one service have the same id.
IdsSeparate ==
    \A x, y \in issued :
        /\ x.sid = y.sid
        /\ ServiceOf[ClientOf[x.thread]] = ServiceOf[ClientOf[y.thread]]
        => x = y

\* A call that returns a message was handled: the handler of its own request
\* returned, and did not throw, however late, often or misdirected responses
\* arrive, as long as the ids of calls to one service are distinct.  But the
\* message is the empty one whatever the handler replied: its reply is lost in
\* the wrapper that register_method files.
ValueMeansHandled ==
    \A t \in Threads : returned[t] # NoResponse =>
        /\ returned[t].payload = Default
        /\ IdsSeparate => \E x \in replied : x.call = Issue(t)

\* The server uses a null response_pub_, or a subscriber that is gone, only if
\* the request came before offer() had returned, stop_offer() was called while
\* it was handled, or the publisher could not be created: it dies of nothing
\* else, but of a handler that reads its request out of a ServiceRequest.
ServerDiesOnlyDisturbed ==
    \A s \in dead \cap Servers :
        \/ s \in disturbed \/ responsePub[s] = "failed"
        \/ handling[s] # NoRequest /\ handling[s].method \in Miscast

\* The request of t's call is on its topic, and a server of it is on offer.
Served(t) ==
    /\ \E q \in requests : q.call = Issue(t)
    /\ \E s \in Servers :
           /\ ServedBy[s] = ServiceOf[ClientOf[t]] /\ s \notin dead \cup stuck
           /\ offered[s] /\ requestSub[s] /\ responsePub[s] = "set"

\* A call whose request was written, to a server that stays on offer, ends
\* although its time limit need not pass, unless its client dies or has no
\* subscriber, or the handler blocks on its server's mutex: whatever its id.
PatientCallEnds ==
    \A t \in Threads :
        pc[t] = "wait" /\ responseSub[ClientOf[t]] /\ Served(t)
            ~> pc[t] # "wait" \/ ~ Alive(t) \/ ~ Served(t)

=============================================================================
