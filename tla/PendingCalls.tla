---------------------------- MODULE PendingCalls ----------------------------
(***************************************************************************)
(* The table of outstanding requests of a ServiceClient and the session    *)
(* ids that key it.                                                        *)
(*                                                                         *)
(* ServiceClient::send_request is run by any number of threads.  A call    *)
(* draws a session id from the process-wide ServiceManager, files a        *)
(* promise under it in pending_requests_, sends, waits on the future with  *)
(* a time limit, and removes whatever the table holds under its id.  A     *)
(* callback thread completes the promise filed under the id of an          *)
(* arriving response.  Every block that holds pending_mutex_ is one step.  *)
(* generate_session_id increments a plain uint16_t with no lock, so its    *)
(* read and its write are two steps.                                       *)
(*                                                                         *)
(* This module leaves the transport out: Resolve may complete any filed    *)
(* promise at any time.  ServiceRpc adds topics, subscribers and servers.  *)
(***************************************************************************)
EXTENDS Naturals

CONSTANTS
    Threads,      \* threads that call send_request
    Clients,      \* ServiceClient objects
    Processes,    \* operating-system processes, one ServiceManager in each
    ClientOf,     \* the client object a thread calls
    ProcessOf,    \* the process a client object lives in
    SessionMod,   \* number of SessionId values: 2^16 in the code
    MaxCalls,     \* bound: calls one thread makes
    NoThread      \* the table holds no promise under an id

ASSUME CallersAssumption ==
    /\ ClientOf \in [Threads -> Clients]
    /\ ProcessOf \in [Clients -> Processes]
    /\ NoThread \notin Threads

ASSUME SessionAssumption ==
    /\ SessionMod \in Nat /\ SessionMod > 1
    /\ MaxCalls \in Nat

VARIABLES
    nextSessionId,  \* ServiceManager::next_session_id_ of each process
    pc,             \* where in send_request a thread is
    sessionId,      \* the local session_id of a thread's call
    pending,        \* pending_requests_: whose promise is filed under an id
    future,         \* the shared state of the promise of a thread's call
    outcome,        \* how a thread's last call ended
    calls,          \* calls a thread has begun
    issued          \* history: the session ids handed out, and to which call

tableVars == <<nextSessionId, pc, sessionId, pending, future, outcome,
               calls, issued>>

SessionIds == 0 .. SessionMod - 1

\* A call from Filed on has its promise made and has not yet returned.
Filed == {"send", "write", "wait", "timeout", "ready"}
Labels == {"idle", "load", "store", "register"} \cup Filed

Issue(t) == [sid |-> sessionId[t], thread |-> t, call |-> calls[t]]

TableTypeOK ==
    /\ nextSessionId \in [Processes -> SessionIds]
    /\ pc \in [Threads -> Labels]
    /\ sessionId \in [Threads -> SessionIds]
    /\ pending \in [Clients -> [SessionIds -> Threads \cup {NoThread}]]
    /\ future \in [Threads -> {"unset", "value", "broken"}]
    /\ outcome \in [Threads -> {"none", "nullopt", "value", "throw"}]
    /\ calls \in [Threads -> 0 .. MaxCalls]
    /\ issued \subseteq [sid : SessionIds, thread : Threads, call : 0 .. MaxCalls]

TableInit ==
    /\ nextSessionId = [p \in Processes |-> 1]
    /\ pc = [t \in Threads |-> "idle"]
    /\ sessionId = [t \in Threads |-> 0]
    /\ pending = [c \in Clients |-> [s \in SessionIds |-> NoThread]]
    /\ future = [t \in Threads |-> "unset"]
    /\ outcome = [t \in Threads |-> "none"]
    /\ calls = [t \in Threads |-> 0]
    /\ issued = {}

-----------------------------------------------------------------------------
(* Helpers *)

Goto(t, from, to) == pc[t] = from /\ pc' = [pc EXCEPT ![t] = to]

\* A step that moves t on and touches nothing another thread sees.
Advance(t, from, to) ==
    /\ Goto(t, from, to)
    /\ UNCHANGED <<nextSessionId, sessionId, pending, future, outcome, calls,
                   issued>>

\* What the table holds under the id of t's call.
Entry(t) == pending[ClientOf[t]][sessionId[t]]

\* Destroying the promise of u leaves std::future_error in its shared state.
Abandon(u) == [t \in Threads |-> IF t = u THEN "broken" ELSE future[t]]

\* Mutant: the table is cleared instead of one entry erased.
EraseAll(t) ==
    /\ pending' = [pending EXCEPT ![ClientOf[t]] = [s \in SessionIds |-> NoThread]]
    /\ future' = [u \in Threads |->
                     IF \E s \in SessionIds : pending[ClientOf[t]][s] = u
                     THEN "broken" ELSE future[u]]

\* pending_requests_.erase(session_id), whosever promise it is.
Erase(t) ==
    /\ pending' = [pending EXCEPT ![ClientOf[t]][sessionId[t]] = NoThread]
    /\ future' = Abandon(Entry(t))

Return(t, from, how) ==
    /\ Goto(t, from, "idle")
    /\ outcome' = [outcome EXCEPT ![t] = how]

-----------------------------------------------------------------------------
(* send_request, one step of thread t at a time *)

Begin(t) ==
    /\ Goto(t, "idle", "load")
    /\ calls[t] < MaxCalls
    /\ calls' = [calls EXCEPT ![t] = @ + 1]
    /\ outcome' = [outcome EXCEPT ![t] = "none"]
    /\ UNCHANGED <<nextSessionId, sessionId, pending, future, issued>>

\* TopicManager has no participant to give (ServiceClient), or the client is
\* not initialised (ProtoServiceClient).
NoParticipant(t) ==
    /\ Return(t, "idle", "nullopt")
    /\ calls[t] < MaxCalls
    /\ calls' = [calls EXCEPT ![t] = @ + 1]
    /\ UNCHANGED <<nextSessionId, sessionId, pending, future, issued>>

LoadSessionId(t) ==
    /\ Goto(t, "load", "store")
    /\ sessionId' = [sessionId EXCEPT ![t] = nextSessionId[ProcessOf[ClientOf[t]]]]
    /\ UNCHANGED <<nextSessionId, pending, future, outcome, calls, issued>>

\* Mutant: the counter does not wrap.
StoreUnwrapped(t) ==
    /\ Goto(t, "store", "register")
    /\ nextSessionId' = [nextSessionId EXCEPT
           ![ProcessOf[ClientOf[t]]] = sessionId[t] + 1]
    /\ issued' = issued \cup {Issue(t)}
    /\ UNCHANGED <<sessionId, pending, future, outcome, calls>>

\* Mutant: the id is handed out before the increment is written back.
StoreStale(t) ==
    /\ Goto(t, "store", "register")
    /\ issued' = issued \cup {Issue(t)}
    /\ UNCHANGED <<nextSessionId, sessionId, pending, future, outcome, calls>>

StoreSessionId(t) ==
    /\ Goto(t, "store", "register")
    /\ nextSessionId' = [nextSessionId EXCEPT
           ![ProcessOf[ClientOf[t]]] = (sessionId[t] + 1) % SessionMod]
    /\ issued' = issued \cup {Issue(t)}
    /\ UNCHANGED <<sessionId, pending, future, outcome, calls>>

\* Mutant: a call does not replace a promise filed under its id.
RegisterKeepsOld(t) ==
    /\ Goto(t, "register", "send")
    /\ future' = [future EXCEPT ![t] = "unset"]
    /\ pending' = [pending EXCEPT ![ClientOf[t]][sessionId[t]] =
                      IF @ = NoThread THEN t ELSE @]
    /\ UNCHANGED <<nextSessionId, sessionId, outcome, calls, issued>>

\* pending_requests_[session_id] = std::move(promise): a promise already
\* filed under the id is destroyed.
Register(t) ==
    /\ Goto(t, "register", "send")
    /\ future' = [Abandon(Entry(t)) EXCEPT ![t] = "unset"]
    /\ pending' = [pending EXCEPT ![ClientOf[t]][sessionId[t]] = t]
    /\ UNCHANGED <<nextSessionId, sessionId, outcome, calls, issued>>

\* The request cannot be sent: create_publisher or create_subscriber returned
\* null in ServiceClient, the payload does not serialise in ProtoServiceClient.
SendFails(t) ==
    /\ Return(t, "send", "nullopt")
    /\ Erase(t)
    /\ UNCHANGED <<nextSessionId, sessionId, calls, issued>>

\* What the request is sent with is ready.
Prepared(t) == Advance(t, "send", "write")

Sent(t) == Advance(t, "write", "wait")

\* future.wait_for returns; pending_mutex_ is not yet held.
WakeReady(t) == future[t] # "unset" /\ Advance(t, "wait", "ready")

\* Mutant: the wait has no time limit.
WakeNever(t) == FALSE /\ Advance(t, "wait", "timeout")

WakeTimeout(t) == future[t] = "unset" /\ Advance(t, "wait", "timeout")

\* Mutant: a call that timed out leaves its promise in the table.
FinishTimeoutKeeps(t) ==
    /\ Return(t, "timeout", "nullopt")
    /\ UNCHANGED <<nextSessionId, sessionId, pending, future, calls, issued>>

FinishTimeout(t) ==
    /\ Return(t, "timeout", "nullopt")
    /\ Erase(t)
    /\ UNCHANGED <<nextSessionId, sessionId, calls, issued>>

\* future.get(): the value, or the std::future_error of a broken promise.
FinishReady(t) ==
    /\ Return(t, "ready", IF future[t] = "value" THEN "value" ELSE "throw")
    /\ Erase(t)
    /\ UNCHANGED <<nextSessionId, sessionId, calls, issued>>

-----------------------------------------------------------------------------
(* handle_response on a callback thread: the id is in the table *)

Resolve(c, s) ==
    LET owner == pending[c][s] IN
    /\ owner # NoThread
    /\ future' = [future EXCEPT ![owner] = "value"]
    /\ pending' = [pending EXCEPT ![c][s] = NoThread]
    /\ UNCHANGED <<nextSessionId, pc, sessionId, outcome, calls, issued>>

-----------------------------------------------------------------------------

\* The steps a thread takes once it has begun a call.
TableStep(t) ==
    \/ LoadSessionId(t) \/ StoreSessionId(t) \/ Register(t)
    \/ SendFails(t) \/ Prepared(t) \/ Sent(t)
    \/ WakeReady(t) \/ WakeTimeout(t)
    \/ FinishTimeout(t) \/ FinishReady(t)

TableNext ==
    \/ \E t \in Threads : Begin(t) \/ NoParticipant(t) \/ TableStep(t)
    \/ \E c \in Clients, s \in SessionIds : Resolve(c, s)

\* A thread inside send_request keeps running, and wait_for has a time limit.
TableFairness == \A t \in Threads : WF_tableVars(TableStep(t))

TableSafety == TableInit /\ [][TableNext]_tableVars

TableSpec == TableSafety /\ TableFairness

-----------------------------------------------------------------------------
(* Properties *)

\* A promise in pending_requests_ is that of a call of this client still in
\* progress under this id, and is not yet satisfied: no entry outlives its
\* call, and set_value never finds the promise already satisfied.
PendingOwned ==
    \A c \in Clients, s \in SessionIds :
        pending[c][s] # NoThread =>
            LET u == pending[c][s] IN
            /\ ClientOf[u] = c /\ sessionId[u] = s
            /\ pc[u] \in Filed /\ future[u] = "unset"

\* A call that still waits for an answer has its promise in the table under
\* its id, so that handle_response can find it; this survives every clash
\* of session ids, because a displaced promise is broken and wakes its call.
NoOrphanedWaiter ==
    \A t \in Threads :
        pc[t] \in Filed /\ future[t] = "unset" => Entry(t) = t

\* No session id was handed out twice to calls of one client.
UniqueInClient ==
    \A x, y \in issued :
        ClientOf[x.thread] = ClientOf[y.thread] /\ x.sid = y.sid => x = y

\* As long as the ids of a client's calls are distinct, future.get() in
\* send_request never meets a broken promise and the call never throws.
ThrowsOnlyOnClash ==
    UniqueInClient => \A t \in Threads : outcome[t] # "throw"

\* No two threads of a process are between the read and the write of its
\* counter, and no counter has wrapped so that a call was given id 0.
DrawsInTurn ==
    /\ \A t, u \in Threads :
           /\ ProcessOf[ClientOf[t]] = ProcessOf[ClientOf[u]]
           /\ pc[t] = "store" /\ pc[u] = "store"
           => t = u
    /\ \A x \in issued : x.sid # 0

\* The unlocked counter and its 16 bits are all that can make a call throw:
\* drawn in turn, and before they wrap, ids never clash.
ClashNeedsRaceOrWrap ==
    []DrawsInTurn => [](\A t \in Threads : outcome[t] # "throw")

\* Every call returns: the wait has a time limit and no lock is held in it.
CallsReturn == \A t \in Threads : pc[t] # "idle" ~> pc[t] = "idle"

=============================================================================
