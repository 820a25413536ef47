----------------------------- MODULE ActionServer -----------------------------
(***************************************************************************)
(* The server of an action: ProtoActionServer, and ActionServer where it   *)
(* takes the same steps.                                                   *)
(*                                                                         *)
(* Two subscriber callbacks run it.  on_goal files a handle under          *)
(* goal_handles_mutex_ and then calls the application's goal handler under *)
(* handlers_mutex_; on_cancel marks the handle under goal_handles_mutex_   *)
(* and, without releasing it, calls the cancel handler under               *)
(* handlers_mutex_.  Application threads accept and reject goals, publish  *)
(* feedback and results, and start and stop the server.  A block that      *)
(* holds goal_handles_mutex_ and calls nothing is one step.                *)
(*                                                                         *)
(* The callbacks of two subscribers may overlap: nothing in this code      *)
(* keeps mdds from running them on two threads.  Whether the application's *)
(* handlers call the server back is a constant; one that does may call     *)
(* whatever an application thread may.                                     *)
(*                                                                         *)
(* Neither mutex is recursive: a handler that calls a function which locks *)
(* what its own callback holds waits for ever.                             *)
(***************************************************************************)
EXTENDS Naturals

CONSTANTS
    Workers,            \* application threads
    GoalThread,         \* the goal subscriber's callback
    CancelThread,       \* the cancel subscriber's callback
    GoalIds,            \* goal ids in use
    Reentrant,          \* callback threads whose handler calls the server back
    ResultStatuses,     \* statuses the application calls send_result with
    MaxCancelCalls,     \* bound on the count of cancel handler calls
    NoHandle,           \* goal_handles_ has nothing under an id
    NoGoal,             \* a thread works on no goal
    Nobody              \* a mutex is free

Callbacks == {GoalThread, CancelThread}
Actors == Workers \cup Callbacks

Publishers == {"result", "feedback"}

ActionStatus == {"UNKNOWN", "SUCCEEDED", "CANCELED", "REJECTED", "ABORTED",
                 "PREEMPTED", "EXECUTING", "PREEMPTING", "READY"}

ASSUME ServerAssumption ==
    /\ GoalThread # CancelThread /\ Callbacks \cap Workers = {}
    /\ Nobody \notin Actors
    /\ NoGoal \notin GoalIds
    /\ Reentrant \subseteq Callbacks
    /\ ResultStatuses \subseteq ActionStatus
    /\ MaxCancelCalls \in Nat

\* What a handle of the server can show.
HandleStatuses == {"READY", "EXECUTING", "REJECTED"} \cup ResultStatuses

Handles == [status : HandleStatuses, cancelled : BOOLEAN, result : BOOLEAN,
            cancelCalls : 0 .. MaxCancelCalls]

ASSUME HandleAssumption == NoHandle \notin Handles

VARIABLES
    initialized,    \* initialized_
    running,        \* running_
    subscribed,     \* callbacks whose subscriber, goal_sub_ or cancel_sub_, is set
    publishers,     \* which of result_pub_ and feedback_pub_ are set
    handlers,       \* callbacks whose handler the application registered
    handles,        \* goal_handles_
    goalsMutex,     \* holder of goal_handles_mutex_, between steps
    handlersMutex,  \* holder of handlers_mutex_, between steps
    pc,             \* where a thread is
    at,             \* the goal a thread works on
    crash,          \* publishers that were used while null
    failed,         \* history: publishers that init() could not create
    outsideLife     \* history: the server was started or used before init()
                    \* had returned, or stop() was called

lifeVars == <<initialized, running, subscribed, publishers, failed, outsideLife>>
lockVars == <<goalsMutex, handlersMutex>>
serverVars == <<lifeVars, handlers, handles, lockVars, pc, at, crash>>

ServerTypeOK ==
    /\ initialized \in BOOLEAN /\ running \in BOOLEAN
    /\ subscribed \subseteq Callbacks /\ publishers \subseteq Publishers
    /\ handlers \subseteq Callbacks
    /\ handles \in [GoalIds -> Handles \cup {NoHandle}]
    /\ goalsMutex \in Actors \cup {Nobody}
    /\ handlersMutex \in Actors \cup {Nobody}
    /\ pc \in [Actors -> {"idle", "init", "file", "enter", "handler", "feedback",
                          "store", "call", "register"}]
    /\ at \in [Actors -> GoalIds \cup {NoGoal}]
    /\ crash \subseteq Publishers /\ failed \subseteq Publishers
    /\ outsideLife \in BOOLEAN

ServerInit ==
    /\ initialized = FALSE /\ running = FALSE
    /\ subscribed = {} /\ publishers = {}
    /\ handlers = {}
    /\ handles = [g \in GoalIds |-> NoHandle]
    /\ goalsMutex = Nobody /\ handlersMutex = Nobody
    /\ pc = [a \in Actors |-> "idle"]
    /\ at = [a \in Actors |-> NoGoal]
    /\ crash = {} /\ failed = {} /\ outsideLife = FALSE

-----------------------------------------------------------------------------
(* Helpers *)

Goto(a, from, to) == pc[a] = from /\ pc' = [pc EXCEPT ![a] = to]

\* a takes up goal g, or is done with its goal.
Takes(a, g) == at' = [at EXCEPT ![a] = g]

FreshHandle == [status |-> "READY", cancelled |-> FALSE, result |-> FALSE,
                cancelCalls |-> 0]

Filed(g) == handles[g] # NoHandle
SetStatus(g, status) == handles' = [handles EXCEPT ![g].status = status]

\* Mutant: a goal filed by its decision keeps the enumeration's zero value.
DecideUnset(g, status) ==
    IF Filed(g) THEN SetStatus(g, status)
    ELSE handles' = [handles EXCEPT ![g] = [FreshHandle EXCEPT !.status = "UNKNOWN"]]

\* accept_goal and reject_goal: a goal that is not filed is filed.
Decide(g, status) ==
    IF Filed(g) THEN SetStatus(g, status)
    ELSE handles' = [handles EXCEPT ![g] = [FreshHandle EXCEPT !.status = status]]

\* The application uses the server, perhaps before init() has returned.
Uses ==
    /\ outsideLife' = (outsideLife \/ ~ initialized)
    /\ UNCHANGED <<initialized, running, subscribed, publishers, failed>>

\* A publisher is used: the program dies if it is null.
UsePublisher(p) == crash' = crash \cup ({p} \ publishers)

\* The application's code runs on a: its own thread, or a handler that calls
\* the server.
Applies(a) == IF a \in Callbacks THEN a \in Reentrant /\ pc[a] = "handler"
              ELSE pc[a] = "idle"

\* a locks goal_handles_mutex_ for one of the application's calls.
LocksGoals(a) ==
    /\ pc[a] = IF a \in Callbacks THEN "call" ELSE "idle"
    /\ goalsMutex = Nobody

\* A call of the application on a returns.
Returns(a) == pc' = [pc EXCEPT ![a] = IF a \in Callbacks THEN "handler" ELSE "idle"]

\* The status send_result puts into the message.
ToWire(status) ==
    IF status \in {"SUCCEEDED", "CANCELED", "REJECTED", "ABORTED", "PREEMPTED"}
    THEN status ELSE "UNKNOWN"

-----------------------------------------------------------------------------
(* init, start, stop, register_*_handler *)

\* init() creates the subscribers first: callbacks may run from here on.  Any
\* of the four endpoints may fail, and init() carries on.
\* One thread initialises a server (initialized_ is not atomic).
InitSubscribes(w) ==
    /\ ~ initialized
    /\ \A v \in Workers : pc[v] # "init"
    /\ Goto(w, "idle", "init")
    /\ \E made \in SUBSET Callbacks : subscribed' = made
    /\ UNCHANGED <<initialized, running, publishers, failed, outsideLife, handlers,
                   handles, lockVars, at, crash>>

InitPublishes(w) ==
    /\ Goto(w, "init", "idle")
    /\ \E made \in SUBSET Publishers :
           publishers' = made /\ failed' = Publishers \ made
    /\ initialized' = TRUE
    /\ UNCHANGED <<running, subscribed, outsideLife, handlers, handles, lockVars, at, crash>>

Start(a) ==
    /\ Applies(a)
    /\ running' = TRUE
    /\ outsideLife' = (outsideLife \/ ~ initialized)
    /\ UNCHANGED <<initialized, subscribed, publishers, failed, handlers, handles,
                   lockVars, pc, at, crash>>

\* A callback in progress carries on.
Stop(a) ==
    /\ Applies(a)
    /\ running' = FALSE /\ subscribed' = {} /\ publishers' = {}
    /\ outsideLife' = TRUE
    /\ UNCHANGED <<initialized, failed, handlers, handles, lockVars, pc, at, crash>>

RegisterHandler(w, callback) ==
    /\ pc[w] = "idle" /\ handlersMutex = Nobody
    /\ handlers' = handlers \cup {callback}
    /\ UNCHANGED <<lifeVars, handles, lockVars, pc, at, crash>>

\* A handler that registers a handler waits for the handlers_mutex_ its own
\* callback holds.  The call never returns.
HandlerRegisters(a) ==
    /\ a \in Callbacks /\ Applies(a)
    /\ Goto(a, "handler", "register")
    /\ UNCHANGED <<lifeVars, handlers, handles, lockVars, at, crash>>

-----------------------------------------------------------------------------
(* on_goal *)

\* A message of the subscriber reaches callback a.
Receives(a) == a \in subscribed /\ pc[a] = "idle"

\* Mutant: on_goal does not look at running_, as in ActionServer.
OnGoalAnyTime(g) ==
    /\ Receives(GoalThread)
    /\ Goto(GoalThread, "idle", "file")
    /\ Takes(GoalThread, g)
    /\ UNCHANGED <<lifeVars, handlers, handles, lockVars, crash>>

\* A goal that arrives while running_ is false is dropped.
OnGoal(g) ==
    /\ Receives(GoalThread) /\ running
    /\ Goto(GoalThread, "idle", "file")
    /\ Takes(GoalThread, g)
    /\ UNCHANGED <<lifeVars, handlers, handles, lockVars, crash>>

\* The payload does not parse: reject_goal.
OnGoalUnparsable(g) ==
    /\ Receives(GoalThread) /\ running
    /\ goalsMutex = Nobody
    /\ Decide(g, "REJECTED")
    /\ UNCHANGED <<lifeVars, handlers, lockVars, pc, at, crash>>

\* Mutant: goal_handles_mutex_ is still held while the handler runs.
FileGoalHeld ==
    /\ Goto(GoalThread, "file", "enter")
    /\ goalsMutex = Nobody
    /\ goalsMutex' = GoalThread
    /\ handles' = [handles EXCEPT ![at[GoalThread]] = FreshHandle]
    /\ UNCHANGED <<lifeVars, handlers, handlersMutex, at, crash>>

\* A handle already filed under the id is replaced.
FileGoal ==
    /\ Goto(GoalThread, "file", "enter")
    /\ goalsMutex = Nobody
    /\ handles' = [handles EXCEPT ![at[GoalThread]] = FreshHandle]
    /\ UNCHANGED <<lifeVars, handlers, lockVars, at, crash>>

EnterGoalHandler ==
    /\ handlersMutex = Nobody
    /\ GoalThread \in handlers
    /\ Goto(GoalThread, "enter", "handler")
    /\ handlersMutex' = GoalThread
    /\ UNCHANGED <<lifeVars, handlers, handles, goalsMutex, at, crash>>

\* No handler is registered: the goal counts as accepted.
NoGoalHandler ==
    /\ handlersMutex = Nobody
    /\ GoalThread \notin handlers
    /\ Goto(GoalThread, "enter", "idle")
    /\ Takes(GoalThread, NoGoal)
    /\ SetStatus(at[GoalThread], "EXECUTING")
    /\ UNCHANGED <<lifeVars, handlers, lockVars, crash>>

\* The handler returned true.  A progress above 0 is published at once.
GoalAccepted(progress) ==
    LET g == at[GoalThread] IN
    /\ Goto(GoalThread, "handler", IF progress THEN "feedback" ELSE "idle")
    /\ SetStatus(g, "EXECUTING")
    /\ Takes(GoalThread, IF progress THEN g ELSE NoGoal)
    /\ handlersMutex' = IF progress THEN GoalThread ELSE Nobody
    /\ UNCHANGED <<lifeVars, handlers, goalsMutex, crash>>

GoalRejected ==
    /\ Goto(GoalThread, "handler", "idle")
    /\ SetStatus(at[GoalThread], "REJECTED")
    /\ Takes(GoalThread, NoGoal)
    /\ handlersMutex' = Nobody
    /\ UNCHANGED <<lifeVars, handlers, goalsMutex, crash>>

\* Mutant: publish_feedback takes no lock.
FirstFeedbackUnlocked ==
    /\ Goto(GoalThread, "feedback", "idle")
    /\ UsePublisher("feedback")
    /\ Takes(GoalThread, NoGoal)
    /\ handlersMutex' = Nobody
    /\ UNCHANGED <<lifeVars, handlers, handles, goalsMutex>>

\* publish_feedback from on_goal, with handlers_mutex_ held.
FirstFeedback ==
    /\ Goto(GoalThread, "feedback", "idle")
    /\ goalsMutex = Nobody
    /\ UsePublisher("feedback")
    /\ Takes(GoalThread, NoGoal)
    /\ handlersMutex' = Nobody
    /\ UNCHANGED <<lifeVars, handlers, handles, goalsMutex>>

-----------------------------------------------------------------------------
(* on_cancel *)

\* Mutant: a second cancel of a goal is handled like the first.
OnCancelAgain(g) ==
    /\ Receives(CancelThread)
    /\ goalsMutex = Nobody
    /\ Filed(g)
    /\ Goto(CancelThread, "idle", "enter")
    /\ Takes(CancelThread, g)
    /\ goalsMutex' = CancelThread
    /\ handles' = [handles EXCEPT ![g].cancelled = TRUE]
    /\ UNCHANGED <<lifeVars, handlers, handlersMutex, crash>>

\* A cancel of an unknown goal, or a second one, does nothing.
OnCancel(g) ==
    /\ Receives(CancelThread)
    /\ goalsMutex = Nobody
    /\ Filed(g) /\ ~ handles[g].cancelled
    /\ Goto(CancelThread, "idle", "enter")
    /\ Takes(CancelThread, g)
    /\ goalsMutex' = CancelThread
    /\ handles' = [handles EXCEPT ![g].cancelled = TRUE]
    /\ UNCHANGED <<lifeVars, handlers, handlersMutex, crash>>

EnterCancelHandler ==
    LET g == at[CancelThread] IN
    /\ Goto(CancelThread, "enter", "handler")
    /\ handlersMutex = Nobody
    /\ CancelThread \in handlers
    /\ handles[g].cancelCalls < MaxCancelCalls
    /\ handlersMutex' = CancelThread
    /\ handles' = [handles EXCEPT ![g].cancelCalls = @ + 1]
    /\ UNCHANGED <<lifeVars, handlers, goalsMutex, at, crash>>

CancelEnds(from) ==
    /\ Goto(CancelThread, from, "idle")
    /\ Takes(CancelThread, NoGoal)
    /\ goalsMutex' = Nobody
    /\ UNCHANGED <<lifeVars, handlers, handles, crash>>

NoCancelHandler ==
    /\ handlersMutex = Nobody /\ UNCHANGED handlersMutex
    /\ CancelThread \notin handlers
    /\ CancelEnds("enter")

\* What the cancel handler returns is not looked at.
CancelReturns ==
    /\ CancelEnds("handler")
    /\ handlersMutex' = Nobody

-----------------------------------------------------------------------------
(* accept_goal, reject_goal, publish_feedback, send_result *)

\* A handler calls one of the three that lock goal_handles_mutex_ at once: from
\* a cancel handler it is locked already.
HandlerCalls(a) ==
    /\ a \in Callbacks /\ Applies(a)
    /\ Goto(a, "handler", "call")
    /\ UNCHANGED <<lifeVars, handlers, handles, lockVars, at, crash>>

AcceptGoal(a, g) ==
    /\ LocksGoals(a) /\ Returns(a)
    /\ Decide(g, "EXECUTING")
    /\ Uses
    /\ UNCHANGED <<handlers, lockVars, at, crash>>

RejectGoal(a, g) ==
    /\ LocksGoals(a) /\ Returns(a)
    /\ Decide(g, "REJECTED")
    /\ Uses
    /\ UNCHANGED <<handlers, lockVars, at, crash>>

PublishFeedback(a) ==
    /\ LocksGoals(a) /\ Returns(a)
    /\ UsePublisher("feedback")
    /\ Uses
    /\ UNCHANGED <<handlers, handles, lockVars, at>>

\* send_result publishes with no lock held by itself.  A handler sends the
\* result of the goal it was called for.
PublishResult(a, g) ==
    /\ Applies(a)
    /\ a \in Callbacks => g = at[a]
    /\ pc' = [pc EXCEPT ![a] = "store"]
    /\ UsePublisher("result")
    /\ Takes(a, g)
    /\ Uses
    /\ UNCHANGED <<handlers, handles, lockVars>>

\* set_result on the server's own handle, with the status the application gave.
StoreResult(a, status) ==
    LET g == at[a] IN
    /\ pc[a] = "store" /\ Returns(a)
    /\ goalsMutex = Nobody
    /\ IF Filed(g)
       THEN handles' = [handles EXCEPT ![g].status = status, ![g].result = TRUE]
       ELSE UNCHANGED handles
    /\ Takes(a, IF a \in Callbacks THEN g ELSE NoGoal)
    /\ UNCHANGED <<lifeVars, handlers, lockVars, crash>>

-----------------------------------------------------------------------------

GoalHandlerReturns ==
    \/ \E progress \in BOOLEAN : GoalAccepted(progress)
    \/ GoalRejected

\* A call of the application, begun on a, goes on and returns.
CallReturns(a) ==
    \/ \E g \in GoalIds : AcceptGoal(a, g) \/ RejectGoal(a, g)
    \/ PublishFeedback(a)
    \/ \E status \in ResultStatuses : StoreResult(a, status)

\* What a callback does once it has taken up a message.
CallbackStep ==
    \/ FileGoal \/ EnterGoalHandler \/ NoGoalHandler
    \/ GoalHandlerReturns \/ FirstFeedback
    \/ EnterCancelHandler \/ NoCancelHandler \/ CancelReturns
    \/ \E a \in Callbacks : CallReturns(a)

Message == \E g \in GoalIds : OnGoal(g) \/ OnGoalUnparsable(g) \/ OnCancel(g)

\* A handler calls the server.
HandlerStep(a) ==
    \/ HandlerRegisters(a) \/ HandlerCalls(a) \/ Start(a) \/ Stop(a)
    \/ \E g \in GoalIds : PublishResult(a, g)

WorkerStep(w) ==
    \/ InitSubscribes(w) \/ InitPublishes(w) \/ Start(w) \/ Stop(w)
    \/ \E callback \in Callbacks : RegisterHandler(w, callback)
    \/ \E g \in GoalIds : PublishResult(w, g)
    \/ CallReturns(w)

ServerNext ==
    /\ crash = {}
    /\ \/ CallbackStep
       \/ Message
       \/ \E a \in Callbacks : HandlerStep(a)
       \/ \E w \in Workers : WorkerStep(w)

ServerSafety == ServerInit /\ [][ServerNext]_serverVars

\* A callback in progress runs on, and the application's handlers return,
\* however often they call the server before.
ServerSpec ==
    /\ ServerSafety
    /\ WF_serverVars(crash = {} /\ CallbackStep)
    /\ SF_serverVars(crash = {} /\ GoalHandlerReturns)
    /\ SF_serverVars(crash = {} /\ CancelReturns)

-----------------------------------------------------------------------------
(* Properties *)

\* The application's cancel handler runs at most once for each handle on_goal,
\* accept_goal or reject_goal files, however often and whenever the client
\* cancels.  A goal that arrives again gets a handle that knows of no cancel:
\* the handler may then run again for the same id.
CancelOncePerFiling == \A g \in GoalIds : Filed(g) => handles[g].cancelCalls <= 1

\* A null result_pub_ or feedback_pub_ is used only if init() could not create
\* that very publisher, which it does not tell its caller, or the application
\* stopped the server or used it before init() had returned.  That init()
\* creates the subscribers before the publishers does no harm by itself:
\* on_goal drops what arrives until start().
NullPublisherHasCause == crash \subseteq failed \/ outsideLife

\* on_goal holds handlers_mutex_ and waits for goal_handles_mutex_ (for the first
\* feedback, or because its handler called accept_goal, reject_goal,
\* publish_feedback or send_result), and on_cancel the other way round.
Crossed ==
    /\ handlersMutex = GoalThread /\ pc[GoalThread] \in {"feedback", "call", "store"}
    /\ goalsMutex = CancelThread /\ pc[CancelThread] = "enter"

\* A handler waits for a mutex its own callback holds: either handler, when it
\* calls register_goal_handler or register_cancel_handler, and the cancel
\* handler, when it calls accept_goal, reject_goal, publish_feedback or
\* send_result.
SelfLocked ==
    \/ \E a \in Callbacks : handlersMutex = a /\ pc[a] = "register"
    \/ goalsMutex = CancelThread /\ pc[CancelThread] \in {"call", "store"}

\* a is about to lock a mutex that is held.
Blocked(a) ==
    \/ pc[a] \in {"file", "feedback", "call", "store"} /\ goalsMutex # Nobody
    \/ pc[a] \in {"enter", "register"} /\ handlersMutex # Nobody

\* There is no third kind of deadlock: whenever a thread waits for one of the
\* two mutexes, a thread that holds one of them is at work and does not wait.
NoOtherDeadlock ==
    (\E a \in Actors : Blocked(a)) =>
        \/ Crossed \/ SelfLocked
        \/ \E b \in {goalsMutex, handlersMutex} \cap Actors :
               pc[b] # "idle" /\ ~ Blocked(b)

\* Neither of the two is ever resolved, whatever the application does.
DeadlockIsForever ==
    [][(Crossed => Crossed') /\ (SelfLocked => SelfLocked')]_serverVars

\* A callback that has taken up a message comes back to idle, but for the two
\* kinds of deadlock: the crossed locks of on_goal and on_cancel, and a handler
\* that calls for a mutex its own callback holds.
CallbacksReturn ==
    \A a \in Callbacks :
        pc[a] # "idle" ~> pc[a] = "idle" \/ crash # {} \/ Crossed \/ SelfLocked

=============================================================================
