----------------------------- MODULE ActionClient -----------------------------
(***************************************************************************)
(* The client of an action: ActionClient and ProtoActionClient, and the    *)
(* GoalHandle they share with the application.                             *)
(*                                                                         *)
(* send_goal draws a goal id, files a fresh handle under it in             *)
(* goal_handles_, publishes the goal and marks the handle EXECUTING.       *)
(* cancel_goal publishes and marks; get_result waits for a result while it *)
(* holds goal_handles_mutex_; a callback thread stores the results and     *)
(* feedback that arrive.  A block that holds goal_handles_mutex_ is one    *)
(* step, except the wait of get_result and the two stores of set_result,   *)
(* which the application can see from outside the lock.                    *)
(*                                                                         *)
(* The two classes take the same steps; where their source differs the     *)
(* comment of the action says so.  The server is left open here: any goal  *)
(* that was published may be answered, any number of times.                *)
(*                                                                         *)
(* Every endpoint exists once init() has run.  In the code one that could  *)
(* not be created stays null while initialized_ becomes true, and sending  *)
(* through it ends the program: that case is ActionServer's.               *)
(***************************************************************************)
EXTENDS Naturals

CONSTANTS
    Threads,     \* application threads
    Clients,     \* action client objects
    Actions,     \* action names: each has a goal, cancel, result, feedback topic
    ClientOf,    \* the client a thread calls
    ActionOf,    \* the action a client belongs to
    MaxGoals,    \* bound: goals any client sends (2^32 ids in the code)
    GoalsOf,     \* bound: goals a client sends
    Subscribers, \* bound: clients that subscribe to feedback
    Wire,        \* terminal_status values a result message may carry
    NoHandle,    \* goal_handles_ has nothing under an id
    NoResult,    \* no result
    Nobody,      \* goal_handles_mutex_ is free
    Callback     \* goal_handles_mutex_ is held by the result callback

Statuses == {"UNKNOWN", "SUCCEEDED", "CANCELED", "REJECTED", "ABORTED",
             "PREEMPTED", "EXECUTING", "PREEMPTING", "READY"}

ASSUME ActionAssumption ==
    /\ ClientOf \in [Threads -> Clients]
    /\ ActionOf \in [Clients -> Actions]
    /\ MaxGoals \in Nat
    /\ GoalsOf \in [Clients -> 0 .. MaxGoals]
    /\ Subscribers \subseteq Clients

ASSUME MutexAssumption == Nobody # Callback /\ {Nobody, Callback} \cap Threads = {}

GoalIds == 1 .. MaxGoals
Goals == [client : Clients, id : GoalIds]
Results == [action : Actions, id : GoalIds, status : Wire, goal : Goals]
Cancels == [action : Actions, id : GoalIds]

ASSUME NoResultAssumption == NoResult \notin Results

Handles == [status : Statuses, cancelled : BOOLEAN, result : Results \cup {NoResult}]

ASSUME NoHandleAssumption == NoHandle \notin Handles

VARIABLES
    nextGoalId,      \* next_goal_id_
    handles,         \* goal_handles_
    mutex,           \* holder of goal_handles_mutex_, between steps
    storing,         \* the result set_result is storing
    listening,       \* clients whose init() has run
    pc,              \* where a thread is
    goalId,          \* the goal id a thread works on
    got,             \* what a thread's last get_result returned
    feedbackHandler, \* clients with a feedback_handler_
    inHandler,       \* clients whose feedback_handler_ is running
    goals,           \* goal messages published
    cancels,         \* cancel messages published
    results,         \* result messages published
    overtaken        \* history: goals whose status send_goal set after a
                     \* result had come

goalVars == <<nextGoalId, handles, mutex, storing, listening, overtaken>>
threadVars == <<pc, goalId, got>>
feedbackVars == <<feedbackHandler, inHandler>>
topicVars == <<goals, cancels, results>>
clientVars == <<goalVars, threadVars, feedbackVars>>
actionVars == <<clientVars, topicVars>>

ClientTypeOK ==
    /\ nextGoalId \in [Clients -> 1 .. MaxGoals + 1]
    /\ handles \in [Clients -> [GoalIds -> Handles \cup {NoHandle}]]
    /\ mutex \in [Clients -> Threads \cup {Callback, Nobody}]
    /\ storing \in [Clients -> Results \cup {NoResult}]
    /\ listening \subseteq Clients
    /\ pc \in [Threads -> {"idle", "file", "publish", "mark", "cancel", "poll"}]
    /\ goalId \in [Threads -> 0 .. MaxGoals]
    /\ got \in [Threads -> Results \cup {NoResult}]
    /\ feedbackHandler \subseteq Clients /\ inHandler \subseteq Clients
    /\ goals \subseteq Goals /\ cancels \subseteq Cancels
    /\ results \subseteq Results
    /\ overtaken \subseteq Goals

ClientInit ==
    /\ nextGoalId = [c \in Clients |-> 1]
    /\ handles = [c \in Clients |-> [g \in GoalIds |-> NoHandle]]
    /\ mutex = [c \in Clients |-> Nobody]
    /\ storing = [c \in Clients |-> NoResult]
    /\ listening = {}
    /\ pc = [t \in Threads |-> "idle"]
    /\ goalId = [t \in Threads |-> 0]
    /\ got = [t \in Threads |-> NoResult]
    /\ feedbackHandler = {} /\ inHandler = {}
    /\ goals = {} /\ cancels = {} /\ results = {}
    /\ overtaken = {}

-----------------------------------------------------------------------------
(* GoalHandle *)

FreshHandle == [status |-> "READY", cancelled |-> FALSE, result |-> NoResult]

\* GoalHandle::is_terminal: REJECTED and PREEMPTED are not among them.
Terminal == {"SUCCEEDED", "ABORTED", "CANCELED"}
IsTerminal(h) == h.status \in Terminal

\* Mutant: the switch has no case for ABORTED.
FromWireNoAborted(status) ==
    IF status \in {"SUCCEEDED", "CANCELED", "REJECTED", "PREEMPTED"}
    THEN status ELSE "UNKNOWN"

\* The status of a result message as the client's enumeration, in
\* ProtoActionClient; ActionClient stores terminal_status as it comes.
FromWire(status) ==
    IF status \in {"SUCCEEDED", "CANCELED", "REJECTED", "ABORTED", "PREEMPTED"}
    THEN status ELSE "UNKNOWN"

-----------------------------------------------------------------------------
(* Helpers *)

Goto(t, from, to) == pc[t] = from /\ pc' = [pc EXCEPT ![t] = to]

\* The handle of thread t's goal, and of goal id g of client c.
Filed(c, g) == handles[c][g] # NoHandle
Update(c, g, h) == handles' = [handles EXCEPT ![c][g] = h]
SetStatus(c, g, status) == Update(c, g, [handles[c][g] EXCEPT !.status = status])

\* t takes goal_handles_mutex_ and releases it in the same step.
Locks(c) == mutex[c] = Nobody /\ UNCHANGED mutex

-----------------------------------------------------------------------------
(* init, send_goal *)

\* Also the first thing send_goal does.
Connect(t) ==
    /\ pc[t] = "idle"
    /\ listening' = listening \cup {ClientOf[t]}
    /\ UNCHANGED <<nextGoalId, handles, mutex, storing, overtaken, threadVars,
                   feedbackVars, topicVars>>

\* An atomic increment; under goal_handles_mutex_ in ActionClient.
TakeGoalId(t) ==
    LET c == ClientOf[t] IN
    /\ Goto(t, "idle", "file")
    /\ c \in listening
    /\ nextGoalId[c] \in GoalIds /\ nextGoalId[c] <= GoalsOf[c]
    /\ goalId' = [goalId EXCEPT ![t] = nextGoalId[c]]
    /\ nextGoalId' = [nextGoalId EXCEPT ![c] = @ + 1]
    /\ UNCHANGED <<handles, mutex, storing, listening, overtaken, got,
                   feedbackVars, topicVars>>

FileGoal(t) ==
    LET c == ClientOf[t] IN
    /\ Goto(t, "file", "publish")
    /\ Locks(c)
    /\ Update(c, goalId[t], FreshHandle)
    /\ UNCHANGED <<nextGoalId, storing, listening, overtaken, goalId, got,
                   feedbackVars, topicVars>>

\* send_goal sets the status of the handle, whatever has arrived by now.
SendGoalSets(t, status) ==
    LET c == ClientOf[t]
        g == goalId[t]
    IN
    /\ SetStatus(c, g, status)
    /\ overtaken' = IF handles[c][g].result = NoResult THEN overtaken
                    ELSE overtaken \cup {[client |-> c, id |-> g]}

\* The goal does not serialise, or there is no participant or publisher.
SendFails(t) ==
    /\ Goto(t, "publish", "idle")
    /\ SendGoalSets(t, "ABORTED")
    /\ UNCHANGED <<nextGoalId, mutex, storing, listening, goalId, got,
                   feedbackVars, topicVars>>

PublishGoal(t) ==
    /\ Goto(t, "publish", "mark")
    /\ goals' = goals \cup {[client |-> ClientOf[t], id |-> goalId[t]]}
    /\ UNCHANGED <<goalVars, goalId, got, feedbackVars, cancels, results>>

\* goal_handle->set_status(EXECUTING)
MarkExecuting(t) ==
    /\ Goto(t, "mark", "idle")
    /\ SendGoalSets(t, "EXECUTING")
    /\ UNCHANGED <<nextGoalId, mutex, storing, listening, goalId, got,
                   feedbackVars, topicVars>>

-----------------------------------------------------------------------------
(* cancel_goal *)

\* ProtoActionClient refuses before init(); ActionClient without a participant.
PublishCancel(t, g) ==
    LET c == ClientOf[t] IN
    /\ Goto(t, "idle", "cancel")
    /\ c \in listening
    /\ goalId' = [goalId EXCEPT ![t] = g]
    /\ cancels' = cancels \cup {[action |-> ActionOf[c], id |-> g]}
    /\ UNCHANGED <<goalVars, got, feedbackVars, goals, results>>

\* Mutant: cancel_goal also ends the goal on the client's side.
CancelEnds(t) ==
    LET c == ClientOf[t]
        h == handles[c][goalId[t]]
    IN
    /\ Goto(t, "cancel", "idle")
    /\ Locks(c)
    /\ IF h = NoHandle THEN UNCHANGED handles
       ELSE Update(c, goalId[t], [h EXCEPT !.cancelled = TRUE, !.status = "CANCELED"])
    /\ UNCHANGED <<nextGoalId, storing, listening, overtaken, goalId, got,
                   feedbackVars, topicVars>>

\* Mutant: cancel_goal also shows that the goal is being preempted.
CancelPreempts(t) ==
    LET c == ClientOf[t]
        h == handles[c][goalId[t]]
    IN
    /\ Goto(t, "cancel", "idle")
    /\ Locks(c)
    /\ IF h = NoHandle THEN UNCHANGED handles
       ELSE Update(c, goalId[t], [h EXCEPT !.cancelled = TRUE, !.status = "PREEMPTING"])
    /\ UNCHANGED <<nextGoalId, storing, listening, overtaken, goalId, got,
                   feedbackVars, topicVars>>

NoteCancel(t) ==
    LET c == ClientOf[t]
        h == handles[c][goalId[t]]
    IN
    /\ Goto(t, "cancel", "idle")
    /\ Locks(c)
    /\ IF h = NoHandle THEN UNCHANGED handles
       ELSE Update(c, goalId[t], [h EXCEPT !.cancelled = TRUE])
    /\ UNCHANGED <<nextGoalId, storing, listening, overtaken, goalId, got,
                   feedbackVars, topicVars>>

-----------------------------------------------------------------------------
(* get_result: the wait holds goal_handles_mutex_ *)

PollBegins(t, g) ==
    LET c == ClientOf[t] IN
    /\ Goto(t, "idle", "poll")
    /\ mutex[c] = Nobody /\ Filed(c, g)
    /\ mutex' = [mutex EXCEPT ![c] = t]
    /\ goalId' = [goalId EXCEPT ![t] = g]
    /\ got' = [got EXCEPT ![t] = NoResult]
    /\ UNCHANGED <<nextGoalId, handles, storing, listening, overtaken,
                   feedbackVars, topicVars>>

PollEnds(t, result) ==
    /\ Goto(t, "poll", "idle")
    /\ mutex' = [mutex EXCEPT ![ClientOf[t]] = Nobody]
    /\ got' = [got EXCEPT ![t] = result]
    /\ UNCHANGED <<nextGoalId, handles, storing, listening, overtaken, goalId,
                   feedbackVars, topicVars>>

PollFinds(t) ==
    LET h == handles[ClientOf[t]][goalId[t]] IN
    /\ pc[t] = "poll" /\ h.result # NoResult
    /\ PollEnds(t, h.result)

\* Mutant: the loop has no time limit.
PollForever(t) == FALSE /\ PollEnds(t, NoResult)

PollTimesOut(t) == PollEnds(t, NoResult)

\* goal_handles_ has no such goal.
PollUnknown(t, g) ==
    LET c == ClientOf[t] IN
    /\ pc[t] = "idle"
    /\ Locks(c) /\ ~ Filed(c, g)
    /\ got' = [got EXCEPT ![t] = NoResult]
    /\ UNCHANGED <<nextGoalId, handles, storing, listening, overtaken, pc, goalId,
                   feedbackVars, topicVars>>

-----------------------------------------------------------------------------
(* The result callback: on_goal_result, set_result *)

\* A result for goal id g of c's action arrives, and the handle is found.
ResultArrives(c, r) ==
    /\ c \in listening /\ mutex[c] = Nobody
    /\ r.action = ActionOf[c] /\ Filed(c, r.id)

\* Mutant: the result goes to the goal sent last.
StoreInLatest(c, r) ==
    LET g == nextGoalId[c] - 1 IN
    /\ ResultArrives(c, r) /\ Filed(c, g)
    /\ Update(c, g, [handles[c][g] EXCEPT !.result = r])
    /\ mutex' = [mutex EXCEPT ![c] = Callback]
    /\ storing' = [storing EXCEPT ![c] = r]
    /\ UNCHANGED <<nextGoalId, listening, overtaken, threadVars, feedbackVars, topicVars>>

\* Mutant: the callback stores the result without goal_handles_mutex_.
StoreUnlocked(c, r) ==
    /\ c \in listening /\ storing[c] = NoResult
    /\ r.action = ActionOf[c] /\ Filed(c, r.id)
    /\ Update(c, r.id, [handles[c][r.id] EXCEPT !.result = r])
    /\ storing' = [storing EXCEPT ![c] = r]
    /\ UNCHANGED <<nextGoalId, mutex, listening, overtaken, threadVars, feedbackVars,
                   topicVars>>

\* Mutant: set_result stores the status before the result.
StoreStatusFirst(c, r) ==
    /\ ResultArrives(c, r)
    /\ SetStatus(c, r.id, FromWire(r.status))
    /\ mutex' = [mutex EXCEPT ![c] = Callback]
    /\ storing' = [storing EXCEPT ![c] = r]
    /\ UNCHANGED <<nextGoalId, listening, overtaken, threadVars, feedbackVars, topicVars>>

\* set_result up to has_result_.store(true).
StoreResult(c, r) ==
    /\ ResultArrives(c, r)
    /\ Update(c, r.id, [handles[c][r.id] EXCEPT !.result = r])
    /\ mutex' = [mutex EXCEPT ![c] = Callback]
    /\ storing' = [storing EXCEPT ![c] = r]
    /\ UNCHANGED <<nextGoalId, listening, overtaken, threadVars, feedbackVars, topicVars>>

\* status_.store(status), and the locks are released.
StoreStatus(c) ==
    /\ storing[c] # NoResult
    /\ SetStatus(c, storing[c].id, FromWire(storing[c].status))
    /\ mutex' = [mutex EXCEPT ![c] = Nobody]
    /\ storing' = [storing EXCEPT ![c] = NoResult]
    /\ UNCHANGED <<nextGoalId, listening, overtaken, threadVars, feedbackVars, topicVars>>

-----------------------------------------------------------------------------
(* Feedback: feedback_mutex_ is held while the handler runs *)

SubscribeFeedback(t) ==
    /\ pc[t] = "idle" /\ ClientOf[t] \in Subscribers \ inHandler
    /\ feedbackHandler' = feedbackHandler \cup {ClientOf[t]}
    /\ UNCHANGED <<goalVars, threadVars, inHandler, topicVars>>

\* Mutant: unsubscribe_feedback takes no lock.
UnsubscribeUnlocked(t) ==
    /\ pc[t] = "idle"
    /\ feedbackHandler' = feedbackHandler \ {ClientOf[t]}
    /\ UNCHANGED <<goalVars, threadVars, inHandler, topicVars>>

UnsubscribeFeedback(t) ==
    /\ pc[t] = "idle" /\ ClientOf[t] \notin inHandler
    /\ feedbackHandler' = feedbackHandler \ {ClientOf[t]}
    /\ UNCHANGED <<goalVars, threadVars, inHandler, topicVars>>

\* A server may report any goal that was published, at any time and more than
\* once.  The goal the feedback names is not looked up.
OnFeedback(c) ==
    /\ c \in listening /\ \E x \in goals : ActionOf[x.client] = ActionOf[c]
    /\ c \in feedbackHandler \ inHandler
    /\ inHandler' = inHandler \cup {c}
    /\ UNCHANGED <<goalVars, threadVars, feedbackHandler, topicVars>>

FeedbackReturns(c) ==
    /\ c \in inHandler
    /\ inHandler' = inHandler \ {c}
    /\ UNCHANGED <<goalVars, threadVars, feedbackHandler, topicVars>>

-----------------------------------------------------------------------------
(* The server, as far as a client can tell *)

Answer(x, status) ==
    /\ results' = results \cup {[action |-> ActionOf[x.client], id |-> x.id,
                                 status |-> status, goal |-> x]}
    /\ UNCHANGED <<clientVars, goals, cancels>>

-----------------------------------------------------------------------------

\* A call in progress moves on.
ClientStep(t) ==
    \/ FileGoal(t) \/ SendFails(t) \/ PublishGoal(t) \/ MarkExecuting(t)
    \/ NoteCancel(t) \/ PollFinds(t) \/ PollTimesOut(t)

ClientCall(t) ==
    \/ Connect(t) \/ TakeGoalId(t) \/ SubscribeFeedback(t) \/ UnsubscribeFeedback(t)
    \/ \E g \in GoalIds : PublishCancel(t, g) \/ PollBegins(t, g) \/ PollUnknown(t, g)

ClientCallback(c) ==
    \/ \E r \in results : StoreResult(c, r)
    \/ StoreStatus(c)
    \/ OnFeedback(c) \/ FeedbackReturns(c)

Server == \E x \in goals, status \in Wire : Answer(x, status)

ClientNext ==
    \/ \E t \in Threads : ClientStep(t) \/ ClientCall(t)
    \/ \E c \in Clients : ClientCallback(c)
    \/ Server

ClientSafety == ClientInit /\ [][ClientNext]_actionVars

-----------------------------------------------------------------------------
(* Properties *)

\* An application that sees a terminal status on a handle finds a result in
\* it, unless the goal was never published.
TerminalHasResult ==
    \A c \in Clients, g \in GoalIds :
        Filed(c, g) /\ IsTerminal(handles[c][g]) /\ handles[c][g].result = NoResult
            => [client |-> c, id |-> g] \notin goals

\* The status of a handle with a result is that of the result, unless the
\* result came before send_goal had set the status itself.
StatusOfResult ==
    \A c \in Clients, g \in GoalIds :
        /\ Filed(c, g) /\ handles[c][g].result # NoResult
        /\ storing[c] = NoResult
        /\ [client |-> c, id |-> g] \notin overtaken
        => handles[c][g].status = FromWire(handles[c][g].result.status)

\* The result in a handle, which is what get_result returns, answers the goal
\* the handle stands for, unless another client of the action has sent a goal
\* under the same id: every client counts from 1, and all of them read one
\* result topic.
OwnResult ==
    \A c \in Clients, g \in GoalIds :
        /\ Filed(c, g) /\ handles[c][g].result # NoResult
        /\ \A d \in Clients \ {c} :
               ActionOf[d] = ActionOf[c] => [client |-> d, id |-> g] \notin goals
        => handles[c][g].result.goal = [client |-> c, id |-> g]

\* A handler that was unsubscribed is not running.
NoFeedbackAfterUnsubscribe == inHandler \subseteq feedbackHandler

\* get_result only returns a result that the handle had when the wait began:
\* while it waits no result can arrive at any handle of the client.
WaitsInVain ==
    [][\A t \in Threads, g \in GoalIds :
           pc[t] = "poll" /\ Filed(ClientOf[t], g)
               => handles'[ClientOf[t]][g].result = handles[ClientOf[t]][g].result]_actionVars

\* A handle that shows a terminal status goes on showing one, however often
\* results arrive and whoever cancels; only send_goal's own store, once, or a
\* further result whose status is not among the terminal ones ends that.  The
\* design promises more, TerminalForever: these are all the ways it fails.
TerminalIsFinal ==
    [][\A c \in Clients, g \in GoalIds :
           Filed(c, g) /\ IsTerminal(handles[c][g]) =>
               \/ Filed(c, g)' /\ IsTerminal(handles'[c][g])
               \/ [client |-> c, id |-> g] \in overtaken' \ overtaken
               \/ \E r \in results :
                      handles'[c][g].result = r /\ FromWire(r.status) \notin Terminal]_actionVars

\* A goal that has ended has ended: in the goal's states of the design document
\* (doc/Mcom_Design.md:202-208) nothing leads out of a terminal one.
TerminalForever ==
    [][\A c \in Clients, g \in GoalIds :
           Filed(c, g) /\ IsTerminal(handles[c][g]) =>
               Filed(c, g)' /\ IsTerminal(handles'[c][g])]_actionVars

=============================================================================
