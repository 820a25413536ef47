------------------------------- MODULE Actions -------------------------------
(***************************************************************************)
(* An action: its clients (ActionClient) and the server of one of the      *)
(* actions (ActionServer), joined by the goal, cancel and result topics.   *)
(*                                                                         *)
(* The clients' module leaves open what the server answers and the         *)
(* server's module which messages arrive.  Here goals and cancels come     *)
(* from clients, and results from the server's send_result.  A result      *)
(* answers a goal that was sent.                                           *)
(*                                                                         *)
(* The model begins when both sides are initialised and the server has     *)
(* started with its handlers registered.  It leaves out stop, endpoints    *)
(* that could not be created and the way feedback takes to the clients:    *)
(* the two modules have those.                                             *)
(*                                                                         *)
(* mdds is not part of the repository: what was published may arrive late, *)
(* repeatedly, out of order, or never.                                     *)
(***************************************************************************)
EXTENDS ActionClient

CONSTANTS
    Workers,         \* application threads of the server
    GoalThread,      \* the callback thread of the server's goal subscriber
    CancelThread,    \* the callback thread of its cancel subscriber
    Reentrant,       \* callback threads whose handler calls the server back
    ResultStatuses,  \* statuses the server's application calls send_result with
    MaxCancelCalls,  \* bound on the count of cancel handler calls
    NoGoal,          \* a thread of the server works on no goal
    Served           \* the server's action

ASSUME ServedAssumption ==
    /\ Served \in Actions
    /\ GoalThread # CancelThread /\ {GoalThread, CancelThread} \cap Workers = {}
    /\ Nobody \notin Workers \cup {GoalThread, CancelThread}
    /\ Reentrant \subseteq {GoalThread, CancelThread}
    /\ NoGoal \notin GoalIds
    /\ MaxCancelCalls \in Nat

VARIABLES
    initialized, running, subscribed, publishers, failed, outsideLife,
    serverHandlers,   \* the server's handlers
    serverGoals,      \* the server's goal_handles_
    goalsMutex, handlersMutex,
    serverPc,         \* where a thread of the server is
    at, crash,
    sending,          \* the status a thread's send_result was called with, or
                      \* READY
    serverOvertaken   \* history: goals of the server whose status was set by
                      \* on_goal, accept_goal or reject_goal after send_result
                      \* had stored one

Srv == INSTANCE ActionServer WITH
           handlers <- serverHandlers, handles <- serverGoals, pc <- serverPc

ASSUME StatusAssumption ==
    /\ ResultStatuses \subseteq Statuses
    /\ \A status \in ResultStatuses : Srv!ToWire(status) \in Wire
    /\ NoHandle \notin Srv!Handles

serverSide == <<initialized, running, subscribed, publishers, failed, outsideLife,
                serverHandlers, serverGoals, goalsMutex, handlersMutex, serverPc,
                at, crash>>
senderVars == <<sending, serverOvertaken>>
allVars == <<actionVars, serverSide, senderVars>>

ActionsTypeOK ==
    /\ ClientTypeOK
    /\ Srv!ServerTypeOK
    /\ sending \in [Srv!Actors -> Srv!HandleStatuses]
    /\ serverOvertaken \subseteq GoalIds

\* init() has run on both sides, and start() on the server's.
ActionsInit ==
    /\ nextGoalId = [c \in Clients |-> 1]
    /\ handles = [c \in Clients |-> [g \in GoalIds |-> NoHandle]]
    /\ mutex = [c \in Clients |-> Nobody] /\ storing = [c \in Clients |-> NoResult]
    /\ listening = Clients
    /\ pc = [t \in Threads |-> "idle"] /\ goalId = [t \in Threads |-> 0]
    /\ got = [t \in Threads |-> NoResult]
    /\ feedbackHandler = {} /\ inHandler = {}
    /\ goals = {} /\ cancels = {} /\ results = {}
    /\ overtaken = {}
    /\ initialized = TRUE /\ running = TRUE
    /\ subscribed = Srv!Callbacks /\ publishers = Srv!Publishers
    /\ failed = {} /\ crash = {} /\ outsideLife = FALSE
    /\ serverHandlers = Srv!Callbacks
    /\ serverGoals = [g \in GoalIds |-> NoHandle]
    /\ goalsMutex = Nobody /\ handlersMutex = Nobody
    /\ serverPc = [a \in Srv!Actors |-> "idle"] /\ at = [a \in Srv!Actors |-> NoGoal]
    /\ sending = [a \in Srv!Actors |-> "READY"]
    /\ serverOvertaken = {}

-----------------------------------------------------------------------------
(* The clients: what they do is ActionClient's, but for the open server *)

ClientMoves ==
    /\ \/ \E t \in Threads :
              \/ ClientStep(t) \/ TakeGoalId(t)
              \/ \E g \in GoalIds : PublishCancel(t, g) \/ PollBegins(t, g)
       \/ \E c \in Clients : StoreStatus(c) \/ \E r \in results : StoreResult(c, r)
    /\ UNCHANGED <<serverSide, senderVars>>

-----------------------------------------------------------------------------
(* The server *)

\* A goal that was sent, and a cancel, reach their callbacks.
GoalArrives(x) ==
    /\ ActionOf[x.client] = Served
    /\ Srv!OnGoal(x.id) \/ Srv!OnGoalUnparsable(x.id)

CancelArrives(x) == x.action = Served /\ Srv!OnCancel(x.id)

\* What the server's application may do, on a thread of its own or from a
\* handler, besides sending a result.
ApplicationMoves(a) ==
    \/ Srv!HandlerRegisters(a) \/ Srv!HandlerCalls(a) \/ Srv!PublishFeedback(a)
    \/ \E g \in GoalIds : Srv!AcceptGoal(a, g) \/ Srv!RejectGoal(a, g)

HasSent(g) == serverGoals[g] # NoHandle /\ serverGoals[g].result

\* Goals whose handle keeps its result and is given another status.
Overtakes ==
    {g \in GoalIds : HasSent(g) /\ HasSent(g)'
                      /\ serverGoals'[g].status # serverGoals[g].status}

\* What changes only the server.
ServerMoves ==
    /\ \/ \E x \in goals : GoalArrives(x)
       \/ \E x \in cancels : CancelArrives(x)
       \/ Srv!FileGoal \/ Srv!EnterGoalHandler \/ Srv!GoalHandlerReturns
       \/ Srv!FirstFeedback
       \/ Srv!EnterCancelHandler \/ Srv!CancelReturns
       \/ \E a \in Srv!Actors : ApplicationMoves(a)
    /\ serverOvertaken' = serverOvertaken \cup Overtakes
    /\ UNCHANGED <<actionVars, sending>>

\* send_result up to the publication.
SendResult(a, x, status) ==
    /\ ActionOf[x.client] = Served
    /\ Srv!PublishResult(a, x.id)
    /\ sending' = [sending EXCEPT ![a] = status]
    /\ Answer(x, Srv!ToWire(status))
    /\ UNCHANGED serverOvertaken

\* The rest of send_result: the server's own handle.
StoreSent(a) ==
    /\ Srv!StoreResult(a, sending[a])
    /\ sending' = [sending EXCEPT ![a] = "READY"]
    /\ serverOvertaken' = serverOvertaken \ {at[a]}
    /\ UNCHANGED actionVars

-----------------------------------------------------------------------------

ServerNext ==
    \/ ServerMoves
    \/ \E a \in Srv!Actors, x \in goals, status \in ResultStatuses :
           SendResult(a, x, status)
    \/ \E a \in Srv!Actors : StoreSent(a)

ActionsNext == ClientMoves \/ ServerNext

HasResult(c, g) == Filed(c, g) /\ handles[c][g].result # NoResult

ActionsSafety == ActionsInit /\ [][ActionsNext]_allVars

\* The clients' waits have a time limit, their callbacks run on, and mdds
\* delivers to a callback that can lock again and again what it has not stored.
ActionsSpec ==
    /\ ActionsSafety
    /\ \A t \in Threads : WF_actionVars(PollFinds(t) \/ PollTimesOut(t))
    /\ \A c \in Clients :
           /\ WF_actionVars(StoreStatus(c))
           /\ SF_actionVars(\E r \in results :
                             ~ HasResult(c, r.id) /\ StoreResult(c, r))

-----------------------------------------------------------------------------
(* Properties *)

\* The statuses of the results sent for g.
SentFor(g) == {r.status : r \in {x \in results : x.id = g}}

\* Once both sides have a result of a goal, the client shows what the server
\* shows, or UNKNOWN for a status that has no value on the wire.  Everything
\* that parts them: the server sent two statuses for the goal; send_goal set the
\* client's status after a result had come; on_goal, accept_goal or reject_goal
\* set the server's after send_result, and not before it on another thread.
StatusAgreement ==
    \A c \in Clients, g \in GoalIds :
        HasResult(c, g) /\ storing[c] = NoResult /\ HasSent(g) =>
            \/ handles[c][g].status = Srv!ToWire(serverGoals[g].status)
            \/ \E s, u \in SentFor(g) : s # u
            \/ /\ [client |-> c, id |-> g] \in overtaken
               /\ handles[c][g].status \in {"EXECUTING", "ABORTED"}
            \/ /\ g \in serverOvertaken
               /\ serverGoals[g].status \in {"EXECUTING", "REJECTED"}

\* A result that the server published reaches the handle of its goal: a call of
\* get_result keeps it out with the mutex only until its time limit.
PublishedResultArrives ==
    \A x \in Goals :
        (\E r \in results : r.goal = x) ~> HasResult(x.client, x.id)

=============================================================================
