---------------------------- MODULE ActionsProofs ----------------------------
(***************************************************************************)
(* Proofs about Actions, for any number of clients, threads, workers and   *)
(* goals.  What is proved of clients against an open server holds of them  *)
(* here; what is new is what the server stores.                            *)
(***************************************************************************)
EXTENDS Actions, ActionClientProofs

-----------------------------------------------------------------------------
(* The clients *)

\* What the clients see of the server is what their own module allows.
LEMMA ClientPart ==
    ASSUME [ActionsNext]_allVars PROVE [ClientNext]_actionVars
<1>1. CASE ClientMoves
  <2>1. ASSUME NEW t \in Threads, ClientStep(t) \/ TakeGoalId(t) PROVE ClientNext
    BY <2>1 DEF ClientNext, ClientCall
  <2>2. ASSUME NEW t \in Threads, NEW g \in GoalIds, PublishCancel(t, g) \/ PollBegins(t, g)
        PROVE  ClientNext
    BY <2>2 DEF ClientNext, ClientCall
  <2>3. ASSUME NEW c \in Clients, StoreStatus(c) \/ \E r \in results : StoreResult(c, r)
        PROVE  ClientNext
    BY <2>3 DEF ClientNext, ClientCallback
  <2> QED
    BY <1>1, <2>1, <2>2, <2>3 DEF ClientMoves
<1>2. CASE ServerMoves
  BY <1>2 DEF ServerMoves
<1>3. ASSUME NEW a \in Srv!Actors, NEW x \in goals, NEW status \in ResultStatuses,
             SendResult(a, x, status)
      PROVE  ClientNext
  <2>1. Srv!ToWire(status) \in Wire
    BY StatusAssumption
  <2> QED
    BY <1>3, <2>1 DEF SendResult, ClientNext, Server
<1>4. ASSUME NEW a \in Srv!Actors, StoreSent(a) PROVE UNCHANGED actionVars
  BY <1>4 DEF StoreSent
<1>5. CASE UNCHANGED allVars
  BY <1>5 DEF allVars
<1> QED
  BY <1>1, <1>2, <1>3, <1>4, <1>5 DEF ActionsNext, ServerNext

ClientInv == TypeInv /\ Draws /\ HandleInv

LEMMA ClientInvariant == ActionsSafety => []ClientInv
<1>1. ActionsInit => ClientInv
  <2> SUFFICES ASSUME ActionsInit PROVE ClientInv
    OBVIOUS
  <2>1. ClientTypeOK
    BY ActionAssumption DEF ActionsInit, ClientTypeOK, GoalIds
  <2>2. Working /\ Draws /\ HandleInv
    BY DEF ActionsInit, Working, Draws, Sending, HandleInv, Filed, Untouched
  <2> QED
    BY <2>1, <2>2 DEF ClientInv, TypeInv
<1>2. ClientInv /\ [ActionsNext]_allVars => ClientInv'
  BY ClientPart, TypeStep, DrawsStep, HandleStep DEF ClientInv
<1> QED
  BY <1>1, <1>2, PTL DEF ActionsSafety

\* Everything the applications of the clients were promised of their handles
\* against an open server holds against this one.
THEOREM ClientsKeepPromises ==
    ActionsSafety => [](TerminalHasResult /\ StatusOfResult /\ OwnResult)
<1>1. HandleInv => TerminalHasResult /\ StatusOfResult
  BY DEF HandleInv, Sound, TerminalHasResult, IsTerminal, Terminal, StatusOfResult
<1>2. TypeInv /\ Draws /\ HandleInv => OwnResult
  BY ResultsAreOwn
<1> QED
  BY <1>1, <1>2, ClientInvariant, PTL DEF ClientInv

-----------------------------------------------------------------------------
(* The server's half *)

\* What send_result is called with, and what it has sent: a thread between the
\* two halves of send_result has published the status it will store, and what
\* is on the result topic is what the client makes of it.
SenderInv ==
    /\ sending \in [Srv!Actors -> Srv!HandleStatuses]
    /\ serverOvertaken \subseteq GoalIds
    /\ \A a \in Srv!Actors : serverPc[a] = "store" =>
           sending[a] \in ResultStatuses /\ Srv!ToWire(sending[a]) \in SentFor(at[a])
    /\ \A r \in results : FromWire(r.status) = r.status

\* What a client does publishes no result and does not touch the server.
LEMMA ClientMovesApart ==
    ASSUME ClientMoves PROVE UNCHANGED <<results, serverSide, senderVars>>
<1>1. UNCHANGED <<serverSide, senderVars>>
  BY DEF ClientMoves
<1> USE DEF topicVars
<1>2. ASSUME NEW t \in Threads, ClientStep(t) \/ TakeGoalId(t) PROVE UNCHANGED results
  BY <1>2 DEF ClientStep, TakeGoalId, FileGoal, SendFails, PublishGoal, MarkExecuting,
              NoteCancel, PollFinds, PollTimesOut, PollEnds
<1>3. ASSUME NEW t \in Threads, NEW g \in GoalIds, PublishCancel(t, g) \/ PollBegins(t, g)
      PROVE  UNCHANGED results
  BY <1>3 DEF PublishCancel, PollBegins
<1>4. ASSUME NEW c \in Clients, StoreStatus(c) \/ \E r \in results : StoreResult(c, r)
      PROVE  UNCHANGED results
  BY <1>4 DEF StoreStatus, StoreResult
<1> QED
  BY <1>1, <1>2, <1>3, <1>4 DEF ClientMoves

\* Nothing stops the server here, and its publishers are there.
Serving ==
    /\ initialized /\ running
    /\ publishers = Srv!Publishers /\ crash = {}

\* Outside send_result, init, start and stop the server's application and its
\* callbacks leave all of that alone.
LEMMA MovesServe ==
    ASSUME ServerMoves, Serving PROVE Serving'
<1> USE DEF Srv!lifeVars, Serving
<1>1. ASSUME NEW x \in goals, GoalArrives(x) PROVE Serving'
  <2>1. CASE Srv!OnGoal(x.id)
    BY <2>1 DEF Srv!OnGoal
  <2>2. CASE Srv!OnGoalUnparsable(x.id)
    BY <2>2 DEF Srv!OnGoalUnparsable
  <2> QED
    BY <1>1, <2>1, <2>2 DEF GoalArrives
<1>2. ASSUME NEW x \in cancels, CancelArrives(x) PROVE Serving'
  BY <1>2 DEF CancelArrives, Srv!OnCancel
<1>3. ASSUME \/ Srv!FileGoal \/ Srv!EnterGoalHandler \/ Srv!GoalHandlerReturns
             \/ Srv!EnterCancelHandler \/ Srv!CancelReturns
      PROVE  Serving'
  BY <1>3 DEF Srv!FileGoal, Srv!EnterGoalHandler, Srv!GoalHandlerReturns, Srv!GoalAccepted,
              Srv!GoalRejected, Srv!EnterCancelHandler, Srv!CancelReturns, Srv!CancelEnds
<1>4. ASSUME Srv!FirstFeedback PROVE Serving'
  BY <1>4 DEF Srv!FirstFeedback, Srv!UsePublisher, Srv!Publishers
<1>5. ASSUME NEW a \in Srv!Actors, ApplicationMoves(a) PROVE Serving'
  <2>1. CASE Srv!HandlerRegisters(a) \/ Srv!HandlerCalls(a)
    BY <2>1 DEF Srv!HandlerRegisters, Srv!HandlerCalls
  <2>2. CASE Srv!PublishFeedback(a)
    BY <2>2 DEF Srv!PublishFeedback, Srv!UsePublisher, Srv!Publishers, Srv!Uses
  <2>3. ASSUME NEW g \in GoalIds, Srv!AcceptGoal(a, g) \/ Srv!RejectGoal(a, g) PROVE Serving'
    BY <2>3 DEF Srv!AcceptGoal, Srv!RejectGoal, Srv!Uses
  <2> QED
    BY <1>5, <2>1, <2>2, <2>3 DEF ApplicationMoves
<1> QED
  BY <1>1, <1>2, <1>3, <1>4, <1>5 DEF ServerMoves

\* Every step of the composition is one the server's module allows, or leaves
\* the server as it is.
LEMMA ServerPart ==
    ASSUME ClientTypeOK, SenderInv, Serving, [ActionsNext]_allVars
    PROVE  [Srv!ServerNext]_(Srv!serverVars) /\ Serving'
<1> USE DEF Srv!lifeVars, Srv!lockVars
<1>0. crash = {}
  BY DEF Serving
<1>1. CASE UNCHANGED serverSide
  BY <1>1 DEF serverSide, Srv!serverVars, Serving
<1>2. ASSUME ServerMoves PROVE Srv!ServerNext
  <2>1. ASSUME NEW x \in goals, GoalArrives(x) PROVE Srv!ServerNext
    <3>1. x.id \in GoalIds
      BY DEF ClientTypeOK, Goals
    <3> QED
      BY <1>0, <2>1, <3>1 DEF GoalArrives, Srv!ServerNext, Srv!Message
  <2>2. ASSUME NEW x \in cancels, CancelArrives(x) PROVE Srv!ServerNext
    <3>1. x.id \in GoalIds
      BY DEF ClientTypeOK, Cancels
    <3> QED
      BY <1>0, <2>2, <3>1 DEF CancelArrives, Srv!ServerNext, Srv!Message
  <2>3. ASSUME \/ Srv!FileGoal \/ Srv!EnterGoalHandler \/ Srv!GoalHandlerReturns
               \/ Srv!FirstFeedback \/ Srv!EnterCancelHandler \/ Srv!CancelReturns
        PROVE  Srv!ServerNext
    <3>1. Srv!CallbackStep
      BY <2>3 DEF Srv!CallbackStep
    <3> QED
      BY <1>0, <3>1 DEF Srv!ServerNext
  <2>4. ASSUME NEW a \in Srv!Actors, ApplicationMoves(a) PROVE Srv!ServerNext
    <3>1. CASE Srv!HandlerRegisters(a) \/ Srv!HandlerCalls(a)
      <4>1. a \in Srv!Callbacks /\ Srv!HandlerStep(a)
        BY <3>1 DEF Srv!HandlerRegisters, Srv!HandlerCalls, Srv!HandlerStep
      <4> QED
        BY <1>0, <4>1 DEF Srv!ServerNext
    <3>2. CASE ~ (Srv!HandlerRegisters(a) \/ Srv!HandlerCalls(a))
      <4>1. Srv!CallReturns(a)
        BY <2>4, <3>2 DEF ApplicationMoves, Srv!CallReturns
      <4>2. Srv!CallbackStep \/ \E w \in Workers : Srv!WorkerStep(w)
        BY <4>1 DEF Srv!CallbackStep, Srv!WorkerStep, Srv!Actors
      <4> QED
        BY <1>0, <4>2 DEF Srv!ServerNext
    <3> QED
      BY <3>1, <3>2
  <2> QED
    BY <1>2, <2>1, <2>2, <2>3, <2>4 DEF ServerMoves
<1>3. ASSUME NEW a \in Srv!Actors, NEW x \in goals, NEW status \in ResultStatuses,
             SendResult(a, x, status)
      PROVE  Srv!ServerNext /\ Serving'
  <2>1. x.id \in GoalIds /\ Srv!PublishResult(a, x.id)
    BY <1>3 DEF ClientTypeOK, Goals, SendResult
  <2>2. (\E b \in Srv!Callbacks : Srv!HandlerStep(b)) \/ \E w \in Workers : Srv!WorkerStep(w)
    BY <2>1 DEF Srv!HandlerStep, Srv!WorkerStep, Srv!Actors
  <2>3. Srv!ServerNext
    BY <1>0, <2>2 DEF Srv!ServerNext
  <2> QED
    BY <2>1, <2>3 DEF Srv!PublishResult, Srv!Uses, Srv!UsePublisher, Srv!Publishers, Serving
<1>4. ASSUME NEW a \in Srv!Actors, StoreSent(a) PROVE Srv!ServerNext /\ Serving'
  <2>1. sending[a] \in ResultStatuses /\ Srv!StoreResult(a, sending[a])
    BY <1>4 DEF SenderInv, StoreSent, Srv!StoreResult
  <2>2. Srv!CallReturns(a)
    BY <2>1 DEF Srv!CallReturns
  <2>3. Srv!CallbackStep \/ \E w \in Workers : Srv!WorkerStep(w)
    BY <2>2 DEF Srv!CallbackStep, Srv!WorkerStep, Srv!Actors
  <2>4. Srv!ServerNext
    BY <1>0, <2>3 DEF Srv!ServerNext
  <2> QED
    BY <2>1, <2>4 DEF Srv!StoreResult, Serving
<1> QED
  BY <1>1, <1>2, <1>3, <1>4, ClientMovesApart, MovesServe DEF ActionsNext, ServerNext, allVars

SrvP == INSTANCE ActionServerProofs WITH
            handlers <- serverHandlers, handles <- serverGoals, pc <- serverPc

\* The server's module and the module of its proofs say the same of this server.
LEMMA SameStep == ASSUME Srv!ServerNext PROVE SrvP!ServerNext
BY DEF Srv!ServerNext, SrvP!ServerNext, Srv!CallbackStep, SrvP!CallbackStep,
       Srv!FileGoal, SrvP!FileGoal, Srv!EnterGoalHandler, SrvP!EnterGoalHandler,
       Srv!NoGoalHandler, SrvP!NoGoalHandler,
       Srv!GoalHandlerReturns, SrvP!GoalHandlerReturns,
       Srv!GoalAccepted, SrvP!GoalAccepted, Srv!GoalRejected, SrvP!GoalRejected,
       Srv!FirstFeedback, SrvP!FirstFeedback,
       Srv!EnterCancelHandler, SrvP!EnterCancelHandler,
       Srv!NoCancelHandler, SrvP!NoCancelHandler,
       Srv!CancelReturns, SrvP!CancelReturns, Srv!CancelEnds, SrvP!CancelEnds,
       Srv!CallReturns, SrvP!CallReturns, Srv!AcceptGoal, SrvP!AcceptGoal,
       Srv!RejectGoal, SrvP!RejectGoal, Srv!PublishFeedback, SrvP!PublishFeedback,
       Srv!StoreResult, SrvP!StoreResult, Srv!Message, SrvP!Message,
       Srv!OnGoal, SrvP!OnGoal, Srv!OnGoalUnparsable, SrvP!OnGoalUnparsable,
       Srv!OnCancel, SrvP!OnCancel, Srv!HandlerStep, SrvP!HandlerStep,
       Srv!HandlerRegisters, SrvP!HandlerRegisters,
       Srv!HandlerCalls, SrvP!HandlerCalls, Srv!Start, SrvP!Start,
       Srv!Stop, SrvP!Stop, Srv!PublishResult, SrvP!PublishResult,
       Srv!WorkerStep, SrvP!WorkerStep, Srv!InitSubscribes, SrvP!InitSubscribes,
       Srv!InitPublishes, SrvP!InitPublishes,
       Srv!RegisterHandler, SrvP!RegisterHandler, Srv!Applies, SrvP!Applies,
       Srv!LocksGoals, SrvP!LocksGoals, Srv!Returns, SrvP!Returns,
       Srv!Receives, SrvP!Receives, Srv!Goto, SrvP!Goto, Srv!Takes, SrvP!Takes,
       Srv!Uses, SrvP!Uses, Srv!UsePublisher, SrvP!UsePublisher,
       Srv!Decide, SrvP!Decide, Srv!SetStatus, SrvP!SetStatus,
       Srv!FreshHandle, SrvP!FreshHandle, Srv!Filed, SrvP!Filed,
       Srv!lifeVars, SrvP!lifeVars, Srv!lockVars, SrvP!lockVars,
       Srv!Callbacks, SrvP!Callbacks, Srv!Actors, SrvP!Actors,
       Srv!Publishers, SrvP!Publishers

LEMMA SameStutter ==
    ASSUME UNCHANGED Srv!serverVars PROVE UNCHANGED SrvP!serverVars
BY DEF Srv!serverVars, SrvP!serverVars, Srv!lifeVars, SrvP!lifeVars, Srv!lockVars,
       SrvP!lockVars

LEMMA SamePromises ==
    /\ SrvP!CancelOncePerFiling => Srv!CancelOncePerFiling
    /\ SrvP!NoOtherDeadlock => Srv!NoOtherDeadlock
BY DEF Srv!CancelOncePerFiling, SrvP!CancelOncePerFiling, Srv!NoOtherDeadlock,
       SrvP!NoOtherDeadlock, Srv!Blocked, SrvP!Blocked, Srv!Crossed,
       SrvP!Crossed, Srv!SelfLocked, SrvP!SelfLocked, Srv!Actors, SrvP!Actors,
       Srv!Callbacks, SrvP!Callbacks, Srv!Filed, SrvP!Filed

LEMMA SameDeadlocks ==
    ASSUME (SrvP!Crossed => SrvP!Crossed') /\ (SrvP!SelfLocked => SrvP!SelfLocked')
    PROVE  (Srv!Crossed => Srv!Crossed') /\ (Srv!SelfLocked => Srv!SelfLocked')
BY DEF Srv!Crossed, SrvP!Crossed, Srv!SelfLocked, SrvP!SelfLocked, Srv!Callbacks,
       SrvP!Callbacks

\* What the server's proofs rest on holds of its constants here.
LEMMA ServerConstants ==
    /\ NoHandle \notin SrvP!Handles
    /\ GoalThread # CancelThread /\ SrvP!Callbacks \cap Workers = {}
    /\ Nobody \notin SrvP!Actors
    /\ NoGoal \notin GoalIds
    /\ Reentrant \subseteq SrvP!Callbacks
    /\ ResultStatuses \subseteq SrvP!ActionStatus
    /\ MaxCancelCalls \in Nat
BY ServedAssumption, StatusAssumption
   DEF SrvP!Handles, Srv!Handles, SrvP!HandleStatuses, Srv!HandleStatuses, Statuses,
       SrvP!ActionStatus, SrvP!Actors, SrvP!Callbacks

PromiseInv == Serving /\ SrvP!ServerInv /\ SrvP!HandlersLocked

LEMMA PromiseStep ==
    ASSUME ClientTypeOK, SenderInv, PromiseInv, [ActionsNext]_allVars
    PROVE  /\ PromiseInv'
           /\ (Srv!Crossed => Srv!Crossed') /\ (Srv!SelfLocked => Srv!SelfLocked')
<1>1. [Srv!ServerNext]_(Srv!serverVars) /\ Serving'
  BY ServerPart DEF PromiseInv
<1>2. [SrvP!ServerNext]_(SrvP!serverVars)
  BY <1>1, SameStep, SameStutter
<1>3. (SrvP!ServerInv)'
  BY <1>2, ServerConstants, SrvP!ServerInvStep DEF PromiseInv
<1>4. (SrvP!HandlersLocked)'
  BY <1>2, ServerConstants, SrvP!LockStep DEF PromiseInv
<1>5. (SrvP!Crossed => SrvP!Crossed') /\ (SrvP!SelfLocked => SrvP!SelfLocked')
  BY <1>2, ServerConstants, SrvP!DeadlockStep DEF PromiseInv
<1> QED
  BY <1>1, <1>3, <1>4, <1>5, SameDeadlocks DEF PromiseInv

LEMMA PromiseInit == ActionsInit => PromiseInv
<1> SUFFICES ASSUME ActionsInit PROVE PromiseInv
  OBVIOUS
<1>1. Serving
  BY DEF ActionsInit, Serving
<1>2. SrvP!ServerTypeOK
  BY DEF ActionsInit, SrvP!ServerTypeOK, SrvP!Actors, Srv!Actors, SrvP!Callbacks,
         Srv!Callbacks, SrvP!Publishers, Srv!Publishers
<1>3. SrvP!Working /\ SrvP!CancelInv /\ SrvP!HandlersLocked
  BY DEF ActionsInit, SrvP!Working, SrvP!CancelInv, SrvP!HandlersLocked,
         SrvP!GoalInHandler, SrvP!CancelInHandler, SrvP!Filed, SrvP!Actors, Srv!Actors,
         SrvP!Callbacks, Srv!Callbacks
<1>4. SrvP!LifeInv
  BY DEF ActionsInit, SrvP!LifeInv, SrvP!Published, SrvP!NullPublisherHasCause,
         SrvP!Publishers, Srv!Publishers
<1> QED
  BY <1>1, <1>2, <1>3, <1>4 DEF PromiseInv, SrvP!ServerInv

\* The server's proofs give its types and say where its threads are: what one
\* works on is a goal, and what a callback has taken up is filed.
ServerAtWork ==
    /\ \A a \in Srv!Actors : serverPc[a] \notin {"idle", "init"} => at[a] \in GoalIds
    /\ serverPc[GoalThread] \notin {"idle", "file"} => Srv!Filed(at[GoalThread])
    /\ serverPc[CancelThread] # "idle" => Srv!Filed(at[CancelThread])

ServerTypeInv == Srv!ServerTypeOK /\ ServerAtWork

LEMMA SameTypes == SrvP!ServerInv => Srv!ServerTypeOK
BY DEF SrvP!ServerInv, Srv!ServerTypeOK, SrvP!ServerTypeOK, Srv!Handles, SrvP!Handles,
       Srv!HandleStatuses, SrvP!HandleStatuses, Srv!Publishers, SrvP!Publishers,
       Srv!Callbacks, SrvP!Callbacks, Srv!Actors, SrvP!Actors

-----------------------------------------------------------------------------
(* The server's table *)

ServerTyped == serverGoals \in [GoalIds -> Srv!Handles \cup {NoHandle}]

Puts(g, h) == serverGoals' = [serverGoals EXCEPT ![g] = h]

\* What on_goal, accept_goal and reject_goal may make of a status.
Decisions == {"EXECUTING", "REJECTED"}

\* h is a handle of g without a result, or the filed one with its result as it
\* was, and with its status as it was or a decision.
Marks(g, h) ==
    \/ ~ h.result
    \/ /\ Srv!Filed(g) /\ h.result = serverGoals[g].result
       /\ h.status = serverGoals[g].status \/ h.status \in Decisions

\* The server stores only what it has sent: a handle with a result shows the
\* status of one that was sent, unless a decision has come over it.
SentInv ==
    \A g \in GoalIds : HasSent(g) =>
        \/ Srv!ToWire(serverGoals[g].status) \in SentFor(g)
        \/ g \in serverOvertaken /\ serverGoals[g].status \in Decisions

LEMMA PutsType ==
    ASSUME ServerTyped, NEW g \in GoalIds, NEW h \in Srv!Handles, Puts(g, h)
    PROVE  /\ serverGoals'[g] = h /\ h # NoHandle
           /\ \A k \in GoalIds : k # g => serverGoals'[k] = serverGoals[k]
BY StatusAssumption DEF ServerTyped, Puts

\* The fields of a handle of the server.
LEMMA ServerFields ==
    ASSUME NEW h \in Srv!Handles
    PROVE  /\ \A status \in Srv!HandleStatuses :
                  /\ [h EXCEPT !.status = status] \in Srv!Handles
                  /\ [h EXCEPT !.status = status].status = status
                  /\ [h EXCEPT !.status = status].result = h.result
                  /\ [h EXCEPT !.status = status, !.result = TRUE] \in Srv!Handles
                  /\ [h EXCEPT !.status = status, !.result = TRUE].status = status
           /\ [h EXCEPT !.cancelled = TRUE] \in Srv!Handles
           /\ [h EXCEPT !.cancelled = TRUE].status = h.status
           /\ [h EXCEPT !.cancelled = TRUE].result = h.result
           /\ h.cancelCalls < MaxCancelCalls =>
                  /\ [h EXCEPT !.cancelCalls = @ + 1] \in Srv!Handles
                  /\ [h EXCEPT !.cancelCalls = @ + 1].status = h.status
                  /\ [h EXCEPT !.cancelCalls = @ + 1].result = h.result
<1>1. ASSUME NEW status \in Srv!HandleStatuses
      PROVE  /\ [h EXCEPT !.status = status] \in Srv!Handles
             /\ [h EXCEPT !.status = status].status = status
             /\ [h EXCEPT !.status = status].result = h.result
  BY DEF Srv!Handles
<1>2. ASSUME NEW status \in Srv!HandleStatuses
      PROVE  /\ [h EXCEPT !.status = status, !.result = TRUE] \in Srv!Handles
             /\ [h EXCEPT !.status = status, !.result = TRUE].status = status
  BY DEF Srv!Handles
<1>3. /\ [h EXCEPT !.cancelled = TRUE] \in Srv!Handles
      /\ [h EXCEPT !.cancelled = TRUE].status = h.status
      /\ [h EXCEPT !.cancelled = TRUE].result = h.result
  BY DEF Srv!Handles
<1>4. ASSUME h.cancelCalls < MaxCancelCalls
      PROVE  /\ [h EXCEPT !.cancelCalls = @ + 1] \in Srv!Handles
             /\ [h EXCEPT !.cancelCalls = @ + 1].status = h.status
             /\ [h EXCEPT !.cancelCalls = @ + 1].result = h.result
  BY <1>4, ServedAssumption DEF Srv!Handles
<1> QED
  BY <1>1, <1>2, <1>3, <1>4

LEMMA ServerFresh ==
    /\ Srv!FreshHandle \in Srv!Handles /\ ~ Srv!FreshHandle.result
    /\ \A status \in Srv!HandleStatuses :
           /\ [Srv!FreshHandle EXCEPT !.status = status] \in Srv!Handles
           /\ ~ [Srv!FreshHandle EXCEPT !.status = status].result
<1>1. Srv!FreshHandle \in Srv!Handles /\ ~ Srv!FreshHandle.result
  BY ServedAssumption DEF Srv!Handles, Srv!FreshHandle, Srv!HandleStatuses
<1> QED
  BY <1>1, ServerFields

\* What accept_goal, reject_goal and the end of on_goal write.
LEMMA DecisionMarks ==
    ASSUME ServerTyped, NEW g \in GoalIds, NEW status \in Decisions, Srv!Decide(g, status)
    PROVE  \E h \in Srv!Handles : Marks(g, h) /\ Puts(g, h)
<1>0. status \in Srv!HandleStatuses
  BY DEF Srv!HandleStatuses, Decisions
<1>1. CASE Srv!Filed(g)
  <2> DEFINE h == [serverGoals[g] EXCEPT !.status = status]
  <2>1. serverGoals[g] \in Srv!Handles
    BY <1>1 DEF ServerTyped, Srv!Filed
  <2>2. h \in Srv!Handles /\ h.status = status /\ h.result = serverGoals[g].result
    BY <1>0, <2>1, ServerFields
  <2>3. Puts(g, h)
    BY <1>1 DEF Srv!Decide, Srv!SetStatus, Puts
  <2> QED
    BY <1>1, <2>2, <2>3 DEF Marks
<1>2. CASE ~ Srv!Filed(g)
  <2> DEFINE h == [Srv!FreshHandle EXCEPT !.status = status]
  <2>1. h \in Srv!Handles /\ ~ h.result
    BY <1>0, ServerFresh
  <2>2. Puts(g, h)
    BY <1>2 DEF Srv!Decide, Puts
  <2> QED
    BY <2>1, <2>2 DEF Marks
<1> QED
  BY <1>1, <1>2

\* A step of the server other than send_result marks one handle or none.
LEMMA MoveMarks ==
    ASSUME ServerTypeInv, ClientTypeOK, ServerMoves
    PROVE  \/ UNCHANGED serverGoals
           \/ \E g \in GoalIds, h \in Srv!Handles : Marks(g, h) /\ Puts(g, h)
<1> DEFINE Goal == \/ UNCHANGED serverGoals
                   \/ \E g \in GoalIds, h \in Srv!Handles : Marks(g, h) /\ Puts(g, h)
<1>0. /\ ServerTyped
      /\ \A a \in Srv!Actors : serverPc[a] \notin {"idle", "init"} => at[a] \in GoalIds
      /\ GoalThread \in Srv!Actors /\ CancelThread \in Srv!Actors
  BY DEF ServerTypeInv, Srv!ServerTypeOK, ServerTyped, ServerAtWork, Srv!Actors, Srv!Callbacks
<1>1. ASSUME NEW x \in goals, GoalArrives(x) PROVE Goal
  <2>1. x.id \in GoalIds
    BY DEF ClientTypeOK, Goals
  <2>2. CASE Srv!OnGoal(x.id)
    BY <2>2 DEF Srv!OnGoal
  <2>3. CASE Srv!OnGoalUnparsable(x.id)
    BY <1>0, <2>1, <2>3, DecisionMarks DEF Srv!OnGoalUnparsable, Decisions
  <2> QED
    BY <1>1, <2>2, <2>3 DEF GoalArrives
<1>2. ASSUME NEW x \in cancels, CancelArrives(x) PROVE Goal
  <2> DEFINE g == x.id
             h == [serverGoals[g] EXCEPT !.cancelled = TRUE]
  <2>1. g \in GoalIds /\ Srv!Filed(g) /\ Puts(g, h)
    BY <1>2 DEF CancelArrives, Srv!OnCancel, ClientTypeOK, Cancels, Puts
  <2>2. serverGoals[g] \in Srv!Handles
    BY <1>0, <2>1 DEF ServerTyped, Srv!Filed
  <2>3. h \in Srv!Handles /\ h.status = serverGoals[g].status /\ h.result = serverGoals[g].result
    BY <2>1, <2>2, ServerFields
  <2> QED
    BY <2>1, <2>3 DEF Marks
<1>3. ASSUME Srv!FileGoal PROVE Goal
  <2>1. at[GoalThread] \in GoalIds /\ Puts(at[GoalThread], Srv!FreshHandle)
    BY <1>0, <1>3 DEF Srv!FileGoal, Srv!Goto, Puts
  <2> QED
    BY <2>1, ServerFresh DEF Marks
<1>4. ASSUME Srv!GoalHandlerReturns PROVE Goal
  <2>1. serverPc[GoalThread] = "handler"
    BY <1>4 DEF Srv!GoalHandlerReturns, Srv!GoalAccepted, Srv!GoalRejected, Srv!Goto
  <2>2. /\ at[GoalThread] \in GoalIds /\ Srv!Filed(at[GoalThread])
        /\ Srv!SetStatus(at[GoalThread], "EXECUTING") \/ Srv!SetStatus(at[GoalThread], "REJECTED")
    BY <1>0, <1>4, <2>1 DEF Srv!GoalHandlerReturns, Srv!GoalAccepted, Srv!GoalRejected,
                            ServerTypeInv, ServerAtWork
  <2>3. \E status \in Decisions : Srv!Decide(at[GoalThread], status)
    BY <2>2 DEF Srv!Decide, Decisions
  <2> QED
    BY <1>0, <2>2, <2>3, DecisionMarks
<1>5. ASSUME Srv!EnterCancelHandler PROVE Goal
  <2> DEFINE g == at[CancelThread]
             h == [serverGoals[g] EXCEPT !.cancelCalls = @ + 1]
  <2>1. g \in GoalIds /\ Srv!Filed(g) /\ Puts(g, h) /\ serverGoals[g].cancelCalls < MaxCancelCalls
    BY <1>0, <1>5 DEF Srv!EnterCancelHandler, Srv!Goto, ServerTypeInv, ServerAtWork, Puts
  <2>2. serverGoals[g] \in Srv!Handles
    BY <1>0, <2>1 DEF ServerTyped, Srv!Filed
  <2>3. h \in Srv!Handles /\ h.status = serverGoals[g].status /\ h.result = serverGoals[g].result
    BY <2>1, <2>2, ServerFields
  <2> QED
    BY <2>1, <2>3 DEF Marks
<1>6. ASSUME Srv!EnterGoalHandler \/ Srv!FirstFeedback \/ Srv!CancelReturns PROVE Goal
  BY <1>6 DEF Srv!EnterGoalHandler, Srv!FirstFeedback, Srv!CancelReturns, Srv!CancelEnds
<1>7. ASSUME NEW a \in Srv!Actors, ApplicationMoves(a) PROVE Goal
  <2>1. CASE Srv!HandlerRegisters(a) \/ Srv!HandlerCalls(a) \/ Srv!PublishFeedback(a)
    BY <2>1 DEF Srv!HandlerRegisters, Srv!HandlerCalls, Srv!PublishFeedback
  <2>2. ASSUME NEW g \in GoalIds, Srv!AcceptGoal(a, g) \/ Srv!RejectGoal(a, g) PROVE Goal
    BY <1>0, <2>2, DecisionMarks DEF Srv!AcceptGoal, Srv!RejectGoal, Decisions
  <2> QED
    BY <1>7, <2>1, <2>2 DEF ApplicationMoves
<1> QED
  BY <1>1, <1>2, <1>3, <1>4, <1>5, <1>6, <1>7 DEF ServerMoves

\* It brings no thread into send_result, and moves none there.
LEMMA MoveStays ==
    ASSUME Srv!ServerTypeOK, ServerMoves, NEW b \in Srv!Actors, serverPc'[b] = "store"
    PROVE  serverPc[b] = "store" /\ at'[b] = at[b]
<1> USE DEF Srv!Goto, Srv!Takes, Srv!Returns
<1>0. /\ serverPc \in [Srv!Actors -> {"idle", "init", "file", "enter", "handler", "feedback",
                                      "store", "call", "register"}]
      /\ at \in [Srv!Actors -> GoalIds \cup {NoGoal}]
  BY DEF Srv!ServerTypeOK
<1>1. ASSUME NEW x \in goals, GoalArrives(x) PROVE serverPc[b] = "store" /\ at'[b] = at[b]
  BY <1>0, <1>1 DEF GoalArrives, Srv!OnGoal, Srv!OnGoalUnparsable
<1>2. ASSUME NEW x \in cancels, CancelArrives(x) PROVE serverPc[b] = "store" /\ at'[b] = at[b]
  BY <1>0, <1>2 DEF CancelArrives, Srv!OnCancel
<1>3. ASSUME \/ Srv!FileGoal \/ Srv!EnterGoalHandler \/ Srv!GoalHandlerReturns
             \/ Srv!FirstFeedback \/ Srv!EnterCancelHandler \/ Srv!CancelReturns
      PROVE  serverPc[b] = "store" /\ at'[b] = at[b]
  BY <1>0, <1>3 DEF Srv!FileGoal, Srv!EnterGoalHandler, Srv!GoalHandlerReturns,
     Srv!GoalAccepted, Srv!GoalRejected, Srv!FirstFeedback, Srv!EnterCancelHandler,
     Srv!CancelReturns, Srv!CancelEnds
<1>4. ASSUME NEW a \in Srv!Actors, ApplicationMoves(a)
      PROVE  serverPc[b] = "store" /\ at'[b] = at[b]
  BY <1>0, <1>4 DEF ApplicationMoves, Srv!HandlerRegisters, Srv!HandlerCalls,
     Srv!PublishFeedback, Srv!AcceptGoal, Srv!RejectGoal
<1> QED
  BY <1>1, <1>2, <1>3, <1>4 DEF ServerMoves

\* A step of the server outside send_result keeps what it has sent: a handle
\* that gets another status after its result counts as overtaken.
LEMMA MoveKeeps ==
    ASSUME ServerTypeInv, ClientTypeOK, SenderInv, SentInv, ServerMoves
    PROVE  SenderInv' /\ SentInv'
<1>1. /\ ServerTyped /\ Srv!ServerTypeOK
      /\ UNCHANGED <<results, sending>>
      /\ serverOvertaken' = serverOvertaken \cup Overtakes
  BY DEF ServerTypeInv, Srv!ServerTypeOK, ServerTyped, ServerMoves, actionVars, topicVars
<1>2. SenderInv'
  <2>1. serverOvertaken' \subseteq GoalIds
    BY <1>1 DEF SenderInv, Overtakes
  <2>2. ASSUME NEW b \in Srv!Actors, serverPc'[b] = "store"
        PROVE  /\ sending'[b] \in ResultStatuses
               /\ Srv!ToWire(sending'[b]) \in {r.status : r \in {y \in results' : y.id = at'[b]}}
    BY <1>1, <2>2, MoveStays DEF SenderInv, SentFor
  <2> QED
    BY <1>1, <2>1, <2>2 DEF SenderInv, SentFor, Srv!ToWire
<1>3. ASSUME NEW k \in GoalIds, HasSent(k)'
      PROVE  \/ Srv!ToWire(serverGoals'[k].status)
                    \in {r.status : r \in {y \in results' : y.id = k}}
             \/ k \in serverOvertaken' /\ serverGoals'[k].status \in Decisions
  <2>1. /\ HasSent(k)
        /\ \/ serverGoals'[k].status = serverGoals[k].status
           \/ serverGoals'[k].status \in Decisions
    <3>1. CASE UNCHANGED serverGoals
      BY <1>3, <3>1 DEF HasSent
    <3>2. ASSUME NEW g \in GoalIds, NEW h \in Srv!Handles, Marks(g, h), Puts(g, h)
          PROVE  /\ HasSent(k)
                 /\ \/ serverGoals'[k].status = serverGoals[k].status
                    \/ serverGoals'[k].status \in Decisions
      <4>1. serverGoals'[g] = h /\ \A j \in GoalIds : j # g => serverGoals'[j] = serverGoals[j]
        BY <1>1, <3>2, PutsType
      <4> QED
        BY <1>3, <3>2, <4>1 DEF Marks, Srv!Filed, HasSent
    <3> QED
      BY <3>1, <3>2, MoveMarks
  <2>2. CASE serverGoals'[k].status = serverGoals[k].status
    BY <1>1, <2>1, <2>2 DEF SentInv, SentFor
  <2>3. CASE serverGoals'[k].status # serverGoals[k].status
    BY <1>1, <1>3, <2>1, <2>3 DEF Overtakes
  <2> QED
    BY <2>2, <2>3
<1>4. SentInv'
  BY <1>3 DEF SentInv, SentFor, HasSent, Srv!ToWire
<1> QED
  BY <1>2, <1>4

-----------------------------------------------------------------------------
(* send_result *)

\* The publication: the status a thread will store is that of a result sent.
LEMMA SendKeeps ==
    ASSUME ServerTypeInv, SenderInv, SentInv, NEW a \in Srv!Actors, NEW x \in goals,
           NEW status \in ResultStatuses, SendResult(a, x, status)
    PROVE  SenderInv' /\ SentInv'
<1> DEFINE Sent(g) == {r.status : r \in {y \in results' : y.id = g}}
<1>1. /\ sending' = [sending EXCEPT ![a] = status]
      /\ UNCHANGED <<serverOvertaken, serverGoals>>
      /\ results' = results \cup {[action |-> ActionOf[x.client], id |-> x.id,
                                   status |-> Srv!ToWire(status), goal |-> x]}
      /\ serverPc' = [serverPc EXCEPT ![a] = "store"] /\ at' = [at EXCEPT ![a] = x.id]
  BY DEF SendResult, Answer, Srv!PublishResult, Srv!Takes
<1>2. /\ \A g : SentFor(g) \subseteq Sent(g)
      /\ Srv!ToWire(status) \in Sent(x.id)
  <2> DEFINE m == [action |-> ActionOf[x.client], id |-> x.id,
                   status |-> Srv!ToWire(status), goal |-> x]
  <2>1. m \in results' /\ m.id = x.id /\ m.status = Srv!ToWire(status)
    BY <1>1
  <2>2. results \subseteq results'
    BY <1>1
  <2> HIDE DEF m
  <2> QED
    BY <2>1, <2>2 DEF SentFor
<1>3. ASSUME NEW b \in Srv!Actors, serverPc'[b] = "store"
      PROVE  sending'[b] \in ResultStatuses /\ Srv!ToWire(sending'[b]) \in Sent(at'[b])
  <2>0. /\ serverPc \in [Srv!Actors -> {"idle", "init", "file", "enter", "handler",
                                        "feedback", "store", "call", "register"}]
        /\ at \in [Srv!Actors -> GoalIds \cup {NoGoal}]
        /\ sending \in [Srv!Actors -> Srv!HandleStatuses]
    BY DEF ServerTypeInv, Srv!ServerTypeOK, SenderInv
  <2>1. CASE b = a
    <3>1. sending'[b] = status /\ at'[b] = x.id
      BY <1>1, <2>0, <2>1
    <3> QED
      BY <1>2, <3>1
  <2>2. CASE b # a
    <3>1. sending'[b] = sending[b] /\ at'[b] = at[b] /\ serverPc[b] = "store"
      BY <1>1, <1>3, <2>0, <2>2
    <3>2. sending[b] \in ResultStatuses /\ Srv!ToWire(sending[b]) \in SentFor(at[b])
      BY <3>1 DEF SenderInv
    <3> HIDE DEF Sent
    <3> QED
      BY <1>2, <3>1, <3>2
  <2> QED
    BY <2>1, <2>2
<1>4. \A r \in results' : FromWire(r.status) = r.status
  <2>1. FromWire(Srv!ToWire(status)) = Srv!ToWire(status)
    BY DEF FromWire, Srv!ToWire
  <2> QED
    BY <1>1, <2>1 DEF SenderInv
<1>5. SenderInv'
  <2>1. sending' \in [Srv!Actors -> Srv!HandleStatuses] /\ serverOvertaken' \subseteq GoalIds
    BY <1>1 DEF SenderInv, Srv!HandleStatuses
  <2> QED
    BY <1>3, <1>4, <2>1 DEF SenderInv, SentFor, Srv!ToWire
<1>6. SentInv'
  BY <1>1, <1>2 DEF SentInv, SentFor, HasSent, Srv!ToWire
<1> QED
  BY <1>5, <1>6

\* The store: the server's own handle takes the status that was sent.
LEMMA StoreKeeps ==
    ASSUME ServerTypeInv, SenderInv, SentInv, NEW a \in Srv!Actors, StoreSent(a)
    PROVE  SenderInv' /\ SentInv'
<1> DEFINE g == at[a]
           h == [serverGoals[g] EXCEPT !.status = sending[a], !.result = TRUE]
<1>0. /\ ServerTyped /\ Srv!StoreResult(a, sending[a]) /\ serverPc[a] = "store"
      /\ g \in GoalIds /\ sending[a] \in ResultStatuses
      /\ Srv!ToWire(sending[a]) \in SentFor(g)
      /\ serverOvertaken' = serverOvertaken \ {g}
      /\ sending' = [sending EXCEPT ![a] = "READY"]
      /\ UNCHANGED results
  BY DEF ServerTypeInv, ServerTyped, Srv!ServerTypeOK, ServerAtWork, StoreSent, SenderInv,
         Srv!StoreResult, actionVars, topicVars
<1>1. /\ \A k \in GoalIds : k # g => serverGoals'[k] = serverGoals[k]
      /\ serverGoals'[g] = NoHandle \/ serverGoals'[g].status = sending[a]
  <2>1. CASE ~ Srv!Filed(g)
    BY <1>0, <2>1 DEF Srv!StoreResult, Srv!Filed
  <2>2. CASE Srv!Filed(g)
    <3>1. serverGoals[g] \in Srv!Handles
      BY <1>0, <2>2 DEF ServerTyped, Srv!Filed
    <3>2. h \in Srv!Handles /\ h.status = sending[a]
      BY <1>0, <3>1, ServerFields DEF Srv!HandleStatuses
    <3>3. Puts(g, h)
      BY <1>0, <2>2 DEF Srv!StoreResult, Puts
    <3> HIDE DEF h
    <3> QED
      BY <1>0, <3>2, <3>3, PutsType
  <2> QED
    BY <2>1, <2>2
<1>2. /\ sending' \in [Srv!Actors -> Srv!HandleStatuses]
      /\ \A b \in Srv!Actors : serverPc'[b] = "store" =>
             b # a /\ serverPc[b] = "store" /\ at'[b] = at[b] /\ sending'[b] = sending[b]
  BY <1>0 DEF Srv!StoreResult, Srv!Returns, Srv!Takes, Srv!ServerTypeOK, ServerTypeInv,
              SenderInv, Srv!HandleStatuses
<1>3. SenderInv'
  BY <1>0, <1>2 DEF SenderInv, SentFor, Srv!ToWire
<1>4. ASSUME NEW k \in GoalIds, HasSent(k)'
      PROVE  \/ Srv!ToWire(serverGoals'[k].status) \in SentFor(k)
             \/ k \in serverOvertaken' /\ serverGoals'[k].status \in Decisions
  <2>1. CASE k = g
    BY <1>0, <1>1, <1>4, <2>1 DEF HasSent
  <2>2. CASE k # g
    <3>1. serverGoals'[k] = serverGoals[k] /\ HasSent(k)
      BY <1>1, <1>4, <2>2 DEF HasSent
    <3> QED
      BY <1>0, <2>2, <3>1 DEF SentInv
  <2> QED
    BY <2>1, <2>2
<1>5. SentInv'
  BY <1>0, <1>4 DEF SentInv, SentFor, HasSent, Srv!ToWire
<1> QED
  BY <1>3, <1>5

-----------------------------------------------------------------------------
(* The composition *)

\* The inductive invariant of the composition: the clients' and the server's
\* own, and what joins them, the results that were sent.
ActionsInv == ClientInv /\ PromiseInv /\ SenderInv /\ SentInv

LEMMA ActionsInvTypes ==
    ActionsInv => ClientTypeOK /\ Serving /\ ServerTypeInv
<1>1. SrvP!ServerInv => ServerAtWork
  BY DEF SrvP!ServerInv, SrvP!Working, ServerAtWork, Srv!Actors, SrvP!Actors, Srv!Callbacks,
         SrvP!Callbacks, Srv!Filed, SrvP!Filed
<1> QED
  BY <1>1, SameTypes DEF ActionsInv, ClientInv, TypeInv, PromiseInv, ServerTypeInv

LEMMA SenderStep == ActionsInv /\ [ActionsNext]_allVars => SenderInv' /\ SentInv'
<1> SUFFICES ASSUME ActionsInv, [ActionsNext]_allVars PROVE SenderInv' /\ SentInv'
  OBVIOUS
<1>0. ServerTypeInv /\ ClientTypeOK /\ SenderInv /\ SentInv
  BY ActionsInvTypes DEF ActionsInv
<1>1. CASE UNCHANGED <<results, serverSide, senderVars>>
  BY <1>0, <1>1 DEF SenderInv, SentInv, SentFor, HasSent, serverSide, senderVars, Srv!ToWire
<1>2. CASE ServerMoves
  BY <1>0, <1>2, MoveKeeps
<1>3. ASSUME NEW a \in Srv!Actors, NEW x \in goals, NEW status \in ResultStatuses,
             SendResult(a, x, status)
      PROVE  SenderInv' /\ SentInv'
  BY <1>0, <1>3, SendKeeps
<1>4. ASSUME NEW a \in Srv!Actors, StoreSent(a) PROVE SenderInv' /\ SentInv'
  BY <1>0, <1>4, StoreKeeps
<1>5. CASE UNCHANGED allVars
  BY <1>1, <1>5 DEF allVars, actionVars, topicVars
<1> QED
  BY <1>1, <1>2, <1>3, <1>4, <1>5, ClientMovesApart DEF ActionsNext, ServerNext

LEMMA ActionsInvariant == ActionsSafety => []ActionsInv
<1>1. ActionsInit => SenderInv /\ SentInv
  BY DEF ActionsInit, SenderInv, SentInv, HasSent, Srv!HandleStatuses
<1>2. ActionsInv /\ [ActionsNext]_allVars => SenderInv' /\ SentInv' /\ PromiseInv'
  BY SenderStep, PromiseStep, ActionsInvTypes DEF ActionsInv
<1>3. ActionsInv <=> ClientInv /\ (PromiseInv /\ SenderInv /\ SentInv)
  BY DEF ActionsInv
<1> QED
  BY <1>1, <1>2, <1>3, PromiseInit, ClientInvariant, PTL DEF ActionsSafety

\* Both halves keep to their types when they run together.
THEOREM ActionsTypeCorrect == ActionsSafety => []ActionsTypeOK
<1>1. ActionsInv => ActionsTypeOK
  BY ActionsInvTypes DEF ActionsInv, ServerTypeInv, SenderInv, ActionsTypeOK
<1> QED
  BY <1>1, ActionsInvariant, PTL

\* Client and server agree on how a goal ended, whatever status the server's
\* application gave: the client shows the value the server's status has on the
\* wire, unless the server sent two statuses or one side has set a status over
\* that of a result; and then that side shows what it was set to.
THEOREM BothSidesAgree == ActionsSafety => []StatusAgreement
<1>1. ASSUME ActionsInv, NEW c \in Clients, NEW g \in GoalIds,
             HasResult(c, g), storing[c] = NoResult, HasSent(g)
      PROVE  \/ handles[c][g].status = Srv!ToWire(serverGoals[g].status)
             \/ \E s, u \in SentFor(g) : s # u
             \/ /\ [client |-> c, id |-> g] \in overtaken
                /\ handles[c][g].status \in {"EXECUTING", "ABORTED"}
             \/ /\ g \in serverOvertaken
                /\ serverGoals[g].status \in {"EXECUTING", "REJECTED"}
  <2> DEFINE r == handles[c][g].result
  <2>1. /\ r \in results /\ r.id = g
        /\ \/ handles[c][g].status = FromWire(r.status)
           \/ /\ [client |-> c, id |-> g] \in overtaken
              /\ handles[c][g].status \in {"EXECUTING", "ABORTED"}
    BY <1>1 DEF ActionsInv, ClientInv, HandleInv, Sound, HasResult
  <2>2. FromWire(r.status) = r.status /\ r.status \in SentFor(g)
    BY <1>1, <2>1 DEF ActionsInv, SenderInv, SentFor
  <2>3. \/ Srv!ToWire(serverGoals[g].status) \in SentFor(g)
        \/ g \in serverOvertaken /\ serverGoals[g].status \in {"EXECUTING", "REJECTED"}
    BY <1>1 DEF ActionsInv, SentInv, Decisions
  <2> QED
    BY <2>1, <2>2, <2>3
<1>2. ActionsInv => StatusAgreement
  BY <1>1 DEF StatusAgreement
<1> QED
  BY <1>2, ActionsInvariant, PTL

-----------------------------------------------------------------------------
(* The two modules are halves of this one *)

\* The composition implements both of its halves: what the clients do is a
\* behaviour of the clients' module against its open server, and what the server
\* does is made of steps of the server's module against its open clients.
THEOREM CompositionIsBothHalves ==
    ActionsSafety => [][ClientNext]_actionVars /\ [][Srv!ServerNext]_(Srv!serverVars)
<1>1. ActionsInv /\ [ActionsNext]_allVars
          => [ClientNext]_actionVars /\ [Srv!ServerNext]_(Srv!serverVars)
  BY ClientPart, ServerPart, ActionsInvTypes DEF ActionsInv
<1> QED
  BY <1>1, ActionsInvariant, PTL DEF ActionsSafety

\* What the application of the server was promised against open clients holds
\* against these, whatever its handlers call: its cancel handler runs once for a
\* handle, and the two kinds of deadlock are the only ones, and last.
THEOREM ServersKeepPromises ==
    ActionsSafety =>
        /\ [](Srv!CancelOncePerFiling /\ Srv!NoOtherDeadlock)
        /\ [][(Srv!Crossed => Srv!Crossed') /\ (Srv!SelfLocked => Srv!SelfLocked')]_allVars
<1>1. ActionsInv => Srv!CancelOncePerFiling /\ Srv!NoOtherDeadlock
  BY ServerConstants, SrvP!HandledOnce, SrvP!KnownDeadlocks, SamePromises
     DEF ActionsInv, PromiseInv
<1>2. ActionsInv /\ [ActionsNext]_allVars =>
          [(Srv!Crossed => Srv!Crossed') /\ (Srv!SelfLocked => Srv!SelfLocked')]_allVars
  BY PromiseStep, ActionsInvTypes DEF ActionsInv
<1> QED
  BY <1>1, <1>2, ActionsInvariant, PTL DEF ActionsSafety

=============================================================================
