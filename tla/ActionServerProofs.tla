-------------------------- MODULE ActionServerProofs --------------------------
(***************************************************************************)
(* Proofs about ActionServer, for any number of application threads and    *)
(* goals, whichever endpoints init() could create and whatever the         *)
(* handlers call of the server.                                            *)
(***************************************************************************)
EXTENDS ActionServer, TLAPS

-----------------------------------------------------------------------------
(* What a step does with goal_handles_ *)

HandlesTyped == handles \in [GoalIds -> Handles \cup {NoHandle}]

\* A handle is written as a whole.
Writes(g, h) == handles' = [handles EXCEPT ![g] = h]

LEMMA SetField ==
    ASSUME NEW h \in Handles
    PROVE  /\ \A status \in HandleStatuses :
                  /\ [h EXCEPT !.status = status] \in Handles
                  /\ [h EXCEPT !.status = status].cancelled = h.cancelled
                  /\ [h EXCEPT !.status = status].cancelCalls = h.cancelCalls
           /\ \A status \in HandleStatuses :
                  /\ [h EXCEPT !.status = status, !.result = TRUE] \in Handles
                  /\ [h EXCEPT !.status = status, !.result = TRUE].cancelled = h.cancelled
                  /\ [h EXCEPT !.status = status, !.result = TRUE].cancelCalls = h.cancelCalls
           /\ [h EXCEPT !.cancelled = TRUE] \in Handles
           /\ [h EXCEPT !.cancelled = TRUE].cancelled
           /\ [h EXCEPT !.cancelled = TRUE].cancelCalls = h.cancelCalls
BY DEF Handles

LEMMA FreshHandleType ==
    /\ FreshHandle \in Handles /\ FreshHandle.cancelCalls = 0
    /\ \A status \in HandleStatuses :
           /\ [FreshHandle EXCEPT !.status = status] \in Handles
           /\ [FreshHandle EXCEPT !.status = status].cancelCalls = 0
<1>1. FreshHandle \in Handles /\ FreshHandle.cancelCalls = 0
  BY ServerAssumption DEF FreshHandle, Handles, HandleStatuses
<1> QED
  BY <1>1, SetField

LEMMA CountCancel ==
    ASSUME NEW h \in Handles, h.cancelCalls < MaxCancelCalls
    PROVE  /\ [h EXCEPT !.cancelCalls = @ + 1] \in Handles
           /\ [h EXCEPT !.cancelCalls = @ + 1].cancelled = h.cancelled
           /\ [h EXCEPT !.cancelCalls = @ + 1].cancelCalls = h.cancelCalls + 1
BY ServerAssumption DEF Handles

LEMMA WritesType ==
    ASSUME HandlesTyped, NEW g \in GoalIds, NEW h \in Handles, Writes(g, h)
    PROVE  /\ HandlesTyped'
           /\ handles'[g] = h /\ handles'[g] # NoHandle
           /\ \A k \in GoalIds : k # g => handles'[k] = handles[k]
           /\ \A k \in GoalIds : Filed(k) => Filed(k)'
BY HandleAssumption DEF HandlesTyped, Writes, Filed

\* What sets one field writes the handle.
LEMMA FieldWrites ==
    ASSUME NEW g \in GoalIds, NEW status
    PROVE  /\ SetStatus(g, status) => Writes(g, [handles[g] EXCEPT !.status = status])
           /\ handles' = [handles EXCEPT ![g].status = status, ![g].result = TRUE]
                  => Writes(g, [handles[g] EXCEPT !.status = status, !.result = TRUE])
           /\ handles' = [handles EXCEPT ![g].cancelled = TRUE]
                  => Writes(g, [handles[g] EXCEPT !.cancelled = TRUE])
           /\ handles' = [handles EXCEPT ![g].cancelCalls = @ + 1]
                  => Writes(g, [handles[g] EXCEPT !.cancelCalls = @ + 1])
BY DEF SetStatus, Writes

-----------------------------------------------------------------------------
(* Types and locks *)

\* A callback at work has a goal, which is filed once it has entered; the cancel
\* callback, and nobody else, keeps goal_handles_mutex_ between steps.
Working ==
    /\ \A a \in Actors : pc[a] \notin {"idle", "init"} => at[a] \in GoalIds
    /\ pc[GoalThread] \notin {"idle", "file"} => Filed(at[GoalThread])
    /\ pc[CancelThread] # "idle" => Filed(at[CancelThread])
    /\ \A w \in Workers : pc[w] \in {"idle", "init", "store"}
    /\ pc[GoalThread] # "init" /\ pc[CancelThread] \notin {"init", "file", "feedback"}
    /\ goalsMutex = IF pc[CancelThread] = "idle" THEN Nobody ELSE CancelThread

\* The cancel handler has run for a goal only if the handle says it was
\* cancelled, at most once, and not yet when on_cancel has only just marked it.
CancelInv ==
    /\ \A g \in GoalIds : Filed(g) =>
           \/ handles[g].cancelCalls = 0
           \/ handles[g].cancelled /\ handles[g].cancelCalls = 1
    /\ pc[CancelThread] = "enter" =>
           handles[at[CancelThread]].cancelled /\ handles[at[CancelThread]].cancelCalls = 0

\* What init() could create is there, or the server was stopped or used early.
Published == Publishers \ publishers \subseteq failed \/ outsideLife

\* Whoever can come to use a publisher finds it, unless it could not be created,
\* or the server was stopped or used too early.
LifeInv ==
    /\ (\/ initialized \/ running
        \/ pc[GoalThread] # "idle" \/ pc[CancelThread] # "idle"
        \/ \E g \in GoalIds : Filed(g)) => Published
    /\ NullPublisherHasCause

ServerInv == ServerTypeOK /\ Working /\ CancelInv /\ LifeInv

\* A call that locks goal_handles_mutex_ runs while on_cancel rests, and leaves
\* on_goal where it is or back in its handler.
LEMMA CallMoves ==
    ASSUME ServerTypeOK, Working, NEW a \in Actors,
           pc[a] \in {"idle", "store", "call"}, a \in Callbacks => pc[a] # "idle",
           goalsMutex = Nobody, Returns(a)
    PROVE  /\ a # CancelThread
           /\ pc[CancelThread] = "idle" /\ pc'[CancelThread] = "idle"
           /\ pc' \in [Actors -> {"idle", "init", "file", "enter", "handler", "feedback",
                                 "store", "call", "register"}]
           /\ a = GoalThread => pc'[GoalThread] = "handler"
           /\ a # GoalThread => pc'[GoalThread] = pc[GoalThread] /\ pc'[a] = "idle"
           /\ \A b \in Actors : b # a => pc'[b] = pc[b]
BY ServerAssumption DEF ServerTypeOK, Working, Returns, Actors, Callbacks

LEMMA LocksGoalsAt ==
    ASSUME ServerTypeOK, Working, NEW a \in Actors, LocksGoals(a)
    PROVE  /\ pc[a] \in {"idle", "store", "call"} /\ goalsMutex = Nobody
           /\ a \in Callbacks => pc[a] # "idle"
BY DEF LocksGoals

\* After a call of the application the publishers are there or not as before.
LEMMA UsesLife ==
    ASSUME LifeInv, Uses
    PROVE  Published' /\ (crash' = crash => NullPublisherHasCause')
<1>1. Published'
  <2>1. CASE initialized
    BY <2>1 DEF LifeInv, Published, Uses
  <2>2. CASE ~ initialized
    BY <2>2 DEF Published, Uses
  <2> QED
    BY <2>1, <2>2
<1>2. ASSUME crash' = crash PROVE NullPublisherHasCause'
  BY <1>2 DEF LifeInv, NullPublisherHasCause, Uses
<1> QED
  BY <1>1, <1>2

\* A publisher that is used is there or missing with a cause.
LEMMA UseLife ==
    ASSUME NullPublisherHasCause, Published', failed' = failed, publishers' = publishers,
           outsideLife => outsideLife', NEW p \in Publishers, UsePublisher(p)
    PROVE  NullPublisherHasCause'
BY DEF NullPublisherHasCause, Published, UsePublisher

LEMMA ServerInvInit == ServerInit => ServerInv
<1> SUFFICES ASSUME ServerInit PROVE ServerInv
  OBVIOUS
<1> USE ServerAssumption DEF ServerInit
<1>1. ServerTypeOK
  BY DEF ServerTypeOK, Actors
<1>2. Working
  BY DEF Working, Actors, Callbacks
<1>3. CancelInv
  BY DEF CancelInv, Filed, Actors, Callbacks
<1>4. LifeInv
  BY DEF LifeInv, Published, NullPublisherHasCause, Filed, Actors, Callbacks
<1> QED
  BY <1>1, <1>2, <1>3, <1>4 DEF ServerInv

LEMMA ServerInvStep == ServerInv /\ [ServerNext]_serverVars => ServerInv'
<1> SUFFICES ASSUME ServerInv, [ServerNext]_serverVars PROVE ServerInv'
  OBVIOUS
<1> USE ServerAssumption
<1>0. /\ ServerTypeOK /\ Working /\ CancelInv /\ LifeInv /\ HandlesTyped
      /\ GoalThread \in Actors /\ CancelThread \in Actors /\ Workers \subseteq Actors
      /\ GoalThread \notin Workers /\ CancelThread \notin Workers
      /\ GoalThread # CancelThread /\ Nobody # CancelThread
  BY DEF ServerInv, ServerTypeOK, HandlesTyped, Actors, Callbacks
<1> USE DEF lifeVars, lockVars
\* Steps that leave the table alone.
<1>1. ASSUME NEW w \in Workers, InitSubscribes(w) \/ InitPublishes(w), crash = {}
      PROVE  ServerInv'
  <2>1. ServerTypeOK'
    BY <1>0, <1>1 DEF InitSubscribes, InitPublishes, Goto, ServerTypeOK
  <2>2. Working'
    BY <1>0, <1>1 DEF InitSubscribes, InitPublishes, Goto, ServerTypeOK, Working, Filed
  <2>3. CancelInv'
    BY <1>0, <1>1 DEF InitSubscribes, InitPublishes, Goto, ServerTypeOK, CancelInv, Filed
  <2>4. LifeInv'
    <3>1. CASE InitSubscribes(w)
      BY <1>0, <3>1 DEF InitSubscribes, Goto, ServerTypeOK, LifeInv, Published,
                        NullPublisherHasCause, Filed
    <3>2. CASE InitPublishes(w)
      BY <1>1, <3>2 DEF InitPublishes, LifeInv, Published, NullPublisherHasCause
    <3> QED
      BY <1>1, <3>1, <3>2
  <2> QED
    BY <2>1, <2>2, <2>3, <2>4 DEF ServerInv
<1>2. ASSUME NEW a \in Actors, Start(a) \/ Stop(a) PROVE ServerInv'
  <2>1. ServerTypeOK'
    BY <1>0, <1>2 DEF Start, Stop, ServerTypeOK
  <2>2. Working' /\ CancelInv'
    BY <1>0, <1>2 DEF Start, Stop, Working, CancelInv, Filed
  <2>3. LifeInv'
    <3>1. Published'
      <4>1. CASE initialized
        BY <1>0, <1>2, <4>1 DEF Start, Stop, LifeInv, Published
      <4>2. CASE ~ initialized
        BY <1>2, <4>2 DEF Start, Stop, Published
      <4> QED
        BY <4>1, <4>2
    <3>2. NullPublisherHasCause'
      BY <1>0, <1>2 DEF Start, Stop, LifeInv, NullPublisherHasCause
    <3> QED
      BY <3>1, <3>2 DEF LifeInv
  <2> QED
    BY <2>1, <2>2, <2>3 DEF ServerInv
<1>3. ASSUME NEW w \in Workers, NEW callback \in Callbacks, RegisterHandler(w, callback)
      PROVE  ServerInv'
  <2>1. ServerTypeOK' /\ Working' /\ CancelInv'
    BY <1>0, <1>3 DEF RegisterHandler, ServerTypeOK, Working, CancelInv, Filed
  <2>2. LifeInv'
    BY <1>0, <1>3 DEF RegisterHandler, LifeInv, Published, NullPublisherHasCause, Filed
  <2> QED
    BY <2>1, <2>2 DEF ServerInv
<1>4. ASSUME NEW g \in GoalIds, OnGoal(g) PROVE ServerInv'
  <2>1. ServerTypeOK'
    BY <1>0, <1>4 DEF OnGoal, Receives, Goto, Takes, ServerTypeOK
  <2>2. Working' /\ CancelInv'
    BY <1>0, <1>4 DEF OnGoal, Receives, Goto, Takes, ServerTypeOK, Working, CancelInv, Filed
  <2>3. LifeInv'
    BY <1>0, <1>4 DEF OnGoal, LifeInv, Published, NullPublisherHasCause
  <2> QED
    BY <2>1, <2>2, <2>3 DEF ServerInv
<1>5. ASSUME EnterGoalHandler \/ FirstFeedback PROVE ServerInv'
  <2>1. ServerTypeOK'
    BY <1>0, <1>5 DEF EnterGoalHandler, FirstFeedback, UsePublisher, Goto, Takes,
                      ServerTypeOK, Publishers
  <2>2. Working' /\ CancelInv'
    BY <1>0, <1>5 DEF EnterGoalHandler, FirstFeedback, Goto, Takes, ServerTypeOK, Working,
                      CancelInv, Filed
  <2>3. Published /\ Published' /\ NullPublisherHasCause
    BY <1>0, <1>5 DEF EnterGoalHandler, FirstFeedback, Goto, LifeInv, Published
  <2>4. NullPublisherHasCause'
    <3>1. CASE EnterGoalHandler
      BY <2>3, <3>1 DEF EnterGoalHandler, NullPublisherHasCause
    <3>2. CASE FirstFeedback
      BY <2>3, <3>2, UseLife DEF FirstFeedback, Publishers
    <3> QED
      BY <1>5, <3>1, <3>2
  <2> QED
    BY <2>1, <2>2, <2>3, <2>4 DEF ServerInv, LifeInv
<1>6. ASSUME NoCancelHandler \/ CancelReturns PROVE ServerInv'
  <2>1. PICK from \in {"enter", "handler"} : CancelEnds(from)
    BY <1>6 DEF NoCancelHandler, CancelReturns
  <2>2. handlersMutex' \in Actors \cup {Nobody}
    BY <1>0, <1>6 DEF NoCancelHandler, CancelReturns, ServerTypeOK
  <2>3. ServerTypeOK'
    BY <1>0, <2>1, <2>2 DEF CancelEnds, Goto, Takes, ServerTypeOK
  <2>4. Working' /\ CancelInv'
    BY <1>0, <2>1 DEF CancelEnds, Goto, Takes, ServerTypeOK, Working, CancelInv, Filed
  <2>5. LifeInv'
    BY <1>0, <2>1 DEF CancelEnds, Goto, LifeInv, Published, NullPublisherHasCause
  <2> QED
    BY <2>3, <2>4, <2>5 DEF ServerInv
<1>7. ASSUME NEW a \in Actors, PublishFeedback(a) PROVE ServerInv'
  <2>1. /\ a # CancelThread
        /\ pc[CancelThread] = "idle" /\ pc'[CancelThread] = "idle"
        /\ pc' \in [Actors -> {"idle", "init", "file", "enter", "handler", "feedback",
                              "store", "call", "register"}]
        /\ a = GoalThread => pc'[GoalThread] = "handler"
        /\ a # GoalThread => pc'[GoalThread] = pc[GoalThread] /\ pc'[a] = "idle"
        /\ \A b \in Actors : b # a => pc'[b] = pc[b]
        /\ a \in Callbacks => pc[a] # "idle"
    BY <1>0, <1>7, CallMoves, LocksGoalsAt DEF PublishFeedback
  <2>2. ServerTypeOK'
    BY <1>0, <1>7, <2>1 DEF PublishFeedback, UsePublisher, Uses, ServerTypeOK, Publishers
  <2>3. Working'
    BY <1>0, <1>7, <2>1 DEF PublishFeedback, LocksGoals, Working, Filed, Callbacks
  <2>4. CancelInv'
    BY <1>0, <1>7, <2>1 DEF PublishFeedback, CancelInv, Filed
  <2>5. Published' /\ NullPublisherHasCause'
    BY <1>0, <1>7, UsesLife, UseLife DEF PublishFeedback, Uses, LifeInv, Publishers
  <2> QED
    BY <2>2, <2>3, <2>4, <2>5 DEF ServerInv, LifeInv
<1>8. ASSUME NEW a \in Actors, NEW g \in GoalIds, PublishResult(a, g) PROVE ServerInv'
  <2>1. /\ pc[a] = IF a \in Callbacks THEN "handler" ELSE "idle"
        /\ pc' = [pc EXCEPT ![a] = "store"] /\ at' = [at EXCEPT ![a] = g]
        /\ a \in Callbacks => g = at[a]
    BY <1>8 DEF PublishResult, Applies, Takes
  <2>2. ServerTypeOK'
    BY <1>0, <1>8, <2>1 DEF PublishResult, UsePublisher, Uses, ServerTypeOK, Publishers
  <2>3. Working'
    BY <1>0, <1>8, <2>1 DEF PublishResult, ServerTypeOK, Working, Filed, Actors, Callbacks
  <2>4. CancelInv'
    BY <1>0, <1>8, <2>1 DEF PublishResult, ServerTypeOK, CancelInv, Filed, Callbacks
  <2>5. Published' /\ NullPublisherHasCause'
    BY <1>0, <1>8, UsesLife, UseLife DEF PublishResult, Uses, LifeInv, Publishers
  <2> QED
    BY <2>2, <2>3, <2>4, <2>5 DEF ServerInv, LifeInv
<1>9. ASSUME NEW a \in Callbacks, HandlerRegisters(a) \/ HandlerCalls(a) PROVE ServerInv'
  <2>1. PICK l \in {"register", "call"} :
            pc[a] = "handler" /\ pc' = [pc EXCEPT ![a] = l]
    BY <1>9 DEF HandlerRegisters, HandlerCalls, Goto
  <2>2. a \in Actors /\ UNCHANGED <<lifeVars, handlers, handles, lockVars, at, crash>>
    BY <1>9 DEF HandlerRegisters, HandlerCalls, Actors
  <2>3. ServerTypeOK'
    BY <1>0, <2>1, <2>2 DEF ServerTypeOK
  <2>4. Working' /\ CancelInv'
    BY <1>0, <1>9, <2>1, <2>2 DEF ServerTypeOK, Working, CancelInv, Filed, Callbacks
  <2>5. LifeInv'
    BY <1>0, <1>9, <2>1, <2>2 DEF ServerTypeOK, LifeInv, Published, NullPublisherHasCause,
                                  Filed, Callbacks
  <2> QED
    BY <2>3, <2>4, <2>5 DEF ServerInv
\* Steps that write one handle: a handle that was filed keeps its cancel fields,
\* and a fresh one is filed only while on_cancel is at rest.
<1>10. ASSUME NEW g \in GoalIds, NEW h \in Handles, Writes(g, h),
              \/ /\ Filed(g)
                 /\ h.cancelled = handles[g].cancelled
                 /\ h.cancelCalls = handles[g].cancelCalls
              \/ h.cancelCalls = 0 /\ pc[CancelThread] = "idle",
              at'[CancelThread] = at[CancelThread], pc'[CancelThread] = pc[CancelThread]
       PROVE  /\ CancelInv' /\ HandlesTyped' /\ handles'[g] # NoHandle
              /\ \A k \in GoalIds : Filed(k) => handles'[k] # NoHandle
  <2>1. /\ HandlesTyped' /\ handles'[g] = h /\ handles'[g] # NoHandle
        /\ \A k \in GoalIds : k # g => handles'[k] = handles[k]
        /\ \A k \in GoalIds : Filed(k) => handles'[k] # NoHandle
    BY <1>0, <1>10, WritesType DEF Filed
  <2>2. pc[CancelThread] = "enter" => at[CancelThread] \in GoalIds
    BY <1>0 DEF Working
  <2>3. \A k \in GoalIds : handles'[k] # NoHandle =>
            \/ handles'[k].cancelCalls = 0
            \/ handles'[k].cancelled /\ handles'[k].cancelCalls = 1
    BY <1>0, <1>10, <2>1 DEF CancelInv, Filed
  <2>4. pc[CancelThread] = "enter" =>
            /\ handles'[at[CancelThread]].cancelled
            /\ handles'[at[CancelThread]].cancelCalls = 0
    BY <1>0, <1>10, <2>1, <2>2 DEF CancelInv
  <2>5. CancelInv'
    <3>1. \A k \in GoalIds : Filed(k)' =>
              \/ handles'[k].cancelCalls = 0
              \/ handles'[k].cancelled /\ handles'[k].cancelCalls = 1
      BY <2>3 DEF Filed
    <3>2. pc'[CancelThread] = "enter" =>
              /\ handles'[at'[CancelThread]].cancelled
              /\ handles'[at'[CancelThread]].cancelCalls = 0
      BY <1>10, <2>4
    <3> QED
      BY <3>1, <3>2 DEF CancelInv
  <2> QED
    BY <2>1, <2>5
<1>11. CASE FileGoal
  <2>1. /\ at[GoalThread] \in GoalIds /\ Writes(at[GoalThread], FreshHandle)
        /\ pc[CancelThread] = "idle" /\ pc[GoalThread] = "file"
        /\ at'[CancelThread] = at[CancelThread] /\ pc'[CancelThread] = pc[CancelThread]
    BY <1>0, <1>11 DEF FileGoal, Goto, Writes, Working, ServerTypeOK
  <2>2. /\ CancelInv' /\ HandlesTyped' /\ handles'[at[GoalThread]] # NoHandle
        /\ \A k \in GoalIds : Filed(k) => handles'[k] # NoHandle
    BY <1>10, <2>1, FreshHandleType
  <2>3. ServerTypeOK'
    BY <1>0, <1>11, <2>2 DEF FileGoal, Goto, ServerTypeOK, HandlesTyped
  <2>4. Working'
    BY <1>0, <1>11, <2>1, <2>2 DEF FileGoal, Goto, ServerTypeOK, Working, Filed
  <2>5. LifeInv'
    BY <1>0, <1>11, <2>1 DEF FileGoal, LifeInv, Published, NullPublisherHasCause
  <2> QED
    BY <2>2, <2>3, <2>4, <2>5 DEF ServerInv
<1>12. ASSUME NoGoalHandler \/ GoalHandlerReturns PROVE ServerInv'
  <2> DEFINE g == at[GoalThread]
  <2>1. PICK status \in {"EXECUTING", "REJECTED"} : SetStatus(g, status)
    BY <1>12 DEF NoGoalHandler, GoalHandlerReturns, GoalAccepted, GoalRejected
  <2>2. /\ g \in GoalIds /\ Filed(g) /\ pc[GoalThread] # "idle"
        /\ at'[CancelThread] = at[CancelThread] /\ pc'[CancelThread] = pc[CancelThread]
    BY <1>0, <1>12 DEF NoGoalHandler, GoalHandlerReturns, GoalAccepted, GoalRejected, Goto,
                       Takes, Working, ServerTypeOK
  <2>3. handles[g] \in Handles /\ status \in HandleStatuses
    BY <1>0, <2>2 DEF HandlesTyped, Filed, HandleStatuses
  <2>4. Writes(g, [handles[g] EXCEPT !.status = status])
    BY <2>1, <2>2, FieldWrites
  <2> HIDE DEF g
  <2>5. /\ CancelInv' /\ HandlesTyped'
        /\ \A k \in GoalIds : Filed(k) => handles'[k] # NoHandle
    BY <1>10, <2>2, <2>3, <2>4, SetField
  <2>6. ServerTypeOK'
    BY <1>0, <1>12, <2>2, <2>5
       DEF NoGoalHandler, GoalHandlerReturns, GoalAccepted, GoalRejected, Goto, Takes,
           ServerTypeOK, HandlesTyped, g
  <2>7. Working'
    BY <1>0, <1>12, <2>2, <2>5
       DEF NoGoalHandler, GoalHandlerReturns, GoalAccepted, GoalRejected, Goto, Takes,
           ServerTypeOK, Working, Filed, g
  <2>8. LifeInv'
    BY <1>0, <1>12, <2>2
       DEF NoGoalHandler, GoalHandlerReturns, GoalAccepted, GoalRejected, LifeInv,
           Published, NullPublisherHasCause
  <2> QED
    BY <2>5, <2>6, <2>7, <2>8 DEF ServerInv
<1>13. ASSUME NEW g \in GoalIds, NEW status \in {"EXECUTING", "REJECTED"}, Decide(g, status),
              pc[CancelThread] = "idle",
              at'[CancelThread] = at[CancelThread], pc'[CancelThread] = pc[CancelThread]
       PROVE  /\ CancelInv' /\ HandlesTyped'
              /\ \A k \in GoalIds : Filed(k) => handles'[k] # NoHandle
  <2>1. status \in HandleStatuses
    BY <1>13 DEF HandleStatuses
  <2>2. CASE Filed(g)
    <3>1. handles[g] \in Handles
      BY <1>0, <2>2 DEF HandlesTyped, Filed
    <3>2. Writes(g, [handles[g] EXCEPT !.status = status])
      BY <1>13, <2>2, FieldWrites DEF Decide
    <3> QED
      BY <1>10, <1>13, <2>1, <2>2, <3>1, <3>2, SetField
  <2>3. CASE ~ Filed(g)
    <3>1. Writes(g, [FreshHandle EXCEPT !.status = status])
      BY <1>13, <2>3 DEF Decide, Writes
    <3> QED
      BY <1>10, <1>13, <2>1, <3>1, FreshHandleType
  <2> QED
    BY <2>2, <2>3
<1>14. ASSUME NEW g \in GoalIds, OnGoalUnparsable(g) PROVE ServerInv'
  <2>1. /\ CancelInv' /\ HandlesTyped'
        /\ \A k \in GoalIds : Filed(k) => handles'[k] # NoHandle
    BY <1>0, <1>13, <1>14 DEF OnGoalUnparsable, Working
  <2>2. ServerTypeOK'
    BY <1>0, <1>14, <2>1 DEF OnGoalUnparsable, ServerTypeOK, HandlesTyped
  <2>3. Working'
    BY <1>0, <1>14, <2>1 DEF OnGoalUnparsable, Working, Filed
  <2>4. LifeInv'
    BY <1>0, <1>14 DEF OnGoalUnparsable, LifeInv, Published, NullPublisherHasCause
  <2> QED
    BY <2>1, <2>2, <2>3, <2>4 DEF ServerInv
<1>15. ASSUME NEW a \in Actors, NEW g \in GoalIds, AcceptGoal(a, g) \/ RejectGoal(a, g)
       PROVE  ServerInv'
  <2>0. /\ a # CancelThread
        /\ pc[CancelThread] = "idle" /\ pc'[CancelThread] = "idle"
        /\ pc' \in [Actors -> {"idle", "init", "file", "enter", "handler", "feedback",
                              "store", "call", "register"}]
        /\ a = GoalThread => pc'[GoalThread] = "handler"
        /\ a # GoalThread => pc'[GoalThread] = pc[GoalThread] /\ pc'[a] = "idle"
        /\ \A b \in Actors : b # a => pc'[b] = pc[b]
        /\ a \in Callbacks => pc[a] # "idle"
    BY <1>0, <1>15, CallMoves, LocksGoalsAt DEF AcceptGoal, RejectGoal
  <2>1. /\ CancelInv' /\ HandlesTyped'
        /\ \A k \in GoalIds : Filed(k) => handles'[k] # NoHandle
    BY <1>13, <1>15, <2>0 DEF AcceptGoal, RejectGoal
  <2>2. ServerTypeOK'
    BY <1>0, <1>15, <2>0, <2>1
       DEF AcceptGoal, RejectGoal, Uses, ServerTypeOK, HandlesTyped
  <2>3. Working'
    BY <1>0, <1>15, <2>0, <2>1
       DEF AcceptGoal, RejectGoal, LocksGoals, Working, Filed, Callbacks
  <2>4. LifeInv'
    BY <1>0, <1>15, UsesLife DEF AcceptGoal, RejectGoal, LifeInv
  <2> QED
    BY <2>1, <2>2, <2>3, <2>4 DEF ServerInv
<1>16. ASSUME NEW a \in Actors, NEW status \in ResultStatuses, StoreResult(a, status)
       PROVE  ServerInv'
  <2> DEFINE g == at[a]
  <2>1. /\ pc[a] = "store" /\ g \in GoalIds /\ pc[CancelThread] = "idle" /\ a # CancelThread
        /\ pc' = [pc EXCEPT ![a] = IF a \in Callbacks THEN "handler" ELSE "idle"]
        /\ at' = [at EXCEPT ![a] = IF a \in Callbacks THEN g ELSE NoGoal]
        /\ UNCHANGED <<lifeVars, handlers, lockVars, crash>>
    BY <1>0, <1>16 DEF StoreResult, Returns, Takes, Working
  <2>2. at'[CancelThread] = at[CancelThread] /\ pc'[CancelThread] = pc[CancelThread]
    BY <1>0, <2>1 DEF ServerTypeOK
  <2>3. /\ CancelInv' /\ HandlesTyped'
        /\ \A k \in GoalIds : Filed(k) <=> handles'[k] # NoHandle
    <3>1. CASE Filed(g)
      <4>1. handles[g] \in Handles /\ status \in HandleStatuses
        BY <1>0, <2>1, <3>1 DEF HandlesTyped, Filed, HandleStatuses
      <4>2. Writes(g, [handles[g] EXCEPT !.status = status, !.result = TRUE])
        BY <1>16, <2>1, <3>1, FieldWrites DEF StoreResult
      <4> HIDE DEF g
      <4>3. /\ CancelInv' /\ HandlesTyped'
            /\ \A k \in GoalIds : Filed(k) => handles'[k] # NoHandle
        BY <1>10, <2>1, <2>2, <3>1, <4>1, <4>2, SetField
      <4>4. \A k \in GoalIds : k # g => handles'[k] = handles[k]
        BY <1>0, <4>2 DEF Writes, HandlesTyped
      <4> QED
        BY <3>1, <4>3, <4>4 DEF Filed
    <3>2. CASE ~ Filed(g)
      <4>1. UNCHANGED handles
        BY <1>16, <3>2 DEF StoreResult
      <4> QED
        BY <1>0, <2>2, <4>1 DEF CancelInv, HandlesTyped, Filed
    <3> QED
      BY <3>1, <3>2
  <2>4. ServerTypeOK'
    BY <1>0, <2>1, <2>3 DEF ServerTypeOK, HandlesTyped
  <2>5. Working'
    BY <1>0, <2>1, <2>3 DEF ServerTypeOK, Working, Filed, Actors, Callbacks
  <2>6. LifeInv'
    BY <1>0, <2>1, <2>3 DEF ServerTypeOK, LifeInv, Published, NullPublisherHasCause,
                            Filed, Actors, Callbacks
  <2> QED
    BY <2>3, <2>4, <2>5, <2>6 DEF ServerInv
<1>17. ASSUME NEW g \in GoalIds, OnCancel(g) PROVE ServerInv'
  <2> DEFINE h == [handles[g] EXCEPT !.cancelled = TRUE]
  <2>1. /\ Filed(g) /\ ~ handles[g].cancelled /\ handles[g] \in Handles
        /\ pc' = [pc EXCEPT ![CancelThread] = "enter"] /\ pc[CancelThread] = "idle"
        /\ at' = [at EXCEPT ![CancelThread] = g]
    BY <1>0, <1>17 DEF OnCancel, Goto, Takes, HandlesTyped, Filed
  <2>2. Writes(g, h)
    BY <1>17, FieldWrites DEF OnCancel
  <2>3. h \in Handles /\ h.cancelled /\ h.cancelCalls = handles[g].cancelCalls
    BY <2>1, SetField
  <2> HIDE DEF h
  <2>4. /\ HandlesTyped' /\ handles'[g] = h /\ handles'[g] # NoHandle
        /\ \A k \in GoalIds : k # g => handles'[k] = handles[k]
    BY <1>0, <2>2, <2>3, WritesType
  <2>5. ServerTypeOK'
    BY <1>0, <1>17, <2>1, <2>4 DEF OnCancel, ServerTypeOK, HandlesTyped
  <2>6. Working'
    BY <1>0, <1>17, <2>1, <2>4 DEF OnCancel, ServerTypeOK, Working, Filed
  <2>7. CancelInv'
    BY <1>0, <2>1, <2>3, <2>4 DEF ServerTypeOK, CancelInv, Filed
  <2>8. LifeInv'
    BY <1>0, <1>17, <2>1 DEF OnCancel, LifeInv, Published, NullPublisherHasCause
  <2> QED
    BY <2>5, <2>6, <2>7, <2>8 DEF ServerInv
<1>18. CASE EnterCancelHandler
  <2> DEFINE g == at[CancelThread]
             h == [handles[g] EXCEPT !.cancelCalls = @ + 1]
  <2>1. /\ g \in GoalIds /\ Filed(g) /\ handles[g] \in Handles
        /\ handles[g].cancelCalls < MaxCancelCalls
        /\ handles[g].cancelled /\ handles[g].cancelCalls = 0
        /\ pc[CancelThread] = "enter" /\ pc' = [pc EXCEPT ![CancelThread] = "handler"]
    BY <1>0, <1>18 DEF EnterCancelHandler, Goto, HandlesTyped, Filed, Working, CancelInv
  <2>2. Writes(g, h)
    BY <1>18, <2>1, FieldWrites DEF EnterCancelHandler
  <2>3. h \in Handles /\ h.cancelled /\ h.cancelCalls = 1
    BY <2>1, CountCancel
  <2> HIDE DEF g, h
  <2>4. /\ HandlesTyped' /\ handles'[g] = h /\ handles'[g] # NoHandle
        /\ \A k \in GoalIds : k # g => handles'[k] = handles[k]
    BY <1>0, <2>1, <2>2, <2>3, WritesType
  <2>5. ServerTypeOK'
    BY <1>0, <1>18, <2>1, <2>4 DEF EnterCancelHandler, ServerTypeOK, HandlesTyped
  <2>6. Working'
    BY <1>0, <1>18, <2>1, <2>4 DEF EnterCancelHandler, ServerTypeOK, Working, Filed, g
  <2>7. CancelInv'
    BY <1>0, <2>1, <2>3, <2>4 DEF ServerTypeOK, CancelInv, Filed
  <2>8. LifeInv'
    BY <1>0, <1>18, <2>1 DEF EnterCancelHandler, LifeInv, Published, NullPublisherHasCause
  <2> QED
    BY <2>5, <2>6, <2>7, <2>8 DEF ServerInv
<1>19. CASE UNCHANGED serverVars
  <2>1. ServerTypeOK' /\ Working' /\ CancelInv'
    BY <1>0, <1>19 DEF serverVars, ServerTypeOK, Working, CancelInv, Filed
  <2>2. LifeInv'
    BY <1>0, <1>19 DEF serverVars, LifeInv, Published, NullPublisherHasCause, Filed
  <2> QED
    BY <2>1, <2>2 DEF ServerInv
<1>20. ASSUME NEW a \in Actors, CallReturns(a) PROVE ServerInv'
  BY <1>7, <1>15, <1>16, <1>20 DEF CallReturns
<1>21. CASE CallbackStep
  BY <1>0, <1>5, <1>6, <1>11, <1>12, <1>18, <1>20, <1>21 DEF CallbackStep, Callbacks, Actors
<1>22. ASSUME NEW a \in Callbacks, HandlerStep(a) PROVE ServerInv'
  BY <1>0, <1>2, <1>8, <1>9, <1>22 DEF HandlerStep, Callbacks
<1>23. ASSUME NEW w \in Workers, WorkerStep(w), crash = {} PROVE ServerInv'
  BY <1>0, <1>1, <1>2, <1>3, <1>8, <1>20, <1>23 DEF WorkerStep
<1> QED
  BY <1>4, <1>14, <1>17, <1>19, <1>21, <1>22, <1>23 DEF ServerNext, Message

LEMMA ServerInvariant == ServerSafety => []ServerInv
BY ServerInvInit, ServerInvStep, PTL DEF ServerSafety

\* Every variable of the server keeps its type.
THEOREM ServerTypeCorrect == ServerSafety => []ServerTypeOK
BY ServerInvariant, PTL DEF ServerInv

LEMMA HandledOnce == ServerInv => CancelOncePerFiling
BY DEF ServerInv, CancelInv, CancelOncePerFiling

\* The application's cancel handler runs at most once for each handle that is
\* filed, however often and whenever cancels arrive; only a goal that is filed
\* again starts over.
THEOREM CancelOnce == ServerSafety => []CancelOncePerFiling
BY HandledOnce, ServerInvariant, PTL

\* A null publisher is used only if init() could not create that publisher, or
\* the server was stopped, or used before init() had returned.
THEOREM NullPublisherExplained == ServerSafety => []NullPublisherHasCause
BY ServerInvariant, PTL DEF ServerInv, LifeInv

-----------------------------------------------------------------------------
(* Deadlock *)

GoalInHandler == pc[GoalThread] \in {"handler", "feedback", "store", "call", "register"}
CancelInHandler == pc[CancelThread] \in {"handler", "store", "call", "register"}

\* handlers_mutex_ is held exactly while one of the two handlers runs.
HandlersLocked ==
    /\ ~ (GoalInHandler /\ CancelInHandler)
    /\ handlersMutex = IF GoalInHandler THEN GoalThread
                       ELSE IF CancelInHandler THEN CancelThread ELSE Nobody

\* What an application thread does moves no callback and no mutex.
LEMMA WorkerMoves ==
    ASSUME NEW w \in Workers, WorkerStep(w)
    PROVE  /\ w # GoalThread /\ w # CancelThread /\ UNCHANGED lockVars
           /\ UNCHANGED pc \/ \E l : pc' = [pc EXCEPT ![w] = l]
<1>1. CASE CallReturns(w)
  BY <1>1, ServerAssumption DEF CallReturns, AcceptGoal, RejectGoal, PublishFeedback,
     StoreResult, Returns, Callbacks
<1>2. CASE ~ CallReturns(w)
  BY <1>2, ServerAssumption DEF WorkerStep, InitSubscribes, InitPublishes, Start, Stop,
     RegisterHandler, PublishResult, Goto, Callbacks
<1> QED
  BY <1>1, <1>2

\* A handler's call leaves the callback in the handler, and both mutexes alone.
LEMMA HandlerMoves ==
    ASSUME NEW a \in Callbacks, HandlerStep(a) \/ CallReturns(a)
    PROVE  /\ UNCHANGED lockVars
           /\ \/ UNCHANGED pc
              \/ /\ pc[a] \in {"handler", "call", "store"}
                 /\ \E l \in {"handler", "call", "store", "register"} :
                        pc' = [pc EXCEPT ![a] = l]
           /\ pc' # pc /\ pc[a] \in {"call", "store"} => goalsMutex = Nobody
<1>1. CASE HandlerStep(a)
  BY <1>1 DEF HandlerStep, HandlerRegisters, HandlerCalls, Start, Stop, PublishResult,
     Applies, Goto
<1>2. CASE CallReturns(a)
  BY <1>2 DEF CallReturns, AcceptGoal, RejectGoal, PublishFeedback, LocksGoals,
     StoreResult, Returns
<1> QED
  BY <1>1, <1>2

LEMMA LockStep == ServerInv /\ HandlersLocked /\ [ServerNext]_serverVars => HandlersLocked'
<1> SUFFICES ASSUME ServerInv, HandlersLocked, [ServerNext]_serverVars
             PROVE  HandlersLocked'
  OBVIOUS
<1>0. /\ pc \in [Actors -> {"idle", "init", "file", "enter", "handler", "feedback",
                            "store", "call", "register"}]
      /\ GoalThread \in Actors /\ CancelThread \in Actors /\ GoalThread # CancelThread
      /\ Nobody \notin Actors /\ Workers \cap Callbacks = {}
      /\ pc[CancelThread] # "feedback"
  BY ServerAssumption DEF ServerInv, ServerTypeOK, Working, Actors, Callbacks
<1> USE DEF HandlersLocked, GoalInHandler, CancelInHandler, lifeVars, lockVars
<1>2. ASSUME NEW w \in Workers, WorkerStep(w) PROVE HandlersLocked'
  BY <1>0, <1>2, WorkerMoves
<1>3. CASE Message
  BY <1>0, <1>3 DEF Message, OnGoal, OnGoalUnparsable, OnCancel, Receives, Goto
<1>4. ASSUME NEW a \in Callbacks, HandlerStep(a) \/ CallReturns(a) PROVE HandlersLocked'
  BY <1>0, <1>4, HandlerMoves DEF Callbacks
<1>6. CASE FileGoal \/ NoGoalHandler \/ GoalHandlerReturns \/ FirstFeedback
  BY <1>0, <1>6 DEF FileGoal, NoGoalHandler, GoalHandlerReturns, GoalAccepted,
                    GoalRejected, FirstFeedback, Goto
<1>7. CASE EnterGoalHandler \/ EnterCancelHandler
  BY <1>0, <1>7 DEF EnterGoalHandler, EnterCancelHandler, Goto
<1>8. CASE NoCancelHandler \/ CancelReturns
  BY <1>0, <1>8 DEF NoCancelHandler, CancelReturns, CancelEnds, Goto
<1>9. CASE UNCHANGED serverVars
  BY <1>9 DEF serverVars
<1> QED
  BY <1>2, <1>3, <1>4, <1>6, <1>7, <1>8, <1>9 DEF ServerNext, CallbackStep

LEMMA LockInvariant == ServerSafety => [](ServerInv /\ HandlersLocked)
<1>1. ServerInit => HandlersLocked
  BY ServerAssumption
     DEF ServerInit, HandlersLocked, GoalInHandler, CancelInHandler, Actors, Callbacks
<1> QED
  BY <1>1, ServerInvariant, LockStep, PTL DEF ServerSafety

LEMMA KnownDeadlocks == ServerInv /\ HandlersLocked => NoOtherDeadlock
<1> SUFFICES ASSUME ServerInv, HandlersLocked, NEW a \in Actors, Blocked(a),
                    ~ Crossed, ~ SelfLocked
             PROVE  \E b \in {goalsMutex, handlersMutex} \cap Actors :
                        pc[b] # "idle" /\ ~ Blocked(b)
  BY DEF NoOtherDeadlock
<1> USE DEF HandlersLocked, GoalInHandler, CancelInHandler
<1>1. /\ GoalThread \in Actors /\ CancelThread \in Actors /\ GoalThread # CancelThread
      /\ Nobody \notin Actors
      /\ goalsMutex = IF pc[CancelThread] = "idle" THEN Nobody ELSE CancelThread
      /\ pc \in [Actors -> {"idle", "init", "file", "enter", "handler", "feedback",
                            "store", "call", "register"}]
      /\ pc[CancelThread] \notin {"init", "file", "feedback"}
  BY ServerAssumption DEF ServerInv, ServerTypeOK, Working, Actors, Callbacks
\* No handler waits for what its callback holds.
<1>2. /\ pc[CancelThread] \notin {"call", "store", "register"}
      /\ pc[GoalThread] # "register"
  BY <1>1 DEF SelfLocked, Callbacks
<1>3. CASE pc[CancelThread] = "enter" /\ handlersMutex # Nobody
  <2>1. handlersMutex = GoalThread /\ pc[GoalThread] = "handler"
    BY <1>1, <1>2, <1>3 DEF Crossed
  <2> QED
    BY <1>1, <2>1 DEF Blocked
<1>4. CASE pc[CancelThread] = "enter" /\ handlersMutex = Nobody
  BY <1>1, <1>4 DEF Blocked
<1>5. CASE pc[CancelThread] = "handler"
  BY <1>1, <1>5 DEF Blocked
<1>6. CASE pc[CancelThread] = "idle"
  <2>1. goalsMutex = Nobody /\ handlersMutex = GoalThread /\ GoalInHandler
    BY <1>1, <1>6 DEF Blocked
  <2> QED
    BY <1>1, <1>2, <2>1 DEF Blocked
<1> QED
  BY <1>1, <1>2, <1>3, <1>4, <1>5, <1>6

\* Two kinds of deadlock are the only ones: the crossed locks of on_goal and
\* on_cancel, and a handler that calls for a mutex its own callback holds.
\* Otherwise, whenever a thread waits, a holder of a mutex is at work, whatever
\* calls into the server the handlers make.
THEOREM DeadlocksAreKnown == ServerSafety => []NoOtherDeadlock
BY KnownDeadlocks, LockInvariant, PTL

LEMMA DeadlockStep ==
    ServerInv /\ HandlersLocked /\ [ServerNext]_serverVars =>
        (Crossed => Crossed') /\ (SelfLocked => SelfLocked')
<1> SUFFICES ASSUME ServerInv, HandlersLocked, [ServerNext]_serverVars
             PROVE  (Crossed => Crossed') /\ (SelfLocked => SelfLocked')
  OBVIOUS
<1>1. /\ GoalThread \in Actors /\ CancelThread \in Actors /\ GoalThread # CancelThread
      /\ Nobody \notin Actors /\ Workers \cap Callbacks = {} /\ Workers \subseteq Actors
      /\ pc \in [Actors -> {"idle", "init", "file", "enter", "handler", "feedback",
                            "store", "call", "register"}]
      /\ goalsMutex = IF pc[CancelThread] = "idle" THEN Nobody ELSE CancelThread
      /\ pc[CancelThread] \notin {"init", "file", "feedback"}
  BY ServerAssumption DEF ServerInv, ServerTypeOK, Working, Actors, Callbacks
<1> USE DEF Crossed, SelfLocked, Callbacks, lifeVars, lockVars
<1>2. ASSUME NEW w \in Workers, WorkerStep(w)
      PROVE  (Crossed => Crossed') /\ (SelfLocked => SelfLocked')
  BY <1>1, <1>2, WorkerMoves
<1>3. CASE Message
  BY <1>1, <1>3 DEF Message, OnGoal, OnGoalUnparsable, OnCancel, Receives, Goto
<1>4. ASSUME NEW a \in Callbacks, HandlerStep(a) \/ CallReturns(a)
      PROVE  (Crossed => Crossed') /\ (SelfLocked => SelfLocked')
  <2>1. UNCHANGED lockVars
    BY <1>4, HandlerMoves
  <2>2. CASE UNCHANGED pc
    BY <2>1, <2>2
  <2>3. CASE pc' # pc
    <3>1. PICK l \in {"handler", "call", "store", "register"} : pc' = [pc EXCEPT ![a] = l]
      BY <1>4, <2>3, HandlerMoves
    <3>2. pc[a] \in {"call", "store"} => goalsMutex = Nobody
      BY <1>4, <2>3, HandlerMoves
    <3>3. pc[a] \in {"handler", "call", "store"}
      BY <1>4, <2>3, HandlerMoves
    <3>4. Crossed => Crossed'
      BY <1>1, <2>1, <3>1, <3>2, <3>3
    <3>5. SelfLocked => SelfLocked'
      BY <1>1, <2>1, <3>1, <3>2, <3>3 DEF HandlersLocked, GoalInHandler, CancelInHandler
    <3> QED
      BY <3>4, <3>5
  <2> QED
    BY <2>2, <2>3
<1>6. CASE FileGoal \/ NoGoalHandler \/ FirstFeedback \/ EnterGoalHandler
           \/ EnterCancelHandler \/ NoCancelHandler
  <2>1. Crossed => Crossed'
    BY <1>1, <1>6 DEF FileGoal, NoGoalHandler, FirstFeedback, EnterGoalHandler,
       EnterCancelHandler, NoCancelHandler, CancelEnds, Goto
  <2>2. SelfLocked => SelfLocked'
    BY <1>1, <1>6 DEF FileGoal, NoGoalHandler, FirstFeedback, EnterGoalHandler,
       EnterCancelHandler, NoCancelHandler, CancelEnds, Goto
  <2> QED
    BY <2>1, <2>2
<1>7. CASE GoalHandlerReturns \/ CancelReturns
  <2>1. Crossed => FALSE
    BY <1>1, <1>7 DEF GoalHandlerReturns, GoalAccepted, GoalRejected, CancelReturns,
       CancelEnds, Goto
  <2>2. CASE GoalHandlerReturns
    <3>1. pc[GoalThread] = "handler" /\ pc[CancelThread] \in {"idle", "enter"}
      BY <1>1, <2>2 DEF GoalHandlerReturns, GoalAccepted, GoalRejected, Goto,
         HandlersLocked, GoalInHandler, CancelInHandler
    <3> QED
      BY <1>1, <2>1, <3>1
  <2>3. CASE CancelReturns
    <3>1. pc[CancelThread] = "handler" /\ handlersMutex = CancelThread
      BY <1>1, <2>3 DEF CancelReturns, CancelEnds, Goto, HandlersLocked, GoalInHandler,
         CancelInHandler
    <3> QED
      BY <1>1, <2>1, <3>1
  <2> QED
    BY <1>7, <2>2, <2>3
<1>8. CASE UNCHANGED serverVars
  BY <1>8 DEF serverVars
<1> QED
  BY <1>2, <1>3, <1>4, <1>6, <1>7, <1>8 DEF ServerNext, CallbackStep

\* Once in one of them the callbacks stay there: no call of the application and
\* no message gets them out.
THEOREM DeadlocksLast == ServerSafety => DeadlockIsForever
<1>1. ServerInv /\ HandlersLocked /\ [ServerNext]_serverVars =>
          [(Crossed => Crossed') /\ (SelfLocked => SelfLocked')]_serverVars
  BY DeadlockStep
<1> QED
  BY <1>1, LockInvariant, PTL DEF ServerSafety, DeadlockIsForever

=============================================================================
