-------------------------- MODULE ActionClientProofs --------------------------
(***************************************************************************)
(* Proofs about ActionClient, for any number of threads, clients, actions  *)
(* and goals, and any statuses on the wire.                                *)
(***************************************************************************)
EXTENDS ActionClient, TLAPS

-----------------------------------------------------------------------------
(* Types *)

\* A thread at work has a goal id; the handle it works on is filed; a wait, and
\* the callback between its two stores, hold the mutex.
Working ==
    /\ \A t \in Threads : pc[t] # "idle" => goalId[t] \in GoalIds
    /\ \A t \in Threads :
           pc[t] \in {"publish", "mark", "poll"} => Filed(ClientOf[t], goalId[t])
    /\ \A t \in Threads : pc[t] = "poll" => mutex[ClientOf[t]] = t
    /\ \A c \in Clients : storing[c] # NoResult =>
           /\ mutex[c] = Callback
           /\ Filed(c, storing[c].id)
           /\ handles[c][storing[c].id].result = storing[c]

TypeInv == ClientTypeOK /\ Working

LEMMA StatusType ==
    /\ \A status : FromWire(status) \in Statuses
    /\ {"ABORTED", "EXECUTING", "READY"} \subseteq Statuses
BY DEF FromWire, Statuses

LEMMA FreshHandleType == FreshHandle \in Handles
BY DEF FreshHandle, Handles, Statuses

\* A handle stays one when a field is set, and the other fields do not change.
LEMMA SetField ==
    ASSUME NEW h \in Handles
    PROVE  /\ \A status \in Statuses :
                  /\ [h EXCEPT !.status = status] \in Handles
                  /\ [h EXCEPT !.status = status].status = status
                  /\ [h EXCEPT !.status = status].result = h.result
           /\ [h EXCEPT !.cancelled = TRUE] \in Handles
           /\ [h EXCEPT !.cancelled = TRUE].status = h.status
           /\ [h EXCEPT !.cancelled = TRUE].result = h.result
           /\ \A r \in Results :
                  /\ [h EXCEPT !.result = r] \in Handles
                  /\ [h EXCEPT !.result = r].result = r
                  /\ [h EXCEPT !.result = r].status = h.status
BY DEF Handles

HandlesTyped == handles \in [Clients -> [GoalIds -> Handles \cup {NoHandle}]]

LEMMA FiledType ==
    ASSUME HandlesTyped, NEW c \in Clients, NEW g \in GoalIds, Filed(c, g)
    PROVE  handles[c][g] \in Handles
BY DEF HandlesTyped, Filed

\* What an update of a filed handle leaves alone.
LEMMA UpdateType ==
    ASSUME HandlesTyped, NEW c \in Clients, NEW g \in GoalIds, NEW h \in Handles,
           Update(c, g, h)
    PROVE  /\ HandlesTyped'
           /\ handles'[c][g] = h /\ handles'[c][g] # NoHandle
           /\ \A d \in Clients, k \in GoalIds :
                  d # c \/ k # g => handles'[d][k] = handles[d][k]
           /\ \A d \in Clients, k \in GoalIds : Filed(d, k) => Filed(d, k)'
BY NoHandleAssumption DEF HandlesTyped, Update, Filed

\* The same of an update of a handle that was filed: only one field changes.
LEMMA SetStatusType ==
    ASSUME HandlesTyped, NEW c \in Clients, NEW g \in GoalIds, NEW status \in Statuses,
           Filed(c, g), SetStatus(c, g, status)
    PROVE  /\ HandlesTyped'
           /\ handles'[c][g].status = status
           /\ \A d \in Clients, k \in GoalIds :
                  d # c \/ k # g => handles'[d][k] = handles[d][k]
           /\ \A d \in Clients, k \in GoalIds :
                  Filed(d, k) => Filed(d, k)' /\ handles'[d][k].result = handles[d][k].result
<1> DEFINE h == [handles[c][g] EXCEPT !.status = status]
<1>1. h \in Handles /\ h.status = status /\ h.result = handles[c][g].result
  BY FiledType, SetField
<1>2. Update(c, g, h)
  BY DEF SetStatus
<1> HIDE DEF h
<1> QED
  BY <1>1, <1>2, UpdateType

LEMMA TypeStep == TypeInv /\ [ClientNext]_actionVars => TypeInv'
<1> SUFFICES ASSUME TypeInv, [ClientNext]_actionVars PROVE TypeInv'
  OBVIOUS
<1> USE ActionAssumption, MutexAssumption, NoResultAssumption
<1> USE DEF TypeInv, ClientTypeOK, Working, goalVars, threadVars, feedbackVars,
            topicVars, clientVars
<1>0. HandlesTyped /\ \A t \in Threads : ClientOf[t] \in Clients
  BY DEF HandlesTyped
<1>1. ASSUME NEW t \in Threads, Connect(t) PROVE TypeInv'
  BY <1>1 DEF Connect, Filed
<1>2. ASSUME NEW t \in Threads, TakeGoalId(t) PROVE TypeInv'
  BY <1>2 DEF TakeGoalId, Goto, Filed, GoalIds
<1>3. ASSUME NEW t \in Threads, FileGoal(t) PROVE TypeInv'
  <2>1. Update(ClientOf[t], goalId[t], FreshHandle) /\ goalId[t] \in GoalIds
    BY <1>3 DEF FileGoal, Goto
  <2>2. /\ HandlesTyped'
        /\ \A d \in Clients, k \in GoalIds : Filed(d, k) => Filed(d, k)'
        /\ handles'[ClientOf[t]][goalId[t]] # NoHandle
        /\ \A d \in Clients, k \in GoalIds :
               d # ClientOf[t] \/ k # goalId[t] => handles'[d][k] = handles[d][k]
    <3> HIDE DEF TypeInv, ClientTypeOK, Working
    <3> QED
      BY <1>0, <2>1, FreshHandleType, UpdateType
  <2>3. ClientTypeOK'
    BY <1>3, <2>2 DEF HandlesTyped, FileGoal, Goto, Locks
  <2>4. \A c \in Clients : storing[c] # NoResult => c # ClientOf[t] /\ storing[c].id \in GoalIds
    BY <1>3 DEF FileGoal, Locks, Results
  <2> QED
    BY <1>3, <2>1, <2>2, <2>3, <2>4 DEF FileGoal, Goto, Locks, Filed
<1>4. ASSUME NEW t \in Threads, NEW status \in {"ABORTED", "EXECUTING"},
             pc[t] # "idle", Filed(ClientOf[t], goalId[t]), SendGoalSets(t, status),
             pc' = [pc EXCEPT ![t] = "idle"],
             UNCHANGED <<nextGoalId, mutex, storing, listening, goalId, got,
                         feedbackVars, topicVars>>
      PROVE  TypeInv'
  <2>1. /\ goalId[t] \in GoalIds /\ status \in Statuses
        /\ SetStatus(ClientOf[t], goalId[t], status)
    BY <1>4, StatusType DEF SendGoalSets
  <2>2. overtaken' \subseteq Goals
    BY <1>4, <2>1 DEF SendGoalSets, Goals
  <2>3. /\ HandlesTyped'
        /\ \A d \in Clients, k \in GoalIds : Filed(d, k) =>
               Filed(d, k)' /\ handles'[d][k].result = handles[d][k].result
    BY <1>0, <1>4, <2>1, SetStatusType
  <2>4. ClientTypeOK'
    BY <1>4, <2>2, <2>3 DEF HandlesTyped
  <2>5. \A c \in Clients : storing[c] # NoResult => storing[c].id \in GoalIds
    BY DEF Results
  <2>6. \A u \in Threads : pc'[u] # "idle" => pc[u] = pc'[u]
    BY <1>4
  <2>7. ASSUME NEW d \in Clients, storing'[d] # NoResult
        PROVE  /\ mutex'[d] = Callback /\ handles'[d][storing'[d].id] # NoHandle
               /\ handles'[d][storing'[d].id].result = storing'[d]
    <3>1. storing'[d] = storing[d] /\ mutex'[d] = mutex[d]
      BY <1>4
    <3>2. /\ mutex[d] = Callback /\ Filed(d, storing[d].id)
          /\ handles[d][storing[d].id].result = storing[d]
      BY <2>7, <3>1
    <3>3. storing[d].id \in GoalIds
      BY <2>5, <2>7, <3>1
    <3> QED
      BY <2>3, <3>1, <3>2, <3>3 DEF Filed
  <2>8. \A u \in Threads : pc'[u] # "idle" =>
            /\ goalId'[u] \in GoalIds
            /\ pc'[u] \in {"publish", "mark", "poll"} => Filed(ClientOf[u], goalId[u])'
            /\ pc'[u] = "poll" => mutex'[ClientOf[u]] = u
    BY <1>0, <1>4, <2>3, <2>6
  <2>9. goalId' = goalId
    BY <1>4
  <2>10. Working'
    BY <2>7, <2>8, <2>9 DEF Filed
  <2> QED
    BY <2>4, <2>10
<1>5. ASSUME NEW t \in Threads, PublishGoal(t) PROVE TypeInv'
  BY <1>5 DEF PublishGoal, Goto, Filed, Goals
<1>6. ASSUME NEW t \in Threads, NEW g \in GoalIds, PublishCancel(t, g) PROVE TypeInv'
  BY <1>6 DEF PublishCancel, Goto, Filed, Cancels, GoalIds
<1>7. ASSUME NEW t \in Threads, NoteCancel(t) PROVE TypeInv'
  <2> DEFINE c == ClientOf[t]
             g == goalId[t]
  <2>1. g \in GoalIds
    BY <1>7 DEF NoteCancel, Goto
  <2>2. CASE Filed(c, g)
    <3>1. Update(c, g, [handles[c][g] EXCEPT !.cancelled = TRUE])
      BY <1>7, <2>2 DEF NoteCancel, Filed
    <3>2. [handles[c][g] EXCEPT !.cancelled = TRUE] \in Handles
      BY <2>1, <2>2, <1>0, FiledType, SetField
    <3>3. /\ HandlesTyped'
          /\ \A d \in Clients, k \in GoalIds : Filed(d, k) => Filed(d, k)'
          /\ \A d \in Clients, k \in GoalIds :
                 d # c \/ k # g => handles'[d][k] = handles[d][k]
      BY <1>0, <2>1, <3>1, <3>2, UpdateType
    <3>4. ClientTypeOK'
      BY <1>7, <3>3 DEF HandlesTyped, NoteCancel, Goto, Locks
    <3>5. \A d \in Clients : storing[d] # NoResult => d # c /\ storing[d].id \in GoalIds
      BY <1>7 DEF NoteCancel, Locks, Results
    <3> QED
      BY <1>7, <2>1, <3>3, <3>4, <3>5 DEF NoteCancel, Goto, Locks
  <2>3. CASE ~ Filed(c, g)
    BY <1>7, <2>3 DEF NoteCancel, Goto, Locks, Filed
  <2> QED
    BY <2>2, <2>3
<1>8. ASSUME NEW t \in Threads, NEW g \in GoalIds, PollBegins(t, g) PROVE TypeInv'
  BY <1>8 DEF PollBegins, Goto, Filed, GoalIds
<1>9. ASSUME NEW t \in Threads, PollFinds(t) \/ PollTimesOut(t) PROVE TypeInv'
  <2>1. PICK result \in Results \cup {NoResult} : PollEnds(t, result)
    <3>1. CASE PollFinds(t)
      <4>1. handles[ClientOf[t]][goalId[t]] \in Handles
        BY <3>1, <1>0, FiledType DEF PollFinds
      <4> QED
        BY <3>1, <4>1 DEF PollFinds, Handles
    <3> QED
      BY <1>9, <3>1 DEF PollTimesOut
  <2> QED
    BY <2>1 DEF PollEnds, Goto, Filed
<1>10. ASSUME NEW t \in Threads, NEW g \in GoalIds, PollUnknown(t, g) PROVE TypeInv'
  BY <1>10 DEF PollUnknown, Locks, Filed
<1>11. ASSUME NEW c \in Clients, NEW r \in results, StoreResult(c, r) PROVE TypeInv'
  <2> DEFINE h == [handles[c][r.id] EXCEPT !.result = r]
  <2>1. r \in Results /\ r.id \in GoalIds /\ Filed(c, r.id)
    BY <1>11 DEF StoreResult, ResultArrives, Results
  <2>2. h \in Handles /\ h.result = r
    <3>1. handles[c][r.id] \in Handles
      BY <1>0, <2>1, FiledType
    <3> HIDE DEF TypeInv, ClientTypeOK, Working
    <3> QED
      BY <2>1, <3>1, SetField
  <2>3. Update(c, r.id, h)
    BY <1>11 DEF StoreResult
  <2> HIDE DEF h
  <2>4. /\ HandlesTyped'
        /\ handles'[c][r.id] = h
        /\ \A d \in Clients, k \in GoalIds :
               d # c \/ k # r.id => handles'[d][k] = handles[d][k]
        /\ \A d \in Clients, k \in GoalIds : Filed(d, k) => Filed(d, k)'
    BY <1>0, <2>1, <2>2, <2>3, UpdateType
  <2>5. mutex[c] = Nobody /\ mutex' = [mutex EXCEPT ![c] = Callback]
        /\ storing' = [storing EXCEPT ![c] = r]
    BY <1>11 DEF StoreResult, ResultArrives
  <2>6. UNCHANGED <<nextGoalId, listening, overtaken, threadVars, feedbackVars, topicVars>>
    BY <1>11 DEF StoreResult
  <2>7. ClientTypeOK'
    BY <2>1, <2>4, <2>5, <2>6 DEF HandlesTyped
  <2>8. \A t \in Threads : pc[t] = "poll" => ClientOf[t] # c
    BY <2>5
  <2>9. \A d \in Clients : d # c /\ storing[d] # NoResult => storing[d].id \in GoalIds
    BY DEF Results
  <2>10. Working'
    BY <1>0, <2>1, <2>2, <2>4, <2>5, <2>6, <2>8, <2>9
  <2> QED
    BY <2>7, <2>10
<1>12. ASSUME NEW c \in Clients, StoreStatus(c) PROVE TypeInv'
  <2>1. /\ storing[c] \in Results /\ storing[c].id \in GoalIds
        /\ Filed(c, storing[c].id)
        /\ FromWire(storing[c].status) \in Statuses
        /\ SetStatus(c, storing[c].id, FromWire(storing[c].status))
    BY <1>12, StatusType DEF StoreStatus, Results
  <2>2. /\ HandlesTyped'
        /\ \A d \in Clients, k \in GoalIds : Filed(d, k) =>
               Filed(d, k)' /\ handles'[d][k].result = handles[d][k].result
    BY <1>0, <2>1, SetStatusType
  <2>3. /\ mutex[c] = Callback /\ mutex' = [mutex EXCEPT ![c] = Nobody]
        /\ storing' = [storing EXCEPT ![c] = NoResult]
    BY <1>12 DEF StoreStatus
  <2>4. ClientTypeOK'
    BY <1>12, <2>2, <2>3 DEF HandlesTyped, StoreStatus
  <2>5. \A t \in Threads : pc[t] = "poll" => ClientOf[t] # c
    BY <2>3
  <2>6. \A d \in Clients : storing[d] # NoResult => storing[d].id \in GoalIds
    BY DEF Results
  <2>7. UNCHANGED <<pc, goalId>>
    BY <1>12 DEF StoreStatus
  <2>8. ASSUME NEW d \in Clients, storing'[d] # NoResult
        PROVE  /\ mutex'[d] = Callback /\ handles'[d][storing'[d].id] # NoHandle
               /\ handles'[d][storing'[d].id].result = storing'[d]
    <3>1. storing'[d] = storing[d] /\ mutex'[d] = mutex[d]
      BY <2>3, <2>8
    <3>2. /\ mutex[d] = Callback /\ Filed(d, storing[d].id)
          /\ handles[d][storing[d].id].result = storing[d]
      BY <2>8, <3>1
    <3>3. storing[d].id \in GoalIds
      BY <2>6, <2>8, <3>1
    <3> QED
      BY <2>2, <3>1, <3>2, <3>3 DEF Filed
  <2>9. \A t \in Threads :
            /\ pc'[t] # "idle" => goalId'[t] \in GoalIds
            /\ pc'[t] \in {"publish", "mark", "poll"} => Filed(ClientOf[t], goalId[t])'
            /\ pc'[t] = "poll" => mutex'[ClientOf[t]] = t
    BY <1>0, <2>2, <2>3, <2>5, <2>7
  <2> QED
    BY <2>4, <2>7, <2>8, <2>9 DEF Filed
<1>13. ASSUME NEW t \in Threads, SubscribeFeedback(t) \/ UnsubscribeFeedback(t)
       PROVE  TypeInv'
  BY <1>13 DEF SubscribeFeedback, UnsubscribeFeedback, Filed
<1>14. ASSUME NEW c \in Clients, OnFeedback(c) PROVE TypeInv'
  BY <1>14 DEF OnFeedback, Filed
<1>15. ASSUME NEW c \in Clients, FeedbackReturns(c) PROVE TypeInv'
  BY <1>15 DEF FeedbackReturns, Filed
<1>17. ASSUME NEW x \in goals, NEW status \in Wire, Answer(x, status) PROVE TypeInv'
  BY <1>17 DEF Answer, Filed, Results, Goals
<1>18. CASE UNCHANGED actionVars
  BY <1>18 DEF actionVars, Filed
<1> QED
  BY <1>1, <1>2, <1>3, <1>4, <1>5, <1>6, <1>7, <1>8, <1>9, <1>10, <1>11, <1>12,
     <1>13, <1>14, <1>15, <1>17, <1>18
     DEF ClientNext, ClientStep, ClientCall, ClientCallback, Server, SendFails,
         MarkExecuting, Goto

LEMMA TypeInit == ClientInit => TypeInv
<1> SUFFICES ASSUME ClientInit PROVE TypeInv
  OBVIOUS
<1>1. ClientTypeOK
  BY ActionAssumption DEF ClientInit, ClientTypeOK, GoalIds
<1>2. Working
  BY DEF ClientInit, Working
<1> QED
  BY <1>1, <1>2 DEF TypeInv

LEMMA TypeInvariant == ClientSafety => []TypeInv
BY TypeInit, TypeStep, PTL DEF ClientSafety

\* Every variable of the client keeps its type.
THEOREM ClientTypeCorrect == ClientSafety => []ClientTypeOK
BY TypeInvariant, PTL DEF TypeInv

-----------------------------------------------------------------------------
(* Feedback *)

\* Once unsubscribe_feedback has returned the handler does not run.
THEOREM FeedbackStops == ClientSafety => []NoFeedbackAfterUnsubscribe
<1>1. ClientInit => NoFeedbackAfterUnsubscribe
  BY DEF ClientInit, NoFeedbackAfterUnsubscribe
<1>2. NoFeedbackAfterUnsubscribe /\ [ClientNext]_actionVars => NoFeedbackAfterUnsubscribe'
  BY DEF NoFeedbackAfterUnsubscribe, ClientNext, ClientStep, ClientCall, ClientCallback,
         Server, Connect, TakeGoalId, FileGoal, SendFails, PublishGoal, MarkExecuting,
         PublishCancel, NoteCancel, PollBegins, PollEnds, PollFinds, PollTimesOut,
         PollUnknown, StoreResult, StoreStatus, SubscribeFeedback, UnsubscribeFeedback,
         OnFeedback, FeedbackReturns, Answer, goalVars, threadVars,
         feedbackVars, topicVars, clientVars, actionVars
<1> QED
  BY <1>1, <1>2, PTL DEF ClientSafety

-----------------------------------------------------------------------------
(* Goal ids *)

GoalOf(t) == [client |-> ClientOf[t], id |-> goalId[t]]

Sending == {"file", "publish"}

\* A goal that is being sent has an id of its own; a published goal has a
\* handle; a result answers a published goal.
Draws ==
    /\ \A t \in Threads : pc[t] \in Sending =>
           goalId[t] < nextGoalId[ClientOf[t]] /\ GoalOf(t) \notin goals
    /\ \A t \in Threads : pc[t] = "mark" => GoalOf(t) \in goals
    /\ \A t, u \in Threads :
           /\ pc[t] \in Sending /\ pc[u] \in Sending
           /\ ClientOf[t] = ClientOf[u] /\ goalId[t] = goalId[u]
           => t = u
    /\ \A x \in goals : x.id < nextGoalId[x.client] /\ Filed(x.client, x.id)
    /\ \A r \in results :
           r.goal \in goals /\ r.id = r.goal.id /\ r.action = ActionOf[r.goal.client]

\* A step leaves the table alone, files a fresh handle, or writes a filed one.
LEMMA OneWrite ==
    ASSUME TypeInv, [ClientNext]_actionVars
    PROVE  \/ UNCHANGED handles
           \/ \E t \in Threads : FileGoal(t) /\ goalId[t] \in GoalIds
                                 /\ Update(ClientOf[t], goalId[t], FreshHandle)
           \/ \E c \in Clients, g \in GoalIds, h \in Handles :
                  Filed(c, g) /\ Update(c, g, h)
<1> USE ActionAssumption
<1>0. /\ HandlesTyped /\ Working
      /\ \A t \in Threads : ClientOf[t] \in Clients
      /\ \A t \in Threads : pc[t] # "idle" => goalId[t] \in GoalIds
  BY DEF TypeInv, ClientTypeOK, HandlesTyped, Working
<1>1. ASSUME NEW t \in Threads, FileGoal(t)
      PROVE  Update(ClientOf[t], goalId[t], FreshHandle) /\ goalId[t] \in GoalIds
  BY <1>0, <1>1 DEF FileGoal, Goto
<1>2. ASSUME NEW t \in Threads, NEW status \in Statuses, pc[t] \in {"publish", "mark"},
             SendGoalSets(t, status)
      PROVE  \E g \in GoalIds, h \in Handles :
                 Filed(ClientOf[t], g) /\ Update(ClientOf[t], g, h)
  <2>1. /\ Filed(ClientOf[t], goalId[t]) /\ goalId[t] \in GoalIds
        /\ Update(ClientOf[t], goalId[t],
                  [handles[ClientOf[t]][goalId[t]] EXCEPT !.status = status])
    BY <1>0, <1>2 DEF SendGoalSets, SetStatus, Working
  <2> QED
    BY <1>0, <2>1, FiledType, SetField
<1>3. ASSUME NEW t \in Threads, NoteCancel(t), ~ UNCHANGED handles
      PROVE  \E g \in GoalIds, h \in Handles :
                 Filed(ClientOf[t], g) /\ Update(ClientOf[t], g, h)
  <2>1. /\ Filed(ClientOf[t], goalId[t]) /\ goalId[t] \in GoalIds
        /\ Update(ClientOf[t], goalId[t],
                  [handles[ClientOf[t]][goalId[t]] EXCEPT !.cancelled = TRUE])
    BY <1>0, <1>3 DEF NoteCancel, Goto, Filed
  <2> QED
    BY <1>0, <2>1, FiledType, SetField
<1>4. ASSUME NEW c \in Clients, NEW r \in results, StoreResult(c, r)
      PROVE  \E g \in GoalIds, h \in Handles : Filed(c, g) /\ Update(c, g, h)
  <2>1. r \in Results /\ r.id \in GoalIds
    BY DEF TypeInv, ClientTypeOK, Results
  <2>2. Filed(c, r.id) /\ Update(c, r.id, [handles[c][r.id] EXCEPT !.result = r])
    BY <1>4 DEF StoreResult, ResultArrives
  <2> QED
    BY <1>0, <2>1, <2>2, FiledType, SetField
<1>5. ASSUME NEW c \in Clients, StoreStatus(c)
      PROVE  \E g \in GoalIds, h \in Handles : Filed(c, g) /\ Update(c, g, h)
  <2>1. storing[c] \in Results /\ storing[c].id \in GoalIds
    BY <1>5 DEF StoreStatus, TypeInv, ClientTypeOK, Results
  <2>2. /\ Filed(c, storing[c].id)
        /\ Update(c, storing[c].id,
                  [handles[c][storing[c].id] EXCEPT !.status = FromWire(storing[c].status)])
    BY <1>0, <1>5 DEF StoreStatus, SetStatus, Working
  <2> QED
    BY <1>0, <2>1, <2>2, FiledType, SetField, StatusType
<1>6. ASSUME NEW t \in Threads,
             SendFails(t) \/ MarkExecuting(t)
      PROVE  \E g \in GoalIds, h \in Handles :
                 Filed(ClientOf[t], g) /\ Update(ClientOf[t], g, h)
  BY <1>2, <1>6, StatusType DEF SendFails, MarkExecuting, Goto
<1>7. ASSUME NEW t \in Threads,
             \/ PublishGoal(t) \/ PollFinds(t) \/ PollTimesOut(t) \/ ClientCall(t)
      PROVE  UNCHANGED handles
  BY <1>7 DEF PublishGoal, PollFinds, PollTimesOut, PollEnds, ClientCall, Connect,
              TakeGoalId, SubscribeFeedback, UnsubscribeFeedback, PublishCancel,
              PollBegins, PollUnknown, goalVars
<1>8. ASSUME NEW c \in Clients, FeedbackReturns(c) \/ OnFeedback(c)
      PROVE  UNCHANGED handles
  BY <1>8 DEF FeedbackReturns, OnFeedback, goalVars
<1>9. ASSUME Server \/ UNCHANGED actionVars PROVE UNCHANGED handles
  BY <1>9 DEF Server, Answer, actionVars, clientVars, goalVars
<1> QED
  BY <1>0, <1>1, <1>3, <1>4, <1>5, <1>6, <1>7, <1>8, <1>9
     DEF ClientNext, ClientStep, ClientCallback

\* No step takes a handle out of the table.
LEMMA FiledStays ==
    ASSUME TypeInv, [ClientNext]_actionVars, NEW c \in Clients, NEW g \in GoalIds,
           Filed(c, g)
    PROVE  handles'[c][g] # NoHandle
<1>1. HandlesTyped
  BY DEF TypeInv, ClientTypeOK, HandlesTyped
<1>2. CASE UNCHANGED handles
  BY <1>2 DEF Filed
<1>3. ASSUME NEW d \in Clients, NEW k \in GoalIds, NEW h \in Handles, Update(d, k, h)
      PROVE  handles'[c][g] # NoHandle
  BY <1>1, <1>3, UpdateType DEF Filed
<1> QED
  BY <1>2, <1>3, OneWrite, FreshHandleType, ActionAssumption

\* Only send_goal puts a handle into it.
LEMMA NoOtherFiles ==
    ASSUME TypeInv, [ClientNext]_actionVars, \A t \in Threads : ~ FileGoal(t),
           NEW c \in Clients, NEW g \in GoalIds, handles'[c][g] # NoHandle
    PROVE  Filed(c, g)
<1>1. HandlesTyped
  BY DEF TypeInv, ClientTypeOK, HandlesTyped
<1>2. CASE UNCHANGED handles
  BY <1>2 DEF Filed
<1>3. ASSUME NEW d \in Clients, NEW k \in GoalIds, NEW h \in Handles, Filed(d, k),
             Update(d, k, h)
      PROVE  Filed(c, g)
  BY <1>1, <1>3, UpdateType DEF Filed
<1> QED
  BY <1>2, <1>3, OneWrite

LEMMA DrawsStep == TypeInv /\ Draws /\ [ClientNext]_actionVars => Draws'
<1> SUFFICES ASSUME TypeInv, Draws, [ClientNext]_actionVars PROVE Draws'
  OBVIOUS
<1> USE ActionAssumption
<1> USE DEF Sending, GoalOf, goalVars, threadVars, feedbackVars, topicVars, clientVars
<1>0. /\ nextGoalId \in [Clients -> 1 .. MaxGoals + 1] /\ MaxGoals \in Nat
      /\ pc \in [Threads -> {"idle", "file", "publish", "mark", "cancel", "poll"}]
      /\ goalId \in [Threads -> 0 .. MaxGoals]
      /\ goals \subseteq Goals /\ results \subseteq Results
      /\ \A t \in Threads : ClientOf[t] \in Clients
      /\ \A t \in Threads : pc[t] # "idle" => goalId[t] \in GoalIds
  BY DEF TypeInv, ClientTypeOK, Working
<1>1. \A x \in goals : handles'[x.client][x.id] # NoHandle
  <2>1. \A x \in goals : x.client \in Clients /\ x.id \in GoalIds /\ Filed(x.client, x.id)
    BY <1>0 DEF Draws, Goals
  <2> QED
    BY <2>1, FiledStays
<1>2. ASSUME NEW t \in Threads, TakeGoalId(t) PROVE Draws'
  <2> DEFINE c == ClientOf[t]
             g == nextGoalId[c]
  <2>1. /\ pc[t] = "idle" /\ pc' = [pc EXCEPT ![t] = "file"]
        /\ goalId' = [goalId EXCEPT ![t] = g]
        /\ nextGoalId' = [nextGoalId EXCEPT ![c] = g + 1]
        /\ UNCHANGED <<handles, goals, results>>
    BY <1>2 DEF TakeGoalId, Goto
  <2>2. [client |-> c, id |-> g] \notin goals
    <3>1. [client |-> c, id |-> g] \in goals => g < g
      BY DEF Draws
    <3> QED
      BY <1>0, <3>1
  <2>3. \A d \in Clients : nextGoalId'[d] \in Nat /\ nextGoalId[d] <= nextGoalId'[d]
    BY <1>0, <2>1
  <2>4. \A u \in Threads : u # t => pc'[u] = pc[u] /\ goalId'[u] = goalId[u]
    BY <1>0, <2>1
  <2>5. pc'[t] = "file" /\ goalId'[t] = g /\ g < nextGoalId'[c]
    BY <1>0, <2>1
  <2>6. \A u \in Threads : pc'[u] \in Sending =>
           goalId'[u] < nextGoalId'[ClientOf[u]]
           /\ [client |-> ClientOf[u], id |-> goalId'[u]] \notin goals
    BY <1>0, <2>2, <2>3, <2>4, <2>5 DEF Draws
  <2>7. \A u \in Threads : u # t /\ pc[u] \in Sending /\ ClientOf[u] = c => goalId[u] # g
    <3> SUFFICES ASSUME NEW u \in Threads, pc[u] \in Sending, ClientOf[u] = c
                 PROVE  goalId[u] # g
      OBVIOUS
    <3>1. goalId[u] < g
      BY DEF Draws
    <3>2. goalId[u] \in Nat /\ g \in Nat
      BY <1>0
    <3> HIDE DEF g
    <3> QED
      BY <3>1, <3>2
  <2>8. \A x \in goals : x.id < nextGoalId'[x.client]
    BY <1>0, <2>3 DEF Draws, Goals, GoalIds
  <2> HIDE DEF c, g
  <2> QED
    BY <2>1, <2>4, <2>5, <2>6, <2>7, <2>8 DEF Draws, Filed, c
<1>3. ASSUME NEW t \in Threads, PublishGoal(t) PROVE Draws'
  <2>1. /\ pc[t] = "publish" /\ pc' = [pc EXCEPT ![t] = "mark"]
        /\ goals' = goals \cup {GoalOf(t)}
        /\ UNCHANGED <<goalId, nextGoalId, handles, results>>
    BY <1>3 DEF PublishGoal, Goto
  <2>2. Filed(ClientOf[t], goalId[t]) /\ goalId[t] < nextGoalId[ClientOf[t]]
    BY <2>1 DEF Draws, TypeInv, Working
  <2>3. \A u \in Threads : pc'[u] \in Sending => u # t /\ pc'[u] = pc[u]
    BY <1>0, <2>1
  <2>4. \A u \in Threads : pc'[u] \in Sending => GoalOf(u) # GoalOf(t)
    BY <2>1, <2>3 DEF Draws
  <2> QED
    BY <2>1, <2>2, <2>3, <2>4 DEF Draws, Filed
<1>4. ASSUME NEW x \in goals, NEW status \in Wire, Answer(x, status) PROVE Draws'
  BY <1>4 DEF Answer, Draws, Filed
<1>5. ASSUME UNCHANGED <<nextGoalId, goals, results>>,
             \A t \in Threads :
                 /\ pc'[t] \in Sending => pc[t] \in Sending /\ goalId'[t] = goalId[t]
                 /\ pc'[t] = "mark" => pc[t] = "mark" /\ goalId'[t] = goalId[t]
      PROVE  Draws'
  <2>1. /\ \A t \in Threads : pc'[t] \in Sending =>
               goalId'[t] < nextGoalId'[ClientOf[t]] /\ GoalOf(t)' \notin goals'
        /\ \A t \in Threads : pc'[t] = "mark" => GoalOf(t)' \in goals'
    BY <1>5 DEF Draws
  <2>2. \A t, u \in Threads :
            /\ pc'[t] \in Sending /\ pc'[u] \in Sending
            /\ ClientOf[t] = ClientOf[u] /\ goalId'[t] = goalId'[u]
            => t = u
    BY <1>5 DEF Draws
  <2>3. \A x \in goals' : x.id < nextGoalId'[x.client] /\ handles'[x.client][x.id] # NoHandle
    BY <1>1, <1>5 DEF Draws
  <2> QED
    BY <1>5, <2>1, <2>2, <2>3 DEF Draws, Filed
<1>6. ASSUME NEW t \in Threads,
             \/ FileGoal(t) \/ SendFails(t) \/ MarkExecuting(t) \/ NoteCancel(t)
             \/ PollFinds(t) \/ PollTimesOut(t)
             \/ Connect(t) \/ SubscribeFeedback(t) \/ UnsubscribeFeedback(t)
             \/ \E g \in GoalIds : PublishCancel(t, g) \/ PollBegins(t, g)
                                   \/ PollUnknown(t, g)
      PROVE  Draws'
  <2>1. UNCHANGED <<nextGoalId, goals, results>>
    BY <1>6 DEF FileGoal, SendFails, MarkExecuting, NoteCancel, PollFinds, PollTimesOut,
                PollEnds, Connect, SubscribeFeedback, UnsubscribeFeedback, PublishCancel,
                PollBegins, PollUnknown
  <2>2. \A u \in Threads :
            /\ pc'[u] \in Sending => pc[u] \in Sending /\ goalId'[u] = goalId[u]
            /\ pc'[u] = "mark" => pc[u] = "mark" /\ goalId'[u] = goalId[u]
    BY <1>0, <1>6 DEF FileGoal, SendFails, MarkExecuting, NoteCancel, PollFinds,
                PollTimesOut, PollEnds, Connect, SubscribeFeedback, UnsubscribeFeedback,
                PublishCancel, PollBegins, PollUnknown, Goto
  <2> QED
    BY <1>5, <2>1, <2>2
<1>7. ASSUME NEW c \in Clients, ClientCallback(c) PROVE Draws'
  BY <1>5, <1>7 DEF ClientCallback, StoreResult, StoreStatus, OnFeedback, FeedbackReturns
<1>9. CASE UNCHANGED actionVars
  BY <1>5, <1>9 DEF actionVars
<1> QED
  BY <1>2, <1>3, <1>4, <1>6, <1>7, <1>9
     DEF ClientNext, ClientStep, ClientCall, Server

LEMMA DrawsInvariant == ClientSafety => [](TypeInv /\ Draws)
<1>1. ClientInit => Draws
  BY DEF ClientInit, Draws, Sending
<1> QED
  BY <1>1, TypeInvariant, DrawsStep, PTL DEF ClientSafety

-----------------------------------------------------------------------------
(* Handles *)

\* A handle without a result has no terminal status once its goal is published;
\* a result was sent for an id and an action that are the handle's; and the
\* status is that of the result, unless it is being stored or send_goal has set
\* it since.
Sound(c, g) ==
    LET h == handles[c][g] IN
    /\ h.result = NoResult =>
           h.status \in {"READY", "EXECUTING"} \/ [client |-> c, id |-> g] \notin goals
    /\ h.result # NoResult =>
           /\ h.result \in results /\ h.result.id = g /\ h.result.action = ActionOf[c]
           /\ \/ storing[c] # NoResult /\ storing[c].id = g
              \/ [client |-> c, id |-> g] \in overtaken /\ h.status \in {"EXECUTING", "ABORTED"}
              \/ h.status = FromWire(h.result.status)

\* Before a goal is published send_goal has not touched the status.
Untouched(t) ==
    LET h == handles[ClientOf[t]][goalId[t]] IN
    pc[t] = "publish" => h.result # NoResult \/ h.status = "READY"

HandleInv ==
    /\ \A c \in Clients, g \in GoalIds : Filed(c, g) => Sound(c, g)
    /\ \A t \in Threads : Untouched(t)

LEMMA HandleStep == TypeInv /\ Draws /\ HandleInv /\ [ClientNext]_actionVars => HandleInv'
<1> SUFFICES ASSUME TypeInv, Draws, HandleInv, [ClientNext]_actionVars PROVE HandleInv'
  OBVIOUS
<1> USE ActionAssumption, NoResultAssumption
<1> USE DEF goalVars, threadVars, feedbackVars, topicVars, clientVars
<1>0. /\ HandlesTyped /\ Working
      /\ storing \in [Clients -> Results \cup {NoResult}]
      /\ pc \in [Threads -> {"idle", "file", "publish", "mark", "cancel", "poll"}]
      /\ goalId \in [Threads -> 0 .. MaxGoals]
      /\ goals \subseteq Goals /\ results \subseteq Results
      /\ \A t \in Threads : ClientOf[t] \in Clients
      /\ \A t \in Threads : pc[t] # "idle" => goalId[t] \in GoalIds
  BY DEF TypeInv, ClientTypeOK, HandlesTyped, Working
\* Steps that write no handle and publish no goal.
<1>1. ASSUME UNCHANGED <<handles, storing, overtaken, goals>>, results \subseteq results',
             \A t \in Threads : pc'[t] = "publish" =>
                 pc[t] = "publish" /\ goalId'[t] = goalId[t]
      PROVE  HandleInv'
  BY <1>1 DEF HandleInv, Sound, Untouched, Filed
<1>2. ASSUME NEW t \in Threads, FileGoal(t) PROVE HandleInv'
  <2> DEFINE c == ClientOf[t]
             g == goalId[t]
  <2>1. /\ g \in GoalIds /\ pc[t] = "file" /\ mutex[c] = Nobody
        /\ Update(c, g, FreshHandle)
        /\ UNCHANGED <<goalId, storing, overtaken, goals, results>>
    BY <1>0, <1>2 DEF FileGoal, Goto, Locks
  <2>2. /\ handles'[c][g] = FreshHandle
        /\ \A d \in Clients, k \in GoalIds :
               d # c \/ k # g => handles'[d][k] = handles[d][k]
    BY <1>0, <2>1, FreshHandleType, UpdateType
  <2>3. \A d \in Clients, k \in GoalIds : d = c /\ k = g => Sound(d, k)'
    BY <2>2 DEF Sound, FreshHandle
  <2>4. \A d \in Clients, k \in GoalIds :
            Filed(d, k)' /\ (d # c \/ k # g) => Sound(d, k)'
    BY <2>1, <2>2 DEF HandleInv, Sound, Filed
  <2>5. \A u \in Threads : pc'[u] = "publish" /\ u # t =>
            pc[u] = "publish" /\ (ClientOf[u] # c \/ goalId[u] # g)
    BY <1>0, <1>2, <2>1 DEF FileGoal, Goto, Draws, Sending
  <2>6. \A u \in Threads : Untouched(u)'
    BY <1>0, <2>1, <2>2, <2>5 DEF HandleInv, Untouched, FreshHandle
  <2> QED
    BY <2>3, <2>4, <2>6 DEF HandleInv
<1>3. ASSUME NEW t \in Threads, PublishGoal(t) PROVE HandleInv'
  <2> DEFINE c == ClientOf[t]
             g == goalId[t]
  <2>1. /\ pc[t] = "publish" /\ g \in GoalIds /\ Filed(c, g)
        /\ goals' = goals \cup {[client |-> c, id |-> g]}
        /\ UNCHANGED <<handles, goalId, storing, overtaken, results>>
    BY <1>0, <1>3 DEF PublishGoal, Goto, Working
  <2>2. \A u \in Threads : pc'[u] = "publish" => pc[u] = "publish"
    BY <1>0, <1>3 DEF PublishGoal, Goto
  <2>3. handles[c][g].result # NoResult \/ handles[c][g].status = "READY"
    BY <2>1 DEF HandleInv, Untouched
  <2>4. \A d \in Clients, k \in GoalIds : Filed(d, k)' => Sound(d, k)'
    BY <2>1, <2>3 DEF HandleInv, Sound, Filed
  <2> QED
    BY <2>1, <2>2, <2>4 DEF HandleInv, Untouched
<1>4. ASSUME NEW t \in Threads, SendFails(t) \/ MarkExecuting(t) PROVE HandleInv'
  <2> DEFINE c == ClientOf[t]
             g == goalId[t]
             x == [client |-> c, id |-> g]
  <2>1. PICK status \in Statuses :
            /\ SendGoalSets(t, status)
            /\ \/ status = "ABORTED" /\ pc[t] = "publish"
               \/ status = "EXECUTING" /\ pc[t] = "mark"
    BY <1>4, StatusType DEF SendFails, MarkExecuting, Goto
  <2>2. /\ g \in GoalIds /\ Filed(c, g) /\ SetStatus(c, g, status)
        /\ UNCHANGED <<goalId, storing, goals, results>>
        /\ pc' = [pc EXCEPT ![t] = "idle"]
    BY <1>0, <1>4, <2>1 DEF SendFails, MarkExecuting, Goto, Working, SendGoalSets
  <2>3. /\ handles'[c][g].status = status
        /\ handles'[c][g].result = handles[c][g].result
        /\ \A d \in Clients, k \in GoalIds :
               d # c \/ k # g => handles'[d][k] = handles[d][k]
    BY <1>0, <2>2, SetStatusType
  <2>4. /\ overtaken \subseteq overtaken'
        /\ handles[c][g].result # NoResult => x \in overtaken'
    BY <2>1 DEF SendGoalSets
  <2>5. status = "EXECUTING" \/ x \notin goals
    BY <2>1 DEF Draws, Sending, GoalOf
  <2>6. \A d \in Clients, k \in GoalIds : d = c /\ k = g => Sound(d, k)'
    BY <2>1, <2>2, <2>3, <2>4, <2>5 DEF HandleInv, Sound
  <2>7. \A d \in Clients, k \in GoalIds :
            Filed(d, k)' /\ (d # c \/ k # g) => Sound(d, k)'
    BY <2>2, <2>3, <2>4 DEF HandleInv, Sound, Filed
  <2>8. \A u \in Threads : pc'[u] = "publish" =>
            pc[u] = "publish" /\ (ClientOf[u] # c \/ goalId[u] # g)
    BY <1>0, <2>1, <2>2 DEF Draws, Sending, GoalOf
  <2>9. \A u \in Threads : Untouched(u)'
    BY <1>0, <2>2, <2>3, <2>8 DEF HandleInv, Untouched
  <2> QED
    BY <2>6, <2>7, <2>9 DEF HandleInv
<1>5. ASSUME NEW t \in Threads, NoteCancel(t) PROVE HandleInv'
  <2> DEFINE c == ClientOf[t]
             g == goalId[t]
             h == [handles[c][g] EXCEPT !.cancelled = TRUE]
  <2>1. /\ g \in GoalIds
        /\ UNCHANGED <<goalId, storing, overtaken, goals, results>>
        /\ \A u \in Threads : pc'[u] = "publish" => pc[u] = "publish"
    BY <1>0, <1>5 DEF NoteCancel, Goto
  <2>2. CASE UNCHANGED handles
    BY <1>1, <2>1, <2>2
  <2>3. CASE ~ UNCHANGED handles
    <3>1. Filed(c, g) /\ Update(c, g, h)
      BY <1>5, <2>3 DEF NoteCancel, Filed
    <3>2. h \in Handles /\ h.status = handles[c][g].status /\ h.result = handles[c][g].result
      BY <1>0, <2>1, <3>1, FiledType, SetField
    <3> HIDE DEF h
    <3>3. /\ handles'[c][g] = h
          /\ \A d \in Clients, k \in GoalIds :
                 d # c \/ k # g => handles'[d][k] = handles[d][k]
      BY <1>0, <2>1, <3>1, <3>2, UpdateType
    <3>4. \A d \in Clients, k \in GoalIds :
              /\ handles'[d][k].status = handles[d][k].status
              /\ handles'[d][k].result = handles[d][k].result
              /\ Filed(d, k)' => Filed(d, k)
      BY <3>1, <3>2, <3>3 DEF Filed
    <3>5. \A d \in Clients, k \in GoalIds : Filed(d, k)' => Sound(d, k)'
      BY <2>1, <3>4 DEF HandleInv, Sound
    <3>6. \A u \in Threads : Untouched(u)'
      BY <1>0, <2>1, <3>4 DEF HandleInv, Untouched
    <3> QED
      BY <3>5, <3>6 DEF HandleInv
  <2> QED
    BY <2>2, <2>3
<1>6. ASSUME NEW c \in Clients, NEW r \in results, StoreResult(c, r) PROVE HandleInv'
  <2> DEFINE h == [handles[c][r.id] EXCEPT !.result = r]
  <2>1. /\ r \in Results /\ r.id \in GoalIds /\ Filed(c, r.id)
        /\ r.action = ActionOf[c] /\ storing[c] = NoResult
        /\ storing' = [storing EXCEPT ![c] = r]
        /\ UNCHANGED <<pc, goalId, overtaken, goals, results>>
    BY <1>0, <1>6, MutexAssumption DEF StoreResult, ResultArrives, Results, Working
  <2>2. Update(c, r.id, h)
    BY <1>6 DEF StoreResult
  <2>3. h \in Handles /\ h.result = r
    <3>1. handles[c][r.id] \in Handles
      BY <1>0, <2>1, FiledType
    <3> QED
      BY <2>1, <3>1, SetField
  <2> HIDE DEF h
  <2>4. /\ handles'[c][r.id] = h
        /\ \A d \in Clients, k \in GoalIds :
               d # c \/ k # r.id => handles'[d][k] = handles[d][k]
    BY <1>0, <2>1, <2>2, <2>3, UpdateType
  <2>5. \A d \in Clients, k \in GoalIds : d = c /\ k = r.id => Sound(d, k)'
    BY <1>0, <2>1, <2>3, <2>4 DEF Sound
  <2>6. \A d \in Clients, k \in GoalIds :
            Filed(d, k)' /\ (d # c \/ k # r.id) => Sound(d, k)'
    BY <1>0, <2>1, <2>4 DEF HandleInv, Sound, Filed
  <2>7. \A u \in Threads : Untouched(u)'
    BY <1>0, <2>1, <2>3, <2>4 DEF HandleInv, Untouched
  <2> QED
    BY <2>5, <2>6, <2>7 DEF HandleInv
<1>7. ASSUME NEW c \in Clients, StoreStatus(c) PROVE HandleInv'
  <2> DEFINE r == storing[c]
  <2>1. /\ r \in Results /\ r.id \in GoalIds /\ Filed(c, r.id)
        /\ handles[c][r.id].result = r
        /\ SetStatus(c, r.id, FromWire(r.status)) /\ FromWire(r.status) \in Statuses
        /\ storing' = [storing EXCEPT ![c] = NoResult]
        /\ UNCHANGED <<pc, goalId, overtaken, goals, results>>
    BY <1>0, <1>7, StatusType DEF StoreStatus, Results, Working
  <2> HIDE DEF r
  <2>2. /\ handles'[c][r.id].status = FromWire(r.status)
        /\ handles'[c][r.id].result = r
        /\ \A d \in Clients, k \in GoalIds :
               d # c \/ k # r.id => handles'[d][k] = handles[d][k]
    BY <1>0, <2>1, SetStatusType
  <2>3. \A d \in Clients, k \in GoalIds : d = c /\ k = r.id => Sound(d, k)'
    BY <2>1, <2>2 DEF HandleInv, Sound
  <2>4. \A d \in Clients, k \in GoalIds :
            Filed(d, k)' /\ (d # c \/ k # r.id) => Sound(d, k)'
    BY <1>0, <2>1, <2>2 DEF HandleInv, Sound, Filed, r
  <2>5. \A u \in Threads : Untouched(u)'
    BY <1>0, <2>1, <2>2 DEF HandleInv, Untouched
  <2> QED
    BY <2>3, <2>4, <2>5 DEF HandleInv
<1>8. ASSUME NEW t \in Threads,
             \/ PollFinds(t) \/ PollTimesOut(t) \/ ClientCall(t)
      PROVE  HandleInv'
  <2>1. UNCHANGED <<handles, storing, overtaken, goals, results>>
    BY <1>8 DEF PollFinds, PollTimesOut, PollEnds, ClientCall, Connect, TakeGoalId,
                SubscribeFeedback, UnsubscribeFeedback, PublishCancel, PollBegins,
                PollUnknown
  <2>2. \A u \in Threads : pc'[u] = "publish" =>
            pc[u] = "publish" /\ goalId'[u] = goalId[u]
    BY <1>0, <1>8
       DEF PollFinds, PollTimesOut, PollEnds, ClientCall, Connect, TakeGoalId,
           SubscribeFeedback, UnsubscribeFeedback, PublishCancel, PollBegins,
           PollUnknown, Goto
  <2> QED
    BY <1>1, <2>1, <2>2
<1>9. ASSUME NEW c \in Clients, FeedbackReturns(c) \/ OnFeedback(c)
      PROVE  HandleInv'
  BY <1>1, <1>9 DEF FeedbackReturns, OnFeedback
<1>10. ASSUME Server \/ UNCHANGED actionVars PROVE HandleInv'
  BY <1>1, <1>10 DEF Server, Answer, actionVars
<1> QED
  BY <1>2, <1>3, <1>4, <1>5, <1>6, <1>7, <1>8, <1>9, <1>10
     DEF ClientNext, ClientStep, ClientCallback

LEMMA HandleInvariant == ClientSafety => [](TypeInv /\ Draws /\ HandleInv)
<1>1. ClientInit => HandleInv
  BY DEF ClientInit, HandleInv, Filed, Untouched
<1> QED
  BY <1>1, DrawsInvariant, HandleStep, PTL DEF ClientSafety

\* An application that sees a terminal status on a handle finds a result in
\* it, unless the goal was never published: set_result stores the result first.
THEOREM TerminalAfterResult == ClientSafety => []TerminalHasResult
<1>1. HandleInv => TerminalHasResult
  BY DEF HandleInv, Sound, TerminalHasResult, IsTerminal, Terminal
<1> QED
  BY <1>1, HandleInvariant, PTL

\* The status of a handle with a result is that of the result, unless
\* send_goal has set it after the result came.
THEOREM StatusFollowsResult == ClientSafety => []StatusOfResult
<1>1. HandleInv => StatusOfResult
  BY DEF HandleInv, Sound, StatusOfResult
<1> QED
  BY <1>1, HandleInvariant, PTL

\* The id of a result tells whose it is, if one client of the action used the id.
LEMMA ResultsAreOwn ==
    ASSUME TypeInv, Draws, HandleInv PROVE OwnResult
<1> SUFFICES ASSUME NEW c \in Clients, NEW g \in GoalIds, Filed(c, g),
                    handles[c][g].result # NoResult,
                    \A d \in Clients \ {c} :
                        ActionOf[d] = ActionOf[c] => [client |-> d, id |-> g] \notin goals
             PROVE  handles[c][g].result.goal = [client |-> c, id |-> g]
  BY DEF OwnResult
<1> DEFINE r == handles[c][g].result
           x == r.goal
<1>1. r \in results /\ r.id = g /\ r.action = ActionOf[c]
  BY DEF HandleInv, Sound
<1>2. x \in goals /\ x.id = g /\ ActionOf[x.client] = ActionOf[c]
  BY <1>1 DEF Draws
<1>3. x \in Goals
  BY <1>2 DEF TypeInv, ClientTypeOK
<1> HIDE DEF x
<1>4. x.client \in Clients /\ x = [client |-> x.client, id |-> g]
  BY <1>2, <1>3 DEF Goals
<1>5. x.client = c
  BY <1>2, <1>4
<1> QED
  BY <1>4, <1>5 DEF x

\* A handle's result answers its own goal unless another client of the action
\* has sent a goal under the same id: nothing but the id ties the two together.
THEOREM ResultOfOwnGoal == ClientSafety => []OwnResult
BY ResultsAreOwn, HandleInvariant, PTL

-----------------------------------------------------------------------------
(* What a step does to one handle *)

\* How a handle may change: not, by the steps under the mutex when it is free,
\* by send_goal's store of the status, or by the second store of set_result.
Cancelled(h) == [h EXCEPT !.cancelled = TRUE]

LEMMA HandleChange ==
    ASSUME TypeInv, [ClientNext]_actionVars, NEW c \in Clients, NEW g \in GoalIds,
           Filed(c, g)
    PROVE  LET h == handles[c][g]
               k == handles'[c][g]
           IN
           \/ k = h
           \/ mutex[c] = Nobody /\ k = Cancelled(h)
           \/ mutex[c] = Nobody /\ k.status = h.status /\ k.result \in results
           \/ /\ k.result = h.result
              /\ \E t \in Threads, status \in {"ABORTED", "EXECUTING"} :
                     /\ pc[t] = (IF status = "ABORTED" THEN "publish" ELSE "mark")
                     /\ GoalOf(t) = [client |-> c, id |-> g]
                     /\ SendGoalSets(t, status) /\ k.status = status
           \/ /\ storing[c] # NoResult /\ storing[c].id = g
              /\ k.result = h.result /\ k.status = FromWire(h.result.status)
           \/ /\ mutex[c] = Nobody
              /\ \E t \in Threads : pc[t] = "file" /\ GoalOf(t) = [client |-> c, id |-> g]
<1> USE ActionAssumption
<1>0. /\ HandlesTyped /\ Working
      /\ \A t \in Threads : ClientOf[t] \in Clients
      /\ \A t \in Threads : pc[t] # "idle" => goalId[t] \in GoalIds
      /\ results \subseteq Results
  BY DEF TypeInv, ClientTypeOK, HandlesTyped, Working
<1> DEFINE h == handles[c][g]
           k == handles'[c][g]
<1>1. ASSUME NEW t \in Threads, FileGoal(t)
      PROVE  k = h \/ (mutex[c] = Nobody /\ pc[t] = "file" /\ GoalOf(t) = [client |-> c, id |-> g])
  <2>1. /\ goalId[t] \in GoalIds /\ pc[t] = "file" /\ mutex[ClientOf[t]] = Nobody
        /\ Update(ClientOf[t], goalId[t], FreshHandle)
    BY <1>0, <1>1 DEF FileGoal, Goto, Locks
  <2> QED
    BY <1>0, <2>1, FreshHandleType, UpdateType DEF GoalOf
<1>2. ASSUME NEW t \in Threads, NEW status \in {"ABORTED", "EXECUTING"},
             pc[t] = (IF status = "ABORTED" THEN "publish" ELSE "mark"),
             SendGoalSets(t, status)
      PROVE  \/ k = h
             \/ /\ k.result = h.result /\ k.status = status
                /\ GoalOf(t) = [client |-> c, id |-> g]
  <2>1. /\ Filed(ClientOf[t], goalId[t]) /\ goalId[t] \in GoalIds
        /\ SetStatus(ClientOf[t], goalId[t], status) /\ status \in Statuses
    BY <1>0, <1>2, StatusType DEF SendGoalSets, Working
  <2> QED
    BY <1>0, <2>1, SetStatusType DEF GoalOf
<1>3. ASSUME NEW t \in Threads, NoteCancel(t)
      PROVE  k = h \/ (mutex[c] = Nobody /\ k = Cancelled(h))
  <2>1. /\ goalId[t] \in GoalIds /\ mutex[ClientOf[t]] = Nobody
        /\ \/ UNCHANGED handles
           \/ /\ Filed(ClientOf[t], goalId[t])
              /\ Update(ClientOf[t], goalId[t], Cancelled(handles[ClientOf[t]][goalId[t]]))
    BY <1>0, <1>3 DEF NoteCancel, Goto, Filed, Locks, Cancelled
  <2>2. ASSUME Filed(ClientOf[t], goalId[t])
        PROVE  Cancelled(handles[ClientOf[t]][goalId[t]]) \in Handles
    BY <1>0, <2>1, <2>2, FiledType, SetField DEF Cancelled
  <2> QED
    BY <1>0, <2>1, <2>2, UpdateType
<1>4. ASSUME NEW d \in Clients, NEW r \in results, StoreResult(d, r)
      PROVE  k = h \/ (mutex[c] = Nobody /\ k.status = h.status /\ k.result \in results)
  <2>1. r \in Results /\ r.id \in GoalIds
    BY <1>0 DEF Results
  <2>2. /\ Filed(d, r.id) /\ Update(d, r.id, [handles[d][r.id] EXCEPT !.result = r])
        /\ mutex[d] = Nobody
    BY <1>4 DEF StoreResult, ResultArrives
  <2>3. handles[d][r.id] \in Handles
    BY <1>0, <2>1, <2>2, FiledType
  <2> DEFINE w == [handles[d][r.id] EXCEPT !.result = r]
  <2>4. w \in Handles /\ w.result = r /\ w.status = handles[d][r.id].status
    BY <2>1, <2>3, SetField
  <2>5. Update(d, r.id, w)
    BY <2>2
  <2> HIDE DEF w
  <2>6. /\ handles'[d][r.id] = w
        /\ d # c \/ r.id # g => handles'[c][g] = handles[c][g]
    BY <1>0, <2>1, <2>4, <2>5, UpdateType
  <2>7. CASE d = c /\ r.id = g
    BY <2>2, <2>4, <2>6, <2>7
  <2>8. CASE d # c \/ r.id # g
    BY <2>6, <2>8
  <2> QED
    BY <2>7, <2>8
<1>5. ASSUME NEW d \in Clients, StoreStatus(d)
      PROVE  \/ k = h
             \/ /\ storing[c] # NoResult /\ storing[c].id = g
                /\ k.result = h.result /\ k.status = FromWire(h.result.status)
  <2>1. storing[d] # NoResult /\ storing[d] \in Results /\ storing[d].id \in GoalIds
    BY <1>5 DEF StoreStatus, TypeInv, ClientTypeOK, Results
  <2>2. /\ Filed(d, storing[d].id) /\ handles[d][storing[d].id].result = storing[d]
        /\ SetStatus(d, storing[d].id, FromWire(storing[d].status))
    BY <1>0, <1>5, <2>1 DEF StoreStatus, Working
  <2> QED
    BY <1>0, <2>1, <2>2, SetStatusType, StatusType
<1>6. ASSUME NEW t \in Threads,
             \/ PublishGoal(t) \/ PollFinds(t) \/ PollTimesOut(t) \/ ClientCall(t)
      PROVE  UNCHANGED handles
  BY <1>6 DEF PublishGoal, PollFinds, PollTimesOut, PollEnds, ClientCall, Connect,
              TakeGoalId, SubscribeFeedback, UnsubscribeFeedback, PublishCancel,
              PollBegins, PollUnknown, goalVars
<1>7. ASSUME NEW d \in Clients, FeedbackReturns(d) \/ OnFeedback(d)
      PROVE  UNCHANGED handles
  BY <1>7 DEF FeedbackReturns, OnFeedback, goalVars
<1>8. ASSUME Server \/ UNCHANGED actionVars PROVE UNCHANGED handles
  BY <1>8 DEF Server, Answer, actionVars, clientVars, goalVars
<1>9. ASSUME NEW t \in Threads, SendFails(t) \/ MarkExecuting(t)
      PROVE  \E status \in {"ABORTED", "EXECUTING"} :
                 /\ pc[t] = (IF status = "ABORTED" THEN "publish" ELSE "mark")
                 /\ SendGoalSets(t, status)
  BY <1>9 DEF SendFails, MarkExecuting, Goto
<1> HIDE DEF h, k
<1>10. UNCHANGED handles => k = h
  BY DEF h, k
<1> QED
  BY <1>1, <1>2, <1>3, <1>4, <1>5, <1>6, <1>7, <1>8, <1>9, <1>10
     DEF ClientNext, ClientStep, ClientCallback, h, k

\* The wait of get_result holds the mutex that the callback needs to store a
\* result: it ends with a result that was there before, or with its time limit.
THEOREM NothingArrivesWhileWaiting == ClientSafety => WaitsInVain
<1>1. ASSUME TypeInv, [ClientNext]_actionVars, NEW t \in Threads, NEW g \in GoalIds,
             pc[t] = "poll", Filed(ClientOf[t], g)
      PROVE  handles'[ClientOf[t]][g].result = handles[ClientOf[t]][g].result
  <2>1. mutex[ClientOf[t]] # Nobody /\ ClientOf[t] \in Clients
    BY <1>1, MutexAssumption, ActionAssumption DEF TypeInv, Working
  <2> QED
    BY <1>1, <2>1, HandleChange
<1>2. TypeInv /\ [ClientNext]_actionVars =>
          [\A t \in Threads, g \in GoalIds :
               pc[t] = "poll" /\ Filed(ClientOf[t], g)
                   => handles'[ClientOf[t]][g].result = handles[ClientOf[t]][g].result]_actionVars
  BY <1>1
<1> QED
  BY <1>2, TypeInvariant, PTL DEF ClientSafety, WaitsInVain

-----------------------------------------------------------------------------
(* Terminal statuses *)

InFlight == {"file", "publish", "mark"}

\* A goal id is drawn once: no two threads send one goal, what they send is not
\* filed before they file it, and its status is set by send_goal only once.
OnceSent ==
    /\ \A t \in Threads : pc[t] \in InFlight =>
           GoalOf(t) \notin overtaken /\ goalId[t] < nextGoalId[ClientOf[t]]
    /\ \A t, u \in Threads :
           pc[t] \in InFlight /\ pc[u] \in InFlight /\ GoalOf(t) = GoalOf(u) => t = u
    /\ \A x \in overtaken : x.id < nextGoalId[x.client]
    /\ \A c \in Clients, g \in GoalIds : Filed(c, g) => g < nextGoalId[c]
    /\ \A t \in Threads : pc[t] = "file" => ~ Filed(ClientOf[t], goalId[t])

LEMMA OnceStep == TypeInv /\ OnceSent /\ [ClientNext]_actionVars => OnceSent'
<1> SUFFICES ASSUME TypeInv, OnceSent, [ClientNext]_actionVars PROVE OnceSent'
  OBVIOUS
<1> USE ActionAssumption
<1> USE DEF InFlight, GoalOf, goalVars, threadVars, feedbackVars, topicVars, clientVars
<1>0. /\ nextGoalId \in [Clients -> 1 .. MaxGoals + 1] /\ MaxGoals \in Nat
      /\ pc \in [Threads -> {"idle", "file", "publish", "mark", "cancel", "poll"}]
      /\ goalId \in [Threads -> 0 .. MaxGoals]
      /\ overtaken \subseteq Goals
      /\ \A t \in Threads : ClientOf[t] \in Clients
      /\ \A t \in Threads : pc[t] # "idle" => goalId[t] \in GoalIds
  BY DEF TypeInv, ClientTypeOK, Working
<1>1. ASSUME NEW t \in Threads, TakeGoalId(t) PROVE OnceSent'
  <2> DEFINE c == ClientOf[t]
             g == nextGoalId[c]
  <2>1. /\ pc[t] = "idle" /\ pc' = [pc EXCEPT ![t] = "file"]
        /\ goalId' = [goalId EXCEPT ![t] = g]
        /\ nextGoalId' = [nextGoalId EXCEPT ![c] = g + 1]
        /\ UNCHANGED <<handles, overtaken>> /\ g \in GoalIds
    BY <1>1 DEF TakeGoalId, Goto
  <2>2. \A d \in Clients : /\ nextGoalId[d] \in Nat /\ nextGoalId'[d] \in Nat
                           /\ nextGoalId[d] <= nextGoalId'[d]
    BY <1>0, <2>1
  <2>3. \A u \in Threads : u # t => pc'[u] = pc[u] /\ goalId'[u] = goalId[u]
    BY <1>0, <2>1
  <2>4. pc'[t] = "file" /\ goalId'[t] = g /\ g < nextGoalId'[c] /\ g \in Nat
    BY <1>0, <2>1
  <2>5. [client |-> c, id |-> g] \notin overtaken /\ ~ Filed(c, g)
    <3>1. /\ [client |-> c, id |-> g] \in overtaken => g < g
          /\ Filed(c, g) => g < g
      BY <1>0, <2>1 DEF OnceSent
    <3> QED
      BY <2>4, <3>1
  <2>6. \A u \in Threads : u # t /\ pc[u] \in InFlight /\ ClientOf[u] = c => goalId[u] # g
    <3> SUFFICES ASSUME NEW u \in Threads, pc[u] \in InFlight, ClientOf[u] = c
                 PROVE  goalId[u] # g
      OBVIOUS
    <3>1. goalId[u] < g
      BY DEF OnceSent
    <3>2. goalId[u] \in Nat
      BY <1>0
    <3> HIDE DEF g
    <3> QED
      BY <2>4, <3>1, <3>2
  <2> HIDE DEF g
  <2>7. \A u \in Threads : pc'[u] \in InFlight =>
            /\ [client |-> ClientOf[u], id |-> goalId'[u]] \notin overtaken
            /\ goalId'[u] < nextGoalId'[ClientOf[u]]
    BY <1>0, <2>2, <2>3, <2>4, <2>5 DEF OnceSent
  <2>8. \A x \in overtaken : x.id < nextGoalId'[x.client]
    BY <1>0, <2>2 DEF OnceSent, Goals, GoalIds
  <2>9. \A d \in Clients, k \in GoalIds : Filed(d, k) => k < nextGoalId'[d]
    BY <1>0, <2>2 DEF OnceSent, GoalIds
  <2>10. \A u, v \in Threads :
            /\ pc'[u] \in InFlight /\ pc'[v] \in InFlight
            /\ ClientOf[u] = ClientOf[v] /\ goalId'[u] = goalId'[v]
            => u = v
    BY <2>3, <2>4, <2>6 DEF OnceSent
  <2>11. \A u \in Threads : pc'[u] = "file" => ~ Filed(ClientOf[u], goalId'[u])
    BY <2>3, <2>4, <2>5 DEF OnceSent
  <2> HIDE DEF c
  <2> QED
    BY <2>1, <2>7, <2>8, <2>9, <2>10, <2>11 DEF OnceSent, Filed
<1>2. ASSUME NEW t \in Threads, FileGoal(t) PROVE OnceSent'
  <2>1. /\ goalId[t] \in GoalIds /\ pc[t] = "file" /\ pc' = [pc EXCEPT ![t] = "publish"]
        /\ Update(ClientOf[t], goalId[t], FreshHandle)
        /\ UNCHANGED <<nextGoalId, goalId, overtaken>>
    BY <1>0, <1>2 DEF FileGoal, Goto
  <2>2. \A d \in Clients, k \in GoalIds :
            d # ClientOf[t] \/ k # goalId[t] => handles'[d][k] = handles[d][k]
    <3>1. HandlesTyped
      BY DEF TypeInv, ClientTypeOK, HandlesTyped
    <3> QED
      BY <1>0, <2>1, <3>1, FreshHandleType, UpdateType
  <2>3. \A d \in Clients, k \in GoalIds : handles'[d][k] # NoHandle => k < nextGoalId[d]
    BY <2>1, <2>2 DEF OnceSent, Filed
  <2>4. \A u \in Threads : pc'[u] = "file" => handles'[ClientOf[u]][goalId[u]] = NoHandle
    BY <1>0, <2>1, <2>2 DEF OnceSent, Filed
  <2> QED
    BY <1>0, <2>1, <2>3, <2>4 DEF OnceSent, Filed
\* What the other steps have in common.
<1>3. ASSUME \A t \in Threads : ~ FileGoal(t), UNCHANGED nextGoalId,
             \A t \in Threads :
                 /\ pc'[t] \in InFlight => pc[t] \in InFlight /\ goalId'[t] = goalId[t]
                 /\ pc'[t] = "file" => pc[t] = "file",
             \/ UNCHANGED overtaken
             \/ \E t \in Threads :
                    /\ pc[t] \in InFlight /\ pc'[t] = "idle"
                    /\ overtaken' \subseteq overtaken \cup {GoalOf(t)}
      PROVE  OnceSent'
  <2>1. \A t \in Threads : pc'[t] \in InFlight => GoalOf(t)' \notin overtaken'
    BY <1>3 DEF OnceSent
  <2>2. \A x \in overtaken' : x.id < nextGoalId'[x.client]
    BY <1>3 DEF OnceSent
  <2>3. \A c \in Clients, g \in GoalIds : handles'[c][g] # NoHandle => Filed(c, g)
    BY <1>3, NoOtherFiles
  <2> QED
    BY <1>0, <1>3, <2>1, <2>2, <2>3 DEF OnceSent, Filed
<1>4. ASSUME NEW t \in Threads, pc[t] # "file" PROVE ~ FileGoal(t)
  BY <1>4 DEF FileGoal, Goto
<1>5. ASSUME \A t \in Threads : ~ FileGoal(t), \A t \in Threads : ~ TakeGoalId(t)
      PROVE  OnceSent'
  <2>1. ASSUME NEW t \in Threads, NEW status, pc[t] \in {"publish", "mark"},
               SendGoalSets(t, status), pc' = [pc EXCEPT ![t] = "idle"],
               UNCHANGED <<nextGoalId, goalId>>
        PROVE  OnceSent'
    BY <1>0, <1>3, <1>5, <2>1 DEF SendGoalSets
  <2>2. ASSUME NEW t \in Threads,
               \/ PublishGoal(t) \/ NoteCancel(t) \/ PollFinds(t) \/ PollTimesOut(t)
               \/ Connect(t) \/ SubscribeFeedback(t) \/ UnsubscribeFeedback(t)
               \/ \E g \in GoalIds : PublishCancel(t, g) \/ PollBegins(t, g)
                                     \/ PollUnknown(t, g)
        PROVE  OnceSent'
    <3>1. UNCHANGED <<nextGoalId, overtaken>>
      BY <2>2 DEF PublishGoal, NoteCancel, PollFinds, PollTimesOut, PollEnds, Connect,
         SubscribeFeedback, UnsubscribeFeedback, PublishCancel, PollBegins, PollUnknown
    <3>2. \A u \in Threads :
              /\ pc'[u] \in InFlight => pc[u] \in InFlight /\ goalId'[u] = goalId[u]
              /\ pc'[u] = "file" => pc[u] = "file"
      BY <1>0, <2>2
         DEF PublishGoal, NoteCancel, PollFinds, PollTimesOut, PollEnds, Connect,
         SubscribeFeedback, UnsubscribeFeedback, PublishCancel, PollBegins, PollUnknown,
         Goto
    <3> QED
      BY <1>3, <1>5, <3>1, <3>2
  <2>3. ASSUME NEW c \in Clients, ClientCallback(c) PROVE OnceSent'
    BY <1>3, <1>5, <2>3
       DEF ClientCallback, StoreResult, StoreStatus, OnFeedback, FeedbackReturns
  <2>4. ASSUME Server \/ UNCHANGED actionVars PROVE OnceSent'
    BY <1>3, <1>5, <2>4 DEF Server, Answer, actionVars
  <2> QED
    BY <1>5, <2>1, <2>2, <2>3, <2>4
       DEF ClientNext, ClientStep, ClientCall, SendFails, MarkExecuting, Goto
<1> QED
  BY <1>1, <1>2, <1>5

\* What a terminal status may turn into.
LEMMA FinalStep ==
    ASSUME TypeInv, Draws, HandleInv, OnceSent, [ClientNext]_actionVars,
           NEW c \in Clients, NEW g \in GoalIds, Filed(c, g), IsTerminal(handles[c][g])
    PROVE  \/ handles'[c][g] # NoHandle /\ IsTerminal(handles'[c][g])
           \/ [client |-> c, id |-> g] \in overtaken' \ overtaken
           \/ \E r \in results :
                  handles'[c][g].result = r /\ FromWire(r.status) \notin Terminal
<1> DEFINE h == handles[c][g]
           k == handles'[c][g]
<1>1. k # NoHandle
  BY FiledStays
<1>2. h \in Handles /\ h.status \in Terminal
  BY FiledType DEF TypeInv, ClientTypeOK, HandlesTyped, IsTerminal
<1>3. Sound(c, g)
  BY DEF HandleInv
<1>4. CASE k.status = h.status
  BY <1>1, <1>2, <1>4 DEF IsTerminal
<1>5. k = Cancelled(h) => k.status = h.status
  BY <1>2, SetField DEF Cancelled
<1>6. ASSUME NEW t \in Threads, NEW status \in {"ABORTED", "EXECUTING"},
             pc[t] = (IF status = "ABORTED" THEN "publish" ELSE "mark"),
             GoalOf(t) = [client |-> c, id |-> g], SendGoalSets(t, status),
             k.status = status
      PROVE  IsTerminal(k) \/ [client |-> c, id |-> g] \in overtaken' \ overtaken
  <2>1. CASE status = "ABORTED"
    BY <1>6, <2>1 DEF IsTerminal, Terminal
  <2>2. CASE status = "EXECUTING"
    <3>1. GoalOf(t) \in goals /\ GoalOf(t) \notin overtaken
      BY <1>6, <2>2 DEF Draws, OnceSent, InFlight
    <3>2. h.result # NoResult
      BY <1>2, <1>3, <1>6, <3>1 DEF Sound, Terminal
    <3>3. ClientOf[t] = c /\ goalId[t] = g
      BY <1>6 DEF GoalOf
    <3> QED
      BY <1>6, <3>1, <3>2, <3>3 DEF SendGoalSets
  <2> QED
    BY <2>1, <2>2
<1>7. ASSUME storing[c] # NoResult, storing[c].id = g, k.result = h.result,
             k.status = FromWire(h.result.status)
      PROVE  IsTerminal(k) \/ \E r \in results : k.result = r /\ FromWire(r.status) \notin Terminal
  <2>1. h.result = storing[c]
    BY <1>7 DEF TypeInv, Working
  <2>2. h.result \in results
    BY <1>3, <1>7, <2>1 DEF Sound
  <2> QED
    BY <1>7, <2>2 DEF IsTerminal
<1>8. ASSUME NEW t \in Threads, pc[t] = "file", GoalOf(t) = [client |-> c, id |-> g]
      PROVE  FALSE
  <2>1. ClientOf[t] = c /\ goalId[t] = g
    BY <1>8 DEF GoalOf
  <2> QED
    BY <1>8, <2>1 DEF OnceSent
<1> HIDE DEF h, k
<1>9. IsTerminal(k) \/ [client |-> c, id |-> g] \in overtaken' \ overtaken
      \/ \E r \in results : k.result = r /\ FromWire(r.status) \notin Terminal
  BY <1>4, <1>5, <1>6, <1>7, <1>8, <1>2, HandleChange DEF h, k, IsTerminal
<1> QED
  BY <1>1, <1>9 DEF k

\* A terminal status is final, except for the one store by which send_goal
\* overtakes a result, and for a further result that is not terminal.
THEOREM TerminalStays == ClientSafety => TerminalIsFinal
<1>1. ClientInit => OnceSent
  BY DEF ClientInit, OnceSent, InFlight, Filed
<1>2. TypeInv /\ Draws /\ HandleInv /\ OnceSent /\ [ClientNext]_actionVars =>
          [\A c \in Clients, g \in GoalIds :
               Filed(c, g) /\ IsTerminal(handles[c][g]) =>
                   \/ Filed(c, g)' /\ IsTerminal(handles'[c][g])
                   \/ [client |-> c, id |-> g] \in overtaken' \ overtaken
                   \/ \E r \in results :
                          handles'[c][g].result = r /\ FromWire(r.status) \notin Terminal]_actionVars
  BY FinalStep DEF Filed
<1> QED
  BY <1>1, <1>2, HandleInvariant, OnceStep, PTL DEF ClientSafety, TerminalIsFinal

=============================================================================
