-------------------------- MODULE PendingCallsProofs --------------------------
(***************************************************************************)
(* Proofs about PendingCalls, for any number of threads, clients and       *)
(* processes and any size of the session id space.                         *)
(***************************************************************************)
EXTENDS PendingCalls, TLAPS

\* The state predicates the safety theorems rest on.  Between drawing its id
\* and returning, a call is in the history of issued ids; a call that woke
\* for its future found it satisfied or broken.
InHistory ==
    \A t \in Threads : pc[t] \in {"register"} \cup Filed => Issue(t) \in issued

ReadyIsSet == \A t \in Threads : pc[t] = "ready" => future[t] # "unset"

\* Without a clash of ids no promise is ever destroyed under a waiting call.
NoBrokenPromise ==
    UniqueInClient => \A t \in Threads :
        /\ pc[t] \in Filed => future[t] # "broken"
        /\ outcome[t] # "throw"

-----------------------------------------------------------------------------

LEMMA TypeInit == TableInit => TableTypeOK
BY CallersAssumption, SessionAssumption
   DEF TableInit, TableTypeOK, SessionIds, Labels, Filed

LEMMA TypeStep == TableTypeOK /\ [TableNext]_tableVars => TableTypeOK'
<1> SUFFICES ASSUME TableTypeOK, [TableNext]_tableVars PROVE TableTypeOK'
  OBVIOUS
<1> USE CallersAssumption, SessionAssumption DEF TableTypeOK, Labels, Filed
<1>1. ASSUME NEW t \in Threads, Begin(t) PROVE TableTypeOK'
  BY <1>1 DEF Begin, Goto
<1>2. ASSUME NEW t \in Threads, NoParticipant(t) PROVE TableTypeOK'
  BY <1>2 DEF NoParticipant, Return, Goto
<1>3. ASSUME NEW t \in Threads, LoadSessionId(t) PROVE TableTypeOK'
  BY <1>3 DEF LoadSessionId, Goto
<1>4. ASSUME NEW t \in Threads, StoreSessionId(t) PROVE TableTypeOK'
  <2>1. Issue(t) \in [sid : SessionIds, thread : Threads, call : 0 .. MaxCalls]
    BY DEF Issue
  <2>2. (sessionId[t] + 1) % SessionMod \in SessionIds
    BY DEF SessionIds
  <2> QED
    BY <1>4, <2>1, <2>2 DEF StoreSessionId, Goto
<1>5. ASSUME NEW t \in Threads, Register(t) PROVE TableTypeOK'
  BY <1>5 DEF Register, Goto, Abandon
<1>6. ASSUME NEW t \in Threads, SendFails(t) PROVE TableTypeOK'
  BY <1>6 DEF SendFails, Return, Goto, Erase, Abandon
<1>7. ASSUME NEW t \in Threads, Prepared(t) \/ Sent(t) PROVE TableTypeOK'
  BY <1>7 DEF Prepared, Sent, Advance, Goto
<1>8. ASSUME NEW t \in Threads, WakeReady(t) PROVE TableTypeOK'
  BY <1>8 DEF WakeReady, Advance, Goto
<1>9. ASSUME NEW t \in Threads, WakeTimeout(t) PROVE TableTypeOK'
  BY <1>9 DEF WakeTimeout, Advance, Goto
<1>10. ASSUME NEW t \in Threads, FinishTimeout(t) PROVE TableTypeOK'
  BY <1>10 DEF FinishTimeout, Return, Goto, Erase, Abandon
<1>11. ASSUME NEW t \in Threads, FinishReady(t) PROVE TableTypeOK'
  BY <1>11 DEF FinishReady, Return, Goto, Erase, Abandon
<1>12. ASSUME NEW c \in Clients, NEW s \in SessionIds, Resolve(c, s)
       PROVE  TableTypeOK'
  BY <1>12 DEF Resolve
<1>13. CASE UNCHANGED tableVars
  BY <1>13 DEF tableVars
<1> QED
  BY <1>1, <1>2, <1>3, <1>4, <1>5, <1>6, <1>7, <1>8, <1>9, <1>10, <1>11, <1>12,
     <1>13 DEF TableNext, TableStep

-----------------------------------------------------------------------------
(* The table: who owns an entry, and who is owed one *)

TableSafe == PendingOwned /\ NoOrphanedWaiter /\ ReadyIsSet

\* The entry a call erases or displaces is filed under the call's own id, so
\* its owner, if any, is a call in progress of the same client under that id.
LEMMA EntryOwner ==
    ASSUME TableTypeOK, PendingOwned, NEW t \in Threads, Entry(t) # NoThread
    PROVE  /\ Entry(t) \in Threads
           /\ ClientOf[Entry(t)] = ClientOf[t]
           /\ sessionId[Entry(t)] = sessionId[t]
           /\ pc[Entry(t)] \in Filed
           /\ future[Entry(t)] = "unset"
BY CallersAssumption DEF TableTypeOK, PendingOwned, Entry

\* Removing an entry on the way out keeps the table sound: whoever owned the
\* entry no longer waits, for its promise is broken.
LEMMA EraseSafe ==
    ASSUME TableTypeOK, TableSafe, NEW t \in Threads,
           pc[t] \in Filed, pc' = [pc EXCEPT ![t] = "idle"], Erase(t),
           UNCHANGED sessionId
    PROVE  TableSafe'
<1> USE CallersAssumption DEF TableTypeOK, Erase, Abandon, Filed
<1>1. ASSUME NEW c \in Clients, NEW s \in SessionIds, pending'[c][s] # NoThread
      PROVE  /\ pending'[c][s] = pending[c][s]
             /\ ~ (c = ClientOf[t] /\ s = sessionId[t])
  BY <1>1
<1>2. PendingOwned'
  <2> SUFFICES ASSUME NEW c \in Clients, NEW s \in SessionIds,
                      NEW u \in Threads, u = pending'[c][s], u # NoThread
               PROVE  /\ ClientOf[u] = c /\ sessionId'[u] = s
                      /\ pc'[u] \in Filed /\ future'[u] = "unset"
    BY <1>1 DEF PendingOwned, TableSafe
  <2>1. /\ ClientOf[u] = c /\ sessionId[u] = s
        /\ pc[u] \in Filed /\ future[u] = "unset"
    BY <1>1 DEF TableSafe, PendingOwned
  <2>2. u # t /\ u # Entry(t)
    BY <1>1, <2>1, EntryOwner DEF TableSafe
  <2> QED
    BY <2>1, <2>2
<1>3. NoOrphanedWaiter'
  <2> SUFFICES ASSUME NEW u \in Threads, pc'[u] \in Filed, future'[u] = "unset"
               PROVE  Entry(u)' = u
    BY DEF NoOrphanedWaiter
  <2>1. u # t /\ u # Entry(t) /\ Entry(u) = u
    BY DEF TableSafe, NoOrphanedWaiter
  <2> QED
    BY <2>1 DEF Entry
<1>4. ReadyIsSet'
  BY DEF TableSafe, ReadyIsSet
<1> QED
  BY <1>2, <1>3, <1>4 DEF TableSafe

\* A step of a thread that has no promise in the table leaves it sound.
LEMMA OutsideSafe ==
    ASSUME TableTypeOK, TableSafe, NEW t \in Threads, pc[t] \notin Filed,
           pc'[t] \notin Filed,
           \A u \in Threads :
               u # t => pc'[u] = pc[u] /\ sessionId'[u] = sessionId[u],
           UNCHANGED <<pending, future>>
    PROVE  TableSafe'
<1> USE CallersAssumption DEF TableTypeOK, TableSafe, Filed
<1>1. PendingOwned'
  <2> SUFFICES ASSUME NEW c \in Clients, NEW s \in SessionIds,
                      NEW u \in Threads, u = pending[c][s], u # NoThread
               PROVE  /\ ClientOf[u] = c /\ sessionId'[u] = s
                      /\ pc'[u] \in Filed /\ future[u] = "unset"
    BY DEF PendingOwned
  <2>1. /\ ClientOf[u] = c /\ sessionId[u] = s
        /\ pc[u] \in Filed /\ future[u] = "unset"
    BY DEF PendingOwned
  <2> QED
    BY <2>1
<1>2. NoOrphanedWaiter'
  BY DEF NoOrphanedWaiter, Entry
<1>3. ReadyIsSet'
  BY DEF ReadyIsSet
<1> QED
  BY <1>1, <1>2, <1>3

LEMMA SafeStep ==
    TableTypeOK /\ TableSafe /\ [TableNext]_tableVars => TableSafe'
<1> SUFFICES ASSUME TableTypeOK, TableSafe, [TableNext]_tableVars
             PROVE  TableSafe'
  OBVIOUS
<1> USE CallersAssumption
<1>1. Labels \ Filed = {"idle", "load", "store", "register"}
  BY DEF Labels, Filed
<1>2. ASSUME NEW t \in Threads, Begin(t) PROVE TableSafe'
  <2>1. /\ pc[t] \notin Filed /\ pc'[t] \notin Filed
        /\ \A u \in Threads :
               u # t => pc'[u] = pc[u] /\ sessionId'[u] = sessionId[u]
        /\ pending' = pending /\ future' = future
    BY <1>1, <1>2 DEF Begin, Goto, TableTypeOK
  <2> QED
    BY <2>1, OutsideSafe
<1>3. ASSUME NEW t \in Threads, NoParticipant(t) PROVE TableSafe'
  <2>1. /\ pc[t] \notin Filed /\ pc'[t] \notin Filed
        /\ \A u \in Threads :
               u # t => pc'[u] = pc[u] /\ sessionId'[u] = sessionId[u]
        /\ pending' = pending /\ future' = future
    BY <1>1, <1>3 DEF NoParticipant, Return, Goto, TableTypeOK
  <2> QED
    BY <2>1, OutsideSafe
<1>4. ASSUME NEW t \in Threads, LoadSessionId(t) PROVE TableSafe'
  <2>1. /\ pc[t] \notin Filed /\ pc'[t] \notin Filed
        /\ \A u \in Threads :
               u # t => pc'[u] = pc[u] /\ sessionId'[u] = sessionId[u]
        /\ pending' = pending /\ future' = future
    BY <1>1, <1>4 DEF LoadSessionId, Goto, TableTypeOK
  <2> QED
    BY <2>1, OutsideSafe
<1>5. ASSUME NEW t \in Threads, StoreSessionId(t) PROVE TableSafe'
  <2>1. /\ pc[t] \notin Filed /\ pc'[t] \notin Filed
        /\ \A u \in Threads :
               u # t => pc'[u] = pc[u] /\ sessionId'[u] = sessionId[u]
        /\ pending' = pending /\ future' = future
    BY <1>1, <1>5 DEF StoreSessionId, Goto, TableTypeOK
  <2> QED
    BY <2>1, OutsideSafe
<1>6. ASSUME NEW t \in Threads, Register(t) PROVE TableSafe'
  <2> USE <1>6 DEF Register, Goto, Abandon, TableTypeOK
  <2>1. PendingOwned'
    BY DEF TableSafe, PendingOwned, Entry, Filed
  <2>2. NoOrphanedWaiter'
    BY DEF TableSafe, PendingOwned, NoOrphanedWaiter, Entry, Filed
  <2>3. ReadyIsSet'
    BY DEF TableSafe, ReadyIsSet
  <2> QED
    BY <2>1, <2>2, <2>3 DEF TableSafe
<1>7. ASSUME NEW t \in Threads, SendFails(t) PROVE TableSafe'
  <2>1. /\ pc[t] \in Filed /\ pc' = [pc EXCEPT ![t] = "idle"]
        /\ Erase(t) /\ sessionId' = sessionId
    BY <1>7 DEF SendFails, Return, Goto, Filed
  <2> QED
    BY <2>1, EraseSafe
<1>8. ASSUME NEW t \in Threads,
             Prepared(t) \/ Sent(t) \/ WakeReady(t) \/ WakeTimeout(t)
      PROVE  TableSafe'
  <2> USE CallersAssumption DEF TableSafe, TableTypeOK, Filed
  <2>1. /\ pc[t] \in Filed /\ pc'[t] \in Filed
        /\ pc'[t] = "ready" => future[t] # "unset"
        /\ \A u \in Threads : u # t => pc'[u] = pc[u]
        /\ UNCHANGED <<pending, future, sessionId>>
    BY <1>8 DEF Prepared, Sent, Advance, WakeReady, WakeTimeout, Goto
  <2>2. \A u \in Threads : pc'[u] \in Filed <=> pc[u] \in Filed
    BY <2>1
  <2>3. PendingOwned'
    BY <2>1, <2>2 DEF PendingOwned
  <2>4. NoOrphanedWaiter'
    BY <2>1, <2>2 DEF NoOrphanedWaiter, Entry
  <2>5. ReadyIsSet'
    BY <2>1, <2>2 DEF ReadyIsSet
  <2> QED
    BY <2>3, <2>4, <2>5
<1>9. ASSUME NEW t \in Threads, FinishTimeout(t) PROVE TableSafe'
  <2>1. /\ pc[t] \in Filed /\ pc' = [pc EXCEPT ![t] = "idle"]
        /\ Erase(t) /\ sessionId' = sessionId
    BY <1>9 DEF FinishTimeout, Return, Goto, Filed
  <2> QED
    BY <2>1, EraseSafe
<1>10. ASSUME NEW t \in Threads, FinishReady(t) PROVE TableSafe'
  <2>1. /\ pc[t] \in Filed /\ pc' = [pc EXCEPT ![t] = "idle"]
        /\ Erase(t) /\ sessionId' = sessionId
    BY <1>10 DEF FinishReady, Return, Goto, Filed
  <2> QED
    BY <2>1, EraseSafe
<1>11. ASSUME NEW c \in Clients, NEW s \in SessionIds, Resolve(c, s)
       PROVE  TableSafe'
  BY <1>11 DEF Resolve, TableTypeOK, TableSafe, Filed, PendingOwned,
     NoOrphanedWaiter, ReadyIsSet, Entry
<1>12. CASE UNCHANGED tableVars
  BY <1>12 DEF tableVars, TableSafe, PendingOwned, NoOrphanedWaiter, ReadyIsSet,
     Entry
<1> QED
  BY <1>2, <1>3, <1>4, <1>5, <1>6, <1>7, <1>8, <1>9, <1>10, <1>11, <1>12
     DEF TableNext, TableStep

-----------------------------------------------------------------------------
(* Broken promises *)

LEMMA HistoryStep ==
    TableTypeOK /\ InHistory /\ [TableNext]_tableVars
        => InHistory' /\ issued \subseteq issued'
<1> SUFFICES ASSUME TableTypeOK, InHistory, [TableNext]_tableVars
             PROVE  InHistory' /\ issued \subseteq issued'
  OBVIOUS
<1> USE DEF TableTypeOK, InHistory, Issue, Goto, Return, Filed
<1>1. ASSUME NEW t \in Threads, Begin(t) \/ NoParticipant(t) \/ LoadSessionId(t)
      PROVE  InHistory' /\ issued' = issued
  BY <1>1 DEF Begin, NoParticipant, LoadSessionId
<1>2. ASSUME NEW t \in Threads, StoreSessionId(t)
      PROVE  InHistory' /\ issued \subseteq issued'
  BY <1>2 DEF StoreSessionId
<1>3. ASSUME NEW t \in Threads,
             \/ Register(t) \/ SendFails(t) \/ Prepared(t) \/ Sent(t)
             \/ WakeReady(t) \/ WakeTimeout(t) \/ FinishTimeout(t) \/ FinishReady(t)
      PROVE  InHistory' /\ issued' = issued
  BY <1>3 DEF Register, SendFails, Prepared, Sent, Advance, WakeReady, WakeTimeout,
     FinishTimeout, FinishReady
<1>4. ASSUME NEW c \in Clients, NEW s \in SessionIds, Resolve(c, s)
      PROVE  InHistory' /\ issued' = issued
  BY <1>4 DEF Resolve
<1>5. CASE UNCHANGED tableVars
  BY <1>5 DEF tableVars
<1> QED
  BY <1>1, <1>2, <1>3, <1>4, <1>5 DEF TableNext, TableStep

\* Two calls of one client in progress under one id are one call.
LEMMA SameIdSameCall ==
    ASSUME InHistory, UniqueInClient, NEW t \in Threads, NEW u \in Threads,
           pc[t] \in {"register"} \cup Filed, pc[u] \in Filed,
           ClientOf[u] = ClientOf[t], sessionId[u] = sessionId[t]
    PROVE  u = t
BY DEF InHistory, UniqueInClient, Issue

LEMMA BrokenStep ==
    TableTypeOK /\ TableSafe /\ InHistory /\ NoBrokenPromise
    /\ [TableNext]_tableVars /\ InHistory' /\ issued \subseteq issued'
        => NoBrokenPromise'
<1> SUFFICES ASSUME TableTypeOK, TableSafe, InHistory, NoBrokenPromise,
                    [TableNext]_tableVars, issued \subseteq issued',
                    UniqueInClient'
             PROVE  \A u \in Threads : /\ pc'[u] \in Filed => future'[u] # "broken"
                                       /\ outcome'[u] # "throw"
  BY DEF NoBrokenPromise
<1>1. UniqueInClient
  BY DEF UniqueInClient
<1>2. \A u \in Threads : /\ pc[u] \in Filed => future[u] # "broken"
                         /\ outcome[u] # "throw"
  BY <1>1 DEF NoBrokenPromise
<1>3. ASSUME NEW t \in Threads, pc[t] \in {"register"} \cup Filed,
             Entry(t) # NoThread
      PROVE  Entry(t) = t /\ pc[t] \in Filed
  BY <1>1, <1>3, EntryOwner, SameIdSameCall DEF TableSafe
<1> USE <1>2 DEF TableTypeOK, Goto, Return, Filed
<1>4. ASSUME NEW t \in Threads,
             Begin(t) \/ NoParticipant(t) \/ LoadSessionId(t) \/ StoreSessionId(t)
      PROVE  \A u \in Threads : /\ pc'[u] \in Filed => future'[u] # "broken"
                                /\ outcome'[u] # "throw"
  BY <1>4 DEF Begin, NoParticipant, LoadSessionId, StoreSessionId
<1>5. ASSUME NEW t \in Threads, Register(t)
      PROVE  \A u \in Threads : /\ pc'[u] \in Filed => future'[u] # "broken"
                                /\ outcome'[u] # "throw"
  <2>1. Entry(t) = NoThread
    BY <1>3, <1>5 DEF Register
  <2> QED
    BY <2>1, <1>5, CallersAssumption DEF Register, Abandon
<1>6. ASSUME NEW t \in Threads,
             Prepared(t) \/ Sent(t) \/ WakeReady(t) \/ WakeTimeout(t)
      PROVE  \A u \in Threads : /\ pc'[u] \in Filed => future'[u] # "broken"
                                /\ outcome'[u] # "throw"
  BY <1>6 DEF Prepared, Sent, Advance, WakeReady, WakeTimeout
<1>7. ASSUME NEW t \in Threads, SendFails(t) \/ FinishTimeout(t) \/ FinishReady(t)
      PROVE  \A u \in Threads : /\ pc'[u] \in Filed => future'[u] # "broken"
                                /\ outcome'[u] # "throw"
  <2>1. Entry(t) \in {t, NoThread}
    BY <1>3, <1>7 DEF SendFails, FinishTimeout, FinishReady
  <2>2. pc[t] = "ready" => future[t] = "value"
    BY DEF TableSafe, ReadyIsSet
  <2> QED
    BY <2>1, <2>2, <1>7, CallersAssumption
       DEF SendFails, FinishTimeout, FinishReady, Erase, Abandon
<1>8. ASSUME NEW c \in Clients, NEW s \in SessionIds, Resolve(c, s)
      PROVE  \A u \in Threads : /\ pc'[u] \in Filed => future'[u] # "broken"
                                /\ outcome'[u] # "throw"
  BY <1>8 DEF Resolve
<1>9. CASE UNCHANGED tableVars
  BY <1>9 DEF tableVars
<1> QED
  BY <1>4, <1>5, <1>6, <1>7, <1>8, <1>9 DEF TableNext, TableStep

-----------------------------------------------------------------------------
(* Ids drawn in turn *)

ProcessOfCall(x) == ProcessOf[ClientOf[x.thread]]

UniqueInProcess ==
    \A x, y \in issued : ProcessOfCall(x) = ProcessOfCall(y) /\ x.sid = y.sid => x = y

\* Nobody has moved the counter since a thread read it, and until the counter
\* wraps it is above every id that was handed out.
CounterAhead ==
    /\ \A t \in Threads :
           pc[t] = "store" => sessionId[t] = nextSessionId[ProcessOf[ClientOf[t]]]
    /\ \A x \in issued : LET next == nextSessionId[ProcessOfCall(x)] IN
           next # 0 => x.sid < next
    /\ UniqueInProcess

\* Below the wrap the increment is that of the natural numbers.
LEMMA NextId ==
    ASSUME NEW s \in SessionIds
    PROVE  (s + 1) % SessionMod = IF s + 1 = SessionMod THEN 0 ELSE s + 1
BY SessionAssumption DEF SessionIds

\* The one step that hands out an id.
LEMMA DrawInTurn ==
    ASSUME TableTypeOK, CounterAhead, DrawsInTurn, DrawsInTurn',
           NEW t \in Threads, StoreSessionId(t)
    PROVE  CounterAhead'
<1> USE CallersAssumption DEF TableTypeOK, Goto
<1> DEFINE p == ProcessOf[ClientOf[t]]
           s == nextSessionId[p]
<1>1. /\ p \in Processes /\ s \in SessionIds /\ SessionIds \subseteq Nat
      /\ pc[t] = "store" /\ sessionId[t] = s
      /\ issued' = issued \cup {Issue(t)} /\ UNCHANGED sessionId
      /\ pc' = [pc EXCEPT ![t] = "register"]
      /\ nextSessionId' = [nextSessionId EXCEPT ![p] = (s + 1) % SessionMod]
  <2>1. p \in Processes /\ s \in SessionIds /\ SessionIds \subseteq Nat
    BY SessionAssumption DEF SessionIds
  <2>2. pc[t] = "store" /\ sessionId[t] = s
    BY DEF StoreSessionId, CounterAhead
  <2> QED
    BY <2>1, <2>2 DEF StoreSessionId
<1>2. Issue(t).sid = s /\ ProcessOfCall(Issue(t)) = p /\ s # 0
  <2>1. Issue(t) \in issued' /\ Issue(t).sid = s /\ ProcessOfCall(Issue(t)) = p
    BY <1>1 DEF Issue, ProcessOfCall
  <2> QED
    BY <2>1 DEF DrawsInTurn
<1>3. nextSessionId'[p] = IF s + 1 = SessionMod THEN 0 ELSE s + 1
  BY <1>1, NextId
<1>4. \A q \in Processes : q # p => nextSessionId'[q] = nextSessionId[q]
  BY <1>1
<1>5. \A x \in issued : /\ ProcessOfCall(x) \in Processes /\ x.sid \in Nat
                        /\ ProcessOfCall(x) = p => x.sid < s
  BY <1>1, <1>2 DEF CounterAhead, ProcessOfCall
<1> HIDE DEF s, p
<1>6. \A u \in Threads : pc'[u] = "store" =>
          sessionId'[u] = nextSessionId'[ProcessOf[ClientOf[u]]]
  BY <1>1, <1>4 DEF CounterAhead, DrawsInTurn, p
<1>7. \A x \in issued' : nextSessionId'[ProcessOfCall(x)] # 0 =>
          x.sid < nextSessionId'[ProcessOfCall(x)]
  BY <1>1, <1>2, <1>3, <1>4, <1>5 DEF CounterAhead
<1>8. \A x, y \in issued' : ProcessOfCall(x) = ProcessOfCall(y) /\ x.sid = y.sid => x = y
  BY <1>1, <1>2, <1>5 DEF CounterAhead, UniqueInProcess
<1> QED
  BY <1>6, <1>7, <1>8 DEF CounterAhead, UniqueInProcess, ProcessOfCall

LEMMA CounterStep ==
    TableTypeOK /\ CounterAhead /\ DrawsInTurn /\ DrawsInTurn' /\ [TableNext]_tableVars
        => CounterAhead'
<1> SUFFICES ASSUME TableTypeOK, CounterAhead, DrawsInTurn, DrawsInTurn',
                    [TableNext]_tableVars
             PROVE  CounterAhead'
  OBVIOUS
<1> USE DEF TableTypeOK, CounterAhead, UniqueInProcess, ProcessOfCall, Goto, Return
<1>1. ASSUME NEW t \in Threads, Begin(t) \/ NoParticipant(t) \/ LoadSessionId(t)
      PROVE  CounterAhead'
  BY <1>1 DEF Begin, NoParticipant, LoadSessionId
<1>2. ASSUME NEW t \in Threads,
             \/ Register(t) \/ SendFails(t) \/ Prepared(t) \/ Sent(t)
             \/ WakeReady(t) \/ WakeTimeout(t) \/ FinishTimeout(t) \/ FinishReady(t)
      PROVE  CounterAhead'
  BY <1>2 DEF Register, SendFails, Prepared, Sent, Advance, WakeReady, WakeTimeout,
     FinishTimeout, FinishReady
<1>3. ASSUME NEW c \in Clients, NEW s \in SessionIds, Resolve(c, s) PROVE CounterAhead'
  BY <1>3 DEF Resolve
<1>4. CASE UNCHANGED tableVars
  BY <1>4 DEF tableVars
<1> QED
  BY <1>1, <1>2, <1>3, <1>4, DrawInTurn DEF TableNext, TableStep

\* Ids of one process are distinct as long as its threads draw them in turn and
\* the counter has not wrapped, for any size of the counter.
LEMMA InTurnDistinct == TableSafety /\ []DrawsInTurn => []UniqueInProcess
<1>1. TableInit => TableTypeOK /\ CounterAhead
  BY TypeInit DEF TableInit, CounterAhead, UniqueInProcess
<1>2. CounterAhead => UniqueInProcess
  BY DEF CounterAhead
<1> QED
  BY <1>1, <1>2, TypeStep, CounterStep, PTL DEF TableSafety

-----------------------------------------------------------------------------
(* The theorems *)

TableInv == TableTypeOK /\ TableSafe /\ InHistory /\ NoBrokenPromise

LEMMA TableInvariant == TableSafety => []TableInv
<1>1. TableInit => TableInv
  <2> SUFFICES ASSUME TableInit PROVE TableInv
    OBVIOUS
  <2> QED
    BY TypeInit DEF TableInit, TableInv, TableSafe, PendingOwned, NoOrphanedWaiter,
       ReadyIsSet, InHistory, NoBrokenPromise, Filed, TableTypeOK
<1>2. TableInv /\ [TableNext]_tableVars => TableInv'
  BY TypeStep, SafeStep, HistoryStep, BrokenStep DEF TableInv
<1> QED
  BY <1>1, <1>2, PTL DEF TableSafety

\* Every variable of the model keeps its type: in particular a session id is
\* always one of the SessionMod values and the table holds only callers.
THEOREM TypeCorrect == TableSpec => []TableTypeOK
BY TableInvariant, PTL DEF TableInv, TableSpec

\* Each entry of pending_requests_ belongs to a call of that client which is
\* in progress under that id and not yet answered.
THEOREM EntriesAreOwned == TableSpec => []PendingOwned
BY TableInvariant, PTL DEF TableInv, TableSafe, TableSpec

\* No call waits on a promise that handle_response can no longer find.
THEOREM WaitersAreFiled == TableSpec => []NoOrphanedWaiter
BY TableInvariant, PTL DEF TableInv, TableSafe, TableSpec

\* send_request throws only after one client was handed an id twice.
THEOREM NoThrowWithoutClash == TableSpec => []ThrowsOnlyOnClash
<1>1. TableInv => ThrowsOnlyOnClash
  BY DEF TableInv, NoBrokenPromise, ThrowsOnlyOnClash
<1> QED
  BY <1>1, TableInvariant, PTL DEF TableSpec

\* With an uncontended counter that has not wrapped no call throws: the unlocked
\* increment and the 16 bits are the only ways to a broken promise.
THEOREM NoThrowInTurn == TableSpec => ClashNeedsRaceOrWrap
<1>1. TableTypeOK /\ UniqueInProcess => UniqueInClient
  BY DEF UniqueInProcess, UniqueInClient, ProcessOfCall
<1>2. TableInv => TableTypeOK /\ (UniqueInClient => \A t \in Threads : outcome[t] # "throw")
  BY DEF TableInv, NoBrokenPromise
<1> QED
  BY <1>1, <1>2, TableInvariant, InTurnDistinct, PTL DEF TableSpec, ClashNeedsRaceOrWrap

=============================================================================
