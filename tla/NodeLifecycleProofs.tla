------------------------- MODULE NodeLifecycleProofs -------------------------
(***************************************************************************)
(* Proofs about NodeLifecycle, for any number of threads and nodes.        *)
(***************************************************************************)
EXTENDS NodeLifecycle, TLAPS

LEMMA NodeTypeInit == NodeInit => NodeTypeOK
<1> SUFFICES ASSUME NodeInit PROVE NodeTypeOK
  OBVIOUS
<1>1. stopRequested \in [Nodes -> BOOLEAN] /\ displaced \in BOOLEAN
  BY Zenon DEF NodeInit
<1> QED
  BY <1>1 DEF NodeInit, NodeTypeOK, States, Labels, Spinning

LEMMA NodeTypeStep == NodeTypeOK /\ [NodeNext]_vars => NodeTypeOK'
<1> SUFFICES ASSUME NodeTypeOK, [NodeNext]_vars PROVE NodeTypeOK'
  OBVIOUS
<1> USE NodeAssumption
    DEF NodeTypeOK, States, Labels, Spinning, Participants, nodeVars, history, Goto,
        Call, Transition, Advance
<1>1. ASSUME NEW n \in Nodes, NEW p \in Participants, AddEndpoint(n, p)
      PROVE  endpoints' \subseteq Endpoints
  <2>1. Live(n) \in BOOLEAN
    BY DEF Live
  <2>2. [node |-> n, on |-> p, live |-> Live(n)] \in Endpoints
    BY <2>1, Zenon DEF Endpoints
  <2> QED
    BY <1>1, <2>2 DEF AddEndpoint
<1>2. ASSUME NEW t \in Threads, NEW n \in Nodes, Init(t, n) PROVE NodeTypeOK'
  BY <1>2 DEF Init
<1>3. ASSUME NEW t \in Threads, NEW n \in Nodes,
             Start(t, n) \/ Stop(t, n) \/ RequestStop(t, n) \/ Spin(t, n)
      PROVE  NodeTypeOK'
  <2>1. ASSUME NEW b \in BOOLEAN
        PROVE  [stopRequested EXCEPT ![n] = b] \in [Nodes -> BOOLEAN]
    BY Zenon
  <2>2. stopRequested' \in [Nodes -> BOOLEAN]
    BY <1>3, <2>1, Zenon DEF Start, Stop, RequestStop, Spin
  <2> QED
    BY <1>3, <2>2 DEF Start, Stop, RequestStop, Spin
<1>4. ASSUME NEW t \in Threads, NEW n \in Nodes,
             Destroy(t, n) \/ DestroyRunning(t, n) \/ DestroyUninitialized(t, n)
      PROVE  NodeTypeOK'
  BY <1>4 DEF Destroy, DestroyRunning, DestroyUninitialized
<1>5. ASSUME NEW t \in Threads, NEW n \in Nodes,
             CreateEndpoint(t, n) \/ CreateTyped(t, n)
      PROVE  NodeTypeOK'
  BY <1>1, <1>5 DEF CreateEndpoint, CreateTyped
<1>6. ASSUME NEW t \in Threads, CreateDefault(t) PROVE NodeTypeOK'
  BY <1>1, <1>6 DEF CreateDefault
<1>7. ASSUME NEW t \in Threads, SpinStep(t) PROVE NodeTypeOK'
  BY <1>7 DEF SpinStep, CheckFlag, CheckRunning, SpinOnce, TestRuntime, RuntimeSpinOnce
<1>8. CASE UNCHANGED vars
  BY <1>8 DEF vars
<1> QED
  BY <1>2, <1>3, <1>4, <1>5, <1>6, <1>7, <1>8 DEF NodeNext, Operation

\* A thread about to call the runtime found it live, and only a destroy that
\* met the thread inside spin can have changed that.
CallersSafe ==
    /\ \A t \in Threads :
           pc[t] = "call" => runtime[at[t]] = "live" \/ at[t] \in underSpin
    /\ DanglingOnlyUnderSpin

LEMMA NodeSafeStep ==
    NodeTypeOK /\ RuntimeFollowsState /\ CallersSafe /\ [NodeNext]_vars
        => RuntimeFollowsState' /\ CallersSafe'
<1> SUFFICES ASSUME NodeTypeOK, RuntimeFollowsState, CallersSafe, [NodeNext]_vars
             PROVE  RuntimeFollowsState' /\ CallersSafe'
  OBVIOUS
<1> USE NodeAssumption
    DEF NodeTypeOK, RuntimeFollowsState, Live, CallersSafe, DanglingOnlyUnderSpin,
        Labels, Spinning, nodeVars, history, Goto, Call, Transition, Advance
<1>1. ASSUME NEW t \in Threads, NEW n \in Nodes, Init(t, n)
      PROVE  RuntimeFollowsState' /\ CallersSafe'
  BY <1>1 DEF Init
<1>2. ASSUME NEW t \in Threads, NEW n \in Nodes,
             Start(t, n) \/ Stop(t, n) \/ RequestStop(t, n) \/ Spin(t, n)
      PROVE  RuntimeFollowsState' /\ CallersSafe'
  BY <1>2 DEF Start, Stop, RequestStop, Spin
<1>3. ASSUME NEW t \in Threads, NEW n \in Nodes, Destroy(t, n)
      PROVE  RuntimeFollowsState' /\ CallersSafe'
  BY <1>3 DEF Destroy
<1>4. ASSUME NEW t \in Threads, NEW n \in Nodes,
             DestroyRunning(t, n) \/ DestroyUninitialized(t, n)
      PROVE  RuntimeFollowsState' /\ CallersSafe'
  BY <1>4 DEF DestroyRunning, DestroyUninitialized
<1>5. ASSUME NEW t \in Threads, NEW n \in Nodes,
             CreateEndpoint(t, n) \/ CreateTyped(t, n)
      PROVE  RuntimeFollowsState' /\ CallersSafe'
  <2>1. CASE CreateEndpoint(t, n)
    BY <2>1 DEF CreateEndpoint
  <2>2. CASE CreateTyped(t, n)
    BY <2>2 DEF CreateTyped
  <2> QED
    BY <1>5, <2>1, <2>2
<1>6. ASSUME NEW t \in Threads, CreateDefault(t)
      PROVE  RuntimeFollowsState' /\ CallersSafe'
  BY <1>6 DEF CreateDefault
<1>7. ASSUME NEW t \in Threads, SpinStep(t)
      PROVE  RuntimeFollowsState' /\ CallersSafe'
  BY <1>7 DEF SpinStep, CheckFlag, CheckRunning, SpinOnce, TestRuntime, RuntimeSpinOnce
<1>8. CASE UNCHANGED vars
  BY <1>8 DEF vars
<1> QED
  BY <1>1, <1>2, <1>3, <1>4, <1>5, <1>6, <1>7, <1>8 DEF NodeNext, Operation

\* No node of the process but n was ever initialised.
Alone(n) == \A m \in Nodes \ {n} : state[m] = "UNINITIALIZED"

\* The participant of an initialised node is the process's, as long as the node
\* is alone and no default participant has taken its place.
ParticipantInPlace ==
    /\ \A n \in Nodes :
           Live(n) /\ Alone(n) /\ n \notin bare /\ ~ displaced => participant = n
    /\ StrayNeedsNodeOrRace

LEMMA NodePlaceStep ==
    NodeTypeOK /\ RuntimeFollowsState /\ ParticipantInPlace /\ [NodeNext]_vars
        => ParticipantInPlace'
<1> SUFFICES ASSUME NodeTypeOK, RuntimeFollowsState, ParticipantInPlace, [NodeNext]_vars
             PROVE  ParticipantInPlace'
  OBVIOUS
<1> USE NodeAssumption DEF NodeTypeOK, nodeVars, history, Goto, Call, Transition, Advance
\* A node that is alone now was alone before; displaced and bare are not taken
\* back.
<1>1. ASSUME \A n \in Nodes : Alone(n)' => Alone(n), displaced => displaced',
             bare \subseteq bare', UNCHANGED endpoints
      PROVE  StrayNeedsNodeOrRace'
  <2>1. \A e \in endpoints : e.node \in Nodes
    BY DEF Endpoints
  <2> QED
    BY <1>1, <2>1 DEF ParticipantInPlace, StrayNeedsNodeOrRace, Alone
<1>2. ASSUME UNCHANGED <<state, participant, bare, displaced, endpoints>> PROVE ParticipantInPlace'
  BY <1>2 DEF ParticipantInPlace, StrayNeedsNodeOrRace, Live, Alone
<1>3. ASSUME NEW t \in Threads, NEW n \in Nodes, Init(t, n) \/ Destroy(t, n)
      PROVE  ParticipantInPlace'
  <2>1. \A m \in Nodes : Alone(m)' => Alone(m)
    BY <1>3 DEF Init, Destroy, Alone
  <2>2. StrayNeedsNodeOrRace'
    BY <1>1, <1>3, <2>1 DEF Init, Destroy
  <2>3. ASSUME NEW m \in Nodes, Live(m)', Alone(m)', m \notin bare', ~ displaced'
        PROVE  participant' = m
    BY <1>3, <2>3 DEF Init, Destroy, Live, Alone
  <2> QED
    BY <2>2, <2>3 DEF ParticipantInPlace
<1>4. ASSUME NEW t \in Threads, NEW n \in Nodes, Start(t, n) \/ Stop(t, n)
      PROVE  ParticipantInPlace'
  <2>1. /\ \A m \in Nodes : (Alone(m)' => Alone(m)) /\ (Live(m)' => Live(m))
        /\ UNCHANGED <<participant, bare, displaced, endpoints>>
    BY <1>4 DEF Start, Stop, Live, Alone
  <2> QED
    BY <1>1, <2>1 DEF ParticipantInPlace
\* An endpoint goes where the participant is, or to the node's own.
<1>5. ASSUME NEW t \in Threads, NEW n \in Nodes, CreateEndpoint(t, n) \/ CreateTyped(t, n)
      PROVE  ParticipantInPlace'
  <2>1. UNCHANGED <<state, participant, bare, displaced>>
    BY <1>5 DEF CreateEndpoint, CreateTyped
  <2>2. \A e \in endpoints' :
            e \in endpoints \/ e = [node |-> n, on |-> participant, live |-> Live(n)]
                             \/ e.on = e.node
    BY <1>5 DEF CreateEndpoint, CreateTyped, AddEndpoint
  <2> QED
    BY <2>1, <2>2 DEF ParticipantInPlace, StrayNeedsNodeOrRace, Live, Alone
<1>6. ASSUME NEW t \in Threads, CreateDefault(t) PROVE ParticipantInPlace'
  <2>1. /\ UNCHANGED <<state, bare>>
        /\ displaced' = (displaced \/ participant \in Nodes)
        /\ endpoints' = endpoints \cup {[node |-> at[t], on |-> t, live |-> Live(at[t])]}
        /\ at[t] \in Nodes
    BY <1>6 DEF CreateDefault, AddEndpoint
  <2>2. \A m \in Nodes : Live(m) /\ Alone(m) /\ m \notin bare => displaced'
    BY <2>1 DEF ParticipantInPlace
  <2> QED
    BY <2>1, <2>2 DEF ParticipantInPlace, StrayNeedsNodeOrRace, Live, Alone
<1>7. ASSUME NEW t \in Threads, NEW n \in Nodes,
             \/ RequestStop(t, n) \/ DestroyRunning(t, n) \/ DestroyUninitialized(t, n)
             \/ Spin(t, n)
      PROVE  ParticipantInPlace'
  BY <1>2, <1>7 DEF RequestStop, DestroyRunning, DestroyUninitialized, Spin
<1>8. ASSUME NEW t \in Threads, SpinStep(t) PROVE ParticipantInPlace'
  BY <1>2, <1>8 DEF SpinStep, CheckFlag, CheckRunning, SpinOnce, TestRuntime, RuntimeSpinOnce
<1>9. CASE UNCHANGED vars
  BY <1>2, <1>9 DEF vars
<1> QED
  BY <1>3, <1>4, <1>5, <1>6, <1>7, <1>8, <1>9 DEF NodeNext, Operation

LEMMA NodeInvariant ==
    NodeSpec => [](NodeTypeOK /\ RuntimeFollowsState /\ CallersSafe /\ ParticipantInPlace)
<1>1. NodeInit => RuntimeFollowsState /\ CallersSafe /\ ParticipantInPlace
  BY DEF NodeInit, RuntimeFollowsState, CallersSafe, DanglingOnlyUnderSpin,
         ParticipantInPlace, StrayNeedsNodeOrRace, Live
<1> QED
  BY <1>1, NodeTypeInit, NodeTypeStep, NodeSafeStep, NodePlaceStep, PTL DEF NodeSpec

\* Every variable of the node model keeps its type.
THEOREM NodeTypeCorrect == NodeSpec => []NodeTypeOK
BY NodeInvariant, PTL

\* A node owns a live runtime exactly while it is initialised, running or
\* stopped, whatever order its operations are called in and by whom.
THEOREM RuntimeInStep == NodeSpec => []RuntimeFollowsState
BY NodeInvariant, PTL

\* spin calls through a dangling runtime only if destroy ran during a spin.
THEOREM SpinSafeWithoutDestroy == NodeSpec => []DanglingOnlyUnderSpin
BY NodeInvariant, PTL DEF CallersSafe

\* With one node in the process, what is created through it while it is
\* initialised is on its participant, unless it has none, or a thread that found
\* none before init() put another in its place.
THEOREM StraysAreExplained == NodeSpec => []StrayNeedsNodeOrRace
BY NodeInvariant, PTL DEF ParticipantInPlace

=============================================================================
