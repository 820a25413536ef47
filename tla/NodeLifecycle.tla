---------------------------- MODULE NodeLifecycle ----------------------------
(***************************************************************************)
(* Node: its five states, the threads that drive them, the spin loop, and  *)
(* the process-wide TopicManager that every node shares.                   *)
(*                                                                         *)
(* init, start, stop, destroy and is_running hold state_mutex_ from their  *)
(* first statement to their last, so each is one step; the exception is    *)
(* destroy on a running node, which calls stop while it holds the mutex.   *)
(* spin, spin_once and TopicManager hold no lock: each access to shared    *)
(* state is a step of its own.                                             *)
(***************************************************************************)
EXTENDS Naturals

CONSTANTS
    Threads,        \* application threads
    Nodes,          \* Node objects of one process
    NoThread,       \* state_mutex_ is free
    NoParticipant   \* TopicManager::participant_ is null

ASSUME NodeAssumption ==
    /\ Threads \cap Nodes = {}
    /\ NoThread \notin Threads
    /\ NoParticipant \notin Threads \cup Nodes

VARIABLES
    state,          \* Node::state_
    stopRequested,  \* Node::stop_requested_
    runtime,        \* Node::runtime_node_: null, live, or reset by destroy
    bare,           \* nodes whose runtime came up without a participant
    mutex,          \* holder of state_mutex_, between steps
    pc,             \* where a thread is
    at,             \* the node a thread is working on
    participant,    \* TopicManager::participant_: a node's, or the default
                    \* one that a thread created on demand
    endpoints,      \* endpoints created through a node, and on what
    crash,          \* a null or dangling runtime_node_ was dereferenced
    underSpin,      \* history: nodes destroyed while a thread was in spin
    displaced       \* history: a default participant has taken a node's place

\* history: what is written once, and read to tell how something came about.
nodeVars == <<state, stopRequested, runtime, mutex>>
history == <<bare, underSpin, displaced>>
vars == <<nodeVars, pc, at, participant, endpoints, crash, history>>

States == {"UNINITIALIZED", "INITIALIZED", "RUNNING", "STOPPED", "DESTROYED"}

\* The places a thread can be inside spin and inside destroy.
Spinning == {"flag", "running", "once", "runtime", "call"}
Labels == {"idle", "create", "stop"} \cup Spinning

Participants == Nodes \cup Threads
Endpoints == [node : Nodes, on : Participants, live : BOOLEAN]

NodeTypeOK ==
    /\ state \in [Nodes -> States]
    /\ stopRequested \in [Nodes -> BOOLEAN]
    /\ runtime \in [Nodes -> {"null", "live", "reset"}]
    /\ mutex \in [Nodes -> Threads \cup {NoThread}]
    /\ pc \in [Threads -> Labels]
    /\ at \in [Threads -> Nodes]
    /\ participant \in Participants \cup {NoParticipant}
    /\ endpoints \subseteq Endpoints
    /\ crash \in {"none", "null", "dangling"}
    /\ bare \subseteq Nodes /\ underSpin \subseteq Nodes /\ displaced \in BOOLEAN

NodeInit ==
    /\ state = [n \in Nodes |-> "UNINITIALIZED"]
    /\ stopRequested = [n \in Nodes |-> FALSE]
    /\ runtime = [n \in Nodes |-> "null"]
    /\ mutex = [n \in Nodes |-> NoThread]
    /\ pc = [t \in Threads |-> "idle"]
    /\ at \in [Threads -> Nodes]
    /\ participant = NoParticipant
    /\ endpoints = {}
    /\ crash = "none"
    /\ bare = {} /\ underSpin = {} /\ displaced = FALSE

-----------------------------------------------------------------------------
(* Helpers *)

Live(n) == state[n] \in {"INITIALIZED", "RUNNING", "STOPPED"}

\* t calls an operation of n that takes state_mutex_ at once.
Call(t, n) == pc[t] = "idle" /\ mutex[n] = NoThread /\ at' = [at EXCEPT ![t] = n]

Transition(n, from, to) ==
    state[n] = from /\ state' = [state EXCEPT ![n] = to]

Goto(t, from, to) == pc[t] = from /\ pc' = [pc EXCEPT ![t] = to]

-----------------------------------------------------------------------------
(* init, start, stop, destroy *)

\* Mutant: init keeps a participant that the TopicManager has.
InitKeepsParticipant(t, n) ==
    /\ Call(t, n)
    /\ Transition(n, "UNINITIALIZED", "INITIALIZED")
    /\ runtime' = [runtime EXCEPT ![n] = "live"]
    /\ participant' = IF participant = NoParticipant THEN n ELSE participant
    /\ UNCHANGED <<stopRequested, mutex, pc, endpoints, crash, history>>

\* The runtime node comes up and its participant, if it has one, becomes the
\* process's.
Init(t, n) ==
    /\ Call(t, n)
    /\ Transition(n, "UNINITIALIZED", "INITIALIZED")
    /\ runtime' = [runtime EXCEPT ![n] = "live"]
    /\ \/ participant' = n /\ UNCHANGED bare
       \/ participant' = NoParticipant /\ bare' = bare \cup {n}
    /\ UNCHANGED <<stopRequested, mutex, pc, endpoints, crash, underSpin, displaced>>

Start(t, n) ==
    /\ Call(t, n)
    /\ Transition(n, "INITIALIZED", "RUNNING")
    /\ stopRequested' = [stopRequested EXCEPT ![n] = FALSE]
    /\ UNCHANGED <<runtime, mutex, pc, participant, endpoints, crash, history>>

Stop(t, n) ==
    /\ Call(t, n)
    /\ Transition(n, "RUNNING", "STOPPED")
    /\ stopRequested' = [stopRequested EXCEPT ![n] = TRUE]
    /\ UNCHANGED <<runtime, mutex, pc, participant, endpoints, crash, history>>

RequestStop(t, n) ==
    /\ pc[t] = "idle"
    /\ at' = [at EXCEPT ![t] = n]
    /\ stopRequested' = [stopRequested EXCEPT ![n] = TRUE]
    /\ UNCHANGED <<state, runtime, mutex, pc, participant, endpoints, crash, history>>

\* Mutant: destroy forgets its state transition.
DestroyKeepsState(t, n) ==
    /\ Call(t, n)
    /\ state[n] \in {"INITIALIZED", "STOPPED"}
    /\ runtime' = [runtime EXCEPT ![n] = "reset"]
    /\ participant' = NoParticipant
    /\ UNCHANGED <<state, stopRequested, mutex, pc, endpoints, crash, history>>

\* What another thread creates while destroy runs counts as created after it.
Destroy(t, n) ==
    /\ Call(t, n)
    /\ \E from \in {"INITIALIZED", "STOPPED"} : Transition(n, from, "DESTROYED")
    /\ runtime' = [runtime EXCEPT ![n] = "reset"]
    /\ participant' = NoParticipant
    /\ underSpin' = IF \E u \in Threads : pc[u] \in Spinning /\ at[u] = n
                    THEN underSpin \cup {n} ELSE underSpin
    /\ UNCHANGED <<stopRequested, mutex, pc, endpoints, crash, bare, displaced>>

\* destroy on a running node calls stop, which locks state_mutex_ again.
DestroyRunning(t, n) ==
    /\ Call(t, n)
    /\ state[n] = "RUNNING"
    /\ Goto(t, "idle", "stop")
    /\ mutex' = [mutex EXCEPT ![n] = t]
    /\ UNCHANGED <<state, stopRequested, runtime, participant, endpoints, crash, history>>

\* destroy on a node that was never initialised calls through a null pointer.
DestroyUninitialized(t, n) ==
    /\ Call(t, n)
    /\ state[n] = "UNINITIALIZED"
    /\ crash' = "null"
    /\ UNCHANGED <<nodeVars, pc, participant, endpoints, history>>

-----------------------------------------------------------------------------
(* spin *)

Advance(t, from, to) ==
    /\ Goto(t, from, to)
    /\ UNCHANGED <<nodeVars, at, participant, endpoints, crash, history>>

\* Mutant: do { ... } while, with the body inlined.
SpinDoWhile(t, n) ==
    /\ Goto(t, "idle", "call")
    /\ at' = [at EXCEPT ![t] = n]
    /\ UNCHANGED <<nodeVars, participant, endpoints, crash, history>>

Spin(t, n) ==
    /\ Goto(t, "idle", "flag")
    /\ at' = [at EXCEPT ![t] = n]
    /\ UNCHANGED <<nodeVars, participant, endpoints, crash, history>>

\* Mutant: the loop does not look at stop_requested_.
CheckNoFlag(t) == Advance(t, "flag", "running")

\* while (!stop_requested_ && is_running())
CheckFlag(t) == Advance(t, "flag", IF stopRequested[at[t]] THEN "idle" ELSE "running")

CheckRunning(t) ==
    /\ mutex[at[t]] = NoThread
    /\ Advance(t, "running", IF state[at[t]] = "RUNNING" THEN "once" ELSE "idle")

\* spin_once: is_running() once more, then runtime_node_ with no lock held.
SpinOnce(t) ==
    /\ mutex[at[t]] = NoThread
    /\ Advance(t, "once", IF state[at[t]] = "RUNNING" THEN "runtime" ELSE "flag")

TestRuntime(t) ==
    Advance(t, "runtime", IF runtime[at[t]] = "live" THEN "call" ELSE "flag")

RuntimeSpinOnce(t) ==
    /\ Goto(t, "call", "flag")
    /\ crash' = IF runtime[at[t]] = "live" THEN crash ELSE "dangling"
    /\ UNCHANGED <<nodeVars, at, participant, endpoints, history>>

-----------------------------------------------------------------------------
(* Endpoints: Node::create_* asks TopicManager::get_participant *)

AddEndpoint(n, p) ==
    endpoints' = endpoints \cup {[node |-> n, on |-> p, live |-> Live(n)]}

\* Mutant: get_participant returns a null participant.
CreateUnchecked(t, n) ==
    /\ pc[t] = "idle"
    /\ at' = [at EXCEPT ![t] = n]
    /\ AddEndpoint(n, participant)
    /\ UNCHANGED <<nodeVars, pc, participant, crash, history>>

CreateEndpoint(t, n) ==
    /\ pc[t] = "idle"
    /\ at' = [at EXCEPT ![t] = n]
    /\ \/ /\ participant # NoParticipant
          /\ AddEndpoint(n, participant)
          /\ UNCHANGED pc
       \/ /\ participant = NoParticipant
          /\ Goto(t, "idle", "create")
          /\ UNCHANGED endpoints
    /\ UNCHANGED <<nodeVars, participant, crash, history>>

\* The participant was null a moment ago: create one in domain 0.  A node that
\* was initialised meanwhile loses the place.
CreateDefault(t) ==
    /\ Goto(t, "create", "idle")
    /\ participant' = t
    /\ AddEndpoint(at[t], t)
    /\ displaced' = (displaced \/ participant \in Nodes)
    /\ UNCHANGED <<nodeVars, at, crash, bare, underSpin>>

\* The typed create_publisher and create_subscriber ask runtime_node_ itself,
\* and do not look whether there is one; without a participant they create
\* nothing.
CreateTyped(t, n) ==
    /\ pc[t] = "idle"
    /\ at' = [at EXCEPT ![t] = n]
    /\ \/ /\ runtime[n] = "live"
          /\ IF n \in bare THEN UNCHANGED endpoints ELSE AddEndpoint(n, n)
          /\ UNCHANGED crash
       \/ /\ runtime[n] # "live"
          /\ crash' = "null"
          /\ UNCHANGED endpoints
    /\ UNCHANGED <<nodeVars, pc, participant, history>>

-----------------------------------------------------------------------------

SpinStep(t) ==
    CheckFlag(t) \/ CheckRunning(t) \/ SpinOnce(t) \/ TestRuntime(t) \/ RuntimeSpinOnce(t)

Operation(t, n) ==
    \/ Init(t, n) \/ Start(t, n) \/ Stop(t, n) \/ RequestStop(t, n)
    \/ Destroy(t, n) \/ DestroyRunning(t, n) \/ DestroyUninitialized(t, n)
    \/ Spin(t, n) \/ CreateEndpoint(t, n) \/ CreateTyped(t, n)

NodeNext ==
    /\ crash = "none"
    /\ \E t \in Threads :
           SpinStep(t) \/ CreateDefault(t) \/ \E n \in Nodes : Operation(t, n)

\* A thread inside spin keeps looping: sleep_for returns, and the runtime's
\* spin_once does.
NodeSpec ==
    /\ NodeInit /\ [][NodeNext]_vars
    /\ \A t \in Threads : WF_vars(crash = "none" /\ SpinStep(t))

-----------------------------------------------------------------------------
(* Properties *)

\* The runtime exists exactly while the node is initialised, and whoever
\* holds state_mutex_ between steps holds it on a running node.
RuntimeFollowsState ==
    \A n \in Nodes :
        /\ runtime[n] = "live" <=> Live(n)
        /\ mutex[n] # NoThread => state[n] = "RUNNING"

\* spin never reaches a runtime that is gone, unless destroy ran while some
\* thread was inside spin on that node.
DanglingOnlyUnderSpin ==
    crash = "dangling" => underSpin # {}

\* An initialised node's endpoint is on another participant than the node's only
\* if another node of the process was initialised too, if the node's runtime has
\* no participant, or if a thread had found none just before the node was
\* initialised and made one after.
StrayNeedsNodeOrRace ==
    \A e \in endpoints :
        e.live /\ e.on # e.node =>
            \/ \E m \in Nodes \ {e.node} : state[m] # "UNINITIALIZED"
            \/ e.node \in bare
            \/ displaced

\* Once a started node is asked to stop, every thread in spin on it comes
\* out, unless destroy blocked on its own lock.
StopEndsSpin ==
    \A t \in Threads, n \in Nodes :
        /\ pc[t] \in Spinning /\ at[t] = n
        /\ stopRequested[n] /\ state[n] \notin {"UNINITIALIZED", "INITIALIZED"}
        ~> \/ pc[t] = "idle"
           \/ mutex[n] # NoThread
           \/ crash # "none"

\* destroy does not wait for a mutex its own thread holds.
DestroyReturns == \A t \in Threads : pc[t] = "stop" => mutex[at[t]] # t

\* What is created through an initialised node that has a participant is on that
\* participant.
EndpointsAtHome ==
    \A e \in endpoints : e.live /\ e.node \notin bare => e.on = e.node

=============================================================================
