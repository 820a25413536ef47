# A verification model of mcom

mcom is a C++17 communication library: topics, request/response services and
long-running actions over the mdds data distribution service, and a `Node` that
hands them out.  This directory holds TLA+ modules translated from its source,
TLC configurations that check them on small instances, and proofs that TLAPS
checks for every instance.  Paths below are relative to the repository, which
the manifest `PROJECT.json` reaches as `src/`.

## 1. The system

### Components

| Component | State | Operations | Interacts with |
|---|---|---|---|
| `ServiceManager` | `next_session_id_`, a plain `uint16_t`, one per process | `generate_session_id` | every service client of the process |
| `ServiceClient`, `ProtoServiceClient` | `pending_requests_`, a map from session id to promise, under `pending_mutex_` | `send_request` / `call` (any thread), `handle_response` (callback thread) | topics of its service; `ServiceManager` |
| `ServiceServer` | `offered_`, `handlers_` under `handlers_mutex_`, two `static thread_local` publishers | `offer`, `stop_offer`, `register_method`, `unregister_method`, `handle_request`, `send_response`, `send_error_response` | topics of its service |
| `ProtoServiceServer` | `offered_`, `request_sub_`, `response_pub_` with no lock, `handlers_` under `handlers_mutex_` | `offer`, `stop_offer`, `register_method`, `handle_request` | `TopicManager`; topics of its service |
| `Node` | `state_` under `state_mutex_`, `stop_requested_`, `runtime_node_` | `init`, `start`, `stop`, `destroy`, `spin`, `spin_once`, `request_stop`, `create_*` | mruntime, `TopicManager` |
| `TopicManager` | `participant_`, one per process, no lock | `get_participant`, `set_participant`, `create_*` | every endpoint |
| `ActionClient`, `ProtoActionClient` | `goal_handles_` under `goal_handles_mutex_`, `next_goal_id_`, `feedback_handler_` under `feedback_mutex_` | `send_goal`, `cancel_goal`, `get_result`, `subscribe_feedback`, `unsubscribe_feedback`, `on_goal_result`, `on_feedback` | four topics of its action |
| `GoalHandle` | atomics `status_`, `has_result_`, `cancel_requested_`, the result | `set_status`, `set_result`, `request_cancel`, `is_terminal` | shared by client and application |
| `ActionServer`, `ProtoActionServer` | `running_`, `initialized_`, endpoints, `goal_handles_`, handlers under `handlers_mutex_` | `init`, `start`, `stop`, `on_goal`, `on_cancel`, `accept_goal`, `reject_goal`, `publish_feedback`, `send_result` | four topics of its action |
| `ProtoSubscriber` | `pending_`, a cache of 64 messages, and the callback under one mutex; `callback_` of the outer object under none | `subscribe`, `unsubscribe`, `set_callback`, `read`, `on_raw_data` | mdds |
| `ProtoPublisher` | none that changes | `publish`, `publish_raw` | mdds |
| raw publishers and subscribers | none that changes anything | forward to mdds | mdds |

Application threads call the operations; mdds callback threads run
`handle_response`, `handle_request`, `on_goal`, `on_cancel`, `on_goal_result` and
`on_feedback`.  All of them meet in a few mutexes, in promises, in atomics, and
in three process-wide objects without any lock: the session counter, the
participant and the thread-local publishers.

### What is hard

* **Ids.** Calls and goals are matched to answers by counters that wrap, race,
  and are not unique across clients or processes.
* **Time limits.** A call or a wait may give up while its answer is on its way;
  the answer may also be repeated, late, or arrive before the caller has
  finished sending.
* **Locks held across calls.** `get_result` sleeps with a mutex; `on_goal`,
  `on_cancel`, `handle_request` and a subscriber's `on_raw_data` call the
  application with one; `destroy` calls `stop` with one.
* **Locks not held across a whole operation.** `read` looks at the oldest message
  and takes the oldest message in two sections; `offer` and `stop_offer` take no
  lock at all; a result is sent and stored in two steps.
* **Lifecycle.** A node is destroyed under `spin`; a server is stopped and
  started again; endpoints are created in an order callbacks can observe.

What makes each component correct: the pending table neither loses a waiting
call nor keeps a finished one; a caller gets the answer to its own request and
on its own topic; a node's runtime follows its state, and `spin` ends; a goal
handle's status, result and cancellation agree, on the client and with the
server; the cancel handler runs once, callbacks come back, and no publisher is
used before it exists; a subscriber's cache is the queue of the latest arrivals,
and a message keeps its timestamp; a call that returns a message was handled.

The full list of hazards, with the line where each bites and the property that
covers it, is in `PROJECT.json`.

## 2. The modules

| Module | Models | Composes |
|---|---|---|
| `PendingCalls` | session ids and the pending-request table; the abstract specification of a client | |
| `ServiceRpc` | clients, topics and servers of services | extends `PendingCalls` and implements its `TableSafety` |
| `ProtoServiceRpc` | the protobuf clients and servers | extends `PendingCalls` and implements its `TableSafety` |
| `NodeLifecycle` | nodes, the spin loop, the shared participant | |
| `LatestQueue` | what a subscriber's cache promises: a bounded queue that gives up its oldest item | |
| `ProtoSubscriber` | the protobuf publisher and subscriber of a topic | implements `LatestQueue` |
| `ActionClient` | action clients and goal handles, against an open server | |
| `ActionServer` | the action server's callbacks, workers and locks, against open clients | |
| `Actions` | an action: its clients and its server | extends `ActionClient`, an instance of `ActionServer` |
| `...Proofs` | the theorems of the module before the suffix | extend their module |
| `MC...` | constants for TLC | extend their module |

### PendingCalls

`pc` is the place of a thread in `send_request`: `load` and `store` are the read
and the write of `next_session_id_++`, `register` files the promise, `send` and
`write` prepare and publish, `wait` is `future.wait_for`, `timeout` and `ready`
are the two outcomes before `pending_mutex_` is taken again.  `future` is the
shared state of the call's promise: unset, a value, or broken, which is what
displacing or erasing an unsatisfied promise leaves.  The final section of
`send_request` is one step because the mutex is held from the erase to
`future.get()`.  `Resolve` is `handle_response`, for any filed id: the transport
is left to `ServiceRpc`.  `issued` is a history variable of ids handed out.

`ProtoServiceClient::call` takes the same steps; it differs in what makes a call
fail early, which the comments of `NoParticipant` and `SendFails` say.
`send_request_async` and `call_async` are one more thread each, and
`send_request_no_return` is a call with a shorter limit.

### ServiceRpc

The topics are two sets of messages that only grow, so a message may be received
late, repeatedly, in any order, or never: mdds promises nothing in this code.
Every table step happens together with its effect on the topics (`File`, `Write`,
`Leave`, `Deliver`).  Two facts about mdds are not in the repository and are
constants: whether it keeps a reader whose handle was dropped
(`ReaderRetained`), because `offer` and `send_request` both drop theirs, and
which thread runs which server's callback (`DispatchOf`), because the response
publishers are thread-local.  `okPublisher` and `errorPublisher` hold, for each
callback thread, the topic those publishers were created for.  `handle_request`
is one step: it holds `handlers_mutex_` throughout.  It does not look at
`offered_`, and neither does the model.

### ProtoServiceRpc

The table is again that of `PendingCalls`, and the endpoints are state, because
here they can be missing: `init` and `offer` ask `TopicManager` for them, take a
null pointer for an answer, and count as done.  `offer` is two steps, since a
request may arrive between its two assignments; `stop_offer` may come while a
request is handled, which the model keeps in `handling` until the response is
written, with `handlers_mutex_` held.  A dereferenced null pointer puts the
process in `dead`.  A response carries what the handler's wrapper hands back
(`Default`, an empty message) while `replied` is the history of what handlers
returned: `ValueMeansHandled` relates the two.  The same wrapper casts the
`ServiceRequest` to the method's own type, which is undefined behaviour for the
methods of `Miscast`: `HandlerMiscast` is the outcome in which the process dies,
the other outcomes are those of a handler that returns or throws anything.
`disturbed` is history: the server's request came outside `offer` ...
`stop_offer`, or was under way when `stop_offer` was called.

### ProtoSubscriber and LatestQueue

`delivery` says what the mdds thread does with the implementation's mutex: it
holds it while the application's callback runs (`callback`), and for ever if the
callback calls back into its own subscriber (`relock`).  `read` is two steps,
`ReadRaw` (the timestamp of the oldest message) and `DeserializeLast` (the oldest
message of that moment, removed), with `peeked` in between.  `set_callback` is two
steps as well: the outer object's `callback_` is assigned without a lock, and if
it is running then, the model stops (`torn`).  `arrivals` is the history of what
mdds delivered, and `disturbed` that of readers whose oldest message changed
hands between their two sections.

`LatestQueue` is the promise of the cache in two actions, `Put` and `Take`.
`ImplementsQueue` says that every step of a subscriber is one of them on
`pending`, or leaves it alone.

### NodeLifecycle

Operations that hold `state_mutex_` from start to end are one step; `spin`, which
does not, is five places (`flag`, `running`, `once`, `runtime`, `call`).
`DestroyRunning` leaves its thread at `stop` with the mutex: what follows in the
code is the second lock.  `crash` is a dereference of a missing runtime, after
which nothing runs.  `endpoints` records, for each endpoint made through a node,
the participant it ended up on; `CreateTyped` is the typed form that asks the
runtime node directly.  `bare` are the nodes whose runtime came up without a
participant, which `init` accepts; `underSpin` and `displaced` are history: nodes
destroyed under `spin`, and whether a default participant took a node's place.  A
failing `runtime_node_->init`
or `start` changes no state and is a stutter.

### ActionClient

The raw and the protobuf client take the same steps.  The holder of
`goal_handles_mutex_` is a variable because `get_result` keeps it while it polls
and because the application sees a handle between the two stores of
`set_result`: `StoreResult` ends with `has_result_`, `StoreStatus` is the rest.
The server is open: `Answer` publishes a result for any published goal, with any
status of `Wire`, any number of times, and feedback may come at any moment, for
`on_feedback` looks nothing up.  `GoalsOf` and `Subscribers` say how many goals a
client sends and which clients subscribe to feedback; the clients of an action
share its topics, and count their goals from 1 each.  `overtaken` is history:
goals whose result came before `send_goal` set a status itself.

### ActionServer

Two callback threads, `GoalThread` and `CancelThread`, and application workers.
The two mutexes are variables with holders.  `on_goal` is `file`, `enter`,
`handler` and, when the handler reports progress, `feedback`; `on_cancel` is
`enter` and `handler`, with `goal_handles_mutex_` held from the start.  The two
callbacks may overlap, since nothing here keeps mdds from running them on two
threads.  Each operation of the server takes the thread that calls it, a worker
or one of the callback threads of `Reentrant`, whose handlers call the server:
`start`, `stop` and the publication of `send_result` at once, `accept_goal`,
`reject_goal` and `publish_feedback` by way of the place `call`, where they wait
for `goal_handles_mutex_`, and `register_goal_handler` or
`register_cancel_handler` (`HandlerRegisters`) for a mutex that their own
callback holds.  A `send_result` is two steps, publish and store: it publishes
`ToWire(status)`, UNKNOWN for a status without a value on the wire, and stores the
status itself.

`init` leaves in `failed` the publishers it could not create, and is done all the
same; `crash` holds the null publisher that was used, after which nothing runs.
`outsideLife` is history: the server was used before `init` had returned, or
stopped.
The model is `ProtoActionServer`; the raw server shares `accept_goal`,
`reject_goal`, `send_result`, `start`, `stop` and `on_cancel`.

### Actions

The client's open server and the server's open clients are closed against each
other: `GoalArrives` and `CancelArrives` hand the server messages that a client
published, `SendResult` is the server's publication together with the client
module's `Answer`, and `StoreSent` the server's own handle.  A handler's reply
through `on_goal` reaches no client, as in the code.  `sending` is the status an
unfinished `send_result` was called with, and `serverOvertaken`, like
`overtaken`, the history of statuses set over a result.  Both sides start
initialised, with all endpoints; feedback and `stop` are left to the two modules.

## 3. The runs

Runs that pass:

| Run | Checks | Instance and why it is enough |
|---|---|---|
| `PendingCalls` | `TableTypeOK`, `PendingOwned`, `NoOrphanedWaiter`, `ThrowsOnlyOnClash`, `ClashNeedsRaceOrWrap`, `CallsReturn` | two threads on one client, three calls each, three session ids: the threads race for ids, and six ids drawn from three wrap and clash in every way |
| `ServiceRpc` | `RpcTypeOK`, `AnsweredAtHome`, refinement of `TableSafety` | two clients of one process, two services, a server and a callback thread for each: messages of both services are on the way at once, late or repeated |
| `SharedTopic` | `OwnAnswer`, `AnswerTakeable` | two clients of one service in one process, two calls each, one server, four session ids: both clients hear every answer, an answer can come when its call has given up and the client's next call waits, two threads that read the counter at once get one id, as two processes always do, and the last of four calls draws 0 |
| `ProtoServiceRpc` | `ProtoTypeOK`, `ValueMeansHandled`, `ServerDiesOnlyDisturbed`, `PatientCallEnds` | one client that calls twice, with two session ids so that the second is 0, and one server that is offered, withdrawn and offered again; a handler that replies an empty message or another one |
| `NodeLifecycle` | `NodeTypeOK`, `RuntimeFollowsState`, `DanglingOnlyUnderSpin`, `StrayNeedsNodeOrRace`, `StopEndsSpin` | two threads, one node: one spins while the other does anything |
| `ProtoSubscriber` | `SubscriberTypeOK`, `SuffixOfArrivals`, `TimestampOfMessage`, `ReadsReturn`, refinement of `LatestQueue` | two readers, a cache of two and three arrivals, so that it overflows; a message of the subscriber's type and one that is not, and two timestamps so that a pair can be wrong |
| `ActionClient` | `TerminalHasResult`, `StatusOfResult`, `OwnResult`, `NoFeedbackAfterUnsubscribe`, `WaitsInVain`, `TerminalIsFinal` | two threads on one client with two goals, and a third on another client of the same action with one: the first goals of the two clients have one id and get each other's results, the second goal's id is unique; one thread sends, one waits or cancels |
| `ActionServer` | `ServerTypeOK`, `CancelOncePerFiling`, `NullPublisherHasCause`, `NoOtherDeadlock`, `DeadlockIsForever`, `CallbacksReturn` | one goal id, which may be filed again, two workers, overlapping callbacks whose handlers both call the server; a status with a value on the wire and one without |
| `Actions` | `ActionsTypeOK`, `StatusAgreement`, `PublishedResultArrives` | one client thread, one goal, a worker and both handlers, all of which may send results, of a terminal status and of one that the wire turns into UNKNOWN |

Runs in which TLC finds what the code does against what its documents say:

| Run | Violated | In short |
|---|---|---|
| `DestroyRunningNode` | `DestroyReturns` | `destroy` on a running node locks its mutex twice |
| `TwoNodes` | `EndpointsAtHome` | endpoints land on another node's participant |
| `TerminalForever` | `TerminalForever` | a result that overtakes the last statement of `send_goal` is followed by EXECUTING, out of a terminal status |

Three more disagreements are stated by properties that pass, because the property
says what the code does instead:

* `ValueMeansHandled`: a method's reply is replaced by an empty message, though the
  usage in the header reads it.
* `WaitsInVain`: `get_result` keeps out the result it waits for.
* `ImplementsQueue`: `read` takes the oldest message, as its own documentation
  says and two comments inside it deny.  The mutant `DeserializeNewest` is what
  the comments describe; it breaks the queue.

`PROJECT.json` quotes the document of each of the six in its findings.

Many properties that pass are conditional, and the condition says how far the
code can be relied on:

* `ThrowsOnlyOnClash`: a call never throws *unless* its client was given an id
  twice.  `ClashNeedsRaceOrWrap` says when that can be: a call never throws
  *unless* two threads of its process were in `next_session_id_++` at once, or the
  counter has wrapped.
* `OwnAnswer`: an answer is one's own *when* the ids of calls that meet on a
  topic are distinct.  Two processes that call one service both count from 1, so
  there the condition fails, and so does the conclusion.  In the run `SharedTopic`
  the condition holds or fails with the order of the threads at the counter.
* `AnsweredAtHome`: a response goes to its caller's topic *unless* servers of
  different services share a callback thread, because of the thread-local
  publishers.
* `AnswerTakeable`: a response to a waiting call can be taken by its client
  *unless* its session id is 0, which `ServiceClient` takes for no session.
  `PatientCallEnds` shows that `ProtoServiceClient` has no such case.
* `ValueMeansHandled`: a returned message was handled *when* the ids of calls to
  one service are distinct; it is empty in any case.
* `ServerDiesOnlyDisturbed`: a protobuf server never uses a null publisher *but*
  for a request that came before `offer` had returned or is handled under
  `stop_offer`, or when `offer` could not create the publisher.
* `PatientCallEnds`: an answered call ends *unless* its client has no subscriber
  or dies, the server goes away, or the handler blocks on its server's mutex.
* `StrayNeedsNodeOrRace`: what is created through an initialised node is on its
  participant *unless* the node's runtime has none, another node of the process
  was initialised, as in the run `TwoNodes`, or a thread that had found no
  participant put a default one in the node's place, which takes one node only:
  `get_participant` has no lock.
* `TimestampOfMessage`: a message comes with its own timestamp *unless* another
  thread read, or the cache overflowed, between the two halves of `read`.
* `ReadsReturn`: a reader comes back *unless* a callback called its own
  subscriber, or was replaced while it ran.
* `StatusOfResult`: a handle shows its result's status *unless* the result came
  before `send_goal` marked it `EXECUTING`.
* `OwnResult`: a result is one's own *when* clients of one action use different
  goal ids; each client counts from 1, so two clients of one action do not, and
  in the run they take each other's results.
* `WaitsInVain`: `get_result` returns a result *only if* the handle had it before
  the wait began.
* `TerminalIsFinal`: a handle that shows a terminal status goes on showing one
  *unless* `send_goal` stores its own status over it, once, or another result
  arrives that ends nothing, such as a rejection.  The run `TerminalForever` shows
  the first of the two against the design's state machine.
* `CancelOncePerFiling`: the cancel handler runs once for a goal *per handle*: a
  goal that is sent again is filed again and may be cancelled again.
* `NullPublisherHasCause`: the action server never uses a publisher it lacks
  *unless* `init` could not create that one, or the server is used before `init`
  returned or after `stop`.  That `init` makes the subscribers first is harmless.
* `CallbacksReturn` of the server: a callback comes back *but for* the crossed
  locks of `on_goal` and `on_cancel` (`Crossed`), and a handler that asks for a
  mutex its own callback holds (`SelfLocked`): either handler by registering a
  handler, the cancel handler by `accept_goal`, `reject_goal`, `publish_feedback`
  or `send_result`.  `NoOtherDeadlock` says that in every other state a holder of
  one of the mutexes is at work when anyone waits, and `DeadlockIsForever` that the
  two deadlocks stay, so that `CallbacksReturn` names no case it need not name.
* `StatusAgreement`: client and server show one status for a goal both have a
  result of, or the client UNKNOWN for a status without a value on the wire,
  *unless* the server sent two, or a side set a status over its result:
  `send_goal` on the client (EXECUTING or ABORTED), `on_goal`, `accept_goal` or
  `reject_goal` on the server (EXECUTING or REJECTED).  TLC finds the property
  violated without any one of these alternatives.

Each condition is met by behaviours of the run's instance, and the mutants in
`PROJECT.json` show that each property fails when the code it depends on is
changed.

**Bounds.** `MaxCalls`, `MaxGoals` and `MaxArrivals` bound counters and histories
that a run would otherwise raise for ever; `SessionMod` is 2^16 in the code and 2
or 3 here, so that a wrap is reached where it matters (the proofs hold for every
value above 1); `Capacity` is 64 in the code and 2 here, less than the arrivals;
`MaxCancelCalls` bounds a count whose property is that it stays at most 1.
Symmetry is used only in `ActionClient`, which checks no liveness, over two
threads that every constant treats alike.  `ActionClient` and `SharedTopic` have a
view, which leaves out of a state what no guard and no property of the run reads
any more, such as the session id of a thread at rest; the comments of the two
`MCView`s list it.  `ActionClient` answers with one terminal status only: what
other statuses do to a handle is in `Actions`, and in the proofs.

**Deadlock** is checked in the runs `ServiceRpc`, `SharedTopic`, `ActionClient`,
`TerminalForever` and `Actions`.
It is off where the modelled program may stop: `PendingCalls` when every thread
has made its `MaxCalls` calls; `NodeLifecycle`, `ActionServer` and
`ProtoServiceRpc` after a crash or a self-lock; `ProtoSubscriber` once a callback was
replaced while it ran.

**Fairness.** A thread inside `send_request` keeps running and `wait_for` has a
time limit (`TableFairness`).  A thread in `spin` keeps looping.  A callback runs
on, and the application's handlers return; that is strong fairness in
`ActionServer` because a handler may call the server in between and disable its
own return for a step.  In `ProtoSubscriber` a callback returns and a reader
takes the mutex when it stays free.  `ActionsSpec` has the time limit of
`get_result`'s loop and a mdds that delivers: strong fairness, because a waiting
thread takes the mutex in between.  `ProtoSpec` has no time limits, so that an end
it proves is not due to one: requests and responses that can be received are.

## 4. The proofs

TLAPS proves, for any threads, clients, processes, servers, nodes and number of
session ids that meet the named assumptions of the modules, every invariant and
every action property that the passing runs check, and the refinements.

**The pending table** (`PendingCallsProofs`): `TypeCorrect`, `EntriesAreOwned`
(`PendingOwned`), `WaitersAreFiled` (`NoOrphanedWaiter`), `NoThrowWithoutClash`
(`ThrowsOnlyOnClash`), `NoThrowInTurn` (`ClashNeedsRaceOrWrap`).  The two table
properties are inductive together with the types: an entry is its owner's, and a
waiting owner has its entry, so a `Register` that displaces an entry breaks exactly
the promise it displaces.  That a throw needs a clash needs history: `InHistory`
says that the id of a call in progress is in `issued` under that call, and
`NoBrokenPromise` that without a clash in the client no call in progress has a
broken promise.  That a clash needs a race or a wrap is an invariant under the
condition `DrawsInTurn`: the counter is above every id drawn so far
(`CounterAhead`), so that the next one is new in its process.

**Services** (`ServiceRpcProofs`, `ProtoServiceRpcProofs`): the types, and
`RpcImplementsTable` and `ProtoImplementsTable`: every step of clients, servers
and topics is a step of `PendingCalls` or leaves its variables alone.  The
refinement gives both compositions the table's invariants, which
`RpcKeepsTablePromises` and `ProtoKeepsTablePromises` state.

* `ResponsesStayHome` (`AnsweredAtHome`) and `CallsGetTheirOwnAnswer`
  (`OwnAnswer`).  The inductive invariant adds where messages come from
  (`Traffic`: requests and responses carry the id of a call in `issued`, on its
  service's topic), where thread-local publishers point (`Publishers`) and whose
  answer a promise was given (`Answers`).
* `AnswersCanBeTaken` (`AnswerTakeable`): a waiting call's own promise is filed
  under its id, its client hears, and by `Traffic` and `Publishers` the response
  is on the client's topic.  `Deliverable` is the guard of `Deliver`.
* `ValueWasHandled` (`ValueMeansHandled`) needs `ReplyInv`: a response that says
  `OK` answers a call whose handler returned (`Wire`), a promise was given a
  response with its own id (`Got`), and ids are in `issued` under their calls;
  with distinct ids the response is then the call's own.
* `NullPublisherOnlyDisturbed` (`ServerDiesOnlyDisturbed`) needs only `OfferInv`: a
  server that is offered has a publisher unless creating it failed, and one that
  handles a request undisturbed is offered.
* `OwnAnswerInTurn` and `HandledInTurn` replace the condition on ids by one on the
  program: the callers that can hear each other's answers are in one process,
  draw their ids in turn, and the counter has not wrapped.

**Nodes** (`NodeLifecycleProofs`): `NodeTypeCorrect`, `RuntimeInStep`
(`RuntimeFollowsState`), `SpinSafeWithoutDestroy` (`DanglingOnlyUnderSpin`),
`StraysAreExplained` (`StrayNeedsNodeOrRace`).  The third needs `CallersSafe`: a
thread about to call the runtime is on a node whose runtime is live, or on one that
was destroyed under it.  The last needs `ParticipantInPlace`: an initialised node
that is alone in the process holds the participant until it is displaced.

**Subscribers** (`ProtoSubscriberProofs`): `SubscriberTypeCorrect`,
`SubscriberImplementsQueue` (`ImplementsQueue`), `CacheHoldsLatest`
(`SuffixOfArrivals`), `ReadTimestamp` (`TimestampOfMessage`).  The last needs that
the timestamp an undisturbed reader holds is still that of the head of the cache,
and that the head, by `SuffixOfArrivals`, is an arrival.

**Actions** (`ActionClientProofs`, `ActionServerProofs`, `ActionsProofs`):

* Clients: `ClientTypeCorrect`, `FeedbackStops` (`NoFeedbackAfterUnsubscribe`),
  `TerminalAfterResult` (`TerminalHasResult`), `StatusFollowsResult`
  (`StatusOfResult`), `ResultOfOwnGoal` (`OwnResult`), `NothingArrivesWhileWaiting`
  (`WaitsInVain`), `TerminalStays` (`TerminalIsFinal`).  The strengthenings say what
  a handle may look like at each place of the thread that sends its goal, and that
  the mutex is the callback's while it stores, and the waiting thread's while it
  polls.  The lemma `HandleChange` sums up what any step may do to a handle, and
  `TerminalStays` needs besides that `send_goal` stores over a goal's status at
  most once (`OnceSent`).
* Servers: `ServerTypeCorrect`, `CancelOnce` (`CancelOncePerFiling`),
  `NullPublisherExplained` (`NullPublisherHasCause`), `DeadlocksAreKnown`
  (`NoOtherDeadlock`), `DeadlocksLast` (`DeadlockIsForever`).  `CancelOnce` needs
  that a handle whose cancel handler has run is marked cancelled.  The deadlocks
  need `HandlersLocked`: who holds `handlers_mutex_` is determined by where the two
  callbacks are, as `Working` says of `goal_handles_mutex_`.
* Together: `CompositionIsBothHalves`: every step of the composition is a step of
  the clients' module, and of the server's module, or leaves its variables alone.
  What is proved of either against an open other side thus holds of both together:
  `ClientsKeepPromises`, and `ServersKeepPromises`, whose proof cites the lemmas of
  `ActionServerProofs` through an instance.  `ActionsTypeCorrect` (`ActionsTypeOK`)
  and `BothSidesAgree` (`StatusAgreement`) are new here.  The latter adds `SentInv`:
  the status a thread of the server is about to store, and one stored and not set
  over since, is on the wire, by `ToWire`, in a result sent for the goal.  A handle
  the client holds came from such a result too, so one status sent means one status
  shown.  `ServersKeepPromises` speaks of one cancel call for each filed handle and
  of the two deadlocks; the null publisher is not in it, because the composition
  begins with all endpoints created and never stops the server.

Only model-checked: liveness, which is out of the prover's reach (`CallsReturn`,
`PatientCallEnds`, `StopEndsSpin`, `ReadsReturn`, `CallbacksReturn`,
`PublishedResultArrives`), and the three violations.  `DeadlockIsForever` and
`NoOtherDeadlock` are the part of `CallbacksReturn` that is safety.

## 5. What is not modelled, and why

* mdds, mruntime and protobuf are not in the repository; mdds appears as the
  message sets and constants described above, mruntime as a runtime that is
  there or not.
* The raw `ActionServer`'s `on_send_goal` and its thread-local publishers.  The
  handler's steps are those of `on_goal` without the test of `running_`; the
  publishers' mechanism is in `ServiceRpc`.
* The raw `Publisher` and `Subscriber`, which forward every call and keep nothing
  that matters: `Subscriber::unsubscribe` clears a copy of the callback that
  nothing calls.
* The encoders and decoders of `service/types.h` and `action/types.h`: functions
  of one buffer that a unit test reaches.
* Payloads, topic names (a topic is its service or action), logging, and
  timestamps except in `ProtoSubscriber`.
* Action clients whose endpoints could not be created: `init` is done all the
  same, and the next `send_goal` or `cancel_goal` uses a null pointer, as
  `ProtoServiceRpc` models it for services.
* The raw `ActionClient` hands on the status on the wire as it is; `FromWire` is
  the switch of the protobuf client.
* A delivery to a subscriber that is being destroyed: `~ProtoSubscriberImpl`
  clears no callback, and whether mdds still delivers is its business.  In the
  models no new delivery begins after the reset, and one under way goes on.
* Object lifetime of the callers: callbacks capture `this`, `call_async` the
  client, and `send_goal_async` its argument by reference.
* Weak-memory effects of the unlocked `participant_`, `state_` in the
  destructor, and `offered_`; two threads that are in `get_participant` at once.

## 6. Plan

Done: all modules of section 2 and their runs, and a theorem for every invariant,
action property and refinement that a run checks.

Left, in the order in which it would add most:

1. The lemmas behind liveness that are safety, for the runs that check it: that the
   thread a spinning or reading thread waits for is itself enabled.
2. The raw `ActionServer` as a second server module, beside `ProtoActionServer`.
3. The encoders as operators over short buffers, with truncated input.
