--------------------------- MODULE ProtoSubscriber ---------------------------
(***************************************************************************)
(* A protobuf topic: ProtoPublisher, and ProtoSubscriber with the cache    *)
(* and the callback of ProtoSubscriberImpl.                                *)
(*                                                                         *)
(* on_raw_data runs on an mdds thread: it caches what arrived, drops the   *)
(* oldest beyond the capacity, and runs the application's callback, all    *)
(* under the mutex of the implementation object.  read, on any thread,     *)
(* takes that mutex twice: once to look at the timestamp of the oldest     *)
(* cached message and once to take the oldest cached message.              *)
(*                                                                         *)
(* mdds is not part of the repository: what was written may arrive late,   *)
(* repeatedly, out of order, or never.                                     *)
(***************************************************************************)
EXTENDS Naturals, Sequences

CONSTANTS
    Readers,       \* application threads that use the subscriber
    Messages,      \* messages, as bytes
    Stamps,        \* timestamps
    Parsable,      \* messages that parse as the subscriber's type
    SizeOf,        \* the number of bytes of a message
    MaxPayload,    \* MDDS_MAX_PAYLOAD_SIZE
    Capacity,      \* MAX_PENDING: 64 in the code
    MaxArrivals,   \* bound: messages that arrive
    NoSample       \* read returned false

ASSUME TopicAssumption ==
    /\ Parsable \subseteq Messages
    /\ SizeOf \in [Messages -> Nat]
    /\ MaxPayload \in Nat
    /\ Capacity \in Nat \ {0}
    /\ MaxArrivals \in Nat

Samples == [msg : Messages, stamp : Stamps]

ASSUME SampleAssumption == NoSample \notin Samples

VARIABLES
    written,     \* messages written on the topic, with their timestamps
    subscribed,  \* the reader has the implementation's callback
    callback,    \* ProtoSubscriber::callback_ is a function
    installed,   \* ProtoSubscriberImpl::callback_ is set
    pending,     \* pending_
    delivery,    \* what the mdds thread does with the mutex it holds
    pc,          \* where a thread is in read or set_callback
    peeked,      \* the local ts of a thread's read
    got,         \* what a thread's last read returned
    torn,        \* callback_ was assigned while it was running
    arrivals,    \* history: all that arrived, in order
    disturbed    \* history: threads for which the oldest message changed hands
                 \* between the two sections of their read

topicVars == <<written, subscribed>>
callbackVars == <<callback, installed, delivery, torn>>
readVars == <<pc, peeked, got, disturbed>>
subscriberVars == <<topicVars, callbackVars, readVars, pending, arrivals>>

SubscriberTypeOK ==
    /\ written \subseteq Samples
    /\ subscribed \in BOOLEAN /\ callback \in BOOLEAN /\ installed \in BOOLEAN
    /\ pending \in Seq(Samples) /\ Len(pending) <= Capacity
    /\ delivery \in {"none", "callback", "relock"}
    /\ pc \in [Readers -> {"idle", "peeked", "install"}]
    /\ peeked \in [Readers -> Stamps \cup {NoSample}]
    /\ got \in [Readers -> Samples \cup {NoSample}]
    /\ torn \in BOOLEAN
    /\ arrivals \in Seq(Samples)
    /\ disturbed \subseteq Readers

SubscriberInit ==
    /\ written = {} /\ subscribed = FALSE
    /\ callback = FALSE /\ installed = FALSE
    /\ pending = <<>> /\ delivery = "none"
    /\ pc = [r \in Readers |-> "idle"]
    /\ peeked = [r \in Readers |-> NoSample]
    /\ got = [r \in Readers |-> NoSample]
    /\ torn = FALSE
    /\ arrivals = <<>> /\ disturbed = {}

-----------------------------------------------------------------------------
(* Helpers *)

Goto(r, from, to) == pc[r] = from /\ pc' = [pc EXCEPT ![r] = to]

\* mutex_ is held between steps only while a callback runs.
Unlocked == delivery = "none"

\* Mutant: one more than the capacity is kept.
KeepOneMore(seq) ==
    IF Len(seq) <= Capacity + 1 THEN seq ELSE Tail(seq)

\* Mutant: what does not fit is not cached.
KeepOldest(seq) ==
    IF Len(seq) <= Capacity THEN seq ELSE SubSeq(seq, 1, Capacity)

\* while (pending_.size() > MAX_PENDING) pending_.pop_front();
Trim(seq) == IF Len(seq) <= Capacity THEN seq ELSE Tail(seq)

\* Threads whose read looked at the oldest message and has not taken one yet.
Peekers == {r \in Readers : pc[r] = "peeked"}

-----------------------------------------------------------------------------
(* ProtoPublisher *)

\* publish: a message of no bytes, or of too many, is dropped without a word.
Publish(m, ts) ==
    /\ SizeOf[m] \in 1 .. MaxPayload
    /\ written' = written \cup {[msg |-> m, stamp |-> ts]}
    /\ UNCHANGED <<subscribed, callbackVars, readVars, pending, arrivals>>

\* publish_raw writes any bytes.
PublishRaw(m, ts) ==
    /\ written' = written \cup {[msg |-> m, stamp |-> ts]}
    /\ UNCHANGED <<subscribed, callbackVars, readVars, pending, arrivals>>

-----------------------------------------------------------------------------
(* subscribe, unsubscribe, set_callback *)

Subscribe(r) ==
    /\ pc[r] = "idle"
    /\ subscribed' = TRUE
    /\ UNCHANGED <<written, callbackVars, readVars, pending, arrivals>>

\* A callback in progress is not waited for.
Unsubscribe(r) ==
    /\ pc[r] = "idle"
    /\ subscribed' = FALSE
    /\ UNCHANGED <<written, callbackVars, readVars, pending, arrivals>>

\* callback_ = std::move(callback), with no lock.
AssignCallback(r, function) ==
    /\ Goto(r, "idle", "install")
    /\ callback' = function
    /\ torn' = (torn \/ delivery = "callback")
    /\ UNCHANGED <<topicVars, installed, delivery, peeked, got, disturbed, pending,
                   arrivals>>

\* impl_->set_callback(...)
InstallCallback(r) ==
    /\ Goto(r, "install", "idle")
    /\ Unlocked
    /\ installed' = TRUE
    /\ UNCHANGED <<topicVars, callback, delivery, torn, peeked, got, disturbed,
                   pending, arrivals>>

-----------------------------------------------------------------------------
(* on_raw_data *)

\* The message is cached; it is handed to the callback if it parses.
OnRawData(s) ==
    /\ subscribed /\ Unlocked
    /\ Len(arrivals) < MaxArrivals
    /\ arrivals' = Append(arrivals, s)
    /\ pending' = Trim(Append(pending, s))
    /\ disturbed' = IF Len(pending) = Capacity THEN disturbed \cup Peekers
                    ELSE disturbed
    /\ delivery' = IF installed /\ callback /\ s.msg \in Parsable
                   THEN "callback" ELSE "none"
    /\ UNCHANGED <<topicVars, callback, installed, torn, pc, peeked, got>>

CallbackReturns ==
    /\ delivery = "callback"
    /\ delivery' = "none"
    /\ UNCHANGED <<topicVars, callback, installed, torn, readVars, pending, arrivals>>

\* The callback calls read, has_data or set_callback of its own subscriber,
\* which locks the mutex its thread holds.
CallbackCallsBack ==
    /\ delivery = "callback"
    /\ delivery' = "relock"
    /\ UNCHANGED <<topicVars, callback, installed, torn, readVars, pending, arrivals>>

-----------------------------------------------------------------------------
(* read *)

\* read_raw: the timestamp of the oldest message.
ReadRaw(r) ==
    /\ Goto(r, "idle", "peeked")
    /\ Unlocked /\ pending # <<>>
    /\ peeked' = [peeked EXCEPT ![r] = Head(pending).stamp]
    /\ disturbed' = disturbed \ {r}
    /\ UNCHANGED <<topicVars, callbackVars, got, pending, arrivals>>

ReadNothing(r) ==
    /\ pc[r] = "idle" /\ Unlocked /\ pending = <<>>
    /\ got' = [got EXCEPT ![r] = NoSample]
    /\ UNCHANGED <<topicVars, callbackVars, pc, peeked, disturbed, pending, arrivals>>

\* Mutant: the newest message is taken, as the name says.
DeserializeNewest(r) ==
    LET newest == pending[Len(pending)] IN
    /\ Goto(r, "peeked", "idle")
    /\ Unlocked /\ pending # <<>>
    /\ pending' = SubSeq(pending, 1, Len(pending) - 1)
    /\ got' = [got EXCEPT ![r] = IF newest.msg \in Parsable
                                 THEN [msg |-> newest.msg, stamp |-> peeked[r]]
                                 ELSE NoSample]
    /\ disturbed' = disturbed \cup (Peekers \ {r})
    /\ UNCHANGED <<topicVars, callbackVars, peeked, arrivals>>

\* deserialize_last: in spite of its name, the oldest message of now is removed,
\* and returned with the timestamp of before if it parses.
DeserializeLast(r) ==
    /\ Goto(r, "peeked", "idle")
    /\ Unlocked /\ pending # <<>>
    /\ pending' = Tail(pending)
    /\ got' = [got EXCEPT ![r] = IF Head(pending).msg \in Parsable
                                 THEN [msg |-> Head(pending).msg, stamp |-> peeked[r]]
                                 ELSE NoSample]
    /\ disturbed' = disturbed \cup (Peekers \ {r})
    /\ UNCHANGED <<topicVars, callbackVars, peeked, arrivals>>

\* Mutant: read waits for the message it has seen.
DeserializeWaits(r) ==
    /\ Goto(r, "peeked", "idle")
    /\ FALSE
    /\ UNCHANGED <<topicVars, callbackVars, peeked, got, disturbed, pending, arrivals>>

\* Other readers have emptied the cache in between.
DeserializeNothing(r) ==
    /\ Goto(r, "peeked", "idle")
    /\ Unlocked /\ pending = <<>>
    /\ got' = [got EXCEPT ![r] = NoSample]
    /\ UNCHANGED <<topicVars, callbackVars, peeked, disturbed, pending, arrivals>>

-----------------------------------------------------------------------------

\* A read or set_callback in progress goes on.
ReaderStep(r) == DeserializeLast(r) \/ DeserializeNothing(r) \/ InstallCallback(r)

ReaderCall(r) ==
    \/ Subscribe(r) \/ Unsubscribe(r)
    \/ \E function \in BOOLEAN : AssignCallback(r, function)
    \/ ReadRaw(r) \/ ReadNothing(r)

\* Once callback_ was assigned under a running call, anything may happen: the
\* model stops there.
SubscriberNext ==
    /\ ~ torn
    /\ \/ \E m \in Messages, ts \in Stamps : Publish(m, ts) \/ PublishRaw(m, ts)
       \/ \E s \in written : OnRawData(s)
       \/ CallbackReturns \/ CallbackCallsBack
       \/ \E r \in Readers : ReaderCall(r) \/ ReaderStep(r)

SubscriberSafety == SubscriberInit /\ [][SubscriberNext]_subscriberVars

\* The application's callback returns, unless it blocks on its own lock, and a
\* thread that can lock the mutex goes on.
SubscriberSpec ==
    /\ SubscriberSafety
    /\ WF_subscriberVars(~ torn /\ CallbackReturns)
    /\ \A r \in Readers : WF_subscriberVars(~ torn /\ ReaderStep(r))

-----------------------------------------------------------------------------
(* Properties *)

\* The cache always holds the latest arrivals, without a gap: read skips a
\* message only when more than Capacity have come since the last read.
SuffixOfArrivals ==
    pending = SubSeq(arrivals, Len(arrivals) - Len(pending) + 1, Len(arrivals))

\* read returns a message with the timestamp that came with it, unless another
\* thread read, or a message was dropped, between its two locked sections.
TimestampOfMessage ==
    \A r \in Readers :
        pc[r] = "idle" /\ got[r] # NoSample /\ r \notin disturbed
            => \E i \in 1 .. Len(arrivals) : arrivals[i] = got[r]

\* Every step treats the cache as a queue: read takes the oldest message, the
\* next one as its documentation says, and not the last one, as the comments
\* inside read and above deserialize_last have it.
Cache == INSTANCE LatestQueue WITH Items <- Samples, queue <- pending
ImplementsQueue == Cache!QueueSpec

\* A read or set_callback in progress returns, whatever messages come and
\* whoever empties the cache, unless a callback called its own subscriber or was
\* replaced while it ran.
ReadsReturn ==
    \A r \in Readers : pc[r] # "idle" ~> pc[r] = "idle" \/ delivery = "relock" \/ torn

=============================================================================
