------------------------ MODULE ProtoSubscriberProofs ------------------------
(***************************************************************************)
(* Proofs about ProtoSubscriber, for any number of readers, any capacity,  *)
(* any messages and any count of arrivals.                                 *)
(***************************************************************************)
EXTENDS ProtoSubscriber, TLAPS

-----------------------------------------------------------------------------
(* Sequences *)

LEMMA TailIsSubSeq ==
    ASSUME NEW S, NEW seq \in Seq(S), seq # <<>>
    PROVE  Tail(seq) = SubSeq(seq, 2, Len(seq))
OBVIOUS

LEMMA SeqHeadTail ==
    ASSUME NEW S, NEW seq \in Seq(S), seq # <<>>
    PROVE  /\ Len(seq) \in Nat \ {0}
           /\ Head(seq) \in S /\ Head(seq) = seq[1]
           /\ Tail(seq) \in Seq(S) /\ Len(Tail(seq)) = Len(seq) - 1
           /\ \A i \in 1 .. Len(seq) - 1 : Tail(seq)[i] = seq[i + 1]
OBVIOUS

LEMMA SeqAppend ==
    ASSUME NEW S, NEW seq \in Seq(S), NEW x \in S
    PROVE  /\ Len(seq) \in Nat
           /\ Append(seq, x) \in Seq(S) /\ Append(seq, x) # <<>>
           /\ Len(Append(seq, x)) = Len(seq) + 1
           /\ \A i \in 1 .. Len(seq) : Append(seq, x)[i] = seq[i]
           /\ Append(seq, x)[Len(seq) + 1] = x
OBVIOUS

\* Trim drops the oldest item of a sequence that is one too long.
LEMMA TrimLatest ==
    ASSUME NEW S, NEW all \in Seq(S), Len(all) <= Capacity + 1
    PROVE  /\ Trim(all) \in Seq(S)
           /\ Len(Trim(all)) <= Capacity
           /\ Trim(all) = IF Len(all) <= Capacity THEN all
                          ELSE SubSeq(all, Len(all) - Capacity + 1, Len(all))
<1>1. Capacity \in Nat \ {0} /\ Len(all) \in Nat
  BY TopicAssumption
<1>2. CASE Len(all) <= Capacity
  BY <1>1, <1>2 DEF Trim
<1>3. CASE ~ Len(all) <= Capacity
  <2>1. Len(all) = Capacity + 1
    BY <1>1, <1>3
  <2>2. all # <<>> /\ Trim(all) = Tail(all)
    BY <1>1, <1>3 DEF Trim
  <2>3. Tail(all) \in Seq(S) /\ Len(Tail(all)) = Capacity
    BY <1>1, <2>1, <2>2
  <2>4. Tail(all) = SubSeq(all, Len(all) - Capacity + 1, Len(all))
    BY <1>1, <2>1, <2>2, TailIsSubSeq
  <2> QED
    BY <1>1, <1>3, <2>2, <2>3, <2>4
<1> QED
  BY <1>2, <1>3

\* What becomes of the cache when a message arrives.
LEMMA TrimAppend ==
    ASSUME NEW S, NEW seq \in Seq(S), Len(seq) <= Capacity, NEW x \in S
    PROVE  /\ Trim(Append(seq, x)) \in Seq(S)
           /\ Len(Trim(Append(seq, x))) <= Capacity
           /\ Trim(Append(seq, x)) =
                  IF Len(Append(seq, x)) <= Capacity THEN Append(seq, x)
                  ELSE SubSeq(Append(seq, x), Len(Append(seq, x)) - Capacity + 1,
                              Len(Append(seq, x)))
<1>1. /\ Append(seq, x) \in Seq(S)
      /\ Len(Append(seq, x)) <= Capacity + 1
  BY TopicAssumption
<1> QED
  BY <1>1, TrimLatest

-----------------------------------------------------------------------------
(* Types *)

\* A thread between the two sections of read has looked at a timestamp.
TypeInv ==
    /\ SubscriberTypeOK
    /\ \A r \in Readers : pc[r] = "peeked" => peeked[r] \in Stamps

LEMMA SubscriberTypeInit == SubscriberInit => TypeInv
<1> SUFFICES ASSUME SubscriberInit PROVE TypeInv
  OBVIOUS
<1>1. /\ pending \in Seq(Samples) /\ Len(pending) <= Capacity
      /\ arrivals \in Seq(Samples)
  BY TopicAssumption DEF SubscriberInit
<1> QED
  BY <1>1 DEF SubscriberInit, SubscriberTypeOK, TypeInv

LEMMA SubscriberTypeStep == TypeInv /\ [SubscriberNext]_subscriberVars => TypeInv'
<1> SUFFICES ASSUME TypeInv, [SubscriberNext]_subscriberVars PROVE TypeInv'
  OBVIOUS
<1> USE DEF TypeInv, SubscriberTypeOK, topicVars, callbackVars, readVars
<1>1. ASSUME NEW m \in Messages, NEW ts \in Stamps, Publish(m, ts) \/ PublishRaw(m, ts)
      PROVE  TypeInv'
  BY <1>1 DEF Publish, PublishRaw, Samples
<1>2. ASSUME NEW s \in written, OnRawData(s) PROVE TypeInv'
  <2>1. s \in Samples
    OBVIOUS
  <2>2. Trim(Append(pending, s)) \in Seq(Samples) /\ Len(Trim(Append(pending, s))) <= Capacity
    BY <2>1, TrimAppend
  <2>3. Append(arrivals, s) \in Seq(Samples)
    BY <2>1
  <2>4. pending' \in Seq(Samples) /\ Len(pending') <= Capacity /\ arrivals' \in Seq(Samples)
    BY <1>2, <2>2, <2>3 DEF OnRawData
  <2>5. disturbed' \subseteq Readers /\ delivery' \in {"none", "callback", "relock"}
    BY <1>2 DEF OnRawData, Peekers
  <2> QED
    BY <1>2, <2>4, <2>5 DEF OnRawData
<1>3. ASSUME CallbackReturns \/ CallbackCallsBack PROVE TypeInv'
  BY <1>3 DEF CallbackReturns, CallbackCallsBack
<1>4. ASSUME NEW r \in Readers, ReaderCall(r) PROVE TypeInv'
  <2>1. CASE Subscribe(r) \/ Unsubscribe(r) \/ ReadNothing(r)
    BY <2>1 DEF Subscribe, Unsubscribe, ReadNothing
  <2>2. ASSUME NEW function \in BOOLEAN, AssignCallback(r, function) PROVE TypeInv'
    BY <2>2 DEF AssignCallback, Goto
  <2>3. CASE ReadRaw(r)
    <3>1. Head(pending) \in Samples
      BY <2>3, SeqHeadTail DEF ReadRaw
    <3> QED
      BY <2>3, <3>1 DEF ReadRaw, Goto, Samples
  <2> QED
    BY <1>4, <2>1, <2>2, <2>3 DEF ReaderCall
<1>5. ASSUME NEW r \in Readers, ReaderStep(r) PROVE TypeInv'
  <2>1. CASE InstallCallback(r)
    BY <2>1 DEF InstallCallback, Goto
  <2>2. CASE DeserializeNothing(r)
    BY <2>2 DEF DeserializeNothing, Goto
  <2>3. CASE DeserializeLast(r)
    <3>1. /\ Head(pending) \in Samples
          /\ pending' \in Seq(Samples) /\ Len(pending') <= Capacity
      BY <2>3, SeqHeadTail, TopicAssumption DEF DeserializeLast
    <3>2. got' \in [Readers -> Samples \cup {NoSample}]
      BY <2>3, <3>1 DEF DeserializeLast, Goto, Samples
    <3>3. disturbed' \subseteq Readers
      BY <2>3 DEF DeserializeLast, Peekers
    <3> QED
      BY <2>3, <3>1, <3>2, <3>3 DEF DeserializeLast, Goto
  <2> QED
    BY <1>5, <2>1, <2>2, <2>3 DEF ReaderStep
<1>6. CASE UNCHANGED subscriberVars
  BY <1>6 DEF subscriberVars
<1> QED
  BY <1>1, <1>2, <1>3, <1>4, <1>5, <1>6 DEF SubscriberNext

LEMMA SubscriberTypeInvariant == SubscriberSafety => []TypeInv
BY SubscriberTypeInit, SubscriberTypeStep, PTL DEF SubscriberSafety

\* Every variable keeps its type; in particular the cache never holds more
\* than its capacity.
THEOREM SubscriberTypeCorrect == SubscriberSafety => []SubscriberTypeOK
BY SubscriberTypeInvariant, PTL DEF TypeInv

-----------------------------------------------------------------------------
(* What a step does with the cache *)

\* pending changes only when a message arrives and when one is taken.
LEMMA CacheStep ==
    ASSUME TypeInv, [SubscriberNext]_subscriberVars
    PROVE  \/ \E s \in Samples :
                  /\ pending' = Trim(Append(pending, s))
                  /\ arrivals' = Append(arrivals, s)
           \/ pending # <<>> /\ pending' = Tail(pending) /\ UNCHANGED arrivals
           \/ UNCHANGED <<pending, arrivals>>
<1>1. ASSUME NEW s \in written, OnRawData(s)
      PROVE  /\ s \in Samples
             /\ pending' = Trim(Append(pending, s))
             /\ arrivals' = Append(arrivals, s)
  BY <1>1 DEF OnRawData, TypeInv, SubscriberTypeOK
<1>2. ASSUME NEW r \in Readers, DeserializeLast(r)
      PROVE  pending # <<>> /\ pending' = Tail(pending) /\ UNCHANGED arrivals
  BY <1>2 DEF DeserializeLast
<1>3. ASSUME NEW r \in Readers,
             ReaderCall(r) \/ DeserializeNothing(r) \/ InstallCallback(r)
      PROVE  UNCHANGED <<pending, arrivals>>
  BY <1>3 DEF ReaderCall, Subscribe, Unsubscribe, AssignCallback, ReadRaw, ReadNothing,
              DeserializeNothing, InstallCallback
<1>4. ASSUME NEW m \in Messages, NEW ts \in Stamps, Publish(m, ts) \/ PublishRaw(m, ts)
      PROVE  UNCHANGED <<pending, arrivals>>
  BY <1>4 DEF Publish, PublishRaw
<1>5. ASSUME CallbackReturns \/ CallbackCallsBack PROVE UNCHANGED <<pending, arrivals>>
  BY <1>5 DEF CallbackReturns, CallbackCallsBack
<1>6. CASE UNCHANGED subscriberVars
  BY <1>6 DEF subscriberVars
<1> QED
  BY <1>1, <1>2, <1>3, <1>4, <1>5, <1>6 DEF SubscriberNext, ReaderStep

-----------------------------------------------------------------------------
(* The cache is the queue it promises to be *)

\* ProtoSubscriberImpl's cache, with read's two sections, callbacks and any
\* number of readers, only ever does what the abstract queue allows.
THEOREM SubscriberImplementsQueue == SubscriberSafety => ImplementsQueue
<1>1. SubscriberInit => pending = <<>>
  BY DEF SubscriberInit
<1>2. TypeInv /\ [SubscriberNext]_subscriberVars => [Cache!Put \/ Cache!Take]_pending
  <2> SUFFICES ASSUME TypeInv, [SubscriberNext]_subscriberVars
               PROVE  [Cache!Put \/ Cache!Take]_pending
    OBVIOUS
  <2>1. ASSUME NEW s \in Samples, pending' = Trim(Append(pending, s)) PROVE Cache!Put
    <3>1. pending \in Seq(Samples) /\ Len(pending) <= Capacity
      BY DEF TypeInv, SubscriberTypeOK
    <3>2. pending' = Cache!Latest(Capacity, Append(pending, s))
      BY <2>1, <3>1, TrimAppend DEF Cache!Latest
    <3> QED
      BY <3>2 DEF Cache!Put
  <2>2. ASSUME pending # <<>>, pending' = Tail(pending) PROVE Cache!Take
    BY <2>2 DEF Cache!Take
  <2> QED
    BY <2>1, <2>2, CacheStep
<1> QED
  BY <1>1, <1>2, SubscriberTypeInvariant, PTL
     DEF SubscriberSafety, ImplementsQueue, Cache!QueueSpec

-----------------------------------------------------------------------------
(* The cache and the arrivals *)

\* The i-th cached message is the one that came as many arrivals before the
\* last as it stands before the end of the cache.
Suffix ==
    /\ Len(pending) <= Len(arrivals)
    /\ \A i \in 1 .. Len(pending) :
           pending[i] = arrivals[Len(arrivals) - Len(pending) + i]

LEMMA SuffixStep == TypeInv /\ Suffix /\ [SubscriberNext]_subscriberVars => Suffix'
<1> SUFFICES ASSUME TypeInv, Suffix, [SubscriberNext]_subscriberVars PROVE Suffix'
  OBVIOUS
<1> USE DEF Suffix
<1>0. /\ pending \in Seq(Samples) /\ arrivals \in Seq(Samples)
      /\ Len(pending) <= Capacity /\ Capacity \in Nat \ {0}
  BY TopicAssumption DEF TypeInv, SubscriberTypeOK
<1>1. ASSUME NEW s \in Samples, pending' = Trim(Append(pending, s)),
             arrivals' = Append(arrivals, s)
      PROVE  Suffix'
  <2> DEFINE all == Append(pending, s)
  <2>1. /\ Len(pending) \in Nat /\ Len(arrivals) \in Nat
        /\ all \in Seq(Samples) /\ all # <<>> /\ Len(all) = Len(pending) + 1
        /\ Len(arrivals') = Len(arrivals) + 1
    BY <1>0, <1>1, SeqAppend
  <2>2. \A i \in 1 .. Len(all) : all[i] = arrivals'[Len(arrivals') - Len(all) + i]
    <3> SUFFICES ASSUME NEW i \in 1 .. Len(all)
                 PROVE  all[i] = arrivals'[Len(arrivals') - Len(all) + i]
      OBVIOUS
    <3>1. CASE i = Len(all)
      BY <1>0, <1>1, <2>1, <3>1, SeqAppend
    <3>2. CASE i \in 1 .. Len(pending)
      <4>1. all[i] = pending[i]
        BY <1>0, <3>2, SeqAppend
      <4>2. pending[i] = arrivals[Len(arrivals) - Len(pending) + i]
        BY <3>2
      <4>3. Len(arrivals) - Len(pending) + i \in 1 .. Len(arrivals)
        BY <2>1, <3>2
      <4>4. arrivals[Len(arrivals) - Len(pending) + i]
                = arrivals'[Len(arrivals) - Len(pending) + i]
        BY <1>0, <1>1, <4>3, SeqAppend
      <4>5. Len(arrivals') - Len(all) + i = Len(arrivals) - Len(pending) + i
        BY <2>1, <3>2
      <4> QED
        BY <4>1, <4>2, <4>4, <4>5
    <3> QED
      BY <2>1, <3>1, <3>2
  <2> HIDE DEF all
  <2>3. CASE Len(all) <= Capacity
    <3>1. pending' = all
      BY <1>1, <2>3 DEF Trim, all
    <3>2. Len(all) <= Len(arrivals')
      BY <2>1
    <3> QED
      BY <2>2, <3>1, <3>2
  <2>4. CASE ~ Len(all) <= Capacity
    <3>1. pending' = Tail(all)
      BY <1>1, <2>4 DEF Trim, all
    <3>2. /\ Len(pending') = Len(all) - 1
          /\ \A i \in 1 .. Len(all) - 1 : pending'[i] = all[i + 1]
      BY <2>1, <3>1, SeqHeadTail
    <3>3. Len(pending') <= Len(arrivals')
      BY <2>1, <3>2
    <3>4. ASSUME NEW i \in 1 .. Len(pending')
          PROVE  pending'[i] = arrivals'[Len(arrivals') - Len(pending') + i]
      <4>1. i + 1 \in 1 .. Len(all) /\ pending'[i] = all[i + 1]
        BY <2>1, <3>2
      <4>2. Len(arrivals') - Len(all) + (i + 1) = Len(arrivals') - Len(pending') + i
        BY <2>1, <3>2
      <4> QED
        BY <2>2, <4>1, <4>2
    <3> QED
      BY <3>3, <3>4
  <2> QED
    BY <2>3, <2>4
<1>2. ASSUME pending # <<>>, pending' = Tail(pending), UNCHANGED arrivals
      PROVE  Suffix'
  BY <1>0, <1>2
<1>3. ASSUME UNCHANGED <<pending, arrivals>> PROVE Suffix'
  BY <1>3
<1> QED
  BY <1>1, <1>2, <1>3, CacheStep

LEMMA SuffixInvariant == SubscriberSafety => [](TypeInv /\ Suffix)
<1>1. SubscriberInit => Suffix
  BY DEF SubscriberInit, Suffix
<1> QED
  BY <1>1, SubscriberTypeInvariant, SuffixStep, PTL DEF SubscriberSafety

\* The cache always holds the latest arrivals, without a gap.
THEOREM CacheHoldsLatest == SubscriberSafety => []SuffixOfArrivals
<1>1. TypeInv /\ Suffix => SuffixOfArrivals
  <2> SUFFICES ASSUME TypeInv, Suffix PROVE SuffixOfArrivals
    OBVIOUS
  <2>1. pending \in Seq(Samples) /\ arrivals \in Seq(Samples)
    BY DEF TypeInv, SubscriberTypeOK
  <2> DEFINE last == SubSeq(arrivals, Len(arrivals) - Len(pending) + 1, Len(arrivals))
  <2>2. /\ last \in Seq(Samples) /\ Len(last) = Len(pending)
        /\ \A i \in 1 .. Len(last) : last[i] = pending[i]
    BY <2>1 DEF Suffix
  <2>3. pending = last
    <3> HIDE DEF last
    <3> QED
      BY <2>1, <2>2
  <2> QED
    BY <2>3 DEF SuffixOfArrivals
<1> QED
  BY <1>1, SuffixInvariant, PTL

-----------------------------------------------------------------------------
(* The timestamp that read returns *)

Arrived(s) == \E i \in 1 .. Len(arrivals) : arrivals[i] = s

\* The oldest message is still the one an undisturbed read has looked at, and
\* what the last undisturbed read returned has arrived.
StampInv ==
    \A r \in Readers : r \notin disturbed =>
        /\ pc[r] = "peeked" => pending # <<>> /\ peeked[r] = Head(pending).stamp
        /\ pc[r] # "peeked" /\ got[r] # NoSample => Arrived(got[r])

LEMMA HeadArrived ==
    ASSUME TypeInv, Suffix, pending # <<>>
    PROVE  Head(pending) \in Samples /\ Arrived(Head(pending))
<1>1. /\ pending \in Seq(Samples) /\ arrivals \in Seq(Samples)
  BY DEF TypeInv, SubscriberTypeOK
<1>2. Head(pending) = pending[1] /\ 1 \in 1 .. Len(pending)
  BY <1>1
<1>3. /\ Len(arrivals) - Len(pending) + 1 \in 1 .. Len(arrivals)
      /\ arrivals[Len(arrivals) - Len(pending) + 1] = Head(pending)
  BY <1>1, <1>2 DEF Suffix
<1> QED
  BY <1>1, <1>2, <1>3 DEF Arrived

LEMMA StampStep ==
    TypeInv /\ Suffix /\ StampInv /\ [SubscriberNext]_subscriberVars => StampInv'
<1> SUFFICES ASSUME TypeInv, Suffix, StampInv, [SubscriberNext]_subscriberVars
             PROVE  StampInv'
  OBVIOUS
<1>0. /\ pending \in Seq(Samples) /\ arrivals \in Seq(Samples)
      /\ Len(pending) <= Capacity /\ Capacity \in Nat \ {0}
      /\ pc \in [Readers -> {"idle", "peeked", "install"}]
      /\ got \in [Readers -> Samples \cup {NoSample}]
      /\ peeked \in [Readers -> Stamps \cup {NoSample}]
  BY TopicAssumption DEF TypeInv, SubscriberTypeOK
<1> USE DEF topicVars, callbackVars, readVars
<1>1. ASSUME NEW m \in Messages, NEW ts \in Stamps, Publish(m, ts) \/ PublishRaw(m, ts)
      PROVE  StampInv'
  BY <1>1 DEF Publish, PublishRaw, StampInv, Arrived
<1>2. ASSUME NEW s \in written, OnRawData(s) PROVE StampInv'
  <2>1. s \in Samples
    BY DEF TypeInv, SubscriberTypeOK
  <2>2. ASSUME NEW x, Arrived(x) PROVE Arrived(x)'
    BY <1>0, <1>2, <2>1, <2>2 DEF OnRawData, Arrived
  <2>3. CASE Len(pending) = Capacity
    <3>1. disturbed' = disturbed \cup Peekers
      BY <1>2, <2>3 DEF OnRawData
    <3> QED
      BY <1>2, <2>2, <3>1 DEF OnRawData, StampInv, Peekers
  <2>4. CASE Len(pending) # Capacity
    <3>1. pending' = Append(pending, s) /\ disturbed' = disturbed
      BY <1>0, <1>2, <2>1, <2>4 DEF OnRawData, Trim
    <3>2. pending # <<>> => pending' # <<>> /\ Head(pending') = Head(pending)
      BY <1>0, <2>1, <3>1
    <3> QED
      BY <1>2, <2>2, <3>1, <3>2 DEF OnRawData, StampInv
  <2> QED
    BY <2>3, <2>4
<1>3. ASSUME CallbackReturns \/ CallbackCallsBack PROVE StampInv'
  BY <1>3 DEF CallbackReturns, CallbackCallsBack, StampInv, Arrived
<1>4. ASSUME NEW r \in Readers, ReaderCall(r) PROVE StampInv'
  <2>1. CASE Subscribe(r) \/ Unsubscribe(r)
    BY <2>1 DEF Subscribe, Unsubscribe, StampInv, Arrived
  <2>2. CASE ReadNothing(r)
    BY <1>0, <2>2 DEF ReadNothing, StampInv, Arrived
  <2>3. ASSUME NEW function \in BOOLEAN, AssignCallback(r, function) PROVE StampInv'
    BY <1>0, <2>3 DEF AssignCallback, Goto, StampInv, Arrived
  <2>4. CASE ReadRaw(r)
    BY <1>0, <2>4 DEF ReadRaw, Goto, StampInv, Arrived
  <2> QED
    BY <1>4, <2>1, <2>2, <2>3, <2>4 DEF ReaderCall
<1>5. ASSUME NEW r \in Readers, ReaderStep(r) PROVE StampInv'
  <2>1. CASE InstallCallback(r)
    BY <1>0, <2>1 DEF InstallCallback, Goto, StampInv, Arrived
  <2>2. CASE DeserializeNothing(r)
    BY <1>0, <2>2 DEF DeserializeNothing, Goto, StampInv, Arrived
  <2>3. CASE DeserializeLast(r)
    <3>1. UNCHANGED arrivals /\ disturbed' = disturbed \cup (Peekers \ {r})
      BY <2>3 DEF DeserializeLast
    <3>2. Head(pending) \in Samples /\ Arrived(Head(pending))
      BY <2>3, HeadArrived DEF DeserializeLast
    <3>3. ASSUME r \notin disturbed', got'[r] # NoSample PROVE Arrived(got[r])'
      <4>1. peeked[r] = Head(pending).stamp
        BY <2>3, <3>1, <3>3 DEF DeserializeLast, Goto, StampInv
      <4>2. got'[r] = [msg |-> Head(pending).msg, stamp |-> peeked[r]]
        BY <1>0, <2>3, <3>3 DEF DeserializeLast
      <4>3. got'[r] = Head(pending)
        BY <3>2, <4>1, <4>2 DEF Samples
      <4> QED
        BY <3>1, <3>2, <4>3 DEF Arrived
    <3>4. ASSUME NEW q \in Readers, q # r, q \notin disturbed', pc'[q] # "peeked",
                 got'[q] # NoSample
          PROVE  Arrived(got[q])'
      BY <1>0, <2>3, <3>1, <3>4 DEF DeserializeLast, Goto, StampInv, Arrived
    <3>5. ASSUME NEW q \in Readers, q \notin disturbed' PROVE pc'[q] # "peeked"
      BY <1>0, <2>3, <3>1, <3>5 DEF DeserializeLast, Goto, Peekers
    <3> QED
      BY <3>3, <3>4, <3>5 DEF StampInv
  <2> QED
    BY <1>5, <2>1, <2>2, <2>3 DEF ReaderStep
<1>6. CASE UNCHANGED subscriberVars
  BY <1>6 DEF subscriberVars, StampInv, Arrived
<1> QED
  BY <1>1, <1>2, <1>3, <1>4, <1>5, <1>6 DEF SubscriberNext

\* read returns a message with the timestamp that came with it, unless
\* another thread read, or a message was dropped, between its two sections.
THEOREM ReadTimestamp == SubscriberSafety => []TimestampOfMessage
<1>1. SubscriberInit => StampInv
  BY DEF SubscriberInit, StampInv
<1>2. StampInv => TimestampOfMessage
  BY DEF StampInv, TimestampOfMessage, Arrived
<1> QED
  BY <1>1, <1>2, SuffixInvariant, StampStep, PTL DEF SubscriberSafety

=============================================================================
