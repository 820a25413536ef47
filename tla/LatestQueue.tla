----------------------------- MODULE LatestQueue -----------------------------
(***************************************************************************)
(* What the cache of a subscriber promises: a queue of at most Capacity    *)
(* items that gives up its oldest item for a new one, and from which items *)
(* are taken in the order in which they came, one at a time.               *)
(***************************************************************************)
EXTENDS Naturals, Sequences

CONSTANTS Items, Capacity

VARIABLE queue

\* The last n items of a sequence, or all of a shorter one.
Latest(n, seq) ==
    IF Len(seq) <= n THEN seq ELSE SubSeq(seq, Len(seq) - n + 1, Len(seq))

Put == \E x \in Items : queue' = Latest(Capacity, Append(queue, x))

Take == queue # <<>> /\ queue' = Tail(queue)

QueueSpec == queue = <<>> /\ [][Put \/ Take]_queue

=============================================================================
