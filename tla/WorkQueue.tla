------------------------------ MODULE WorkQueue ------------------------------
(***************************************************************************)
(* The rate limiting work queue of client-go, an external component, as    *)
(* OwnedResourceController uses it: a de-duplicating FIFO queue (queue,    *)
(* dirty, processing), the delaying layer above it (waiting) and the       *)
(* per-item exponential rate limiter (failures).                           *)
(*                                                                         *)
(* Time is counted in ticks.  waiting[k] is the number of ticks left until *)
(* k is due, 0 when k is not delayed; a due key (1 tick left) is handed to *)
(* the queue at any later moment, so a late timer, and the longer delays   *)
(* of the token bucket limiter, are covered.                               *)
(***************************************************************************)
EXTENDS Integers, Sequences, CacheKeys

CONSTANTS MaxDelay,       \* the longest delay, in ticks
          MaxFailures,    \* failures beyond this no longer lengthen the delay
          Backoff         \* Backoff[n]: the delay after n failures

ASSUME DelayAssumption ==
    /\ MaxDelay \in Nat \ {0}
    /\ MaxFailures \in Nat
    /\ Backoff \in [0..MaxFailures -> 1..MaxDelay]

VARIABLES queue, dirty, processing, waiting, failures, shuttingDown

queueVars == <<queue, dirty, processing, waiting, failures, shuttingDown>>

QueueTypeOK ==
    /\ queue \in Seq(Key)
    /\ dirty \subseteq Key
    /\ processing \subseteq Key
    /\ waiting \in [Key -> 0..MaxDelay]
    /\ failures \in [Key -> 0..MaxFailures]
    /\ shuttingDown \in BOOLEAN

QueueInit ==
    /\ queue = <<>>
    /\ dirty = {}
    /\ processing = {}
    /\ waiting = [k \in Key |-> 0]
    /\ failures = [k \in Key |-> 0]
    /\ shuttingDown = FALSE

Least(a, b) == IF a < b THEN a ELSE b

Add(k) ==
    IF shuttingDown \/ k \in dirty
      THEN UNCHANGED <<queue, dirty>>
      ELSE /\ dirty' = dirty \cup {k}
           /\ queue' = IF k \in processing THEN queue ELSE Append(queue, k)

\* A key that is already delayed keeps the earlier of its two times.
AddAfter(k, d) ==
    IF d <= 0
      THEN Add(k) /\ UNCHANGED waiting
      ELSE /\ waiting' = IF shuttingDown THEN waiting
                         ELSE [waiting EXCEPT ![k] =
                                 IF @ = 0 THEN Least(d, MaxDelay)
                                 ELSE Least(@, Least(d, MaxDelay))]
           /\ UNCHANGED <<queue, dirty>>

AddRateLimited(k) ==
    /\ AddAfter(k, Backoff[failures[k]])
    /\ failures' = [failures EXCEPT ![k] = Least(@ + 1, MaxFailures)]

Forget(k) == failures' = [failures EXCEPT ![k] = 0]

QueueGet(k) ==
    /\ queue # <<>>
    /\ k = Head(queue)
    /\ queue' = Tail(queue)
    /\ processing' = processing \cup {k}
    /\ dirty' = dirty \ {k}

\* Get reports that the queue is drained and shutting down.
QueueQuits == queue = <<>> /\ shuttingDown

QueueDone(k) ==
    /\ processing' = processing \ {k}
    /\ queue' = IF k \in dirty THEN Append(queue, k) ELSE queue

\* Items still waiting for their time are dropped with the delaying layer.
ShutDown ==
    /\ shuttingDown' = TRUE
    /\ waiting' = [k \in Key |-> 0]

\* The delaying layer hands a due key to the queue.
Fire(k) ==
    /\ waiting[k] = 1
    /\ Add(k)
    /\ waiting' = [waiting EXCEPT ![k] = 0]
    /\ UNCHANGED <<processing, failures, shuttingDown>>

Tick ==
    /\ \E k \in Key : waiting[k] > 1
    /\ waiting' = [k \in Key |-> IF waiting[k] > 1 THEN waiting[k] - 1
                                                    ELSE waiting[k]]
    /\ UNCHANGED <<queue, dirty, processing, failures, shuttingDown>>
==============================================================================
