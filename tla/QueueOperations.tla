--------------------------- MODULE QueueOperations ---------------------------
(***************************************************************************)
(* The queue controls a handler is given (queue/controls.go and            *)
(* queue/retry.go).  Each control is one or more calls of the two closures *)
(* that processNext builds, done() and requeue(after), so a control is     *)
(* modelled as the sequence of closure calls it makes, in order.           *)
(***************************************************************************)
EXTENDS Integers, Sequences

CONSTANTS Durations,      \* the durations handlers pass to RequeueAfter
          Errors,         \* the errors handlers meet
          NoErr           \* nil

(***************************************************************************)
(* Of an error ShouldRetry sees only whether the API server suggested a    *)
(* delay, the delay, and whether the error is of one of the transient      *)
(* kinds.  A ServerTimeout may suggest a delay of zero seconds.            *)
(***************************************************************************)
ErrorKind == [suggests : BOOLEAN, seconds : Nat, transient : BOOLEAN]

ASSUME ErrorsAssumption == Errors \subseteq ErrorKind /\ NoErr \notin Errors
ASSUME DurationsAssumption == Durations \subseteq Int

Retriable(err) == err.suggests \/ err.transient
RetryDelay(err) == IF err.suggests THEN err.seconds ELSE 0

CallDone == [closure |-> "done", after |-> 0]
CallRequeue(d) == [closure |-> "requeue", after |-> d]
Call == [closure : {"done", "requeue"}, after : Int]

Done == <<CallDone>>
RequeueAfter(d) == <<CallRequeue(d)>>
Requeue == <<CallRequeue(0)>>
RequeueErr == <<CallRequeue(0)>>

RequeueAPIErr(err) ==
    (IF Retriable(err) /\ RetryDelay(err) > 0
       THEN RequeueAfter(RetryDelay(err)) ELSE <<>>)
    \o (IF Retriable(err) THEN Requeue ELSE <<>>)
    \o Done

(***************************************************************************)
(* A use of a control by a handler: the error it leaves in Operations.err  *)
(* (NoErr: it does not touch err) and the closure calls it makes.          *)
(***************************************************************************)
ControlUses ==
    {[err |-> NoErr, calls |-> Done], [err |-> NoErr, calls |-> Requeue]}
    \cup {[err |-> NoErr, calls |-> RequeueAfter(d)] : d \in Durations}
    \cup {[err |-> e, calls |-> RequeueErr] : e \in Errors}
    \cup {[err |-> e, calls |-> RequeueAPIErr(e)] : e \in Errors}
==============================================================================
