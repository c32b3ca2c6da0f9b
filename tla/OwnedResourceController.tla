----------------------- MODULE OwnedResourceController -----------------------
(***************************************************************************)
(* OwnedResourceController (manager/controller.go): Start, its worker      *)
(* goroutines, and processNext, over the work queue of client-go.          *)
(*                                                                         *)
(* The sync function is the controller author's code.  Between being       *)
(* called and returning it may use any of the queue controls, several      *)
(* times (a sync built with handler.Parallel does), so it is modelled by   *)
(* every sequence of at most MaxUses control uses.  The closure calls a    *)
(* control makes are separate steps: other workers, informers and timers   *)
(* run in between.                                                         *)
(***************************************************************************)
EXTENDS WorkQueue, QueueOperations

CONSTANTS Workers,        \* the numThreads worker goroutines
          MaxUses         \* control uses per call of sync

ASSUME MaxUsesAssumption == MaxUses \in Nat

VARIABLES
    ctxDone,     \* the context given to Start is cancelled
    returned,    \* Start has returned
    pc,          \* where each worker is
    key,         \* processNext's key (NoKey: none)
    cancelled,   \* the per-key context's cancel function was called
    calls,       \* closure calls the control in use has still to make
    uses,        \* controls used in this call of sync
    err,         \* Operations.err
    owed         \* history: keys asked for since their last sync began

workerVars == <<pc, key, cancelled, calls, uses, err>>
vars == <<queueVars, workerVars, ctxDone, returned, owed>>

NoKey == [gvr |-> NoGVR, name |-> NoGVR]

PC == {"spawned", "get", "sync", "await", "release", "exited", "neverRan"}

TypeOK ==
    /\ QueueTypeOK
    /\ ctxDone \in BOOLEAN
    /\ returned \in BOOLEAN
    /\ pc \in [Workers -> PC]
    /\ key \in [Workers -> Key \cup {NoKey}]
    /\ cancelled \in [Workers -> BOOLEAN]
    /\ calls \in [Workers -> Seq(Call)]
    /\ uses \in [Workers -> 0..MaxUses]
    /\ err \in [Workers -> Errors \cup {NoErr}]
    /\ owed \subseteq Key

Init ==
    /\ QueueInit
    /\ ctxDone = FALSE
    /\ returned = FALSE
    /\ pc = [w \in Workers |-> "spawned"]
    /\ key = [w \in Workers |-> NoKey]
    /\ cancelled = [w \in Workers |-> FALSE]
    /\ calls = [w \in Workers |-> <<>>]
    /\ uses = [w \in Workers |-> 0]
    /\ err = [w \in Workers |-> NoErr]
    /\ owed = {}

(***************************************************************************)
(* The environment: the manager cancels the controller's context, and      *)
(* informers' event handlers add keys.                                     *)
(***************************************************************************)
CancelContext ==
    /\ ~ctxDone
    /\ ctxDone' = TRUE
    /\ UNCHANGED <<queueVars, workerVars, returned, owed>>

Notify(obj) ==
    /\ Add(GVRMetaNamespaceKeyFunc(obj))
    /\ owed' = owed \cup {GVRMetaNamespaceKeyFunc(obj)}
    /\ UNCHANGED <<processing, waiting, failures, shuttingDown,
                   workerVars, ctxDone, returned>>

(***************************************************************************)
(* Start and the worker goroutines.  Start returns, and shuts the queue    *)
(* down, as soon as its context is cancelled; it does not wait for the     *)
(* workers.  wait.Until runs a worker unless the context is cancelled by   *)
(* the time the goroutine gets to it.                                      *)
(***************************************************************************)
\* A plausible slip: Start returns without shutting the queue down.
StartReturnsOnly ==
    /\ ctxDone
    /\ ~returned
    /\ returned' = TRUE
    /\ UNCHANGED <<queueVars, workerVars, ctxDone, owed>>

StartReturns ==
    /\ ctxDone
    /\ ~returned
    /\ returned' = TRUE
    /\ ShutDown
    /\ UNCHANGED <<queue, dirty, processing, failures, workerVars, ctxDone, owed>>

StartWorker(w) ==
    /\ pc[w] = "spawned"
    /\ pc' = [pc EXCEPT ![w] = IF ctxDone THEN "neverRan" ELSE "get"]
    /\ UNCHANGED <<queueVars, key, cancelled, calls, uses, err,
                   ctxDone, returned, owed>>

(***************************************************************************)
(* processNext.                                                            *)
(***************************************************************************)
\* Get returns a key.  A key that does not parse is reported and skipped.
ProcessNext(w, k) ==
    /\ pc[w] = "get"
    /\ QueueGet(k)
    /\ key' = [key EXCEPT ![w] = k]
    /\ owed' = owed \ {k}
    /\ pc' = [pc EXCEPT ![w] = IF SplitGVRMetaNamespaceKey(k) THEN "sync"
                                                             ELSE "release"]
    /\ UNCHANGED <<waiting, failures, shuttingDown, cancelled, calls, uses, err,
                   ctxDone, returned>>

\* A plausible slip: the worker loop watches its context instead of the queue.
QuitOnContext(w) ==
    /\ pc[w] = "get"
    /\ ctxDone
    /\ pc' = [pc EXCEPT ![w] = "exited"]
    /\ UNCHANGED <<queueVars, key, cancelled, calls, uses, err,
                   ctxDone, returned, owed>>

\* Get reports quit: the worker loop ends, and wait.Until does not restart it
\* because the queue is only shut down once the context is cancelled.
Quit(w) ==
    /\ pc[w] = "get"
    /\ QueueQuits
    /\ pc' = [pc EXCEPT ![w] = "exited"]
    /\ UNCHANGED <<queueVars, key, cancelled, calls, uses, err,
                   ctxDone, returned, owed>>

\* The sync function uses a control.  A parallel sync may use one after
\* another control has already cancelled the context.
UseControl(w, u) ==
    /\ pc[w] = "sync"
    /\ calls[w] = <<>>
    /\ uses[w] < MaxUses
    /\ uses' = [uses EXCEPT ![w] = @ + 1]
    /\ calls' = [calls EXCEPT ![w] = u.calls]
    /\ err' = [err EXCEPT ![w] = IF u.err = NoErr THEN @ ELSE u.err]
    /\ UNCHANGED <<queueVars, pc, key, cancelled, ctxDone, returned, owed>>

\* A plausible slip: done() also marks the key as done in the queue, as the
\* comment on Operations.Done has it, while sync is still running.
DoneReleasesKey(w) ==
    /\ cancelled' = [cancelled EXCEPT ![w] = TRUE]
    /\ Forget(key[w])
    /\ QueueDone(key[w])
    /\ UNCHANGED <<dirty, waiting, shuttingDown>>

\* A plausible slip: done() leaves the rate limiter alone.
DoneKeepsFailures(w) ==
    /\ cancelled' = [cancelled EXCEPT ![w] = TRUE]
    /\ UNCHANGED queueVars

\* The closure done.
DoneClosure(w) ==
    /\ cancelled' = [cancelled EXCEPT ![w] = TRUE]
    /\ Forget(key[w])
    /\ UNCHANGED <<queue, dirty, processing, waiting, shuttingDown>>

\* A plausible slip: a key whose context is already cancelled is not requeued.
RequeueOnce(w, after) ==
    /\ cancelled' = [cancelled EXCEPT ![w] = TRUE]
    /\ IF cancelled[w] THEN UNCHANGED <<queue, dirty, waiting, failures>>
       ELSE IF after = 0 THEN AddRateLimited(key[w])
       ELSE AddAfter(key[w], after) /\ UNCHANGED failures
    /\ UNCHANGED <<processing, shuttingDown>>

\* The closure requeue.
RequeueClosure(w, after) ==
    /\ cancelled' = [cancelled EXCEPT ![w] = TRUE]
    /\ IF after = 0 THEN AddRateLimited(key[w])
                    ELSE AddAfter(key[w], after) /\ UNCHANGED failures
    /\ UNCHANGED <<processing, shuttingDown>>

\* The control in use makes its next closure call.
CallClosure(w) ==
    /\ pc[w] = "sync"
    /\ calls[w] # <<>>
    /\ LET c == Head(calls[w]) IN
         \/ /\ c.closure = "done"
            /\ DoneClosure(w)
            /\ UNCHANGED owed
         \/ /\ c.closure = "requeue"
            /\ RequeueClosure(w, c.after)
            /\ owed' = owed \cup {key[w]}
    /\ calls' = [calls EXCEPT ![w] = Tail(@)]
    /\ UNCHANGED <<pc, key, uses, err, ctxDone, returned>>

\* sync returns; processNext calls done() whatever sync did.
SyncReturns(w) ==
    /\ pc[w] = "sync"
    /\ calls[w] = <<>>
    /\ DoneClosure(w)
    /\ pc' = [pc EXCEPT ![w] = "await"]
    /\ UNCHANGED <<key, calls, uses, err, ctxDone, returned, owed>>

\* processNext waits for the per-key context, a child of Start's.
AwaitContext(w) ==
    /\ pc[w] = "await"
    /\ cancelled[w] \/ ctxDone
    /\ pc' = [pc EXCEPT ![w] = "release"]
    /\ UNCHANGED <<queueVars, key, cancelled, calls, uses, err,
                   ctxDone, returned, owed>>

\* A plausible slip: the skipped key is never marked as done.
ReleaseParsed(w) ==
    /\ pc[w] = "release"
    /\ IF SplitGVRMetaNamespaceKey(key[w])
         THEN QueueDone(key[w]) ELSE UNCHANGED <<queue, processing>>
    /\ pc' = [pc EXCEPT ![w] = "get"]
    /\ key' = [key EXCEPT ![w] = NoKey]
    /\ cancelled' = [cancelled EXCEPT ![w] = FALSE]
    /\ uses' = [uses EXCEPT ![w] = 0]
    /\ err' = [err EXCEPT ![w] = NoErr]
    /\ UNCHANGED <<dirty, waiting, failures, shuttingDown, calls,
                   ctxDone, returned, owed>>

\* The deferred Queue.Done; the next call of processNext starts afresh.
Release(w) ==
    /\ pc[w] = "release"
    /\ QueueDone(key[w])
    /\ pc' = [pc EXCEPT ![w] = "get"]
    /\ key' = [key EXCEPT ![w] = NoKey]
    /\ cancelled' = [cancelled EXCEPT ![w] = FALSE]
    /\ uses' = [uses EXCEPT ![w] = 0]
    /\ err' = [err EXCEPT ![w] = NoErr]
    /\ UNCHANGED <<dirty, waiting, failures, shuttingDown, calls,
                   ctxDone, returned, owed>>

(***************************************************************************)
(* The delaying layer of the queue.                                        *)
(***************************************************************************)
FireDelayed(k) == Fire(k) /\ UNCHANGED <<workerVars, ctxDone, returned, owed>>

TimePasses == Tick /\ UNCHANGED <<workerVars, ctxDone, returned, owed>>

------------------------------------------------------------------------------
WorkerStep(w) ==
    \/ StartWorker(w)
    \/ \E k \in Key : ProcessNext(w, k)
    \/ Quit(w)
    \/ CallClosure(w)
    \/ SyncReturns(w)
    \/ AwaitContext(w)
    \/ Release(w)

Next ==
    \/ CancelContext
    \/ \E obj \in Notification : Notify(obj)
    \/ StartReturns
    \/ \E w \in Workers : WorkerStep(w)
    \/ \E w \in Workers, u \in ControlUses : UseControl(w, u)
    \/ \E k \in Key : FireDelayed(k)
    \/ TimePasses

(***************************************************************************)
(* Goroutines are scheduled, sync functions return, timers fire.  Nothing  *)
(* makes an informer deliver, a handler use a control, or the manager      *)
(* cancel the context.                                                     *)
(***************************************************************************)
Fairness ==
    /\ WF_vars(StartReturns)
    /\ \A w \in Workers : WF_vars(WorkerStep(w))
    /\ \A k \in Key : WF_vars(FireDelayed(k))
    /\ WF_vars(TimePasses)

Spec == Init /\ [][Next]_vars /\ Fairness

------------------------------------------------------------------------------
Holds(w) == pc[w] \in {"sync", "await", "release"}
Delayed == {k \in Key : waiting[k] # 0}

(***************************************************************************)
(* Two workers never run processNext on the same key at the same time,     *)
(* however often it is added, delayed or requeued while it is processed:   *)
(* the deferred Queue.Done comes after everything sync did.                *)
(***************************************************************************)
OneWorkerPerKey ==
    \A v, w \in Workers : v # w /\ Holds(v) /\ Holds(w) => key[v] # key[w]

(***************************************************************************)
(* Until the queue shuts down, a key that an informer added or a handler   *)
(* requeued, also while it was being processed and also when further       *)
(* controls followed, is in the queue's dirty set or has a timer running:  *)
(* the done() that processNext always calls takes no requeue back.         *)
(***************************************************************************)
NoLostRequeue == ~shuttingDown => owed \subseteq dirty \cup Delayed

(***************************************************************************)
(* The rate limiter remembers failures only of keys whose sync is running. *)
(* No entry leaks for a key that is not requeued; and, since processNext   *)
(* calls done() after every sync, the failures that Requeue counts are     *)
(* gone before the key runs again.                                         *)
(***************************************************************************)
FailuresForgotten ==
    \A k \in Key : failures[k] # 0 => \E w \in Workers : pc[w] = "sync" /\ key[w] = k

(***************************************************************************)
(* Workers that run drain the queue before they exit: when the last one is *)
(* gone no accepted key is left, neither in the queue nor re-added while   *)
(* it was processed.                                                       *)
(***************************************************************************)
DrainedAtExit ==
    (/\ \A w \in Workers : pc[w] \in {"exited", "neverRan"}
     /\ \E w \in Workers : pc[w] = "exited")
    => queue = <<>> /\ dirty = {} /\ processing = {}

(***************************************************************************)
(* Once the context is cancelled Start returns and every worker exits: no  *)
(* worker stays blocked in Get or on the per-key context.                  *)
(***************************************************************************)
Terminates ==
    ctxDone ~> returned /\ \A w \in Workers : pc[w] \in {"exited", "neverRan"}

(***************************************************************************)
(* The controller implements what ReconcileQueue promises, answering each  *)
(* request included.                                                       *)
(***************************************************************************)
Promise == INSTANCE ReconcileQueue WITH want <- owed, active <- processing,
                                        closed <- shuttingDown

ImplementsPromise == Promise!Spec
==============================================================================
