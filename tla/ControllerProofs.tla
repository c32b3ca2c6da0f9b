-------------------------- MODULE ControllerProofs ---------------------------
(***************************************************************************)
(* Theorems about a controller and a handler that runs in one:             *)
(* OwnedResourceController and EnsureComponent. The two share no state,    *)
(* and are proved about separately.                                        *)
(***************************************************************************)
EXTENDS OwnedResourceController, EnsureComponent, TLAPS

------------------------------------------------------------------------------
(***************************************************************************)
(* Theorems about OwnedResourceController, for any number of workers,      *)
(* keys, errors and control uses.                                          *)
(***************************************************************************)
(***************************************************************************)
(* The work queue's own invariant: the queue lists, once each, the dirty   *)
(* keys that no worker is processing.                                      *)
(***************************************************************************)
QueueInv ==
    /\ \A i \in 1..Len(queue) : queue[i] \in dirty /\ queue[i] \notin processing
    /\ \A i, j \in 1..Len(queue) : queue[i] = queue[j] => i = j
    /\ \A k \in dirty : k \notin processing => \E i \in 1..Len(queue) : queue[i] = k

(***************************************************************************)
(* The processing set is exactly the keys the workers hold, and no two     *)
(* workers hold the same one.                                              *)
(***************************************************************************)
HeldInv ==
    /\ \A w \in Workers : Holds(w) => key[w] \in processing
    /\ \A k \in processing : \E w \in Workers : Holds(w) /\ key[w] = k
    /\ OneWorkerPerKey

(***************************************************************************)
(* A worker only exits from a queue that is drained and closed; what is    *)
(* queued after that was put back by a worker that is still running.       *)
(***************************************************************************)
ExitInv ==
    (\E w \in Workers : pc[w] = "exited") =>
        /\ shuttingDown
        /\ queue # <<>> => \E w \in Workers : pc[w] = "get" \/ Holds(w)

SafetyInv == TypeOK /\ QueueInv /\ HeldInv

------------------------------------------------------------------------------
(***************************************************************************)
(* Lemmas about the controls and the queue's operations.                   *)
(***************************************************************************)

(* Every use of a control makes a sequence of closure calls and leaves an  *)
(* error or nil.                                                           *)
LEMMA ControlUsesType ==
    ASSUME NEW u \in ControlUses
    PROVE  u.calls \in Seq(Call) /\ u.err \in Errors \cup {NoErr}
<1>1. Done \in Seq(Call) /\ Requeue \in Seq(Call) /\ RequeueErr \in Seq(Call)
  BY DEF Done, Requeue, RequeueErr, CallDone, CallRequeue, Call
<1>2. \A d \in Int : RequeueAfter(d) \in Seq(Call)
  BY DEF RequeueAfter, CallRequeue, Call
<1>3. ASSUME NEW e \in Errors PROVE RequeueAPIErr(e) \in Seq(Call)
  <2>1. RetryDelay(e) \in Int
    BY ErrorsAssumption DEF RetryDelay, ErrorKind
  <2>2. RequeueAfter(RetryDelay(e)) \in Seq(Call)
    BY <1>2, <2>1, Zenon
  <2>3. <<>> \in Seq(Call)
    OBVIOUS
  <2> QED BY <1>1, <2>2, <2>3 DEF RequeueAPIErr
<1>4. CASE u \in {[err |-> NoErr, calls |-> Done], [err |-> NoErr, calls |-> Requeue]}
  BY <1>1, <1>4
<1>5. CASE u \in {[err |-> NoErr, calls |-> RequeueAfter(d)] : d \in Durations}
  <2>1. PICK d \in Durations : u = [err |-> NoErr, calls |-> RequeueAfter(d)]
    BY <1>5, Zenon
  <2> QED BY <1>2, <2>1, DurationsAssumption, Zenon
<1>6. CASE u \in {[err |-> e, calls |-> RequeueErr] : e \in Errors}
  <2>1. PICK e \in Errors : u = [err |-> e, calls |-> RequeueErr]
    BY <1>6, Zenon
  <2> QED BY <1>1, <2>1, Zenon
<1>7. CASE u \in {[err |-> e, calls |-> RequeueAPIErr(e)] : e \in Errors}
  <2>1. PICK e \in Errors : u = [err |-> e, calls |-> RequeueAPIErr(e)]
    BY <1>7, Zenon
  <2> QED BY <1>3, <2>1, Zenon
<1> QED BY <1>4, <1>5, <1>6, <1>7, Zenon DEF ControlUses

(* Add keeps the queue consistent, loses nothing, and until shutdown makes *)
(* the key dirty.                                                          *)
LEMMA AddLemma ==
    ASSUME QueueTypeOK, QueueInv, NEW k \in Key, Add(k), processing' = processing
    PROVE  /\ queue' \in Seq(Key) /\ dirty' \in SUBSET Key
           /\ QueueInv'
           /\ dirty \subseteq dirty'
           /\ ~shuttingDown => k \in dirty'
           /\ shuttingDown => queue' = queue /\ dirty' = dirty
<1>1. CASE shuttingDown \/ k \in dirty
  BY <1>1, SMTT(60) DEF Add, QueueTypeOK, QueueInv
<1>2. CASE ~(shuttingDown \/ k \in dirty) /\ k \in processing
  BY <1>2, SMTT(60) DEF Add, QueueTypeOK, QueueInv
<1>3. CASE ~(shuttingDown \/ k \in dirty) /\ k \notin processing
  <2>0. queue' = Append(queue, k) /\ dirty' = dirty \cup {k}
    BY <1>3, Zenon DEF Add
  <2>1. /\ queue' = Append(queue, k) /\ dirty' = dirty \cup {k}
        /\ queue \in Seq(Key) /\ queue' \in Seq(Key)
    BY <2>0 DEF QueueTypeOK
  <2>2. /\ Len(queue') = Len(queue) + 1
        /\ \A i \in 1..Len(queue) : queue'[i] = queue[i]
        /\ queue'[Len(queue) + 1] = k
        /\ Len(queue) \in Nat
    BY <2>1
  <2>3. QueueInv'
    BY <1>3, <2>1, <2>2 DEF QueueInv
  <2> QED BY <1>3, <2>1, <2>3, Zenon DEF QueueTypeOK
<1> QED BY <1>1, <1>2, <1>3, Zenon

(* Get hands out a key nobody is processing and keeps the rest in order.   *)
LEMMA GetLemma ==
    ASSUME QueueTypeOK, QueueInv, NEW k, QueueGet(k)
    PROVE  /\ k \in Key /\ k \in dirty /\ k \notin processing
           /\ queue' \in Seq(Key) /\ dirty' \in SUBSET Key /\ processing' \in SUBSET Key
           /\ QueueInv'
<1>1. /\ queue \in Seq(Key) /\ queue # <<>> /\ k = queue[1]
      /\ queue' = Tail(queue) /\ dirty' = dirty \ {k}
      /\ processing' = processing \cup {k}
  BY DEF QueueGet, QueueTypeOK
<1>2. /\ Len(queue) \in Nat \ {0} /\ Len(queue') = Len(queue) - 1
      /\ queue' \in Seq(Key)
      /\ \A i \in 1..Len(queue') : queue'[i] = queue[i + 1]
  BY <1>1
<1>3. k \in Key /\ k \in dirty /\ k \notin processing
  BY <1>1, <1>2 DEF QueueInv
<1>4. \A i \in 1..Len(queue') : queue'[i] \in dirty' /\ queue'[i] \notin processing'
  BY <1>1, <1>2 DEF QueueInv
<1>5. \A i, j \in 1..Len(queue') : queue'[i] = queue'[j] => i = j
  <2> SUFFICES ASSUME NEW i \in 1..Len(queue'), NEW j \in 1..Len(queue'),
                      queue'[i] = queue'[j]
               PROVE  i = j
    OBVIOUS
  <2>1. i + 1 \in 1..Len(queue) /\ j + 1 \in 1..Len(queue)
    BY <1>2
  <2>2. i + 1 = j + 1
    BY <1>2, <2>1, SMTT(60) DEF QueueInv
  <2> QED BY <2>2
<1>6. \A x \in dirty' : x \notin processing' => \E i \in 1..Len(queue') : queue'[i] = x
  <2> SUFFICES ASSUME NEW x \in dirty', x \notin processing'
               PROVE  \E i \in 1..Len(queue') : queue'[i] = x
    OBVIOUS
  <2>1. PICK i \in 1..Len(queue) : queue[i] = x
    BY <1>1, Zenon DEF QueueInv
  <2>2. i # 1 /\ i - 1 \in 1..Len(queue')
    BY <1>1, <1>2, <2>1
  <2>3. queue'[i - 1] = x
    BY <1>2, <2>1, <2>2
  <2> QED BY <2>2, <2>3, Zenon
<1> QED BY <1>1, <1>2, <1>3, <1>4, <1>5, <1>6 DEF QueueInv, QueueTypeOK

(* Done re-queues a key that was added while it was processed.             *)
LEMMA DoneLemma ==
    ASSUME QueueTypeOK, QueueInv, NEW k \in processing, QueueDone(k), dirty' = dirty
    PROVE  /\ queue' \in Seq(Key) /\ processing' \in SUBSET Key
           /\ QueueInv'
<1>0. k \in Key /\ queue \in Seq(Key) /\ Len(queue) \in Nat /\ processing' = processing \ {k}
  BY DEF QueueTypeOK, QueueDone
<1>1. CASE k \in dirty
  <2>1. queue' = Append(queue, k) /\ queue' \in Seq(Key)
    BY <1>0, <1>1 DEF QueueDone
  <2>2. /\ Len(queue') = Len(queue) + 1
        /\ \A i \in 1..Len(queue) : queue'[i] = queue[i]
        /\ queue'[Len(queue) + 1] = k
    BY <1>0, <2>1
  <2>3. k \in processing /\ k \notin processing'
    BY <1>0, Zenon
  <2>4. ASSUME NEW i \in 1..Len(queue')
        PROVE  queue'[i] \in dirty /\ queue'[i] \notin processing'
    <3>1. i \in 1..Len(queue) \/ i = Len(queue) + 1
      BY <1>0, <2>2
    <3> QED BY <1>0, <1>1, <2>2, <2>3, <3>1, Zenon DEF QueueInv
  <2>5. ASSUME NEW i \in 1..Len(queue'), NEW j \in 1..Len(queue'), queue'[i] = queue'[j]
        PROVE  i = j
    <3>1. (i \in 1..Len(queue) \/ i = Len(queue) + 1) /\ (j \in 1..Len(queue) \/ j = Len(queue) + 1)
      BY <1>0, <2>2
    <3>2. \A n \in 1..Len(queue) : queue[n] # k
      BY <2>3, Zenon DEF QueueInv
    <3> QED BY <2>2, <2>5, <3>1, <3>2 DEF QueueInv
  <2>6. ASSUME NEW x \in dirty, x \notin processing'
        PROVE  \E i \in 1..Len(queue') : queue'[i] = x
    <3>1. Len(queue) + 1 \in 1..Len(queue') /\ \A i \in 1..Len(queue) : i \in 1..Len(queue')
      BY <1>0, <2>2
    <3>2. CASE x = k
      BY <2>2, <3>1, <3>2, Zenon
    <3>3. CASE x # k
      <4>1. x \notin processing
        BY <1>0, <2>6, <3>3, Zenon
      <4>2. PICK i \in 1..Len(queue) : queue[i] = x
        BY <2>6, <4>1, Zenon DEF QueueInv
      <4> QED BY <2>2, <3>1, <4>2, Zenon
    <3> QED BY <3>2, <3>3, Zenon
  <2> QED BY <1>0, <2>1, <2>4, <2>5, <2>6, Zenon DEF QueueInv, QueueTypeOK
<1>2. CASE k \notin dirty
  BY <1>0, <1>2 DEF QueueDone, QueueInv, QueueTypeOK
<1> QED BY <1>1, <1>2, Zenon

(* The closure requeue adds or delays the key and takes nothing back.      *)
LEMMA RequeueLemma ==
    ASSUME TypeOK, QueueInv, NEW w \in Workers, key[w] \in Key,
           NEW d \in Int, RequeueClosure(w, d)
    PROVE  /\ QueueTypeOK' /\ cancelled' \in [Workers -> BOOLEAN]
           /\ QueueInv'
           /\ processing' = processing /\ shuttingDown' = shuttingDown
           /\ dirty \subseteq dirty'
           /\ \A k \in Key : waiting[k] # 0 => waiting'[k] # 0
           /\ ~shuttingDown => key[w] \in dirty' \/ waiting'[key[w]] # 0
           /\ shuttingDown => queue' = queue
           /\ \A k \in Key : k # key[w] => failures'[k] = failures[k]
<1> DEFINE k == key[w]
<1>a. QueueTypeOK /\ k \in Key /\ processing' = processing /\ shuttingDown' = shuttingDown
  BY Zenon DEF TypeOK, RequeueClosure
<1>b. cancelled' \in [Workers -> BOOLEAN]
  BY Zenon DEF RequeueClosure, TypeOK
<1>c. /\ failures' \in [Key -> 0..MaxFailures]
      /\ \A x \in Key : x # k => failures'[x] = failures[x]
  <2>1. CASE d = 0
    <3>1. failures' = [failures EXCEPT ![k] = Least(@ + 1, MaxFailures)]
      BY <2>1, Zenon DEF RequeueClosure, AddRateLimited
    <3>f. failures[k] \in 0..MaxFailures
      BY <1>a, Zenon DEF QueueTypeOK
    <3>2. Least(failures[k] + 1, MaxFailures) \in 0..MaxFailures
      BY <3>f, DelayAssumption, SMTT(60) DEF Least
    <3> QED BY <1>a, <3>1, <3>2, Zenon DEF QueueTypeOK
  <2>2. CASE d # 0
    BY <1>a, <2>2, Zenon DEF RequeueClosure, QueueTypeOK
  <2> QED BY <2>1, <2>2, Zenon
<1>d. PICK a \in Int : AddAfter(k, a)
  <2>1. CASE d = 0
    <3>1. AddAfter(k, Backoff[failures[k]])
      BY <2>1, Zenon DEF RequeueClosure, AddRateLimited
    <3>2. Backoff[failures[k]] \in Int
      BY <1>a, DelayAssumption DEF QueueTypeOK
    <3> QED BY <3>1, <3>2, Zenon
  <2>2. CASE d # 0
    BY <2>2, Zenon DEF RequeueClosure
  <2> QED BY <2>1, <2>2, Zenon
<1> HIDE DEF k
<1>e. CASE a <= 0
  <2>1. Add(k) /\ waiting' = waiting
    BY <1>d, <1>e, Zenon DEF AddAfter
  <2>2. /\ queue' \in Seq(Key) /\ dirty' \in SUBSET Key /\ QueueInv'
        /\ dirty \subseteq dirty'
        /\ ~shuttingDown => k \in dirty'
        /\ shuttingDown => queue' = queue
    BY <1>a, <2>1, AddLemma, Zenon
  <2> QED BY <1>a, <1>b, <1>c, <2>1, <2>2, Zenon DEF QueueTypeOK, k
<1>f. CASE a > 0
  <2>1. /\ queue' = queue /\ dirty' = dirty
        /\ waiting' = IF shuttingDown THEN waiting
                      ELSE [waiting EXCEPT ![k] =
                              IF @ = 0 THEN Least(a, MaxDelay)
                              ELSE Least(@, Least(a, MaxDelay))]
    BY <1>d, <1>f DEF AddAfter
  <2>2. Least(a, MaxDelay) \in 1..MaxDelay
    BY <1>f, DelayAssumption DEF Least
  <2>3. waiting[k] \in 0..MaxDelay /\ waiting \in [Key -> 0..MaxDelay]
    BY <1>a, Zenon DEF QueueTypeOK
  <2>4. waiting[k] # 0 => Least(waiting[k], Least(a, MaxDelay)) \in 1..MaxDelay
    BY <2>2, <2>3, DelayAssumption DEF Least
  <2>5. /\ waiting' \in [Key -> 0..MaxDelay]
        /\ \A x \in Key : waiting[x] # 0 => waiting'[x] # 0
        /\ ~shuttingDown => waiting'[k] # 0
    BY <1>a, <2>1, <2>2, <2>3, <2>4, DelayAssumption, SMTT(60)
  <2>6. QueueInv'
    BY <1>a, <2>1, Zenon DEF QueueInv
  <2> QED BY <1>a, <1>b, <1>c, <2>1, <2>5, <2>6, Zenon DEF QueueTypeOK, k
<1> QED BY <1>d, <1>e, <1>f

------------------------------------------------------------------------------
(***************************************************************************)
(* The type invariant, the queue invariant and mutual exclusion are        *)
(* inductive together.                                                     *)
(***************************************************************************)
LEMMA InitSafety == Init => SafetyInv
<1> SUFFICES ASSUME Init PROVE SafetyInv
  OBVIOUS
<1>0. QueueTypeOK
  <2>1. waiting \in [Key -> 0..MaxDelay] /\ failures \in [Key -> 0..MaxFailures]
    BY DelayAssumption DEF Init, QueueInit
  <2>2. queue \in Seq(Key)
    BY DEF Init, QueueInit
  <2> QED BY <2>1, <2>2, Zenon DEF Init, QueueInit, QueueTypeOK
<1>1. TypeOK
  <2>1. calls \in [Workers -> Seq(Call)]
    BY DEF Init
  <2>2. uses \in [Workers -> 0..MaxUses]
    BY MaxUsesAssumption DEF Init
  <2> QED BY <1>0, <2>1, <2>2, Zenon DEF Init, TypeOK, PC
<1>2. QueueInv
  BY DEF Init, QueueInit, QueueInv
<1>3. HeldInv
  BY Zenon DEF Init, QueueInit, HeldInv, OneWorkerPerKey, Holds
<1> QED BY <1>1, <1>2, <1>3, Zenon DEF SafetyInv

(* Adding the key of a notification. *)
LEMMA NotifyKey ==
    ASSUME NEW obj \in Notification
    PROVE  GVRMetaNamespaceKeyFunc(obj) \in Key
BY Zenon DEF Notification, GVRMetaNamespaceKeyFunc, GVRMetaNamespaceKeyer, Key

(* A step that moves no worker and no processing mark keeps HeldInv.       *)
LEMMA HeldFrame ==
    ASSUME HeldInv, UNCHANGED <<pc, key, processing>>
    PROVE  HeldInv'
BY Zenon DEF HeldInv, OneWorkerPerKey, Holds

(* A step that leaves queue, dirty and processing alone keeps QueueInv.    *)
LEMMA QueueFrame ==
    ASSUME QueueInv, UNCHANGED <<queue, dirty, processing>>
    PROVE  QueueInv'
BY Zenon DEF QueueInv

(* One step per action: first the types, then the queue, then who holds    *)
(* which key.                                                              *)
LEMMA NextSafety == SafetyInv /\ [Next]_vars => SafetyInv'
<1> SUFFICES ASSUME TypeOK, QueueInv, HeldInv, [Next]_vars
             PROVE  TypeOK' /\ QueueInv' /\ HeldInv'
  BY Zenon DEF SafetyInv
<1>0. /\ QueueTypeOK
      /\ \A w \in Workers : Holds(w) => key[w] \in Key /\ key[w] \in processing
  BY Zenon DEF TypeOK, QueueTypeOK, HeldInv
<1>1. CASE CancelContext
  <2>1. TypeOK'
    BY <1>1, Zenon DEF CancelContext, TypeOK, QueueTypeOK, queueVars, workerVars
  <2> QED BY <1>1, <2>1, QueueFrame, HeldFrame, Zenon DEF CancelContext, queueVars, workerVars
<1>2. ASSUME NEW obj \in Notification, Notify(obj)
      PROVE  TypeOK' /\ QueueInv' /\ HeldInv'
  <2> DEFINE k == GVRMetaNamespaceKeyFunc(obj)
  <2>1. k \in Key
    BY NotifyKey, Zenon
  <2>2. /\ Add(k) /\ owed' = owed \cup {k}
        /\ UNCHANGED <<processing, waiting, failures, shuttingDown,
                       workerVars, ctxDone, returned>>
    BY <1>2, Zenon DEF Notify
  <2> HIDE DEF k
  <2>3. queue' \in Seq(Key) /\ dirty' \in SUBSET Key /\ QueueInv'
    BY <1>0, <2>1, <2>2, AddLemma, Zenon
  <2>4. TypeOK'
    BY <2>1, <2>2, <2>3, Zenon DEF TypeOK, QueueTypeOK, workerVars
  <2> QED BY <2>2, <2>3, <2>4, HeldFrame, Zenon DEF workerVars
<1>3. CASE StartReturns
  <2>1. waiting' \in [Key -> 0..MaxDelay]
    BY <1>3, DelayAssumption DEF StartReturns, ShutDown
  <2>2. TypeOK'
    BY <1>3, <2>1, Zenon DEF StartReturns, ShutDown, TypeOK, QueueTypeOK, workerVars
  <2> QED BY <1>3, <2>2, QueueFrame, HeldFrame, Zenon DEF StartReturns, workerVars
<1>4. ASSUME NEW w \in Workers, StartWorker(w)
      PROVE  TypeOK' /\ QueueInv' /\ HeldInv'
  <2>1. TypeOK'
    BY <1>4, Zenon DEF StartWorker, TypeOK, QueueTypeOK, queueVars, PC
  <2>2. QueueInv'
    BY <1>4, QueueFrame, Zenon DEF StartWorker, queueVars
  <2>3. /\ key' = key /\ processing' = processing
        /\ \A v \in Workers : Holds(v)' <=> Holds(v)
    BY <1>4, Zenon DEF StartWorker, queueVars, Holds, TypeOK
  <2> QED BY <2>1, <2>2, <2>3, Zenon DEF HeldInv, OneWorkerPerKey
<1>5. ASSUME NEW w \in Workers, NEW k \in Key, ProcessNext(w, k)
      PROVE  TypeOK' /\ QueueInv' /\ HeldInv'
  <2>1. /\ QueueGet(k) /\ pc[w] = "get"
        /\ key' = [key EXCEPT ![w] = k]
        /\ pc' \in [Workers -> PC]
        /\ pc' = [pc EXCEPT ![w] = pc'[w]]
        /\ pc'[w] \in {"sync", "release"}
    BY <1>5, Zenon DEF ProcessNext, TypeOK, PC
  <2>2. /\ k \in Key /\ k \notin processing
        /\ queue' \in Seq(Key) /\ dirty' \in SUBSET Key /\ processing' \in SUBSET Key
        /\ QueueInv'
    BY <1>0, <2>1, GetLemma, Zenon
  <2>3. TypeOK'
    <3>1. /\ waiting' \in [Key -> 0..MaxDelay] /\ failures' \in [Key -> 0..MaxFailures]
          /\ shuttingDown' \in BOOLEAN
      BY <1>5, Zenon DEF ProcessNext, TypeOK, QueueTypeOK
    <3>2. /\ key' \in [Workers -> Key \cup {NoKey}] /\ owed' \subseteq Key
      BY <1>5, <2>1, <2>2 DEF ProcessNext, TypeOK
    <3>3. UNCHANGED <<cancelled, calls, uses, err, ctxDone, returned>>
      BY <1>5, Zenon DEF ProcessNext
    <3> QED BY <2>1, <2>2, <3>1, <3>2, <3>3, Zenon DEF TypeOK, QueueTypeOK
  <2>4. processing' = processing \cup {k}
    BY <2>1, Zenon DEF QueueGet
  <2>5. /\ \A v \in Workers : v # w => (Holds(v)' <=> Holds(v)) /\ key'[v] = key[v]
        /\ Holds(w)' /\ ~Holds(w) /\ key'[w] = k
    BY <2>1, Zenon DEF Holds, TypeOK
  <2>6. HeldInv'
    BY <2>2, <2>4, <2>5, Zenon DEF HeldInv, OneWorkerPerKey
  <2> QED BY <2>2, <2>3, <2>6, Zenon
<1>6. ASSUME NEW w \in Workers, Quit(w)
      PROVE  TypeOK' /\ QueueInv' /\ HeldInv'
  <2>1. TypeOK'
    BY <1>6, Zenon DEF Quit, TypeOK, QueueTypeOK, queueVars, PC
  <2>2. QueueInv'
    BY <1>6, QueueFrame, Zenon DEF Quit, queueVars
  <2>3. /\ key' = key /\ processing' = processing
        /\ \A v \in Workers : Holds(v)' <=> Holds(v)
    BY <1>6, Zenon DEF Quit, queueVars, Holds, TypeOK
  <2> QED BY <2>1, <2>2, <2>3, Zenon DEF HeldInv, OneWorkerPerKey
<1>7. ASSUME NEW w \in Workers, NEW u \in ControlUses, UseControl(w, u)
      PROVE  TypeOK' /\ QueueInv' /\ HeldInv'
  <2>1. u.calls \in Seq(Call) /\ u.err \in Errors \cup {NoErr}
    BY ControlUsesType, Zenon
  <2>2. calls' \in [Workers -> Seq(Call)] /\ err' \in [Workers -> Errors \cup {NoErr}]
    BY <1>7, <2>1, Zenon DEF UseControl, TypeOK
  <2>3. uses' \in [Workers -> 0..MaxUses]
    BY <1>7, MaxUsesAssumption DEF UseControl, TypeOK
  <2>4. TypeOK'
    BY <1>7, <2>2, <2>3, Zenon DEF UseControl, TypeOK, QueueTypeOK, queueVars
  <2> QED BY <1>7, <2>4, QueueFrame, HeldFrame, Zenon DEF UseControl, queueVars
<1>8. ASSUME NEW w \in Workers, CallClosure(w)
      PROVE  TypeOK' /\ QueueInv' /\ HeldInv'
  <2> DEFINE c == Head(calls[w])
  <2>1. /\ pc[w] = "sync" /\ calls[w] # <<>> /\ calls[w] \in Seq(Call)
        /\ calls' = [calls EXCEPT ![w] = Tail(@)]
        /\ UNCHANGED <<pc, key, uses, err, ctxDone, returned>>
    BY <1>8, Zenon DEF CallClosure, TypeOK
  <2>2. c \in Call /\ Tail(calls[w]) \in Seq(Call)
    BY <2>1
  <2>3. Holds(w) /\ key[w] \in Key
    BY <1>0, <2>1, Zenon DEF Holds
  <2>4. calls' \in [Workers -> Seq(Call)]
    BY <2>1, <2>2, Zenon DEF TypeOK
  <2>5. CASE c.closure = "done" /\ DoneClosure(w) /\ UNCHANGED owed
    <3>1. QueueTypeOK' /\ cancelled' \in [Workers -> BOOLEAN]
      <4>1. /\ failures' = [failures EXCEPT ![key[w]] = 0] /\ cancelled' = [cancelled EXCEPT ![w] = TRUE]
            /\ UNCHANGED <<queue, dirty, processing, waiting, shuttingDown>>
        BY <2>5, Zenon DEF DoneClosure, Forget
      <4>2. 0 \in 0..MaxFailures
        BY DelayAssumption
      <4>3. failures' \in [Key -> 0..MaxFailures]
        BY <1>0, <2>3, <4>1, <4>2, Zenon DEF QueueTypeOK
      <4>4. cancelled' \in [Workers -> BOOLEAN]
        BY <4>1, Zenon DEF TypeOK
      <4> QED
        BY <1>0, <4>1, <4>3, <4>4, Zenon DEF QueueTypeOK
    <3>2. TypeOK'
      BY <2>1, <2>4, <2>5, <3>1, Zenon DEF TypeOK
    <3> QED BY <2>1, <2>5, <3>2, QueueFrame, HeldFrame, Zenon DEF DoneClosure
  <2>6. CASE c.closure = "requeue" /\ RequeueClosure(w, c.after) /\ owed' = owed \cup {key[w]}
    <3>1. c.after \in Int
      BY <2>2, Zenon DEF Call
    <3>2. /\ QueueTypeOK' /\ cancelled' \in [Workers -> BOOLEAN]
          /\ QueueInv' /\ processing' = processing
      BY <2>3, <2>6, <3>1, RequeueLemma, Zenon
    <3>3. TypeOK'
      BY <2>1, <2>3, <2>4, <2>6, <3>2, Zenon DEF TypeOK
    <3> QED BY <2>1, <3>2, <3>3, HeldFrame, Zenon
  <2> QED BY <1>8, <2>5, <2>6, Zenon DEF CallClosure
<1>9. ASSUME NEW w \in Workers, SyncReturns(w)
      PROVE  TypeOK' /\ QueueInv' /\ HeldInv'
  <2>1. Holds(w) /\ key[w] \in Key
    BY <1>0, <1>9, Zenon DEF SyncReturns, Holds
  <2>2. TypeOK'
    <3>1. /\ failures' = [failures EXCEPT ![key[w]] = 0] /\ cancelled' = [cancelled EXCEPT ![w] = TRUE]
          /\ pc' = [pc EXCEPT ![w] = "await"]
          /\ UNCHANGED <<queue, dirty, processing, waiting, shuttingDown,
                         key, calls, uses, err, ctxDone, returned, owed>>
      BY <1>9, Zenon DEF SyncReturns, DoneClosure, Forget
    <3>2. 0 \in 0..MaxFailures
      BY DelayAssumption
    <3>3. failures' \in [Key -> 0..MaxFailures]
      BY <1>0, <2>1, <3>1, <3>2, Zenon DEF QueueTypeOK
    <3>4. QueueTypeOK'
      BY <1>0, <3>1, <3>3, Zenon DEF QueueTypeOK
    <3>5. cancelled' \in [Workers -> BOOLEAN] /\ pc' \in [Workers -> PC]
      BY <3>1, Zenon DEF TypeOK, PC
    <3> QED
      BY <3>1, <3>4, <3>5, Zenon DEF TypeOK
  <2>3. QueueInv'
    BY <1>9, QueueFrame, Zenon DEF SyncReturns, DoneClosure
  <2>4. /\ key' = key /\ processing' = processing
        /\ \A v \in Workers : Holds(v)' <=> Holds(v)
    BY <1>9, Zenon DEF SyncReturns, DoneClosure, Holds, TypeOK
  <2> QED BY <2>2, <2>3, <2>4, Zenon DEF HeldInv, OneWorkerPerKey
<1>10. ASSUME NEW w \in Workers, AwaitContext(w)
       PROVE  TypeOK' /\ QueueInv' /\ HeldInv'
  <2>1. TypeOK'
    BY <1>10, Zenon DEF AwaitContext, TypeOK, QueueTypeOK, queueVars, PC
  <2>2. QueueInv'
    BY <1>10, QueueFrame, Zenon DEF AwaitContext, queueVars
  <2>3. /\ key' = key /\ processing' = processing
        /\ \A v \in Workers : Holds(v)' <=> Holds(v)
    BY <1>10, Zenon DEF AwaitContext, queueVars, Holds, TypeOK
  <2> QED BY <2>1, <2>2, <2>3, Zenon DEF HeldInv, OneWorkerPerKey
<1>11. ASSUME NEW w \in Workers, Release(w)
       PROVE  TypeOK' /\ QueueInv' /\ HeldInv'
  <2>1. Holds(w) /\ key[w] \in processing /\ key[w] \in Key
    BY <1>0, <1>11, Zenon DEF Release, Holds
  <2>2. QueueDone(key[w]) /\ dirty' = dirty
    BY <1>11, Zenon DEF Release
  <2>3. queue' \in Seq(Key) /\ processing' \in SUBSET Key /\ QueueInv'
    BY <1>0, <2>1, <2>2, DoneLemma, Zenon
  <2>4. uses' \in [Workers -> 0..MaxUses]
    BY <1>11, MaxUsesAssumption DEF Release, TypeOK
  <2>5. TypeOK'
    BY <1>11, <2>3, <2>4, Zenon DEF Release, TypeOK, QueueTypeOK, PC
  <2>6. processing' = processing \ {key[w]}
    BY <2>2, Zenon DEF QueueDone
  <2>7. /\ \A v \in Workers : v # w => (Holds(v)' <=> Holds(v)) /\ key'[v] = key[v]
        /\ ~Holds(w)'
    BY <1>11, Zenon DEF Release, Holds, TypeOK
  <2>8. HeldInv'
    BY <2>1, <2>6, <2>7, Zenon DEF HeldInv, OneWorkerPerKey
  <2> QED BY <2>3, <2>5, <2>8, Zenon
<1>12. ASSUME NEW k \in Key, FireDelayed(k)
       PROVE  TypeOK' /\ QueueInv' /\ HeldInv'
  <2>1. /\ Add(k) /\ waiting' = [waiting EXCEPT ![k] = 0]
        /\ UNCHANGED <<processing, failures, shuttingDown, workerVars, ctxDone, returned, owed>>
    BY <1>12, Zenon DEF FireDelayed, Fire
  <2>2. queue' \in Seq(Key) /\ dirty' \in SUBSET Key /\ QueueInv'
    BY <1>0, <2>1, AddLemma, Zenon
  <2>3. waiting' \in [Key -> 0..MaxDelay]
    BY <1>0, <2>1, DelayAssumption DEF QueueTypeOK
  <2>4. TypeOK'
    BY <2>1, <2>2, <2>3, Zenon DEF TypeOK, QueueTypeOK, workerVars
  <2> QED BY <2>1, <2>2, <2>4, HeldFrame, Zenon DEF workerVars
<1>13. CASE TimePasses
  <2>1. waiting' \in [Key -> 0..MaxDelay]
    BY <1>0, <1>13, DelayAssumption, SMTT(60) DEF TimePasses, Tick, QueueTypeOK
  <2>2. TypeOK'
    BY <1>13, <2>1, Zenon DEF TimePasses, Tick, TypeOK, QueueTypeOK, workerVars
  <2> QED BY <1>13, <2>2, QueueFrame, HeldFrame, Zenon DEF TimePasses, Tick, workerVars
<1>14. CASE UNCHANGED vars
  <2>1. TypeOK'
    BY <1>14, Zenon DEF vars, queueVars, workerVars, TypeOK, QueueTypeOK
  <2> QED BY <1>14, <2>1, QueueFrame, HeldFrame, Zenon DEF vars, queueVars, workerVars
<1> QED
  BY <1>1, <1>2, <1>3, <1>4, <1>5, <1>6, <1>7, <1>8, <1>9, <1>10, <1>11, <1>12, <1>13, <1>14, Zenon
     DEF Next, WorkerStep

(* SafetyInv holds in every reachable state. *)
LEMMA SafetyInvariant == Spec => []SafetyInv
BY InitSafety, NextSafety, PTL DEF Spec

(***************************************************************************)
(* Every variable of the controller and of its queue keeps its type.       *)
(***************************************************************************)
THEOREM TypeCorrect == Spec => []TypeOK
<1>1. SafetyInv => TypeOK
  BY Zenon DEF SafetyInv
<1> QED BY <1>1, SafetyInvariant, PTL

(***************************************************************************)
(* Whatever the number of workers and whatever the sync functions do, no   *)
(* two calls of processNext work on the same key at the same time.         *)
(***************************************************************************)
THEOREM MutualExclusion == Spec => []OneWorkerPerKey
<1>1. SafetyInv => OneWorkerPerKey
  BY Zenon DEF SafetyInv, HeldInv
<1> QED BY <1>1, SafetyInvariant, PTL

------------------------------------------------------------------------------
(* Until shutdown nothing but the beginning of its sync takes a key out of *)
(* dirty and the running timers together.                                  *)
LEMMA NextNoLostRequeue ==
    SafetyInv /\ NoLostRequeue /\ [Next]_vars => NoLostRequeue'
<1> SUFFICES ASSUME SafetyInv, NoLostRequeue, [Next]_vars, ~shuttingDown'
             PROVE  owed' \subseteq dirty' \cup Delayed'
  BY Zenon DEF NoLostRequeue
<1> USE DEF Delayed
<1>0. /\ TypeOK /\ QueueTypeOK /\ QueueInv
      /\ \A w \in Workers : Holds(w) => key[w] \in Key
  BY Zenon DEF SafetyInv, TypeOK, QueueTypeOK, HeldInv
<1>1. CASE CancelContext
  BY <1>1, Zenon DEF CancelContext, NoLostRequeue, queueVars
<1>2. ASSUME NEW obj \in Notification, Notify(obj)
      PROVE  owed' \subseteq dirty' \cup Delayed'
  <2> DEFINE k == GVRMetaNamespaceKeyFunc(obj)
  <2>1. /\ k \in Key /\ Add(k) /\ owed' = owed \cup {k}
        /\ waiting' = waiting /\ processing' = processing /\ shuttingDown' = shuttingDown
    BY <1>2, NotifyKey, Zenon DEF Notify
  <2> HIDE DEF k
  <2>2. dirty \subseteq dirty' /\ k \in dirty'
    BY <1>0, <2>1, AddLemma, Zenon
  <2> QED BY <2>1, <2>2, Zenon DEF NoLostRequeue
<1>3. CASE StartReturns
  BY <1>3, Zenon DEF StartReturns, ShutDown
<1>4. ASSUME NEW w \in Workers, StartWorker(w)
      PROVE  owed' \subseteq dirty' \cup Delayed'
  BY <1>4, Zenon DEF StartWorker, NoLostRequeue, queueVars
<1>5. ASSUME NEW w \in Workers, NEW k \in Key, ProcessNext(w, k)
      PROVE  owed' \subseteq dirty' \cup Delayed'
  BY <1>5, Zenon DEF ProcessNext, QueueGet, NoLostRequeue
<1>6. ASSUME NEW w \in Workers, Quit(w)
      PROVE  owed' \subseteq dirty' \cup Delayed'
  BY <1>6, Zenon DEF Quit, NoLostRequeue, queueVars
<1>7. ASSUME NEW w \in Workers, NEW u \in ControlUses, UseControl(w, u)
      PROVE  owed' \subseteq dirty' \cup Delayed'
  BY <1>7, Zenon DEF UseControl, NoLostRequeue, queueVars
<1>8. ASSUME NEW w \in Workers, CallClosure(w)
      PROVE  owed' \subseteq dirty' \cup Delayed'
  <2> DEFINE c == Head(calls[w])
  <2>1. key[w] \in Key
    BY <1>0, <1>8, Zenon DEF CallClosure, Holds
  <2>2. c \in Call
    BY <1>0, <1>8 DEF CallClosure, TypeOK
  <2>3. CASE c.closure = "done" /\ DoneClosure(w) /\ UNCHANGED owed
    BY <2>3, Zenon DEF DoneClosure, NoLostRequeue
  <2>4. CASE c.closure = "requeue" /\ RequeueClosure(w, c.after) /\ owed' = owed \cup {key[w]}
    <3>1. c.after \in Int
      BY <2>2, Zenon DEF Call
    <3>2. /\ shuttingDown' = shuttingDown /\ dirty \subseteq dirty'
          /\ \A k \in Key : waiting[k] # 0 => waiting'[k] # 0
          /\ ~shuttingDown => key[w] \in dirty' \/ waiting'[key[w]] # 0
      BY <1>0, <2>1, <2>4, <3>1, RequeueLemma, Zenon
    <3> QED BY <2>1, <2>4, <3>2, Zenon DEF NoLostRequeue
  <2> QED BY <1>8, <2>3, <2>4, Zenon DEF CallClosure
<1>9. ASSUME NEW w \in Workers, SyncReturns(w)
      PROVE  owed' \subseteq dirty' \cup Delayed'
  BY <1>9, Zenon DEF SyncReturns, DoneClosure, NoLostRequeue
<1>10. ASSUME NEW w \in Workers, AwaitContext(w)
       PROVE  owed' \subseteq dirty' \cup Delayed'
  BY <1>10, Zenon DEF AwaitContext, NoLostRequeue, queueVars
<1>11. ASSUME NEW w \in Workers, Release(w)
       PROVE  owed' \subseteq dirty' \cup Delayed'
  BY <1>11, Zenon DEF Release, NoLostRequeue
<1>12. ASSUME NEW k \in Key, FireDelayed(k)
       PROVE  owed' \subseteq dirty' \cup Delayed'
  <2>1. /\ Add(k) /\ waiting' = [waiting EXCEPT ![k] = 0]
        /\ processing' = processing /\ shuttingDown' = shuttingDown /\ owed' = owed
    BY <1>12, Zenon DEF FireDelayed, Fire
  <2>2. dirty \subseteq dirty' /\ k \in dirty'
    BY <1>0, <2>1, AddLemma, Zenon
  <2> QED BY <1>0, <2>1, <2>2, Zenon DEF NoLostRequeue, QueueTypeOK
<1>13. CASE TimePasses
  BY <1>0, <1>13 DEF TimePasses, Tick, NoLostRequeue, QueueTypeOK
<1>14. CASE UNCHANGED vars
  BY <1>14, Zenon DEF vars, queueVars, NoLostRequeue
<1> QED
  BY <1>1, <1>2, <1>3, <1>4, <1>5, <1>6, <1>7, <1>8, <1>9, <1>10, <1>11, <1>12, <1>13, <1>14, Zenon
     DEF Next, WorkerStep

(***************************************************************************)
(* Until the queue shuts down, a key whose reconciliation was asked for is *)
(* queued, being re-added by its worker, or has a timer running.           *)
(***************************************************************************)
THEOREM RequeuesAreKept == Spec => []NoLostRequeue
<1>1. Init => NoLostRequeue
  BY Zenon DEF Init, NoLostRequeue
<1> QED BY <1>1, NextNoLostRequeue, SafetyInvariant, PTL DEF Spec

(***************************************************************************)
(* Somebody is responsible for every key asked for, until the queue shuts  *)
(* down: it is listed in the queue, so that Get can return it, or a worker *)
(* holds it and its Queue.Done will list it, or its timer will add it.     *)
(* dirty alone does not say so: a dirty key nobody lists or holds would    *)
(* refuse every further Add and never be handed out.                       *)
(***************************************************************************)
OwedIsScheduled ==
    ~shuttingDown =>
        \A k \in owed :
            \/ \E i \in 1..Len(queue) : queue[i] = k
            \/ k \in dirty /\ \E w \in Workers : Holds(w) /\ key[w] = k
            \/ waiting[k] # 0

(***************************************************************************)
(* No request gets stuck between the queue's two sets: OwedIsScheduled     *)
(* holds for any workers, keys and sync functions.                         *)
(***************************************************************************)
THEOREM RequestsAreScheduled == Spec => []OwedIsScheduled
<1>1. SafetyInv /\ NoLostRequeue => OwedIsScheduled
  <2> SUFFICES ASSUME SafetyInv, NoLostRequeue, ~shuttingDown, NEW k \in owed
               PROVE  \/ \E i \in 1..Len(queue) : queue[i] = k
                      \/ k \in dirty /\ \E w \in Workers : Holds(w) /\ key[w] = k
                      \/ waiting[k] # 0
    BY Zenon DEF OwedIsScheduled
  <2>1. k \in dirty \/ waiting[k] # 0
    BY Zenon DEF NoLostRequeue, Delayed
  <2>2. k \in dirty /\ k \notin processing => \E i \in 1..Len(queue) : queue[i] = k
    BY Zenon DEF SafetyInv, QueueInv
  <2>3. k \in processing => \E w \in Workers : Holds(w) /\ key[w] = k
    BY Zenon DEF SafetyInv, HeldInv
  <2> QED
    BY <2>1, <2>2, <2>3, Zenon
<1> QED
  BY <1>1, RequeuesAreKept, SafetyInvariant, PTL

------------------------------------------------------------------------------
(* Only requeue counts a failure, during a sync, and the done() that ends  *)
(* the sync forgets it.                                                    *)
LEMMA NextFailuresForgotten ==
    SafetyInv /\ FailuresForgotten /\ [Next]_vars => FailuresForgotten'
<1> SUFFICES ASSUME SafetyInv, FailuresForgotten, [Next]_vars
             PROVE  FailuresForgotten'
  OBVIOUS
<1>0. /\ TypeOK /\ QueueTypeOK /\ QueueInv
      /\ \A w \in Workers : Holds(w) => key[w] \in Key
  BY Zenon DEF SafetyInv, TypeOK, QueueTypeOK, HeldInv
<1>1. CASE UNCHANGED <<failures, pc, key>>
  BY <1>1, Zenon DEF FailuresForgotten
<1>2. ASSUME NEW w \in Workers, pc[w] # "sync", failures' = failures,
             \A v \in Workers : v # w => pc'[v] = pc[v] /\ key'[v] = key[v]
      PROVE  FailuresForgotten'
  BY <1>2 DEF FailuresForgotten
<1>3. CASE CancelContext \/ StartReturns \/ TimePasses \/ UNCHANGED vars
           \/ (\E obj \in Notification : Notify(obj)) \/ (\E k \in Key : FireDelayed(k))
  BY <1>1, <1>3, Zenon DEF CancelContext, StartReturns, TimePasses, Tick, vars, Notify,
                    FireDelayed, Fire, queueVars, workerVars
<1>4. ASSUME NEW w \in Workers,
             \/ StartWorker(w) \/ Quit(w) \/ AwaitContext(w) \/ Release(w)
             \/ \E k \in Key : ProcessNext(w, k)
      PROVE  FailuresForgotten'
  BY <1>0, <1>2, <1>4, Zenon
     DEF StartWorker, Quit, AwaitContext, Release, ProcessNext, queueVars, TypeOK
<1>5. ASSUME NEW w \in Workers, NEW u \in ControlUses, UseControl(w, u)
      PROVE  FailuresForgotten'
  BY <1>1, <1>5, Zenon DEF UseControl, queueVars
<1>6. ASSUME NEW w \in Workers, CallClosure(w)
      PROVE  FailuresForgotten'
  <2> DEFINE c == Head(calls[w])
  <2>1. /\ pc[w] = "sync" /\ key[w] \in Key /\ pc' = pc /\ key' = key
    BY <1>0, <1>6, Zenon DEF CallClosure, Holds
  <2>2. c \in Call
    BY <1>0, <1>6 DEF CallClosure, TypeOK
  <2>3. \A k \in Key : k # key[w] => failures'[k] = failures[k]
    <3>1. CASE c.closure = "done" /\ DoneClosure(w)
      BY <1>0, <3>1, Zenon DEF DoneClosure, Forget, QueueTypeOK
    <3>2. CASE c.closure = "requeue" /\ RequeueClosure(w, c.after)
      <4>1. c.after \in Int
        BY <2>2, Zenon DEF Call
      <4> QED BY <1>0, <2>1, <3>2, <4>1, RequeueLemma, Zenon
    <3> QED BY <1>6, <3>1, <3>2, Zenon DEF CallClosure
  <2> QED BY <2>1, <2>3, Zenon DEF FailuresForgotten
<1>7. ASSUME NEW w \in Workers, SyncReturns(w)
      PROVE  FailuresForgotten'
  <2>1. /\ key[w] \in Key /\ key' = key
        /\ failures' = [failures EXCEPT ![key[w]] = 0]
        /\ \A v \in Workers : v # w => pc'[v] = pc[v]
    BY <1>0, <1>7, Zenon DEF SyncReturns, DoneClosure, Forget, Holds, TypeOK
  <2>2. failures \in [Key -> 0..MaxFailures]
    BY <1>0, Zenon DEF QueueTypeOK
  <2>3. ASSUME NEW k \in Key, failures'[k] # 0 PROVE \E v \in Workers : pc'[v] = "sync" /\ key'[v] = k
    <3>1. k # key[w] /\ failures[k] # 0
      BY <2>1, <2>2, <2>3, Zenon
    <3>2. PICK v \in Workers : pc[v] = "sync" /\ key[v] = k
      BY <3>1, Zenon DEF FailuresForgotten
    <3> QED
      BY <2>1, <3>1, <3>2, Zenon
  <2> QED
    BY <2>3, Zenon DEF FailuresForgotten
<1> QED
  BY <1>3, <1>4, <1>5, <1>6, <1>7, Zenon DEF Next, WorkerStep

(***************************************************************************)
(* The rate limiter holds failures only of keys that are being synced.     *)
(***************************************************************************)
THEOREM LimiterIsClean == Spec => []FailuresForgotten
<1>1. Init => FailuresForgotten
  BY DEF Init, QueueInit, FailuresForgotten
<1> QED BY <1>1, NextFailuresForgotten, SafetyInvariant, PTL DEF Spec

------------------------------------------------------------------------------
(* After shutdown the queue grows only by what a running worker puts back. *)
LEMMA NextExitInv == SafetyInv /\ ExitInv /\ [Next]_vars => ExitInv'
<1> SUFFICES ASSUME SafetyInv, ExitInv, [Next]_vars
             PROVE  ExitInv'
  OBVIOUS
<1>0. /\ TypeOK /\ QueueTypeOK /\ QueueInv
      /\ \A w \in Workers : Holds(w) => key[w] \in Key
  BY Zenon DEF SafetyInv, TypeOK, QueueTypeOK, HeldInv
<1>1. ASSUME pc' = pc, shuttingDown => shuttingDown', shuttingDown => queue' = queue
      PROVE  ExitInv'
  BY <1>1, Zenon DEF ExitInv, Holds
<1>2. ASSUME NEW w \in Workers, pc'[w] = "get" \/ Holds(w)', shuttingDown' = shuttingDown,
             \A v \in Workers : v # w => pc'[v] = pc[v]
      PROVE  ExitInv'
  BY <1>2, Zenon DEF ExitInv, Holds
<1>3. CASE CancelContext \/ StartReturns \/ TimePasses \/ UNCHANGED vars
  BY <1>1, <1>3 DEF CancelContext, StartReturns, ShutDown, TimePasses, Tick, vars,
                    queueVars, workerVars
<1>4. ASSUME NEW obj \in Notification, Notify(obj)
      PROVE  ExitInv'
  <2>1. shuttingDown => queue' = queue
    BY <1>4, Zenon DEF Notify, Add
  <2> QED BY <1>1, <1>4, <2>1, Zenon DEF Notify, workerVars
<1>5. ASSUME NEW k \in Key, FireDelayed(k)
      PROVE  ExitInv'
  <2>1. shuttingDown => queue' = queue
    BY <1>5, Zenon DEF FireDelayed, Fire, Add
  <2> QED BY <1>1, <1>5, <2>1, Zenon DEF FireDelayed, Fire, workerVars
<1>6. ASSUME NEW w \in Workers, StartWorker(w)
      PROVE  ExitInv'
  <2>1. /\ pc[w] = "spawned" /\ pc'[w] \in {"neverRan", "get"}
        /\ \A v \in Workers : v # w => pc'[v] = pc[v]
        /\ queue' = queue /\ shuttingDown' = shuttingDown
    BY <1>0, <1>6, Zenon DEF StartWorker, TypeOK, queueVars
  <2> QED BY <2>1, Zenon DEF ExitInv, Holds
<1>7. ASSUME NEW w \in Workers, NEW k \in Key, ProcessNext(w, k)
      PROVE  ExitInv'
  BY <1>0, <1>2, <1>7, Zenon DEF ProcessNext, Holds, TypeOK
<1>8. ASSUME NEW w \in Workers, Quit(w)
      PROVE  ExitInv'
  BY <1>8, Zenon DEF Quit, QueueQuits, ExitInv, queueVars
<1>9. ASSUME NEW w \in Workers, NEW u \in ControlUses, UseControl(w, u)
      PROVE  ExitInv'
  BY <1>1, <1>9, Zenon DEF UseControl, queueVars
<1>10. ASSUME NEW w \in Workers, CallClosure(w)
       PROVE  ExitInv'
  BY <1>2, <1>10, Zenon DEF CallClosure, DoneClosure, RequeueClosure, Holds
<1>11. ASSUME NEW w \in Workers, SyncReturns(w) \/ AwaitContext(w) \/ Release(w)
       PROVE  ExitInv'
  BY <1>0, <1>2, <1>11, Zenon
     DEF SyncReturns, DoneClosure, AwaitContext, Release, Holds, TypeOK, queueVars
<1> QED
  BY <1>3, <1>4, <1>5, <1>6, <1>7, <1>8, <1>9, <1>10, <1>11, Zenon DEF Next, WorkerStep

(***************************************************************************)
(* When the last worker has exited, every key the queue accepted has been  *)
(* processed.                                                              *)
(***************************************************************************)
THEOREM WorkersDrain == Spec => []DrainedAtExit
<1>1. Init => ExitInv
  BY Zenon DEF Init, ExitInv
<1>2. SafetyInv /\ ExitInv => DrainedAtExit
  <2> SUFFICES ASSUME SafetyInv, ExitInv,
                      \A w \in Workers : pc[w] \in {"exited", "neverRan"},
                      \E w \in Workers : pc[w] = "exited"
               PROVE  queue = <<>> /\ dirty = {} /\ processing = {}
    BY Zenon DEF DrainedAtExit
  <2>1. \A w \in Workers : ~Holds(w) /\ pc[w] # "get"
    BY Zenon DEF Holds
  <2>2. queue = <<>>
    BY <2>1, Zenon DEF ExitInv
  <2>3. processing = {}
    BY <2>1, Zenon DEF SafetyInv, HeldInv
  <2>4. dirty = {}
    BY <2>2, <2>3 DEF SafetyInv, QueueInv
  <2> QED BY <2>2, <2>3, <2>4, Zenon
<1> QED BY <1>1, <1>2, NextExitInv, SafetyInvariant, PTL DEF Spec

------------------------------------------------------------------------------
(* Every step of the controller is a step of ReconcileQueue or a stutter.  *)
LEMMA StepRefines ==
    SafetyInv /\ [Next]_vars => [Promise!Next]_(Promise!vars)
<1> SUFFICES ASSUME SafetyInv, [Next]_vars
             PROVE  Promise!Next \/ UNCHANGED <<owed, processing, shuttingDown>>
  BY Zenon DEF Promise!vars
<1>0. /\ QueueTypeOK /\ QueueInv
      /\ \A w \in Workers : Holds(w) => key[w] \in Key /\ key[w] \in processing
  BY Zenon DEF SafetyInv, TypeOK, QueueTypeOK, HeldInv
<1>1. CASE CancelContext \/ TimePasses \/ UNCHANGED vars \/ \E k \in Key : FireDelayed(k)
  BY <1>1, Zenon DEF CancelContext, TimePasses, Tick, FireDelayed, Fire, vars, queueVars
<1>2. ASSUME NEW obj \in Notification, Notify(obj)
      PROVE  Promise!Next
  BY <1>2, NotifyKey, Zenon DEF Notify, Promise!Next, Promise!Ask
<1>3. CASE StartReturns
  BY <1>3, Zenon DEF StartReturns, ShutDown, Promise!Next, Promise!Close
<1>4. ASSUME NEW w \in Workers,
             StartWorker(w) \/ Quit(w) \/ SyncReturns(w) \/ AwaitContext(w)
      PROVE  UNCHANGED <<owed, processing, shuttingDown>>
  BY <1>4, Zenon DEF StartWorker, Quit, SyncReturns, DoneClosure, AwaitContext, queueVars
<1>5. ASSUME NEW w \in Workers, NEW k \in Key, ProcessNext(w, k)
      PROVE  Promise!Next
  <2>1. QueueGet(k)
    BY <1>5, Zenon DEF ProcessNext
  <2>2. k \notin processing
    BY <1>0, <2>1, GetLemma, Zenon
  <2> QED BY <1>5, <2>1, <2>2, Zenon DEF ProcessNext, QueueGet, Promise!Next, Promise!Begin
<1>6. ASSUME NEW w \in Workers, NEW u \in ControlUses, UseControl(w, u)
      PROVE  UNCHANGED <<owed, processing, shuttingDown>>
  BY <1>6, Zenon DEF UseControl, queueVars
<1>7. ASSUME NEW w \in Workers, CallClosure(w)
      PROVE  Promise!Next \/ UNCHANGED <<owed, processing, shuttingDown>>
  <2>1. key[w] \in Key
    BY <1>0, <1>7, Zenon DEF CallClosure, Holds
  <2> QED
    BY <1>7, <2>1, Zenon DEF CallClosure, DoneClosure, RequeueClosure, Promise!Next, Promise!Ask
<1>8. ASSUME NEW w \in Workers, Release(w)
      PROVE  Promise!Next
  <2>1. key[w] \in Key /\ key[w] \in processing
    BY <1>0, <1>8, Zenon DEF Release, Holds
  <2> QED BY <1>8, <2>1, Zenon DEF Release, QueueDone, Promise!Next, Promise!End
<1> QED
  BY <1>1, <1>2, <1>3, <1>4, <1>5, <1>6, <1>7, <1>8, Zenon DEF Next, WorkerStep

(***************************************************************************)
(* The controller implements the safety part of ReconcileQueue: one worker *)
(* per key, and no request forgotten except by the beginning of a sync.    *)
(***************************************************************************)
THEOREM ImplementsPromiseSafety == Spec => Promise!Safety
<1>1. Init => Promise!Init
  BY Zenon DEF Init, QueueInit, Promise!Init
<1> QED BY <1>1, StepRefines, SafetyInvariant, PTL DEF Spec, Promise!Safety

------------------------------------------------------------------------------
(***************************************************************************)
(* Theorems about EnsureComponent, for any specs, names and bounds.  The   *)
(* argument: as long as users have copied no object, a hash is found under *)
(* the name that newObj gives to it and nowhere else, neither in the       *)
(* cluster nor in the cache nor in between; so the object that makes       *)
(* Handle delete others is no other than the one it wants.                 *)
(***************************************************************************)
ComponentEvent == [name : ObjectNames, seen : Content]

\* A hash is found under its own name only.
Placed(n, content) == content \in Specs => NameOf[content] = n

AllPlaced ==
    /\ \A n \in ObjectNames : Placed(n, server[n]) /\ Placed(n, cache[n])
    /\ \A i \in 1..Len(stream) : Placed(stream[i].name, stream[i].seen)

\* What is deleted does not have the name of what is wanted.
WantedSpared == handlePc = "delete" => NameOf[hash] \notin extras

\* Outside the delete loop nothing is noted for deletion.
NothingNoted == handlePc # "delete" => extras = {} /\ again = {} /\ repeat = {}

\* What holds as long as nobody has copied an object.
Uncopied == ComponentTypeOK /\ AllPlaced /\ WantedSpared /\ NothingNoted

\* The inductive invariant.
ComponentInv == copied \in BOOLEAN /\ (~copied => Uncopied)

------------------------------------------------------------------------------
\* The effect of Write on the cluster and on the watch.
LEMMA ComponentWrite ==
    ASSUME ComponentTypeOK, AllPlaced, NEW n \in ObjectNames, NEW content \in Content,
           Placed(n, content), Write(n, content)
    PROVE  /\ server' = [server EXCEPT ![n] = content]
           /\ server' \in [ObjectNames -> Content]
           /\ \A m \in ObjectNames : Placed(m, server'[m])
           /\ stream' \in Seq(ComponentEvent)
           /\ \A i \in 1..Len(stream') : Placed(stream'[i].name, stream'[i].seen)
<1>t. server \in [ObjectNames -> Content] /\ stream \in Seq(ComponentEvent)
  BY Zenon DEF ComponentTypeOK, ComponentEvent
<1>1. server' = [server EXCEPT ![n] = content]
  BY Zenon DEF Write
<1>2. \A m \in ObjectNames : Placed(m, server'[m])
  BY <1>t, <1>1, Zenon DEF AllPlaced
<1>3. CASE stream' = stream
  BY <1>t, <1>1, <1>2, <1>3, Zenon DEF AllPlaced
<1>4. CASE stream' = Append(stream, [name |-> n, seen |-> content])
  <2> DEFINE e == [name |-> n, seen |-> content]
  <2>1. e \in ComponentEvent /\ e.name = n /\ e.seen = content
    BY Zenon DEF ComponentEvent
  <2> HIDE DEF e
  <2>2. /\ stream' \in Seq(ComponentEvent) /\ Len(stream') = Len(stream) + 1
        /\ \A i \in 1..Len(stream) : stream'[i] = stream[i]
        /\ stream'[Len(stream) + 1] = e
    BY <1>t, <1>4, <2>1, SMTT(60) DEF e
  <2>3. ASSUME NEW i \in 1..Len(stream')
        PROVE  Placed(stream'[i].name, stream'[i].seen)
    <3>1. CASE i \in 1..Len(stream)
      BY <2>2, <3>1, Zenon DEF AllPlaced
    <3>2. CASE i = Len(stream) + 1
      BY <2>1, <2>2, <3>2, Zenon
    <3> QED
      BY <1>t, <2>2, <3>1, <3>2
  <2> QED
    BY <1>t, <1>1, <1>2, <2>2, <2>3, Zenon
<1> QED
  BY <1>3, <1>4, Zenon DEF Write

\* The handler's variables when it returns.
LEMMA ComponentReturn ==
    ASSUME NEW b \in BOOLEAN, ComponentTypeOK, Return(b)
    PROVE  /\ handlePc' = "idle" /\ extras' = {} /\ again' = {} /\ repeat' = {}
           /\ queued' \in BOOLEAN /\ hash' = hash
BY Zenon DEF Return, ComponentTypeOK

\* The fields that the type invariant is made of, in the next state.
ComponentTyped ==
    /\ server' \in [ObjectNames -> Content] /\ stream' \in Seq(ComponentEvent)
    /\ cache' \in [ObjectNames -> Content]
    /\ desired' \in Specs /\ queued' \in BOOLEAN
    /\ handlePc' \in {"idle", "apply", "delete"} /\ hash' \in Specs
    /\ extras' \subseteq ObjectNames /\ again' \subseteq extras' /\ repeat' \subseteq extras'
    /\ changes' \in 0..MaxChanges /\ faults' \in 0..MaxFaults

\* The rest of the invariant in the next state.
ComponentKept ==
    /\ \A n \in ObjectNames : Placed(n, server'[n]) /\ Placed(n, cache'[n])
    /\ \A i \in 1..Len(stream') : Placed(stream'[i].name, stream'[i].seen)
    /\ handlePc' = "delete" => NameOf[hash'] \notin extras'
    /\ handlePc' # "delete" => extras' = {} /\ again' = {} /\ repeat' = {}

\* Nobody undoes a copy, and only users make one.
LEMMA CopiesStay ==
    ASSUME copied \in BOOLEAN, [ComponentNext]_componentVars
    PROVE  /\ copied' \in BOOLEAN
           /\ ~copied' => ~copied
           /\ \A n \in ObjectNames, content \in UserContents :
                 UserWrites(n, content) /\ ~copied' => content \notin Specs
BY Zenon DEF ComponentNext, Deliver, ChangeOwner, UserWrites, HandlerStep, Handle, ApplyObject, DeleteObject,
       HandleReturns, componentVars

\* Every step keeps the invariant, unless it is a user's copy.
LEMMA ComponentStep ==
    ASSUME Uncopied, ~copied, ~copied', ComponentNext
    PROVE  ComponentTyped /\ ComponentKept
<1>t. /\ server \in [ObjectNames -> Content] /\ stream \in Seq(ComponentEvent)
      /\ cache \in [ObjectNames -> Content]
      /\ desired \in Specs /\ queued \in BOOLEAN
      /\ handlePc \in {"idle", "apply", "delete"} /\ hash \in Specs
      /\ extras \subseteq ObjectNames /\ again \subseteq extras /\ repeat \subseteq extras
      /\ changes \in 0..MaxChanges /\ faults \in 0..MaxFaults
  BY Zenon DEF Uncopied, ComponentTypeOK, ComponentEvent
<1>p. /\ \A n \in ObjectNames : Placed(n, server[n]) /\ Placed(n, cache[n])
      /\ \A i \in 1..Len(stream) : Placed(stream[i].name, stream[i].seen)
      /\ handlePc = "delete" => NameOf[hash] \notin extras
      /\ handlePc # "delete" => extras = {} /\ again = {} /\ repeat = {}
  BY Zenon DEF Uncopied, AllPlaced, WantedSpared, NothingNoted
<1>c. /\ NameOf \in [Specs -> ObjectNames] /\ Absent \notin Specs /\ Bare \notin Specs
      /\ UserContents \subseteq Specs \cup {Absent, Bare}
      /\ MaxChanges \in Nat /\ MaxFaults \in Nat
  BY ComponentAssumption, Zenon
<1>k. \A n \in ObjectNames, content \in UserContents :
         UserWrites(n, content) => content \notin Specs
  BY CopiesStay, Zenon DEF Uncopied, ComponentTypeOK
<1>w. ASSUME NEW n \in ObjectNames, NEW content \in Content, Placed(n, content), Write(n, content)
      PROVE  /\ server' \in [ObjectNames -> Content]
             /\ \A m \in ObjectNames : Placed(m, server'[m])
             /\ stream' \in Seq(ComponentEvent)
             /\ \A i \in 1..Len(stream') : Placed(stream'[i].name, stream'[i].seen)
  BY <1>w, ComponentWrite, Zenon DEF Uncopied
<1>s. ASSUME UNCHANGED <<server, stream>>
      PROVE  /\ server' \in [ObjectNames -> Content]
             /\ \A m \in ObjectNames : Placed(m, server'[m])
             /\ stream' \in Seq(ComponentEvent)
             /\ \A i \in 1..Len(stream') : Placed(stream'[i].name, stream'[i].seen)
  BY <1>s, <1>t, <1>p, Zenon
<1>r. ASSUME NEW b \in BOOLEAN, Return(b)
      PROVE  /\ handlePc' = "idle" /\ extras' = {} /\ again' = {} /\ repeat' = {}
             /\ queued' \in BOOLEAN /\ hash' = hash
  BY <1>r, ComponentReturn, Zenon DEF Uncopied
<1>a. /\ \A n \in ObjectNames : Placed(n, Absent)
      /\ Absent \in Content
      /\ NameOf[hash] \in ObjectNames /\ hash \in Content /\ Placed(NameOf[hash], hash)
  BY <1>c, <1>t, Zenon DEF Placed, Content
<1>1. CASE Deliver
  <2> DEFINE e == Head(stream)
  <2>1. stream # <<>> /\ stream' = Tail(stream) /\ cache' = [cache EXCEPT ![e.name] = e.seen]
    BY <1>1, Zenon DEF Deliver
  <2>2. e \in ComponentEvent /\ Placed(e.name, e.seen)
    BY <1>t, <1>p, <2>1
  <2>3. /\ stream' \in Seq(ComponentEvent)
        /\ \A i \in 1..Len(stream') : stream'[i] = stream[i + 1] /\ i + 1 \in 1..Len(stream)
    BY <1>t, <2>1
  <2>4. e.name \in ObjectNames /\ e.seen \in Content
    BY <2>2, Zenon DEF ComponentEvent
  <2> HIDE DEF e
  <2>5. cache' \in [ObjectNames -> Content] /\ \A n \in ObjectNames : Placed(n, cache'[n])
    BY <1>t, <1>p, <2>1, <2>2, <2>4, Zenon
  <2>6. /\ UNCHANGED <<server, desired, handlePc, hash, extras, again, repeat, changes, faults>>
        /\ queued' = TRUE
    BY <1>1, Zenon DEF Deliver, handlerVars
  <2>7. ComponentTyped
    BY <1>t, <2>3, <2>5, <2>6, Zenon DEF ComponentTyped
  <2> QED
    BY <1>p, <2>3, <2>5, <2>6, <2>7, Zenon DEF ComponentKept
<1>2. ASSUME NEW s \in Specs, ChangeOwner(s)
      PROVE  ComponentTyped /\ ComponentKept
  <2>1. /\ UNCHANGED <<server, stream, cache, handlePc, hash, extras, again, repeat, faults>>
        /\ desired' = s /\ queued' = TRUE /\ changes < MaxChanges /\ changes' = changes + 1
    BY <1>2, Zenon DEF ChangeOwner, handlerVars
  <2>2. changes' \in 0..MaxChanges
    BY <1>t, <1>c, <2>1
  <2> QED
    BY <1>t, <1>p, <2>1, <2>2, Zenon DEF ComponentTyped, ComponentKept
<1>3. ASSUME NEW n \in ObjectNames, NEW content \in UserContents, UserWrites(n, content)
      PROVE  ComponentTyped /\ ComponentKept
  <2>1. /\ UNCHANGED <<cache, desired, queued, handlePc, hash, extras, again, repeat, faults>>
        /\ changes < MaxChanges /\ changes' = changes + 1
        /\ Write(n, content)
    BY <1>3, Zenon DEF UserWrites, handlerVars
  <2>2. content \in Content /\ Placed(n, content)
    BY <1>3, <1>c, <1>k, Zenon DEF Content, Placed
  <2>3. changes' \in 0..MaxChanges
    BY <1>t, <1>c, <2>1
  <2> QED
    BY <1>t, <1>p, <1>w, <2>1, <2>2, <2>3, Zenon DEF ComponentTyped, ComponentKept
<1>4. CASE Handle
  <2>1. /\ UNCHANGED <<server, stream, cache, desired, repeat, changes, faults>>
        /\ queued' = FALSE /\ hash' = desired /\ handlePc = "idle"
    BY <1>4, Zenon DEF Handle
  <2>2. repeat = {} /\ extras = {} /\ again = {}
    BY <1>p, <2>1, Zenon
  <2>3. Matching \subseteq List /\ List \subseteq ObjectNames
    BY Zenon DEF Matching, List
  <2>4. ASSUME NEW n \in ObjectNames, Matching = {n}
        PROVE  /\ NameOf[desired] = n
               /\ {m \in List : cache[m] = Bare} \subseteq List \ Matching
    BY <1>t, <1>p, <1>c, <2>3, <2>4 DEF Matching, Placed
  <2>5. \/ handlePc' \in {"idle", "apply"} /\ UNCHANGED <<extras, again>>
        \/ /\ \E n \in ObjectNames : Matching = {n}
           /\ handlePc' = "delete"
           /\ extras' = List \ Matching
           /\ again' = {m \in List : cache[m] = Bare}
    BY <1>4, <2>1, Zenon DEF Handle
  <2>6. \/ handlePc' \in {"idle", "apply"} /\ extras' = {} /\ again' = {}
        \/ /\ handlePc' = "delete" /\ extras' \subseteq ObjectNames /\ again' \subseteq extras'
           /\ NameOf[desired] \notin extras'
    BY <2>2, <2>3, <2>4, <2>5, Zenon
  <2> QED
    BY <1>t, <1>p, <2>1, <2>2, <2>6, Zenon DEF ComponentTyped, ComponentKept
<1>f. ASSUME Fails
      PROVE  /\ handlePc' = "idle" /\ extras' = {} /\ again' = {} /\ repeat' = {}
             /\ queued' \in BOOLEAN /\ hash' = hash /\ faults' \in 0..MaxFaults
  <2>1. faults' \in 0..MaxFaults
    BY <1>f, <1>t, <1>c DEF Fails
  <2>2. Return(TRUE)
    BY <1>f, Zenon DEF Fails
  <2> QED
    BY <1>r, <2>1, <2>2, Zenon
<1>5. CASE ApplyObject
  <2>1. /\ handlePc' = "idle" /\ extras' = {} /\ again' = {} /\ repeat' = {}
        /\ queued' \in BOOLEAN /\ hash' = hash /\ faults' \in 0..MaxFaults
    BY <1>5, <1>t, <1>r, <1>f, Zenon DEF ApplyObject
  <2>2. /\ UNCHANGED <<cache, desired, changes>>
        /\ UNCHANGED <<server, stream>> \/ Write(NameOf[hash], hash)
    BY <1>5, Zenon DEF ApplyObject
  <2> QED
    BY <1>t, <1>p, <1>a, <1>w, <1>s, <2>1, <2>2, Zenon DEF ComponentTyped, ComponentKept
<1>6. ASSUME NEW n \in ObjectNames, DeleteObject(n)
      PROVE  ComponentTyped /\ ComponentKept
  <2>1. /\ UNCHANGED <<cache, desired, changes>>
        /\ UNCHANGED <<server, stream>> \/ Write(n, Absent)
        /\ handlePc = "delete" /\ n \in extras
    BY <1>6, Zenon DEF DeleteObject
  <2>2. \/ /\ handlePc' = "idle" /\ extras' = {} /\ again' = {} /\ repeat' = {}
           /\ queued' \in BOOLEAN /\ hash' = hash /\ faults' \in 0..MaxFaults
        \/ /\ extras' = IF n \in again THEN extras ELSE extras \ {n}
           /\ repeat' = again \cap {n}
           /\ again' = again \ {n}
           /\ UNCHANGED <<handlePc, hash, queued, faults>>
    BY <1>6, <1>t, <1>r, <1>f, Zenon DEF DeleteObject
  <2>3. \/ /\ handlePc' = "idle" /\ extras' = {} /\ again' = {} /\ repeat' = {}
        \/ /\ handlePc' = "delete" /\ extras' \subseteq extras
           /\ again' \subseteq extras' /\ repeat' \subseteq extras'
    BY <1>t, <2>1, <2>2
  <2>4. queued' \in BOOLEAN /\ hash' = hash /\ faults' \in 0..MaxFaults
    BY <1>t, <2>2, Zenon
  <2> QED
    BY <1>t, <1>p, <1>a, <1>w, <1>s, <2>1, <2>3, <2>4, Zenon DEF ComponentTyped, ComponentKept
<1>7. CASE HandleReturns
  <2>1. /\ handlePc' = "idle" /\ extras' = {} /\ again' = {} /\ repeat' = {}
        /\ queued' \in BOOLEAN /\ hash' = hash
        /\ UNCHANGED <<server, stream, cache, desired, changes, faults>>
    BY <1>7, <1>r, Zenon DEF HandleReturns
  <2> QED
    BY <1>t, <1>p, <2>1, Zenon DEF ComponentTyped, ComponentKept
<1> QED
  BY <1>1, <1>2, <1>3, <1>4, <1>5, <1>6, <1>7, Zenon DEF ComponentNext, HandlerStep

\* ensure_component.go: as long as no user has copied an object, an object is
\* where newObj puts those of its hash, and what Handle deletes is not where it
\* puts the one that is wanted (ComponentInv).
THEOREM ComponentInvariance == ComponentSpec => []ComponentInv
<1>1. ComponentInit => ComponentInv
  <2> SUFFICES ASSUME ComponentInit PROVE ComponentInv
    OBVIOUS
  <2>1. /\ Absent \in Content /\ Absent \notin Specs
        /\ MaxChanges \in Nat /\ MaxFaults \in Nat
    BY ComponentAssumption, Zenon DEF Content
  <2>b. copied \in BOOLEAN /\ queued \in BOOLEAN
    BY Zenon DEF ComponentInit
  <2>2. ComponentTypeOK
    BY <2>1, <2>b, SMTT(60) DEF ComponentInit, ComponentTypeOK
  <2>3. AllPlaced
    BY <2>1 DEF ComponentInit, AllPlaced, Placed
  <2> QED
    BY <2>2, <2>3, Zenon DEF ComponentInit, ComponentInv, Uncopied, WantedSpared, NothingNoted
<1>2. ComponentInv /\ [ComponentNext]_componentVars => ComponentInv'
  <2> SUFFICES ASSUME ComponentInv, [ComponentNext]_componentVars PROVE ComponentInv'
    OBVIOUS
  <2>c. copied' \in BOOLEAN /\ (~copied' => ~copied /\ Uncopied)
    BY CopiesStay, Zenon DEF ComponentInv
  <2>1. CASE ComponentNext /\ ~copied'
    <3>1. ComponentTyped /\ ComponentKept
      BY <2>1, <2>c, ComponentStep, Zenon
    <3>2. ComponentTypeOK'
      BY <2>c, <3>1, Zenon DEF ComponentTyped, ComponentTypeOK, ComponentEvent
    <3> QED
      BY <2>c, <3>1, <3>2, Zenon DEF ComponentKept, ComponentInv, Uncopied, AllPlaced, WantedSpared, NothingNoted
  <2>2. CASE UNCHANGED componentVars
    BY <2>2, Zenon DEF ComponentInv, Uncopied, ComponentTypeOK, AllPlaced, Placed, WantedSpared, NothingNoted, componentVars,
                handlerVars
  <2>3. CASE copied'
    BY <2>3, <2>c, Zenon DEF ComponentInv
  <2> QED
    BY <2>1, <2>2, <2>3, Zenon
<1> QED
  BY <1>1, <1>2, PTL DEF ComponentSpec

\* ensure_component.go:84: Handle never deletes an object that has the hash it
\* wants, however stale its list is, unless users have copied objects.
THEOREM DeleteSparesCurrentHolds == ComponentSpec => DeleteSparesCurrent
<1>1. ComponentInv => (HandlerStep /\ ~copied =>
                  \A n \in ObjectNames : server[n] = hash => server'[n] # Absent)
  <2> SUFFICES ASSUME Uncopied, HandlerStep, NEW n \in ObjectNames, server[n] = hash
               PROVE  server'[n] # Absent
    BY Zenon DEF ComponentInv
  <2>t. server \in [ObjectNames -> Content] /\ hash \in Specs /\ hash # Absent
    BY ComponentAssumption, Zenon DEF Uncopied, ComponentTypeOK
  <2>p. NameOf[hash] = n
    BY <2>t, Zenon DEF Uncopied, AllPlaced, Placed
  <2>1. CASE Handle \/ HandleReturns
    BY <2>1, <2>t, Zenon DEF Handle, HandleReturns
  <2>2. CASE ApplyObject
    BY <2>2, <2>t, Zenon DEF ApplyObject, Write
  <2>3. ASSUME NEW m \in ObjectNames, DeleteObject(m)
        PROVE  server'[n] # Absent
    <3>1. handlePc = "delete" /\ m \in extras
      BY <2>3, Zenon DEF DeleteObject
    <3>2. m # n
      BY <2>p, <3>1, Zenon DEF Uncopied, WantedSpared
    <3>3. server' = server \/ server' = [server EXCEPT ![m] = Absent]
      BY <2>3, Zenon DEF DeleteObject, Write
    <3> QED
      BY <2>t, <3>2, <3>3, Zenon
  <2> QED
    BY <2>1, <2>2, <2>3, Zenon DEF HandlerStep
<1> QED
  BY <1>1, ComponentInvariance, PTL DEF DeleteSparesCurrent

------------------------------------------------------------------------------
(***************************************************************************)
(* The part of Converges that needs no fairness: the handler rests only    *)
(* where the objects are right, copied ones included.  The latest event on *)
(* its way, if there is one, shows an object as it is, otherwise the cache *)
(* does (Shown).  So a handler that will not be called again has decided   *)
(* on the objects as they are (ComponentUpToDate).                         *)
(***************************************************************************)
ComponentSettled == ~queued /\ stream = <<>>

\* There is an object with the owner's spec, and beside a single one no other.
ObjectsAreRight ==
    /\ Right # {}
    /\ \A n \in ObjectNames : Right = {n} => \A m \in ObjectNames \ {n} : server[m] = Absent

(***************************************************************************)
(* When no event is on its way and the owner's key is not queued, Handle   *)
(* has left an object with the owner's spec, and no other if there is      *)
(* exactly one, whatever stale lists it worked on before.                  *)
(***************************************************************************)
ComponentRestIsRight == ComponentSettled /\ handlePc = "idle" => ObjectsAreRight

Shown(n) ==
    \/ cache[n] = server[n] /\ \A i \in 1..Len(stream) : stream[i].name # n
    \/ \E i \in 1..Len(stream) :
         /\ stream[i].name = n /\ stream[i].seen = server[n]
         /\ \A j \in 1..Len(stream) : j > i => stream[j].name # n

ComponentUpToDate ==
    ComponentSettled =>
        /\ handlePc = "idle" => ObjectsAreRight
        /\ handlePc # "idle" => hash = desired
        /\ handlePc = "apply" => Right = {}
        /\ handlePc = "delete" =>
             Right # {} /\ \A m \in ObjectNames \ Right : server[m] # Absent => m \in extras

WatchTypes ==
    /\ server \in [ObjectNames -> Content] /\ cache \in [ObjectNames -> Content]
    /\ stream \in Seq(ComponentEvent) /\ desired \in Specs /\ hash \in Specs

WatchInv == WatchTypes /\ \A n \in ObjectNames : Shown(n)

\* A change of an object is an event.
LEMMA WatchWrite ==
    ASSUME WatchInv, NEW n \in ObjectNames, NEW content \in Content, Write(n, content), cache' = cache
    PROVE  /\ server' \in [ObjectNames -> Content] /\ stream' \in Seq(ComponentEvent)
           /\ \A m \in ObjectNames : Shown(m)'
           /\ stream' = <<>> => stream = <<>> /\ server' = server /\ content = server[n]
<1>t. server \in [ObjectNames -> Content] /\ stream \in Seq(ComponentEvent)
  BY Zenon DEF WatchInv, WatchTypes
<1>1. server' = [server EXCEPT ![n] = content] /\ server' \in [ObjectNames -> Content]
  BY <1>t, Zenon DEF Write
<1>2. CASE content = server[n]
  <2>1. server' = server /\ stream' = stream
    BY <1>t, <1>1, <1>2, Zenon DEF Write
  <2>2. ASSUME NEW m \in ObjectNames PROVE Shown(m)'
    <3>1. Shown(m)
      BY Zenon DEF WatchInv
    <3> QED
      BY <2>1, <3>1 DEF Shown
  <2> QED
    BY <1>t, <1>2, <2>1, <2>2, Zenon
<1>3. CASE content # server[n]
  <2> DEFINE e == [name |-> n, seen |-> content]
             k == Len(stream)
  <2>1. e \in ComponentEvent /\ e.name = n /\ e.seen = content /\ stream' = Append(stream, e)
    BY <1>3, Zenon DEF ComponentEvent, Write
  <2> HIDE DEF e
  <2>2. /\ stream' \in Seq(ComponentEvent) /\ Len(stream') = k + 1 /\ stream' # <<>> /\ k \in Nat
        /\ stream'[k + 1] = e
    BY <1>t, <2>1, SMTT(60)
  <2>3. \A i \in 1..k : stream'[i] = stream[i]
    BY <1>t, <2>1, SMTT(60)
  <2> HIDE DEF k
  <2>4. \A i \in 1..(k + 1) : i \in 1..k \/ i = k + 1
    BY <2>2
  <2>5. \A i \in 1..k : i \in 1..(k + 1)
    BY <2>2
  <2>6. ASSUME NEW m \in ObjectNames PROVE Shown(m)'
    <3>1. CASE m = n
      <4>1. \A j \in 1..(k + 1) : ~(j > k + 1)
        BY <2>2
      <4>2. k + 1 \in 1..(k + 1) /\ server'[n] = content
        BY <1>t, <1>1, <2>2
      <4> QED
        BY <2>1, <2>2, <3>1, <4>1, <4>2, Zenon DEF Shown
    <3>2. CASE m # n
      <4>1. server'[m] = server[m]
        BY <1>t, <1>1, <3>2, Zenon
      <4>2. CASE cache[m] = server[m] /\ \A i \in 1..k : stream[i].name # m
        <5>1. \A i \in 1..(k + 1) : stream'[i].name # m
          BY <2>1, <2>2, <2>3, <2>4, <3>2, <4>2, Zenon
        <5>2. cache'[m] = server'[m]
          BY <4>1, <4>2, Zenon
        <5> QED
          BY <2>2, <5>1, <5>2, Zenon DEF Shown
      <4>3. ASSUME NEW i \in 1..k, stream[i].name = m, stream[i].seen = server[m],
                   \A j \in 1..k : j > i => stream[j].name # m
            PROVE  Shown(m)'
        <5>1. \A j \in 1..(k + 1) : j > i => stream'[j].name # m
          BY <2>1, <2>2, <2>3, <2>4, <3>2, <4>3, Zenon
        <5> QED
          BY <2>2, <2>3, <2>5, <4>1, <4>3, <5>1, Zenon DEF Shown
      <4> QED
        BY <4>2, <4>3, Zenon DEF WatchInv, Shown, k
    <3> QED
      BY <3>1, <3>2, Zenon
  <2> QED
    BY <1>1, <2>2, <2>6, Zenon
<1> QED
  BY <1>2, <1>3, Zenon

\* An event that arrives leaves the ones behind it.
LEMMA WatchDeliver ==
    ASSUME WatchInv, Deliver
    PROVE  WatchInv'
<1> DEFINE e == Head(stream)
           k == Len(stream)
<1>t. server \in [ObjectNames -> Content] /\ cache \in [ObjectNames -> Content] /\ stream \in Seq(ComponentEvent)
  BY Zenon DEF WatchInv, WatchTypes
<1>1. /\ stream # <<>> /\ stream' = Tail(stream) /\ cache' = [cache EXCEPT ![e.name] = e.seen]
      /\ UNCHANGED <<server, desired, hash>>
  BY Zenon DEF Deliver, handlerVars
<1>2. e \in ComponentEvent /\ e = stream[1] /\ k \in Nat \ {0}
  BY <1>t, <1>1
<1>3. stream' \in Seq(ComponentEvent) /\ Len(stream') = k - 1
  BY <1>t, <1>1
<1>4. \A i \in 1..(k - 1) : stream'[i] = stream[i + 1]
  BY <1>t, <1>1
<1>5. e.name \in ObjectNames /\ e.seen \in Content
  BY <1>2, Zenon DEF ComponentEvent
<1> HIDE DEF e, k
<1>6. cache' \in [ObjectNames -> Content]
  BY <1>t, <1>1, <1>5, Zenon
<1>7. \A i \in 1..(k - 1) : i + 1 \in 1..k
  BY <1>2
<1>8. \A i \in 1..k : i = 1 \/ (i - 1 \in 1..(k - 1) /\ (i - 1) + 1 = i)
  BY <1>2
<1>9. ASSUME NEW m \in ObjectNames PROVE Shown(m)'
  <2>1. CASE cache[m] = server[m] /\ \A i \in 1..k : stream[i].name # m
    <3>1. 1 \in 1..k
      BY <1>2
    <3>2. e.name # m
      BY <1>2, <2>1, <3>1, Zenon
    <3>3. cache'[m] = server'[m]
      BY <1>t, <1>1, <2>1, <3>2, Zenon
    <3>4. \A i \in 1..(k - 1) : stream'[i].name # m
      BY <1>4, <1>7, <2>1, Zenon
    <3> QED
      BY <1>3, <3>3, <3>4, Zenon DEF Shown
  <2>2. ASSUME NEW i \in 1..k, stream[i].name = m, stream[i].seen = server[m],
               \A j \in 1..k : j > i => stream[j].name # m
        PROVE  Shown(m)'
    <3>1. CASE i = 1
      <4>1. cache'[m] = server'[m]
        BY <1>t, <1>1, <1>2, <1>5, <2>2, <3>1, Zenon
      <4>2. \A j \in 1..(k - 1) : j + 1 \in 1..k /\ j + 1 > i
        BY <1>2, <3>1
      <4>3. \A j \in 1..(k - 1) : stream'[j].name # m
        BY <1>4, <2>2, <4>2, Zenon
      <4> QED
        BY <1>3, <4>1, <4>3, Zenon DEF Shown
    <3>2. CASE i - 1 \in 1..(k - 1) /\ (i - 1) + 1 = i
      <4>1. \A j \in 1..(k - 1) : j > i - 1 => j + 1 \in 1..k /\ j + 1 > i
        BY <1>2, <3>2
      <4>2. \A j \in 1..(k - 1) : j > i - 1 => stream'[j].name # m
        BY <1>4, <2>2, <4>1, Zenon
      <4>3. stream'[i - 1].name = m /\ stream'[i - 1].seen = server'[m]
        BY <1>1, <1>4, <2>2, <3>2, Zenon
      <4> QED
        BY <1>3, <3>2, <4>2, <4>3, Zenon DEF Shown
    <3> QED
      BY <1>8, <3>1, <3>2, Zenon
  <2> QED
    BY <2>1, <2>2, Zenon DEF WatchInv, Shown, k
<1> QED
  BY <1>1, <1>3, <1>6, <1>9, Zenon DEF WatchInv, WatchTypes

\* Every step but an event's arrival writes at most one object, in the way of
\* Write, and reads the cache only.
LEMMA WatchFlow ==
    ASSUME WatchInv, [ComponentNext]_componentVars
    PROVE  \/ Deliver
           \/ UNCHANGED <<server, stream, cache>>
           \/ \E n \in ObjectNames, content \in Content : Write(n, content) /\ cache' = cache
<1>2. CASE UNCHANGED componentVars
  BY <1>2, Zenon DEF componentVars
<1>3. CASE \E s \in Specs : ChangeOwner(s)
  BY <1>3, Zenon DEF ChangeOwner
<1>4. CASE \E n \in ObjectNames, content \in UserContents : UserWrites(n, content)
  <2>1. PICK n \in ObjectNames, content \in UserContents : UserWrites(n, content)
    BY <1>4, Zenon
  <2>2. content \in Content /\ Write(n, content) /\ cache' = cache
    BY <2>1, ComponentAssumption, Zenon DEF UserWrites, Content
  <2> QED
    BY <2>2, Zenon
<1>5. CASE Handle
  BY <1>5, Zenon DEF Handle
<1>6. CASE ApplyObject
  <2>1. hash \in Content /\ NameOf[hash] \in ObjectNames
    BY ComponentAssumption, Zenon DEF WatchInv, WatchTypes, Content
  <2>2. cache' = cache /\ (UNCHANGED <<server, stream>> \/ Write(NameOf[hash], hash))
    BY <1>6, Zenon DEF ApplyObject
  <2> QED
    BY <2>1, <2>2, Zenon
<1>7. CASE \E n \in ObjectNames : DeleteObject(n)
  <2>1. PICK n \in ObjectNames : DeleteObject(n)
    BY <1>7, Zenon
  <2>2. Absent \in Content /\ cache' = cache /\ (UNCHANGED <<server, stream>> \/ Write(n, Absent))
    BY <2>1, Zenon DEF DeleteObject, Content
  <2> QED
    BY <2>2, Zenon
<1>8. CASE HandleReturns
  BY <1>8, Zenon DEF HandleReturns
<1> QED
  BY <1>2, <1>3, <1>4, <1>5, <1>6, <1>7, <1>8, Zenon DEF ComponentNext, HandlerStep

\* The spec the owner calls for, and the one Handle computed from it.
LEMMA SpecsStay ==
    ASSUME WatchInv, [ComponentNext]_componentVars
    PROVE  desired' \in Specs /\ hash' \in Specs
<1>t. desired \in Specs /\ hash \in Specs
  BY Zenon DEF WatchInv, WatchTypes
<1>1. CASE UNCHANGED componentVars
  BY <1>t, <1>1, Zenon DEF componentVars, handlerVars
<1>2. CASE Deliver
  BY <1>t, <1>2, Zenon DEF Deliver, handlerVars
<1>3. CASE \E s \in Specs : ChangeOwner(s)
  BY <1>t, <1>3, Zenon DEF ChangeOwner, handlerVars
<1>4. CASE \E n \in ObjectNames, content \in UserContents : UserWrites(n, content)
  BY <1>t, <1>4, Zenon DEF UserWrites, handlerVars
<1>5. CASE Handle
  BY <1>t, <1>5, Zenon DEF Handle
<1>6. CASE ApplyObject
  BY <1>t, <1>6, Zenon DEF ApplyObject, Fails, Return
<1>7. CASE \E n \in ObjectNames : DeleteObject(n)
  BY <1>t, <1>7, Zenon DEF DeleteObject, Fails, Return
<1>8. CASE HandleReturns
  BY <1>t, <1>8, Zenon DEF HandleReturns, Return
<1> QED
  BY <1>1, <1>2, <1>3, <1>4, <1>5, <1>6, <1>7, <1>8, Zenon DEF ComponentNext, HandlerStep

LEMMA WatchStep ==
    ASSUME WatchInv, [ComponentNext]_componentVars
    PROVE  WatchInv'
<1>t. WatchTypes
  BY Zenon DEF WatchInv
<1>1. CASE Deliver
  BY <1>1, WatchDeliver, Zenon
<1>2. CASE UNCHANGED <<server, stream, cache>>
  <2>1. ASSUME NEW m \in ObjectNames PROVE Shown(m)'
    <3>1. Shown(m)
      BY Zenon DEF WatchInv
    <3> QED
      BY <1>2, <3>1 DEF Shown
  <2> QED
    BY <1>2, <1>t, <2>1, SpecsStay, Zenon DEF WatchInv, WatchTypes
<1>3. CASE \E n \in ObjectNames, content \in Content : Write(n, content) /\ cache' = cache
  <2>1. PICK n \in ObjectNames, content \in Content : Write(n, content) /\ cache' = cache
    BY <1>3, Zenon
  <2> QED
    BY <1>t, <2>1, WatchWrite, SpecsStay, Zenon DEF WatchInv, WatchTypes
<1> QED
  BY <1>1, <1>2, <1>3, WatchFlow, Zenon

\* With no event on its way the cache holds the objects as they are.
LEMMA SettledCache ==
    ASSUME WatchInv, stream = <<>>
    PROVE  cache = server
<1>1. \A n \in ObjectNames : cache[n] = server[n]
  BY DEF WatchInv, Shown
<1> QED
  BY <1>1 DEF WatchInv, WatchTypes

\* The list Handle decides on is then the server's.
LEMMA SettledHandle ==
    ASSUME WatchInv, ~IndexFails, Handle, stream' = <<>>
    PROVE  ComponentUpToDate'
<1>1. UNCHANGED <<server, stream, desired>> /\ hash' = desired
  BY Zenon DEF Handle
<1>2. cache = server
  BY <1>1, SettledCache, Zenon
<1>3. desired # Absent
  BY ComponentAssumption, Zenon DEF WatchInv, WatchTypes
<1>4. List = {n \in ObjectNames : server[n] # Absent}
  BY <1>2, Zenon DEF List
<1>5. Matching = Right
  BY <1>2, <1>3, <1>4, Zenon DEF Matching, Right
<1>6. Right' = Right /\ hash' = desired'
  BY <1>1, Zenon DEF Right
<1>7. CASE Right = {} /\ handlePc' = "apply"
  BY <1>6, <1>7, Zenon DEF ComponentUpToDate
<1>8. CASE (\E n \in ObjectNames : Right = {n}) /\ handlePc' = "delete" /\ extras' = List \ Matching
  <2>1. Right' # {} /\ handlePc' # "apply" /\ handlePc' # "idle"
    BY <1>6, <1>8, Zenon
  <2>2. \A m \in ObjectNames \ Right' : server'[m] # Absent => m \in extras'
    BY <1>1, <1>4, <1>5, <1>6, <1>8, Zenon
  <2> QED
    BY <1>6, <2>1, <2>2, Zenon DEF ComponentUpToDate
<1>9. CASE (\E m, n \in Right : m # n) /\ handlePc' = handlePc
  <2>1. handlePc' = "idle"
    BY <1>9, Zenon DEF Handle
  <2>2. Right # {} /\ \A n \in ObjectNames : Right # {n}
    BY <1>9, Zenon
  <2>3. ObjectsAreRight'
    BY <1>6, <2>2, Zenon DEF ObjectsAreRight
  <2> QED
    BY <2>1, <2>3, Zenon DEF ComponentUpToDate
<1> QED
  BY <1>5, <1>7, <1>8, <1>9, Zenon DEF Handle

\* A write that happens is an event, and an error queues the key: so a handler
\* that goes on without either finds what it decided on unchanged.
LEMMA UpToDateStep ==
    ASSUME WatchInv, ~IndexFails, ComponentUpToDate, [ComponentNext]_componentVars
    PROVE  ComponentUpToDate'
<1> SUFFICES ASSUME ~queued', stream' = <<>>
             PROVE  ComponentUpToDate'
  BY Zenon DEF ComponentUpToDate, ComponentSettled
<1>t. server \in [ObjectNames -> Content] /\ stream \in Seq(ComponentEvent) /\ hash \in Specs
  BY Zenon DEF WatchInv, WatchTypes
<1>r. ~Return(TRUE) /\ ~Fails /\ (Return(FALSE) => ~queued)
  BY Zenon DEF Return, Fails
<1>1. CASE UNCHANGED componentVars
  <2>1. UNCHANGED <<server, stream, desired, queued, handlePc, hash, extras>>
    BY <1>1, Zenon DEF componentVars, handlerVars
  <2>2. ComponentSettled /\ Right' = Right
    BY <2>1, Zenon DEF ComponentSettled, Right
  <2>3. ObjectsAreRight => ObjectsAreRight'
    BY <2>1, <2>2, Zenon DEF ObjectsAreRight
  <2> QED
    BY <2>1, <2>2, <2>3, Zenon DEF ComponentUpToDate
<1>2. CASE Deliver
  BY <1>2, Zenon DEF Deliver
<1>3. CASE \E s \in Specs : ChangeOwner(s)
  BY <1>3, Zenon DEF ChangeOwner
<1>4. CASE \E n \in ObjectNames, content \in UserContents : UserWrites(n, content)
  <2>1. PICK n \in ObjectNames, content \in UserContents : UserWrites(n, content)
    BY <1>4, Zenon
  <2>2. content \in Content /\ Write(n, content) /\ cache' = cache /\ content # server[n]
    BY <2>1, ComponentAssumption, Zenon DEF UserWrites, Content
  <2> QED
    BY <2>2, WatchWrite, Zenon
<1>5. CASE Handle
  BY <1>5, SettledHandle, Zenon
<1>6. CASE ApplyObject
  <2>1. Write(NameOf[hash], hash) /\ Return(FALSE) /\ cache' = cache /\ handlePc = "apply"
    BY <1>6, <1>r, Zenon DEF ApplyObject
  <2>2. hash \in Content /\ NameOf[hash] \in ObjectNames
    BY <1>t, ComponentAssumption, Zenon DEF Content
  <2>3. stream = <<>> /\ server[NameOf[hash]] = hash
    BY <2>1, <2>2, WatchWrite, Zenon
  <2>4. ComponentSettled
    BY <1>r, <2>1, <2>3, Zenon DEF ComponentSettled
  <2>5. hash = desired /\ Right = {}
    BY <2>1, <2>4, Zenon DEF ComponentUpToDate
  <2>6. NameOf[hash] \in Right
    BY <2>2, <2>3, <2>5, Zenon DEF Right
  <2> QED
    BY <2>5, <2>6, Zenon
<1>7. CASE \E n \in ObjectNames : DeleteObject(n)
  <2>1. PICK n \in ObjectNames : DeleteObject(n)
    BY <1>7, Zenon
  <2>2. Absent \in Content /\ Write(n, Absent) /\ cache' = cache /\ Absent # server[n]
    BY <1>r, <2>1, Zenon DEF DeleteObject, Content
  <2> QED
    BY <2>2, WatchWrite, Zenon
<1>8. CASE HandleReturns
  <2>1. UNCHANGED <<server, stream, desired>> /\ handlePc = "delete" /\ extras = {} /\ handlePc' = "idle"
    BY <1>8, Zenon DEF HandleReturns, Return
  <2>2. ComponentSettled
    BY <1>8, <1>r, <2>1, Zenon DEF HandleReturns, ComponentSettled
  <2>3. Right # {} /\ \A m \in ObjectNames \ Right : server[m] = Absent
    BY <2>1, <2>2, Zenon DEF ComponentUpToDate
  <2>4. Right' = Right
    BY <2>1, Zenon DEF Right
  <2>5. ObjectsAreRight'
    BY <2>1, <2>3, <2>4, Zenon DEF ObjectsAreRight
  <2> QED
    BY <2>1, <2>5, Zenon DEF ComponentUpToDate
<1> QED
  BY <1>1, <1>2, <1>3, <1>4, <1>5, <1>6, <1>7, <1>8, Zenon DEF ComponentNext, HandlerStep

(***************************************************************************)
(* EnsureComponentByHash rests only where the objects are right            *)
(* (ComponentRestIsRight): stale lists, copied objects, objects without    *)
(* annotations, lost answers and races with users all leave either an      *)
(* event or a queued key behind, provided the index can be read.           *)
(***************************************************************************)
THEOREM ComponentRestIsRightHolds ==
    ASSUME ~IndexFails
    PROVE  ComponentSpec => []ComponentRestIsRight
<1>1. ComponentInit => WatchInv /\ ComponentUpToDate
  <2> SUFFICES ASSUME ComponentInit PROVE WatchInv /\ ComponentUpToDate
    BY Zenon
  <2>1. Absent \in Content
    BY Zenon DEF Content
  <2>2. WatchTypes
    BY <2>1 DEF ComponentInit, WatchTypes
  <2>3. ASSUME NEW n \in ObjectNames PROVE Shown(n)
    BY DEF ComponentInit, Shown
  <2>4. queued
    BY Zenon DEF ComponentInit
  <2> QED
    BY <2>2, <2>3, <2>4, Zenon DEF WatchInv, ComponentUpToDate, ComponentSettled
<1>2. WatchInv /\ ComponentUpToDate /\ [ComponentNext]_componentVars => WatchInv' /\ ComponentUpToDate'
  BY WatchStep, UpToDateStep, Zenon
<1>3. ComponentUpToDate => ComponentRestIsRight
  BY Zenon DEF ComponentUpToDate, ComponentRestIsRight
<1> QED
  BY <1>1, <1>2, <1>3, PTL DEF ComponentSpec
==============================================================================
