# Verification of controller-idioms

TLA+ models of [controller-idioms](../src), a library of building blocks for
Kubernetes controllers, with TLC configurations that model-check them on small
instances and TLAPS proofs that hold for every instance.

## The system

| part | source | what it does |
| --- | --- | --- |
| manager | `manager/manager.go` | runs a set of controllers, a health server and an event broadcaster in one errgroup; adds and cancels controllers while it runs |
| controller | `manager/controller.go` | worker goroutines that take keys from a rate limiting work queue and call a sync function |
| queue | `queue/controls.go`, `queue/retry.go` | the controls (done, requeue, ...) a handler uses on the key being processed |
| cachekeys | `cachekeys/keys.go` | keys annotated with the type of the object |
| healthz | `healthz/handler.go` | the set of health checks, by controller name |
| handler | `handler/*.go`, `middleware/*.go`, `typedctx/context.go` | handlers, chains, parallel groups; values passed through contexts |
| adopt | `adopt/*.go` | labels and annotations on objects a controller references but does not own |
| component | `component/*.go` | one object per owner and component, created, updated and de-duplicated |
| pause | `pause/pause.go` | a label that stops reconciliation of one object |
| finalizer | `finalizer/*.go` | adding and removing a finalizer |
| fileinformer | `fileinformer/file_informer.go` | an informer over a local file |
| static, bootstrap | `static/*.go`, `bootstrap/*.go` | apply the contents of a file at startup and when it changes; create CRDs |
| typed | `typed/*.go` | a registry of informer factories, typed listers and indexers |
| hash, conditions, metrics | `hash/*.go`, `conditions/*.go`, `metrics/*.go` | hashes of objects, sets keyed by hash, condition lists and their metrics |
| fake client | `client/fake/fake.go` | a dynamic client for tests, with server-side apply |

The manager starts controllers; a controller's workers take keys, which informers
and handlers put in its queue, and call sync, which is a tree of handlers. The
handlers read caches and talk to the API server, and say with the queue controls
whether and when the key is to be processed again. The one guarantee they all
rest on, that a key is processed by one worker at a time and that no request for
it is lost, is what `OwnedResourceController` is about; the modules of the
handlers have one program counter per key because of it. A static controller has
no queue: its handlers are called by the goroutine of a file informer, and
`StaticFile` composes the two.

## The modules

Each module names, at its top, the code it models and what is external to it.
A definition called "a plausible slip" is a variant of the one that follows it;
the specification does not use it. It is there to try the properties out: put in
the place of the definition it must violate the property that `PROJECT.json`
pairs it with.

### The core: queue, controller, manager

- **`CacheKeys`** (`cachekeys/keys.go`): the key function and its inverse. A key
  is a pair of GVR and name; the key of a tombstone has no GVR, as in the code.
- **`QueueOperations`** (`queue/controls.go`, `queue/retry.go`): each control as
  the sequence of closure calls (done, requeue after a delay) it makes. Errors
  are told apart by what `ShouldRetry` makes of them.
- **`WorkQueue`** (external, client-go): the queue, its dirty and processing
  sets, the timers of delayed keys and the failure counts of the rate limiter.
- **`OwnedResourceController`** (`manager/controller.go`): `Start`, the workers
  and `processNext`. `sync` is any sequence of at most `MaxUses` controls, and
  each closure call is a step of its own. The deferred `Queue.Done` is the step
  `Release`, after everything sync did.
- **`ReconcileQueue`**: what the controller promises, without a queue: requests,
  the keys being reconciled, one at a time, and each request answered by a
  reconciliation that begins after it. `OwnedResourceController` implements it,
  with `want` the keys `owed`, `active` the keys that workers hold, and `closed`
  the queue shutting down.
- **`Manager`** (`manager/manager.go`, `healthz/handler.go`): `Start`, `Go` and
  `Cancel` called by several goroutines, and the goroutines in the errgroup. A
  critical section is a step; so is each piece of code between two of them.

### The handlers

- **`Adoption`** (`adopt/*.go`): the whole `AdoptionHandler.Handle`. The server
  keeps the fields per field manager; the cache is fed by a label-filtered watch,
  which lags by up to `MaxLag` events and shows an object that loses the label as
  deleted. A call may fail, carried out or not; the process may restart. An error
  of `ExistsFunc`, whichever it is, counts as a missing object, as in the code.
- **`EnsureComponent`** (`component/*.go`): `EnsureComponentByHash.Handle` for
  one owner and component. A spec stands for its hash. Every error queues the key.
- **`Pause`** (`pause/pause.go`): both handlers on a copy that is some versions
  behind. The author's patch functions write what they are named for.
- **`Finalizer`** (`finalizer/*.go`): the get-modify-write functions and
  `SetFinalizerHandler`, several controllers on one object, resource versions.
- **`Handlers`** (`handler/*.go`, `typedctx/context.go`): a composition is a tree
  of builders, each named by its path from the root. A builder's next handler
  (`Following`) is what its `Chain` builds it with. A thread is the caller or the
  goroutine of a child of a `Parallel`; it goes through the tree, with a context.
  A leaf may set a `Key`, make or fill a box, or read
  them all; a value in a box is two words, written and read one at a time, as no
  lock guards it. `aliased` says whether keys of one type are one key: a `Key` is
  a pointer to a variable of size zero, and Go lets two of those be equal.

`Adoption`, `Pause` and `Finalizer` report errors with `RequeueAPIErr`, which
queues the key only for the errors on `ShouldRetry`'s list: an error of the API
server that suggests a delay, a connection reset, an internal error, a timeout, too
many requests. After a refused connection, an EOF, a forbidden or a plain error the
pass has ended and nothing is queued. In the three modules each failure that is
reported so may be of either kind; those that go to `RequeueErr` always queue the
key. The history variable `abandoned` says for whom the last pass gave up in this
way; the next pass, if an event brings one about, clears it.

### Files, start-up, sharing

- **`FileInformer`** (`fileinformer/file_informer.go`): the steps of Start,
  AddEventHandler and Run, with its select loop and lock. The watch belongs to the
  file, not to the path (external, fsnotify).
- **`StaticController`** (`static/controller.go`, `bootstrap/resource.go`): the
  documents of a file applied one after the other, and the stored hash. When the
  handler is called is left open.
- **`StaticFile`**: the two together. It extends the controller and instantiates
  the informer; they share the file. A call of `Controller.Start` adds a handler
  and starts the factory; `Run` calls the handlers under its read lock and goes on
  when the handler has returned; the stop channel is the context of the patches.
- **`CRDs`** (`bootstrap/crds.go`): replicas that create, update and poll.
- **`Registry`** (`typed/registry.go`): providers and consumers of shared
  informer factories.
- **`FakeClient`** (`client/fake/fake.go`): the two trackers of the fake client.
  `Apply` works on the one that knows the owners of fields and copies its result
  to the other, on which all other calls work; each of its calls on a tracker is a
  step. An apply patch that reaches the upstream fake is handled by a reactor with
  the same steps, under the fake's lock. Server-side apply itself is external.
  `undisturbed`, `diverged` and `had` are history variables for the properties.

`MC...` modules give values to constants that a `.cfg` cannot write down.

## What is checked

### Runs that pass

One run per state machine, with its races, faults and delays all at once.

| run | instance | properties |
| --- | --- | --- |
| `controller` | two workers, one object and its tombstone key, two control uses per sync | `OneWorkerPerKey`: two workers never process one key. `NoLostRequeue`: until shutdown, a key asked for is queued or has a timer. `FailuresForgotten`: the limiter remembers only keys being synced. `DrainedAtExit`: the last worker leaves an empty queue. `Terminates`. `ImplementsPromise`: refinement of `ReconcileQueue`, liveness included |
| `manager` | two racing Starts, a client that calls Go or Cancel, a server that may fail, shutdown at any time | `OneStartTakesEffect`. `ReadyMeansLaunched`: ready is truthful also for the Start that lost. `ServerErrorIsReturned`. `StopsControllers`: what is around after Start has returned has a cancelled context. `ShutdownCompletes` |
| `adopt` | two owners, two objects, all initial references up to symmetry, two changes, one fault or restart, lag 2 | `OtherOwnersKept`: a handler leaves the other owner's annotation alone. `ReferencesAreFollowed`: annotations agree with references in the end, for owners that the handler has not given up on. `ReleasedIsUnlabelled`: an object that owners hold one after another loses the label after the last |
| `component` | three specs (two share a name), three names, three changes, one fault, lag 3; users edit, delete and copy objects | `DeleteSparesCurrent`: the wanted object is never deleted, unless users copied one. `Converges`: there is one in the end, and nothing else unless it was copied |
| `pause` | three edits of the label, two self-pauses, two faults | `PauseTakesEffect`, `UnpauseTakesEffect`: the condition follows the label and reconciliation stops and resumes, unless the last pass gave up |
| `finalizer` | two controllers, two edits by users, one fault | `OwnFinalizerOnly`, `DeletionRespected`: what get-modify-write is for. `FinalizersAreSet`, `DeletionCompletes`: in the end, but for a controller whose last pass gave up |
| `static` | two calls of Controller.Start, two contents, one of them with a document that cannot be decoded, two changes of any kind, a fault, a restart, cancellation | `SyncedAfterInitialRead`. `NoMissedChange`: a waiting informer has a watch on a file that was written or replaced, and has noticed every write in place; what happens to a replaced file before `watcher.Add` waits for the resync. `SkipIsSafe`: a skipped file is applied. `StopIsFollowed`: a cancelled Run ends and closes the watcher, unless the lock was left taken. `FileIsApplied`: from the file to the cluster |
| `fake_client` | two callers, two fields, two managers, with and without force, through Apply or a raw patch, four calls | `StoresAgree`: the trackers agree where nothing interfered. `ApplyKeepsOthers`: an undisturbed Apply changes what it manages and nothing else. `AppliedIsServed`: what it applied can be read |
| `crds` | two replicas of a rolling upgrade, one with the old and one with the new definitions of two CRDs, one of them there already, a fault, a deletion, a timeout | `InstalledIsServed`: no error means written and seen, at some time. `CreatesOrUpdates`: conflicting updates succeed. `EveryReplicaReturns`: before the time is over, unless the cluster does not serve what a replica waits for |
| `handlers` | compositions of up to seven leaves, two of which may stop | `OrderIsKept` across goroutines, `EveryLeafRuns` (no inner Chain but a last one), `RequestIsHandled`. `BoxedValuesArrive`: a reader gets the last value put into its box, whole, if the composition orders the accesses. `PlainValuesFlowDown`: it gets the value set last on the way of the context, never one of another goroutine |
| `registry` | two providers, two consumers, two keys, three factories | `CachesAreShared`: one cache per registration of a key. `DeclaredIsServed` |

Some properties have exceptions, for what the code does not promise:

- `ReferencesAreFollowed`, `PauseTakesEffect`, `UnpauseTakesEffect`,
  `FinalizersAreSet` and `DeletionCompletes` say nothing of whom the last pass gave up
  on (`abandoned`). An error that is not retried is dropped, and the label,
  condition, annotation or finalizer stays as it is until some event makes the
  handler run again. A `SelfPauseHandler` whose label patch fails has such an
  event on its way, that of its status patch.
- `ReferencesAreFollowed` also leaves out an owner whose object is missing, or was
  deleted while it had no label: no watch event tells the controller.
- `StopIsFollowed` leaves out a `Run` whose lock was left taken: `AddEventHandler`
  panics with the read lock held (`fileinformer/file_informer.go:176`), and if the
  caller recovers, `Run` waits for the lock for ever.
- `EveryReplicaReturns` lets a replica wait for the time to be over when a resource
  that it waits for is not served: its CRD was deleted, or a replica of an older
  release has overwritten the definition before discovery showed it.
- `StoresAgree`, `ApplyKeepsOthers` and `AppliedIsServed` speak of an `Apply` that no
  other write overlaps with (`undisturbed`), the first two of objects that only such
  Applies have written since they were created (`diverged`).
- `Converges` leaves the other objects alone once the wanted one has been copied.

Two of the runs leave something out that the code allows, and the table of
statements that do not hold says what happens then: in `static` a file is not put
back to an earlier content (`Reverts = FALSE`), and in `handlers` a Chain
that is a child of a Chain is its last (`ChainsAreLast`). `component` supposes an
index function that does not fail (`IndexFails = FALSE`). In `adopt`, `ReleasedIsUnlabelled` speaks of runs without
faults in which no object ever has two owners.

Every module states its type invariant, which the proofs establish where there
are proofs.

### The run that finds a disagreement

`manager_cancel` checks `CancelStopsControllers`, "Cancel stops the controllers
that are passed in" (`manager/manager.go:170`). TLC finds that `Go` returns before
the goroutine it launched has registered its cancel function; a `Cancel` that
comes first finds nothing to cancel, and the controller runs on.

### Other statements that do not hold

These came up while the modules were written. The properties above are stated so
that they leave these cases out. Where a property is named, it is in the
module, and TLC refutes it with the constants given here; it is in no run.

| what the code says | what it does | property, constants |
| --- | --- | --- |
| "the wait from `Start` will wait for the new goroutines" (`manager/manager.go:166`) | Go can launch a goroutine after the wait is over; its context is cancelled (`StopsControllers`) | `StartWaitsForControllers`; as `manager_cancel`, `Blocking = {a}`, `MaxOps = 1` |
| "cancel the manager's context, which will clean up all controllers" (`manager/manager_test.go:54`) | a controller that registers after the cleanup stays in it | `RegistryIsCleared`; the same |
| "requeues after the wait period, otherwise, it requeues immediately" (`queue/controls.go:123`) | `RequeueAPIErr` does both for a transient error, and neither for another one | visible in `RequeueAPIErr` of `QueueOperations` |
| "Changes to objects of that type are processed via a workqueue" (`manager/controller.go:83`) | the key of a tombstone has no GVR, and is dropped unprocessed | visible in `ProcessNext` |
| an adopted object is labelled for the watch (`adopt/adopt.go:9-11`) | an owner that sees the label in a stale cache annotates the object after another has taken the label away | `AdoptedIsWatched`; as `adopt`, no faults, no user actions |
| "if object is not owned by any other object, remove the controller Labels" (`adopt/adopt.go:284`) | two owners that release it at once each see the other in the cache, and nobody comes back | `UnownedIsUnlabelled`; as `adopt`, no faults, no user actions |
| "check if object exists at all before applying" (`adopt/adopt.go:194`) | an object deleted after the check is created again by the apply | `NeverCreates`; as `adopt`, no faults, `UserActions = {"delete"}` |
| "ObjectMissingFunc is called when the object cannot be found" (`adopt/adopt.go:123`) | it is called for every error of `ExistsFunc`, and the pass ends; by default nothing is queued | visible in `CheckExists` of `Adoption` |
| duplicates that do not match are deleted (`component/component.go:12-13`) | with two objects of the right hash nothing is deleted | `OthersAreDeleted`; as `component` |
| a paused object is not processed until the label is removed (`pause/pause.go:5-6`) | the event of the self-pause's status patch starts a pass on a copy without the label | `SelfPauseHolds`; `MaxEdits = 0`, `MaxSelfPauses = 1`, no faults |
| "cannot add event handlers after informer has started" (`fileinformer/file_informer.go:176`) | the check and the append are two critical sections; a handler added between them misses the initial read | `NoLateHandlers` of `StaticFile`; as `static`, `MaxTrouble = 0` |
| "Shutdown stops watching" (`fileinformer/file_informer.go:61`) | `Shutdown` has an empty body | not modelled: it changes nothing |
| "no changes since last apply" (`bootstrap/resource.go:66`) | a file put back after a change that was applied in part is skipped | `SkipIsSafe`; as `static`, `Reverts = TRUE`, `InitialFiles = {c1}` |
| "creates (or updates) CRDs" (`bootstrap/crds.go:65`) | two replicas that find no CRD both create it, and one fails | the exception in `CreatesOrUpdates` |
| builders compose (`handler/chain.go:3-4`) | a Chain that is not the last child of a Chain drops what follows | `EveryLeafRuns`; `Builders <- MCNested` |
| handlers can "access the cached resources held by the informer" (`typed/registry.go:61-62`) | an informer first asked for after the start never runs | `HandedOutIsServed`; one provider and consumer, two resources |
| a `Key` is the key of a specific value (`typedctx/context.go:78-79`) | `NewKey` returns a pointer to a variable of size zero; keys of one type may be equal, and a value set under one is read under the other | `KeysAreDistinct`; as `handlers` |
| "parallel steps can "fill in" a predefined space" (`handler/parallel_test.go:21-22`) | two steps that fill one box, or one that fills it while another reads, race: a value of two words may be read half and half | `ValuesAreWhole`; as `handlers` |
| "Full field management" (`client/fake/README.md:7`) | an Apply starts from what the last Apply left, not from what an Update or Delete has made of the object since, and overwrites that | `ApplyKeepsUpdates`; as `fake_client` |
| "ApplyStatus applies the status subresource" (`client/fake/fake.go:320`) | it is `Apply` of the whole object; the subresource is dropped | visible in `Apply` of `FakeClient` |

### Bounds

Every bound is a constant named `Max...`, or the size of a set. They are chosen
so that each race has all its participants: two workers for one key, two Starts
and a client, two owners of one object, two controllers with a finalizer on it,
as many replicas as tries, two Applies and a delegated call on one object. (`Steps` is 4 in the code and 2 in the run, with two
replicas.) Faults are bounded, because what converges does so once calls
succeed, if anything is left that makes the handler run (see `abandoned`); changes by
users likewise. Lags are at least the number of writes that a pass
makes to one object, so that a pass may begin before any of the previous one's
writes has come back. `MaxDelay` is 2, to tell "at once" from "later";
`MaxFailures` is 1, one step of the limiter's backoff. `MaxTrouble` bounds
changes, faults and restarts of `static` together, so that any two of them meet.
The fake client's four calls are what it takes for an update to come between two
Applies while a third overlaps with one of them.

`CHECK_DEADLOCK FALSE` stands where the system comes to rest: when users have
made their changes and the controllers have followed. The controller's own run
checks for deadlock.

### Fairness

Weak fairness for goroutines that can go on (the Go scheduler), for timers, for
the delivery of watch events (an informer reconnects and lists again) and for a
queued key being processed, which is what the controller's refinement shows.
Calls to the server return. `StaticFile` has weak fairness for the goroutine of
`Run`, whose resync timer fires again and again, and strong fairness for the stop
channel, because `select` picks among the ready branches at random. Nothing is assumed of
users, of informers having news, of anyone calling Start, Go or Cancel, or of a
handler using a control. `Registry` assumes that a controller that has registered
a factory starts it.

## What is proved

TLAPS proves the following for every value of the constants that satisfies the
named assumptions of the modules. The assumptions say that bounds are natural
numbers and that model values for "none" are not values of the type they extend.

Most proof modules extend the module of one component. `ControllerProofs` and
`ResourceProofs` each extend two that share no state and are proved about
separately; for that the specifications of `EnsureComponent` and `Registry` have
names of their own (`ComponentSpec`, `RegistrySpec`). `FinalizerProofs` extends
`Finalizer` and has `Pause` as the instance `P`.

For `Finalizer`, `Pause`, `EnsureComponent` and `Adoption` there is, beside the
invariants the runs check, a theorem that says where the handler may come to rest: the
part of its liveness property that needs no fairness. A handler that works on a stale
cache and returns without an error is called again only if an event or a queued key is
left; the theorem says that when neither is left the cluster is right. The argument is
the same in all four. Every write that changes what the watch shows
is an event; so a handler that has nothing to come back for has decided on the latest
state, and each of its places says what it found there. Fairness then adds that
rest is reached, which TLC checks.

**`ControllerProofs`** about `OwnedResourceController`. The inductive invariant
`SafetyInv` is `TypeOK` with `QueueInv` (the queue lists, once each, the dirty
keys nobody is processing) and `HeldInv` (the processing set is what the workers
hold, each key by one of them). `MutualExclusion` is a conjunct of it and is not
inductive without the others: that a key given out is not held already follows
from the queue being disjoint from the processing set. `RequeuesAreKept`,
`LimiterIsClean` and `WorkersDrain` are proved on top of it; the last one needs
`ExitInv`, that what is queued after a worker has left was put back by one still
running. `RequestsAreScheduled` says who is responsible for a requested key: the
queue lists it, a worker holds it and will list it, or a timer will add it. `ImplementsPromiseSafety`: every step is a step of `ReconcileQueue` or a
stutter.

**`ControllerProofs`** about `EnsureComponent`. `AllPlaced`: in the cluster, in the
cache and on the way between them a hash is found only under the name that `newObj`
gives it. `WantedSpared`: what is noted for deletion is not what is wanted.
`DeleteSparesCurrentHolds` is about runs in which users have not copied an object
with its annotation, as the property says. `ComponentRestIsRightHolds` is about all
runs, if the index can be read: the latest event on its way, or else the cache, shows
an object as it is (`Shown`), and a handler that is not to be called again has decided
on that (`ComponentUpToDate`). A deletion that meets a missing object is an error and
queues the key; a creation that changes nothing cannot happen to a settled handler.

**`ManagerProofs`**. `CoreInv` is `TypeOK` with `PlaceInv` (whose code a caller
can be in), `OnceInv` (`sync.Once` lets one Start in, and it alone launches) and
`ReturnInv` (Start returns from a done context). It gives `NothingRunsUnstopped`
and `FirstStartOnly`. `ErrorReachesCaller` adds `WaitInv`, that the server is
gone after the wait; `ReadyIsReady` adds `LaunchInv`, that each controller is
launched or still ahead of the loop.

**`ResourceProofs`** about `Adoption`. `OwnAnnotation`: a field manager holds only
the annotation of its owner. With `HandlersFit`, that a handler's locals are fit
for where it is, this gives `OtherOwnersKeptHolds`. `RestFollowsReferenceHolds` is
about one owner among others that write the same objects. Their events come and go,
so "no event on its way" would be too strong; `Awaits` are the events that will queue
this owner, and `OwnerUpToDate` holds while there are none. It leaves out the owners in
`abandoned`: those whose last pass ended on an error that is not retried or on an
`ExistsFunc` error, and those whose object was deleted when it had the annotation
and had lost its label, which is no event for anybody. The deletion of a labelled
object is one (`ViewWrite`).

**`ResourceProofs`** about `Registry`. `CachesAreShared` compares handles given out
at different times; the invariant ties each of them to the registry as it is: a
provider's registration is the current one of its key (`Registrations`), and a
handle of a current registration has the registered factory (`Handles`). A removal
makes every older handle outdated at once, because registrations are numbered.
`StartedServes` adds `Declarations`: what a provider declared has an informer in its
factory, and a running one once it has started. Whether a lookup comes before or
after the start makes no difference.

**`FinalizerProofs`**. `GotIsFit`: the version a controller is about to update was
one that it may update. As the server takes an update of the latest version only,
`OwnFinalizerOnlyHolds` and `DeletionRespectedHolds` follow. `RestIsRightHolds` needs
`UpToDate`, what a controller has in hand when it has nothing to come back for, and
`Reaped`, that the server keeps no object that is marked for deletion and has no
finalizers. A conflict or a missing object is not retried, but means a version that
the controller has still to see. Another error outside `ShouldRetry`'s list leaves it
with nothing to come back for: it is then in `abandoned`, of which the theorem says
only that a deletion waits for nobody else. About `Pause`: `PauseTypeCorrect`, and
`PauseRestIsRightHolds`, with the same exception. Its `PauseUpToDate` says among other
things that a `SelfPauseHandler` between its two patches always has an event to come
back for.

**`StaticFileProofs`**. `ImplementsController`: the composition implements
`StaticController`, since every step of the informer leaves the controller alone
and every call of the handler is a `Handle` or `ReadFails`. So what is proved of
the controller holds in the composition: `SkippingIsSafe` rests on `CInv`, which
says that a stored hash is that of a file that was there and decodes (`Stored`),
and of the file being applied which documents the cluster already shows and
which are left (`Applying`). It assumes `~Reverts`, as the run does.
`SyncedMeansRead` and `NothingIsMissed` rest on `InformerInv`, of the informer
in the composition: where `Run` is, which handlers have read, and, for a file
that was only written or replaced, that it is watched or that the event which
will add the watch again is pending (`RemovalPending`). `WaitingMeansApplied` is
across the two: what a handler was called for, as the file is now, is applied or
under way (`ReadIsApplied`); with `NothingIsMissed` the file of a waiting informer is
applied. It is about files that were written in place, runs without failures, and
`~Reverts`.

**`FakeClientProofs`**. `IInv` follows an Apply that nothing has disturbed
(`Progress`): what it has read and what it will write is what the trackers hold,
until it returns; it is the only one on its object (`Single`). The three
properties follow from it, for any number of callers, fields and managers.

**`CRDsProofs`**. `InstalledHolds` rests on `IInv`: the loop has written what is
behind it (`LoopIsDone`), and what a replica does not wait for any more it has
seen (`NothingIsForgotten`). It holds whatever fails, is deleted or times out.
`UpdatesHold` needs a count (`ConflictsAreCounted`): the version of a CRD is the
number of replicas that have written it, and an update that has met n conflicts
has n of them behind it; each replica writes a CRD once, so there are fewer
conflicts than replicas. The hypothesis `Cardinality(Replicas) <= Steps` is tight:
with three replicas and two tries TLC finds a replica whose tries run out. In the
code `Steps` is 4. The count is of the replicas' writes; that the API server
writes a CRD's status, which conflicts with an update as well, is not modelled.

**`HandlersProofs`**, for every tree of builders, of any depth and
width. `TInv` says where threads can be: inside the builder that they were started
for, with only Chains in between (`ThreadsAreInside`); below threads that wait for
them (`ThreadsAreNested`); and never one ahead of another in a Chain
(`ThreadsAreUnordered`). `TypeOK` needs it, since a goroutine could otherwise be
started twice. On top of it:

- `OInv`: what a Chain puts before a thread's handler is over, what it puts after
  it has not begun, and what is in the builder of a thread that has returned is
  over. "Over" is "has run, or a leaf that should have called it has stopped".
  `OrderHolds` and `LeavesRun` follow. The hypothesis is that every composition
  satisfies `ChainsAreLast`; without it `EveryLeafRuns` is false (see the table
  above), because an inner Chain drops the handler that it is given.
- `PInv`: a thread's context has the value set last on its way
  (`ContextsAreRight`), and so has what leaves have read. `PlainValuesHold` has no
  hypothesis about the composition: contexts are never shared.
- `BInv`: a context has the box that was made last on its way (`BoxesAreRight`),
  and each word of a box is that of the last leaf that has filled it
  (`BoxesAreFilled`). The second rests on `OInv`, as boxes are shared between
  goroutines and only the order of the leaves keeps them from racing; so
  `BoxedValuesHold` has the hypothesis `ChainsAreLast`.

That a value is the last one on a way of any length would be an induction over
paths, which the prover does not do. The invariants avoid it: a step of a thread
takes the way one leaf further.

Only model-checked: every liveness property (and so the liveness half of
`ImplementsPromise`), which the prover does not reach: that rest is reached, and not
where it is. Every safety property of a passing run is proved.

## What is not modelled

- `typed` listers and indexers, `conditions`, `middleware`, `metrics`: stateless
  conversions and accessors, with nothing for a model to tell apart. Metrics
  counts objects in 16 bit integers.
- `hash`: the functions are taken to be free of collisions on the contents of a
  run. The set keyed by hash is a map that no two callers share.
- Ids of handlers and the lookups by id (`ToSet`, `Find`, `MustFind`): pure
  lookups, decided before a request is handled.
- `component/component_handler.go`, which puts the result of `List` into a
  context.
- `ForResource`, `WaitForCacheSync` and `Shutdown` of the file informer's factory:
  one informer is followed, and `Shutdown` has an empty body. The error branch of
  its select only logs.
- In `client/fake`: schemas and conversions, which decide how fields are merged
  and not when; dry runs; `client/rest.go`, a constructor.
- The error of `srv.Shutdown` (`manager/manager.go:121`), which joins the errgroup as
  the server's own does, and Starts with different parent contexts: those of `Manager`
  share one.
- A handler that panics: a child of a `Parallel` that does so before its `Done` ends
  the process.
- The contexts that informer factories are started with: in `Registry` an informer
  that runs goes on running.
- `queue/fake` is generated, `magefiles` and `tools.go` are build scripts.
