------------------------------ MODULE Adoption ------------------------------
(***************************************************************************)
(* AdoptionHandler (adopt/adopt.go): the handler that labels the object an *)
(* owner references, annotates it for the owner, and releases the objects  *)
(* the owner no longer references.  Several owners, each with its own key  *)
(* in the work queue, run the handler concurrently.                        *)
(*                                                                         *)
(* The API server, the label-filtered watch that feeds the cache, the      *)
(* users who change references and delete objects, and the event handlers  *)
(* that put an owner's key in the queue are external.  An owner's key is   *)
(* processed by one worker at a time (see OwnedResourceController), so the *)
(* handler has one program counter per owner.                              *)
(***************************************************************************)
EXTENDS Naturals, Sequences

CONSTANTS Owners, Objects,
          NoObject,       \* the empty name
          References,     \* what the owners may reference at first
          UserActions,    \* what users do, of {"delete", "create"}
          MaxChanges,     \* changes users make
          MaxFaults,      \* failing calls and restarts
          MaxLag          \* watch events on their way to the cache

ASSUME AdoptionAssumption ==
    /\ NoObject \notin Objects
    /\ References \subseteq [Owners -> Objects \cup {NoObject}]
    /\ UserActions \subseteq {"delete", "create"}
    /\ MaxChanges \in Nat /\ MaxFaults \in Nat /\ MaxLag \in Nat

VARIABLES
    server,      \* the objects in the cluster
    stream,      \* watch events not yet in the cache, oldest first
    cache,       \* the informer's store and its index by owner
    ref,         \* the object each owner references
    dirty,       \* owners whose key is queued
    pc,          \* where each owner's handler is
    adoptee,     \* Handle's adoptee
    extras,      \* Handle's extraObjects, still to be released
    old,         \* the extra object whose label is to be removed
    abandoned,   \* history: owners that nothing makes the handler come back for:
                 \* their last pass ended early, with nothing queued, or their
                 \* object was deleted when it had no label, which is no event
    changes, faults

handlerVars == <<pc, adoptee, extras, old>>
vars == <<server, stream, cache, ref, dirty, handlerVars, abandoned, changes, faults>>

(***************************************************************************)
(* An object: whether the controller's labels are on it, and the owner     *)
(* annotations that each owner's field manager has applied.                *)
(***************************************************************************)
Object == [exists : BOOLEAN, label : BOOLEAN, applied : [Owners -> SUBSET Owners]]
Blank == [exists |-> TRUE, label |-> FALSE, applied |-> [m \in Owners |-> {}]]
Absent == [Blank EXCEPT !.exists = FALSE]

Annotations(obj) == UNION {obj.applied[m] : m \in Owners}

\* What the watch shows of an object.
Seen == [watched : BOOLEAN, owners : SUBSET Owners]
Unseen == [watched |-> FALSE, owners |-> {}]
View(obj) == IF obj.exists /\ obj.label
               THEN [watched |-> TRUE, owners |-> Annotations(obj)] ELSE Unseen

\* An extra object: its name, and whether it has another owner's annotation.
Extra == [obj : Objects, hasOtherOwner : BOOLEAN]
NoExtra == [obj |-> NoObject, hasOtherOwner |-> FALSE]

PC == {"idle", "exists", "label", "index", "annotate", "release", "unlabel"}

TypeOK ==
    /\ server \in [Objects -> Object]
    /\ stream \in Seq([obj : Objects, seen : Seen])
    /\ cache \in [Objects -> Seen]
    /\ ref \in [Owners -> Objects \cup {NoObject}]
    /\ dirty \subseteq Owners
    /\ pc \in [Owners -> PC]
    /\ adoptee \in [Owners -> Objects \cup {NoObject}]
    /\ extras \in [Owners -> SUBSET Extra]
    /\ \A a \in Owners : \A e \in extras[a] : e.obj # adoptee[a]
    /\ old \in [Owners -> Extra \cup {NoExtra}]
    /\ abandoned \subseteq Owners
    /\ changes \in 0..MaxChanges
    /\ faults \in 0..MaxFaults

Init ==
    /\ server = [o \in Objects |-> Blank]
    /\ stream = <<>>
    /\ cache = [o \in Objects |-> Unseen]
    /\ ref \in References
    /\ dirty = Owners
    /\ pc = [a \in Owners |-> "idle"]
    /\ adoptee = [a \in Owners |-> NoObject]
    /\ extras = [a \in Owners |-> {}]
    /\ old = [a \in Owners |-> NoExtra]
    /\ abandoned = {}
    /\ changes = 0
    /\ faults = 0

(***************************************************************************)
(* The API server and its watch.                                           *)
(***************************************************************************)
Write(o, obj) ==
    /\ server' = [server EXCEPT ![o] = obj]
    /\ IF View(obj) = View(server[o])
         THEN UNCHANGED stream
         ELSE /\ Len(stream) < MaxLag
              /\ stream' = Append(stream, [obj |-> o, seen |-> View(obj)])

\* An object with the labels, or the annotations, that a field manager
\* applies.  Server-side apply drops what the manager applied before and
\* creates an object that is missing.
WithLabels(obj, on) == [obj EXCEPT !.exists = TRUE, !.label = on]
WithAnnotations(obj, manager, owners) ==
    [obj EXCEPT !.exists = TRUE, !.applied[manager] = owners]

\* The next watch event reaches the cache, and the event handlers queue the
\* owners found in the annotations of the old and of the new object.
Deliver ==
    /\ stream # <<>>
    /\ LET e == Head(stream) IN
         /\ cache' = [cache EXCEPT ![e.obj] = e.seen]
         /\ dirty' = dirty \cup cache[e.obj].owners \cup e.seen.owners
    /\ stream' = Tail(stream)
    /\ UNCHANGED <<server, ref, handlerVars, abandoned, changes, faults>>

(***************************************************************************)
(* Users.                                                                  *)
(***************************************************************************)
ChangeReference(a, o) ==
    /\ changes < MaxChanges
    /\ ref[a] # o
    /\ ref' = [ref EXCEPT ![a] = o]
    /\ dirty' = dirty \cup {a}
    /\ changes' = changes + 1
    /\ UNCHANGED <<server, stream, cache, handlerVars, abandoned, faults>>

DeleteObject(o) ==
    /\ "delete" \in UserActions
    /\ changes < MaxChanges
    /\ server[o].exists
    /\ Write(o, Absent)
    /\ abandoned' = IF server[o].label THEN abandoned
                                       ELSE abandoned \cup Annotations(server[o])
    /\ changes' = changes + 1
    /\ UNCHANGED <<cache, ref, dirty, handlerVars, faults>>

CreateObject(o) ==
    /\ "create" \in UserActions
    /\ changes < MaxChanges
    /\ ~server[o].exists
    /\ Write(o, Blank)
    /\ changes' = changes + 1
    /\ UNCHANGED <<cache, ref, dirty, handlerVars, abandoned, faults>>

(***************************************************************************)
(* The handler.                                                            *)
(***************************************************************************)
\* OwnerFieldManagerFunc(owner): a field manager of its own for each owner.
\* A plausible slip: one field manager for all of them.
SharedFieldManager(a) == CHOOSE m \in Owners : TRUE

OwnerFieldManagerFunc(a) == a

\* Handle returns, with the key queued again or not.
Return(a, requeue) ==
    /\ pc' = [pc EXCEPT ![a] = "idle"]
    /\ adoptee' = [adoptee EXCEPT ![a] = NoObject]
    /\ extras' = [extras EXCEPT ![a] = {}]
    /\ old' = [old EXCEPT ![a] = NoExtra]
    /\ dirty' = IF requeue THEN dirty \cup {a} ELSE dirty

\* It returns early.
ReturnEarly(a, requeue) ==
    /\ Return(a, requeue)
    /\ abandoned' = IF requeue THEN abandoned ELSE abandoned \cup {a}

\* A plausible slip: an error, also one that a retry would mend, is taken for
\* a success.
ApplyFailureDropped(a, o, obj) ==
    /\ faults < MaxFaults
    /\ faults' = faults + 1
    /\ Write(o, obj) \/ UNCHANGED <<server, stream>>
    /\ Return(a, FALSE)
    /\ UNCHANGED abandoned

\* ApplyFunc fails, though it may have been carried out, and Handle returns
\* after RequeueAPIErr, which queues the key for an error ShouldRetry lists.
ApplyFails(a, o, obj) ==
    /\ faults < MaxFaults
    /\ faults' = faults + 1
    /\ Write(o, obj) \/ UNCHANGED <<server, stream>>
    /\ \E shouldRetry \in BOOLEAN : ReturnEarly(a, shouldRetry)

\* Handle begins, and looks for the adoptee in the cache.
HandleBegins(a) ==
    /\ pc[a] = "idle"
    /\ a \in dirty
    /\ dirty' = dirty \ {a}
    /\ abandoned' = abandoned \ {a}
    /\ adoptee' = [adoptee EXCEPT ![a] = ref[a]]
    /\ pc' = [pc EXCEPT ![a] =
                IF ref[a] # NoObject /\ ~cache[ref[a]].watched THEN "exists" ELSE "index"]
    /\ UNCHANGED <<server, stream, cache, ref, extras, old, changes, faults>>

\* GetFromCache (before anything else) or ByIndex fails: RequeueErr.
ReadFails(a) ==
    /\ \/ pc[a] = "idle" /\ a \in dirty
       \/ pc[a] = "index"
    /\ faults < MaxFaults
    /\ faults' = faults + 1
    /\ ReturnEarly(a, TRUE)
    /\ UNCHANGED <<server, stream, cache, ref, changes>>

\* ExistsFunc.  Any error, also that of a call which failed, is taken for a
\* missing object: ObjectMissingFunc, which is the author's and may requeue the
\* key, and Handle returns.
CheckExists(a) ==
    /\ pc[a] = "exists"
    /\ \/ /\ server[adoptee[a]].exists
          /\ pc' = [pc EXCEPT ![a] = "label"]
          /\ UNCHANGED <<adoptee, extras, old, dirty, abandoned, faults>>
       \/ /\ \/ ~server[adoptee[a]].exists /\ UNCHANGED faults
             \/ faults < MaxFaults /\ faults' = faults + 1
          /\ \E requeue \in BOOLEAN : ReturnEarly(a, requeue)
    /\ UNCHANGED <<server, stream, cache, ref, changes>>

ApplyLabel(a) ==
    /\ pc[a] = "label"
    /\ LET obj == WithLabels(server[adoptee[a]], TRUE) IN
         \/ /\ Write(adoptee[a], obj)
            /\ pc' = [pc EXCEPT ![a] = "index"]
            /\ UNCHANGED <<adoptee, extras, old, dirty, abandoned, faults>>
         \/ ApplyFails(a, adoptee[a], obj)
    /\ UNCHANGED <<cache, ref, changes>>

\* The objects the index has for the owner, and the extra ones among them.
Indexed(a) == {o \in Objects : a \in cache[o].owners}

\* A plausible slip: the owner itself counts as another owner.
ExtraObjectsAll(a, objs) ==
    {[obj |-> o, hasOtherOwner |-> cache[o].owners # {}] : o \in objs}

ExtraObjects(a, objs) ==
    {[obj |-> o, hasOtherOwner |-> cache[o].owners # {a}] : o \in objs}

ByIndex(a) ==
    /\ pc[a] = "index"
    /\ extras' = [extras EXCEPT ![a] = ExtraObjects(a, Indexed(a) \ {adoptee[a]})]
    /\ pc' = [pc EXCEPT ![a] = IF adoptee[a] \in Indexed(a) \cup {NoObject}
                                 THEN "release" ELSE "annotate"]
    /\ UNCHANGED <<server, stream, cache, ref, dirty, adoptee, old, abandoned, changes, faults>>

Annotate(a) ==
    /\ pc[a] = "annotate"
    /\ LET obj == WithAnnotations(server[adoptee[a]], OwnerFieldManagerFunc(a), {a}) IN
         \/ /\ Write(adoptee[a], obj)
            /\ pc' = [pc EXCEPT ![a] = "release"]
            /\ UNCHANGED <<adoptee, extras, old, dirty, abandoned, faults>>
         \/ ApplyFails(a, adoptee[a], obj)
    /\ UNCHANGED <<cache, ref, changes>>

\* One turn of the loop over the extra objects: the owner's annotation is
\* removed; the labels follow if the index showed no other owner.
RemoveAnnotation(a, e) ==
    /\ pc[a] = "release"
    /\ e \in extras[a]
    /\ LET obj == WithAnnotations(server[e.obj], OwnerFieldManagerFunc(a), {}) IN
         \/ /\ Write(e.obj, obj)
            /\ extras' = [extras EXCEPT ![a] = @ \ {e}]
            /\ IF e.hasOtherOwner
                 THEN UNCHANGED <<pc, old>>
                 ELSE /\ pc' = [pc EXCEPT ![a] = "unlabel"]
                      /\ old' = [old EXCEPT ![a] = e]
            /\ UNCHANGED <<adoptee, dirty, abandoned, faults>>
         \/ ApplyFails(a, e.obj, obj)
    /\ UNCHANGED <<cache, ref, changes>>

RemoveLabel(a) ==
    /\ pc[a] = "unlabel"
    /\ LET obj == WithLabels(server[old[a].obj], FALSE) IN
         \/ /\ Write(old[a].obj, obj)
            /\ pc' = [pc EXCEPT ![a] = "release"]
            /\ old' = [old EXCEPT ![a] = NoExtra]
            /\ UNCHANGED <<adoptee, extras, dirty, abandoned, faults>>
         \/ ApplyFails(a, old[a].obj, obj)
    /\ UNCHANGED <<cache, ref, changes>>

\* All extra objects are released: the next handler runs, and Handle returns.
HandleNext(a) ==
    /\ pc[a] = "release"
    /\ extras[a] = {}
    /\ Return(a, FALSE)
    /\ UNCHANGED <<server, stream, cache, ref, abandoned, changes, faults>>

(***************************************************************************)
(* The controller restarts in the middle of whatever it does: the informer *)
(* lists the labelled objects afresh, and every owner is queued.           *)
(***************************************************************************)
Restart ==
    /\ faults < MaxFaults
    /\ faults' = faults + 1
    /\ stream' = <<>>
    /\ cache' = [o \in Objects |-> View(server[o])]
    /\ dirty' = Owners
    /\ pc' = [a \in Owners |-> "idle"]
    /\ adoptee' = [a \in Owners |-> NoObject]
    /\ extras' = [a \in Owners |-> {}]
    /\ old' = [a \in Owners |-> NoExtra]
    /\ abandoned' = {}
    /\ UNCHANGED <<server, ref, changes>>

------------------------------------------------------------------------------
HandlerStep(a) ==
    \/ HandleBegins(a) \/ ReadFails(a)
    \/ CheckExists(a) \/ ApplyLabel(a)
    \/ ByIndex(a) \/ Annotate(a)
    \/ \E e \in extras[a] : RemoveAnnotation(a, e)
    \/ RemoveLabel(a) \/ HandleNext(a)

Next ==
    \/ Deliver
    \/ \E a \in Owners, o \in Objects \cup {NoObject} : ChangeReference(a, o)
    \/ \E o \in Objects : DeleteObject(o) \/ CreateObject(o)
    \/ \E a \in Owners : HandlerStep(a)
    \/ Restart

(***************************************************************************)
(* Watch events arrive, queued keys are processed and calls return.        *)
(***************************************************************************)
Spec ==
    /\ Init /\ [][Next]_vars
    /\ WF_vars(Deliver)
    /\ \A a \in Owners : WF_vars(HandlerStep(a))

------------------------------------------------------------------------------
(***************************************************************************)
(* While it runs, the handler of one owner never adds or removes another   *)
(* owner's annotation, stale as its cache may be: each owner applies with  *)
(* a field manager of its own.                                             *)
(***************************************************************************)
OtherOwnersKept ==
    [][\A a \in Owners :
         \/ \A o \in Objects : Annotations(server'[o]) \ {a} = Annotations(server[o]) \ {a}
         \/ ~HandlerStep(a)]_vars

(***************************************************************************)
(* Once users leave references alone and faults cease, an owner's          *)
(* annotation is, and stays, on the object it references, if that exists,  *)
(* and on no other that the watch covers: retriable errors are retried,    *)
(* also those of calls that were carried out, and what a stale cache led   *)
(* the handler to skip is done after a later event.  Not so when the last  *)
(* pass gave up: on an apply that failed with an error outside             *)
(* ShouldRetry's list, or on an error of ExistsFunc, be the object missing *)
(* or the call at fault; nor when the object was deleted while it had no   *)
(* label, which the watch does not show.                                   *)
(***************************************************************************)
ReferencesAreFollowed ==
    <>[](\A a \in Owners \ abandoned :
           ref[a] = NoObject \/ server[ref[a]].exists =>
               /\ ref[a] # NoObject => a \in Annotations(server[ref[a]])
               /\ \A o \in Objects \ {ref[a]} :
                    server[o].label => a \notin Annotations(server[o]))

(***************************************************************************)
(* adopt.go:284, without faults and without an object that two owners hold *)
(* at once: an object that no owner holds any more loses the controller's  *)
(* labels, in the end, if nobody deletes objects, however late the cache   *)
(* shows it and however the steps of the owners that hold it one after     *)
(* another interleave.                                                     *)
(***************************************************************************)
ReleasedIsUnlabelled ==
    [](faults = 0 /\ \A o \in Objects :
           server[o].exists /\ \E a \in Owners : Annotations(server[o]) \subseteq {a}) =>
        <>[](\A o \in Objects : server[o].label => Annotations(server[o]) # {})

(***************************************************************************)
(* What the comments say.  TLC refutes all three; see the README.          *)
(***************************************************************************)
\* adopt.go:8-12: an adopted object is labelled, so that the controller's
\* label-filtered watch covers it; in the end at least.
AdoptedIsWatched ==
    <>[](\A o \in Objects : Annotations(server[o]) # {} => server[o].label)

\* adopt.go:284: an object that is not owned by any other object loses the
\* controller's labels; in the end at least.
UnownedIsUnlabelled ==
    <>[](\A o \in Objects : server[o].label => Annotations(server[o]) # {})

\* adopt.go:194: the object exists before anything is applied to it, so the
\* handler never creates one.
NeverCreates ==
    [][\A a \in Owners : HandlerStep(a) =>
         \A o \in Objects : server'[o].exists => server[o].exists]_vars
==============================================================================
