--------------------------- MODULE EnsureComponent ---------------------------
(***************************************************************************)
(* EnsureComponentByHash (component/ensure_component.go) with the List of  *)
(* component/component.go: the handler that keeps one object per owner and *)
(* component, with the spec computed from the owner, and deletes others.   *)
(*                                                                         *)
(* The module follows one owner and one component.  Of an object only the  *)
(* hash annotation matters; a spec stands for its hash.  The API server,   *)
(* the informer's cache and the users are external.  The owner's key is    *)
(* processed by one worker at a time.                                      *)
(***************************************************************************)
EXTENDS Naturals, Sequences, FiniteSets

CONSTANTS Specs,          \* the specs that newObj computes
          ObjectNames,    \* names of objects
          NameOf,         \* the name that newObj gives to the object of a spec
          Absent,         \* no object
          Bare,           \* an object without annotations
          UserContents,   \* what users write: Bare, Absent, or a copied spec
          IndexFails,     \* the index is missing or has an object of another type
          MaxChanges,     \* changes users make
          MaxFaults,      \* failing calls
          MaxLag          \* watch events on their way to the cache

ASSUME ComponentAssumption ==
    /\ NameOf \in [Specs -> ObjectNames]
    /\ Absent \notin Specs /\ Bare \notin Specs /\ Absent # Bare
    /\ UserContents \subseteq Specs \cup {Absent, Bare}
    /\ IndexFails \in BOOLEAN
    /\ MaxChanges \in Nat /\ MaxFaults \in Nat /\ MaxLag \in Nat

VARIABLES
    server,      \* the objects the component's selector matches
    stream,      \* watch events not yet in the cache, oldest first
    cache,       \* the informer's store
    desired,     \* the spec the owner calls for now
    queued,      \* the owner's key is queued
    handlePc,    \* where the handler is
    hash,        \* Handle's hash of newObj
    extras,      \* Handle's extraObjs, still to be deleted
    again,       \* those of them that are in extraObjs once more
    repeat,      \* the one just deleted, if it is the next one again
    copied,      \* history: users have copied an object with its annotation
    changes, faults

handlerVars == <<handlePc, hash, extras, again, repeat>>
componentVars == <<server, stream, cache, desired, queued, handlerVars, copied, changes, faults>>

Content == Specs \cup {Absent, Bare}

ComponentTypeOK ==
    /\ server \in [ObjectNames -> Content]
    /\ stream \in Seq([name : ObjectNames, seen : Content])
    /\ cache \in [ObjectNames -> Content]
    /\ desired \in Specs
    /\ queued \in BOOLEAN
    /\ handlePc \in {"idle", "apply", "delete"}
    /\ hash \in Specs
    /\ extras \subseteq ObjectNames
    /\ again \subseteq extras
    /\ repeat \subseteq extras
    /\ copied \in BOOLEAN
    /\ changes \in 0..MaxChanges
    /\ faults \in 0..MaxFaults

ComponentInit ==
    /\ server = [n \in ObjectNames |-> Absent]
    /\ stream = <<>>
    /\ cache = [n \in ObjectNames |-> Absent]
    /\ desired \in Specs
    /\ queued = TRUE
    /\ handlePc = "idle"
    /\ hash = desired
    /\ extras = {}
    /\ again = {}
    /\ repeat = {}
    /\ copied = FALSE
    /\ changes = 0
    /\ faults = 0

(***************************************************************************)
(* The API server, its watch, and the users: the owner is edited, an       *)
(* object that matches the selector is created or deleted by hand.         *)
(***************************************************************************)
Write(n, content) ==
    /\ server' = [server EXCEPT ![n] = content]
    /\ IF content = server[n]
         THEN UNCHANGED stream
         ELSE /\ Len(stream) < MaxLag
              /\ stream' = Append(stream, [name |-> n, seen |-> content])

Deliver ==
    /\ stream # <<>>
    /\ cache' = [cache EXCEPT ![Head(stream).name] = Head(stream).seen]
    /\ stream' = Tail(stream)
    /\ queued' = TRUE
    /\ UNCHANGED <<server, desired, handlerVars, copied, changes, faults>>

ChangeOwner(s) ==
    /\ changes < MaxChanges
    /\ changes' = changes + 1
    /\ desired # s
    /\ desired' = s
    /\ queued' = TRUE
    /\ UNCHANGED <<server, stream, cache, handlerVars, copied, faults>>

UserWrites(n, content) ==
    /\ changes < MaxChanges
    /\ changes' = changes + 1
    /\ server[n] # content
    /\ content # Absent => server[n] = Absent
    /\ Write(n, content)
    /\ copied' = (copied \/ content \in Specs)
    /\ UNCHANGED <<cache, desired, queued, handlerVars, faults>>

(***************************************************************************)
(* The handler.                                                            *)
(***************************************************************************)
\* Handle returns; RequeueErr queues the key again.
Return(requeue) ==
    /\ handlePc' = "idle"
    /\ extras' = {}
    /\ again' = {}
    /\ repeat' = {}
    /\ queued' = (queued \/ requeue)
    /\ UNCHANGED hash

\* A call fails, or only its answer is lost.
Fails ==
    /\ faults < MaxFaults
    /\ faults' = faults + 1
    /\ Return(TRUE)

\* Component.List; an error of the index is reported and the list is empty.
List == IF IndexFails THEN {} ELSE {n \in ObjectNames : cache[n] # Absent}

Matching == {n \in List : cache[n] = desired}

\* A plausible slip: every object listed counts as extra.
HandleDeletesAll ==
    /\ handlePc = "idle"
    /\ queued
    /\ queued' = FALSE
    /\ hash' = desired
    /\ handlePc' = IF Matching = {} THEN "apply" ELSE "delete"
    /\ extras' = IF Matching = {} THEN {} ELSE List
    /\ UNCHANGED <<server, stream, cache, desired, again, repeat, copied, changes, faults>>

\* A plausible slip: objects without annotations are skipped.
HandleSkipsBare ==
    /\ handlePc = "idle"
    /\ queued
    /\ queued' = FALSE
    /\ hash' = desired
    /\ handlePc' = IF Matching = {} THEN "apply" ELSE "delete"
    /\ extras' = IF Matching = {} THEN {} ELSE {n \in List \ Matching : cache[n] # Bare}
    /\ UNCHANGED <<server, stream, cache, desired, again, repeat, copied, changes, faults>>

\* Handle lists the objects and sorts them.  With no object of the right hash
\* it goes on to apply one, with exactly one to delete the others, else it is
\* done.  An object without annotations gets into extraObjs twice in a row.
Handle ==
    /\ handlePc = "idle"
    /\ queued
    /\ queued' = FALSE
    /\ hash' = desired
    /\ \/ /\ Matching = {}
          /\ handlePc' = "apply"
          /\ UNCHANGED <<extras, again>>
       \/ /\ \E n \in ObjectNames : Matching = {n}
          /\ handlePc' = "delete"
          /\ extras' = List \ Matching
          /\ again' = {n \in List : cache[n] = Bare}
       \/ /\ \E m, n \in Matching : m # n
          /\ UNCHANGED <<handlePc, extras, again>>
    /\ UNCHANGED <<server, stream, cache, desired, repeat, copied, changes, faults>>

\* applyObject creates the object, or updates it in place.
ApplyObject ==
    /\ handlePc = "apply"
    /\ \/ /\ Write(NameOf[hash], hash)
          /\ Return(FALSE)
          /\ UNCHANGED faults
       \/ /\ Fails
          /\ UNCHANGED <<server, stream>> \/ Write(NameOf[hash], hash)
    /\ UNCHANGED <<cache, desired, copied, changes>>

\* One turn of the delete loop.  Deleting an object that is gone is an error.
DeleteObject(n) ==
    /\ handlePc = "delete"
    /\ n \in extras
    /\ repeat \subseteq {n}
    /\ \/ /\ server[n] # Absent
          /\ Write(n, Absent)
          /\ extras' = IF n \in again THEN extras ELSE extras \ {n}
          /\ repeat' = again \cap {n}
          /\ again' = again \ {n}
          /\ UNCHANGED <<handlePc, hash, queued, faults>>
       \/ /\ server[n] = Absent
          /\ Return(TRUE)
          /\ UNCHANGED <<server, stream, faults>>
       \/ /\ Fails
          /\ UNCHANGED <<server, stream>> \/ Write(n, Absent)
    /\ UNCHANGED <<cache, desired, copied, changes>>

HandleReturns ==
    /\ handlePc = "delete"
    /\ extras = {}
    /\ Return(FALSE)
    /\ UNCHANGED <<server, stream, cache, desired, copied, changes, faults>>

------------------------------------------------------------------------------
HandlerStep ==
    \/ Handle
    \/ ApplyObject
    \/ \E n \in ObjectNames : DeleteObject(n)
    \/ HandleReturns

ComponentNext ==
    \/ Deliver
    \/ \E s \in Specs : ChangeOwner(s)
    \/ \E n \in ObjectNames, content \in UserContents : UserWrites(n, content)
    \/ HandlerStep

\* Watch events arrive, a queued key is processed and calls return.
ComponentSpec ==
    /\ ComponentInit /\ [][ComponentNext]_componentVars
    /\ WF_componentVars(Deliver) /\ WF_componentVars(HandlerStep)

------------------------------------------------------------------------------
(***************************************************************************)
(* However stale its list is, Handle never deletes an object that has the  *)
(* hash it wants, unless users have copied objects: extra objects are      *)
(* deleted only when an object with that hash has been seen under another  *)
(* name.                                                                   *)
(***************************************************************************)
DeleteSparesCurrent ==
    [][HandlerStep /\ ~copied =>
         \A n \in ObjectNames : server[n] = hash => server'[n] # Absent]_componentVars

Right == {n \in ObjectNames : server[n] = desired}

(***************************************************************************)
(* Once owner and objects are left alone and calls succeed, there is an    *)
(* object with the owner's spec, and if there is exactly one there is no   *)
(* other object: also after updates in place, after renames, after objects *)
(* without annotations or copies turned up and after decisions taken on a  *)
(* stale cache.  (Of several with that spec Handle removes none.)          *)
(***************************************************************************)
Converges ==
    <>[](/\ Right # {}
         /\ Cardinality(Right) = 1 => \A n \in ObjectNames \ Right : server[n] = Absent)

\* component.go:12-13: objects that match the selector but not the calculated
\* object are deleted; in the end at least.
\* TLC refutes it; see the README.
OthersAreDeleted == <>[](\A n \in ObjectNames : server[n] \in {desired, Absent})
==============================================================================
