------------------------------ MODULE Finalizer ------------------------------
(***************************************************************************)
(* finalizer/finalizer.go and finalizer/set_finalizer.go: controllers that *)
(* each keep a finalizer on an object, and users who edit, delete and      *)
(* re-create it.                                                           *)
(*                                                                         *)
(* history holds every state the object has had; the resource version is   *)
(* the position in it.  The API server (external) accepts an Update only   *)
(* with the latest resource version, and drops an object that is marked    *)
(* for deletion with its last finalizer.  Each controller's cache is some  *)
(* number of versions behind.  The handler after SetFinalizerHandler is    *)
(* the author's: it calls the remove function when its object is marked    *)
(* for deletion, and passes an error to RequeueAPIErr.                     *)
(***************************************************************************)
EXTENDS Naturals, Sequences

CONSTANTS Controllers,    \* each has the finalizer of its own name
          MaxEdits,       \* what users do
          MaxFaults       \* failing calls

ASSUME FinalizerAssumption == MaxEdits \in Nat /\ MaxFaults \in Nat

VARIABLES
    history,     \* the object's states so far, by resource version
    seen,        \* the version in each controller's cache
    dirty,       \* controllers that have the object's key queued
    pc,          \* where each controller's handler is
    got,         \* the version that Get returned
    ctxObj,      \* the version of the object in the handler's context
    abandoned,   \* history: controllers whose last pass ended with an error that
                 \* is neither retried nor due to a change of the object
    edits, faults

vars == <<history, seen, dirty, pc, got, ctxObj, abandoned, edits, faults>>

Object == [exists : BOOLEAN, deleting : BOOLEAN, finalizers : SUBSET Controllers]
Gone == [exists |-> FALSE, deleting |-> FALSE, finalizers |-> {}]
New == [Gone EXCEPT !.exists = TRUE]

Latest == Len(history)
object == history[Latest]

PC == {"idle", "addGet", "addUpdate", "next", "removeGet", "removeUpdate"}

Version == 1..Latest

TypeOK ==
    /\ history \in Seq(Object)
    /\ Latest > 0
    /\ seen \in [Controllers -> Version]
    /\ dirty \subseteq Controllers
    /\ pc \in [Controllers -> PC]
    /\ got \in [Controllers -> Version]
    /\ ctxObj \in [Controllers -> Version]
    /\ abandoned \subseteq Controllers
    /\ edits \in 0..MaxEdits
    /\ faults \in 0..MaxFaults

Init ==
    /\ history = <<New>>
    /\ seen = [c \in Controllers |-> 1]
    /\ dirty = Controllers
    /\ pc = [c \in Controllers |-> "idle"]
    /\ got = [c \in Controllers |-> 1]
    /\ ctxObj = [c \in Controllers |-> 1]
    /\ abandoned = {}
    /\ edits = 0
    /\ faults = 0

(***************************************************************************)
(* The API server, its watch and the users.                                *)
(***************************************************************************)
Write(o) ==
    history' = Append(history, IF o.deleting /\ o.finalizers = {} THEN Gone ELSE o)

Deliver(c) ==
    /\ seen[c] < Latest
    /\ seen' = [seen EXCEPT ![c] = @ + 1]
    /\ dirty' = dirty \cup {c}
    /\ UNCHANGED <<history, pc, got, ctxObj, abandoned, edits, faults>>

\* A user changes something else of the object, deletes it or creates it.
UserEdits ==
    /\ edits < MaxEdits
    /\ edits' = edits + 1
    /\ \/ object.exists /\ Write(object)
       \/ object.exists /\ ~object.deleting /\ Write([object EXCEPT !.deleting = TRUE])
       \/ ~object.exists /\ Write(New)
    /\ UNCHANGED <<seen, dirty, pc, got, ctxObj, abandoned, faults>>

(***************************************************************************)
(* SetFinalizerHandler.Handle, on the object from the cache.               *)
(***************************************************************************)
\* Handle returns, with the key queued again or not; its variables are gone.
Return(c, requeue) ==
    /\ pc' = [pc EXCEPT ![c] = "idle"]
    /\ got' = [got EXCEPT ![c] = 1]
    /\ ctxObj' = [ctxObj EXCEPT ![c] = 1]
    /\ dirty' = IF requeue THEN dirty \cup {c} ELSE dirty

\* What RequeueAPIErr tells apart, and the properties: "transient" errors are
\* the ones ShouldRetry lists, "permanent" any others that a call fails with
\* (forbidden, connection refused, ...); "conflict" and "missing" are answers of
\* the server that say the object is not the one the controller had.
Failure == {"transient", "permanent"}

\* A plausible slip: no error is retried.
RequeueAPIErrNever(c, err) ==
    /\ Return(c, FALSE)
    /\ abandoned' = IF err = "permanent" THEN abandoned \cup {c} ELSE abandoned

\* RequeueAPIErr retries the transient ones and gives up on all others.
RequeueAPIErr(c, err) ==
    /\ Return(c, err = "transient")
    /\ abandoned' = IF err = "permanent" THEN abandoned \cup {c} ELSE abandoned

Goto(c, label) == pc' = [pc EXCEPT ![c] = label] /\ UNCHANGED <<dirty, abandoned>>
SetCtx(c, v) == ctxObj' = [ctxObj EXCEPT ![c] = v]
SetGot(c, v) == got' = [got EXCEPT ![c] = v]

Handle(c) ==
    /\ pc[c] = "idle"
    /\ c \in dirty
    /\ dirty' = dirty \ {c}
    /\ abandoned' = abandoned \ {c}
    /\ LET o == history[seen[c]] IN
         \/ /\ ~o.exists
            /\ UNCHANGED <<pc, ctxObj>>
         \/ /\ o.exists
            /\ SetCtx(c, seen[c])
            /\ pc' = [pc EXCEPT ![c] = IF c \notin o.finalizers /\ ~o.deleting
                                         THEN "addGet" ELSE "next"]
    /\ UNCHANGED <<history, seen, got, edits, faults>>

AddGet(c) ==
    /\ pc[c] = "addGet"
    /\ \/ /\ ~object.exists
          /\ RequeueAPIErr(c, "missing")
       \/ /\ object.exists /\ (c \in object.finalizers \/ object.deleting)
          /\ Goto(c, "next")
          /\ SetCtx(c, Latest)
          /\ UNCHANGED got
       \/ /\ object.exists /\ c \notin object.finalizers /\ ~object.deleting
          /\ Goto(c, "addUpdate")
          /\ SetGot(c, Latest)
          /\ UNCHANGED ctxObj
    /\ UNCHANGED <<history, seen, edits, faults>>

\* Get fails.
GetFails(c) ==
    /\ pc[c] \in {"addGet", "removeGet"}
    /\ faults < MaxFaults
    /\ faults' = faults + 1
    /\ \E err \in Failure : RequeueAPIErr(c, err)
    /\ UNCHANGED <<history, seen, edits>>

\* Update fails: another version is the latest (a conflict, or the object is
\* gone), or the call failed, in which case it may have been carried out.
UpdateFails(c, o) ==
    \/ /\ got[c] # Latest
       /\ RequeueAPIErr(c, "conflict")
       /\ UNCHANGED <<history, faults>>
    \/ /\ faults < MaxFaults
       /\ faults' = faults + 1
       /\ \/ UNCHANGED history
          \/ got[c] = Latest /\ Write(o)
       /\ \E err \in Failure : RequeueAPIErr(c, err)

\* A plausible slip: the update carries no resource version.
AddUpdateUnconditional(c) ==
    /\ pc[c] = "addUpdate"
    /\ Write([history[got[c]] EXCEPT !.finalizers = @ \cup {c}])
    /\ Goto(c, "next")
    /\ SetCtx(c, Latest + 1)
    /\ SetGot(c, 1)
    /\ UNCHANGED <<seen, edits, faults>>

\* A plausible slip: the other finalizers are not carried over.
AddUpdateAlone(c) ==
    /\ pc[c] = "addUpdate"
    /\ got[c] = Latest
    /\ Write([object EXCEPT !.finalizers = {c}])
    /\ Goto(c, "next")
    /\ SetCtx(c, Latest + 1)
    /\ SetGot(c, 1)
    /\ UNCHANGED <<seen, edits, faults>>

AddUpdate(c) ==
    /\ pc[c] = "addUpdate"
    /\ LET finalized == [history[got[c]] EXCEPT !.finalizers = @ \cup {c}] IN
         \/ /\ got[c] = Latest
            /\ Write(finalized)
            /\ Goto(c, "next")
            /\ SetCtx(c, Latest + 1)
            /\ SetGot(c, 1)
            /\ UNCHANGED faults
         \/ UpdateFails(c, finalized)
    /\ UNCHANGED <<seen, edits>>

(***************************************************************************)
(* The next handler, and the function GetRemoveFunc returns.               *)
(***************************************************************************)
NextHandle(c) ==
    /\ pc[c] = "next"
    /\ IF history[ctxObj[c]].deleting
         THEN Goto(c, "removeGet") /\ UNCHANGED <<got, ctxObj>>
         ELSE Return(c, FALSE) /\ UNCHANGED abandoned
    /\ UNCHANGED <<history, seen, edits, faults>>

RemoveGet(c) ==
    /\ pc[c] = "removeGet"
    /\ \/ /\ ~object.exists
          /\ RequeueAPIErr(c, "missing")
       \/ /\ object.exists /\ (c \notin object.finalizers \/ ~object.deleting)
          /\ Return(c, FALSE)
          /\ UNCHANGED abandoned
       \/ /\ object.exists /\ c \in object.finalizers /\ object.deleting
          /\ Goto(c, "removeUpdate")
          /\ SetGot(c, Latest)
          /\ UNCHANGED ctxObj
    /\ UNCHANGED <<history, seen, edits, faults>>

\* A plausible slip: a failed update, also one that a retry would mend, is
\* taken for a success.
RemoveUpdateUnchecked(c) ==
    /\ pc[c] = "removeUpdate"
    /\ \/ /\ got[c] = Latest
          /\ Write([object EXCEPT !.finalizers = @ \ {c}])
          /\ UNCHANGED faults
       \/ /\ faults < MaxFaults
          /\ faults' = faults + 1
          /\ UNCHANGED history
    /\ Return(c, FALSE)
    /\ UNCHANGED <<seen, abandoned, edits>>

RemoveUpdate(c) ==
    /\ pc[c] = "removeUpdate"
    /\ LET definalized == [history[got[c]] EXCEPT !.finalizers = @ \ {c}] IN
         \/ /\ got[c] = Latest
            /\ Write(definalized)
            /\ Return(c, FALSE)
            /\ UNCHANGED <<abandoned, faults>>
         \/ UpdateFails(c, definalized)
    /\ UNCHANGED <<seen, edits>>

------------------------------------------------------------------------------
ControllerStep(c) ==
    \/ Handle(c) \/ AddGet(c) \/ AddUpdate(c) \/ GetFails(c)
    \/ NextHandle(c) \/ RemoveGet(c) \/ RemoveUpdate(c)

Next ==
    \/ UserEdits
    \/ \E c \in Controllers : Deliver(c) \/ ControllerStep(c)

\* Watch events arrive, queued keys are processed and calls return.
Spec ==
    /\ Init /\ [][Next]_vars
    /\ \A c \in Controllers : WF_vars(Deliver(c)) /\ WF_vars(ControllerStep(c))

------------------------------------------------------------------------------
(***************************************************************************)
(* While the object exists a controller changes no finalizer but its own,  *)
(* whatever other controllers and users do between its get and its update. *)
(***************************************************************************)
OwnFinalizerOnly ==
    [][\A c \in Controllers : ControllerStep(c) =>
         /\ object'.finalizers \ {c} = object.finalizers \ {c}
         /\ object'.exists => object'.deleting = object.deleting]_vars

(***************************************************************************)
(* A finalizer is added only before the object is marked for deletion and  *)
(* removed only after, also when the mark is set between get and update;   *)
(* and neither brings an object back that is gone by then, which is what   *)
(* get-modify-write is there for.                                          *)
(***************************************************************************)
DeletionRespected ==
    [][\A c \in Controllers : ControllerStep(c) =>
         /\ object'.exists => object.exists
         /\ c \in object'.finalizers \ object.finalizers => ~object.deleting
         /\ c \in object.finalizers \ object'.finalizers => object.deleting]_vars

(***************************************************************************)
(* An object that stays has, in the end, the finalizer of every controller *)
(* that did not give up: RequeueAPIErr retries the errors of ShouldRetry's *)
(* list; it does not retry a conflict or a missing object, but the watch   *)
(* event of the change that caused it brings the key back.  A controller   *)
(* gives up when a call fails with any other error, until the next event.  *)
(***************************************************************************)
FinalizersAreSet ==
    <>[](object.exists /\ ~object.deleting => Controllers \ abandoned \subseteq object.finalizers)

(***************************************************************************)
(* An object marked for deletion goes away, unless a controller gave up on *)
(* it: no finalizer is left behind by a conflict, a stale cache or an      *)
(* update that failed with a retriable error or was carried out after all. *)
(***************************************************************************)
DeletionCompletes ==
    <>[](object.exists /\ object.deleting => object.finalizers \subseteq abandoned)
==============================================================================
