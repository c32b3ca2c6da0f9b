--------------------------- MODULE FinalizerProofs ---------------------------
(***************************************************************************)
(* Theorems about two handlers that write a shared object's metadata,      *)
(* Finalizer and, at the end, Pause.                                       *)
(*                                                                         *)
(* About Finalizer, for any number of controllers, edits and faults: what  *)
(* Get returned to a controller was fit for its update, and versions do    *)
(* not change; the server takes the update only while that version is the  *)
(* latest.                                                                 *)
(***************************************************************************)
EXTENDS Finalizer, TLAPS

\* What Write stores.
Stored(o) == IF o.deleting /\ o.finalizers = {} THEN Gone ELSE o

\* The version a controller is about to update is one that it may update.
GotIsFit ==
    \A c \in Controllers :
        /\ pc[c] = "addUpdate" =>
              /\ history[got[c]].exists /\ ~history[got[c]].deleting
              /\ c \notin history[got[c]].finalizers
        /\ pc[c] = "removeUpdate" =>
              /\ history[got[c]].exists /\ history[got[c]].deleting
              /\ c \in history[got[c]].finalizers

\* TypeOK and GotIsFit: the inductive invariant.
FinalizerInv == TypeOK /\ GotIsFit

\* Add, or remove, the controller's finalizer.
Added(c) == [object EXCEPT !.finalizers = @ \cup {c}]
Removed(c) == [object EXCEPT !.finalizers = @ \ {c}]

------------------------------------------------------------------------------
\* Write(o) adds a version and leaves the others as they are.
LEMMA WriteAppends ==
    ASSUME NEW o \in Object, history \in Seq(Object), Write(o)
    PROVE  /\ history' \in Seq(Object)
           /\ Latest' = Latest + 1
           /\ object' = Stored(o)
           /\ \A v \in 1..Latest : history'[v] = history[v]
<1>1. Stored(o) \in Object
  BY Zenon DEF Stored, Gone, Object
<1>2. history' = Append(history, Stored(o))
  BY Zenon DEF Write, Stored
<1> QED
  BY <1>1, <1>2 DEF Latest, object

\* The latest version is an object.
LEMMA LatestIsObject ==
    ASSUME TypeOK
    PROVE  object \in Object /\ Latest \in Nat \ {0}
BY DEF TypeOK, object, Latest

\* RequeueAPIErr, by what it is told.
LEMMA RequeueEffect ==
    ASSUME NEW c, NEW err
    PROVE  /\ RequeueAPIErr(c, err) => /\ abandoned' \in {abandoned, abandoned \cup {c}}
                                       /\ Return(c, TRUE) \/ Return(c, FALSE)
           /\ RequeueAPIErr(c, "transient") => Return(c, TRUE)
           /\ RequeueAPIErr(c, "permanent") => Return(c, FALSE) /\ c \in abandoned'
           /\ RequeueAPIErr(c, "conflict") => Return(c, FALSE) /\ abandoned' = abandoned
           /\ RequeueAPIErr(c, "missing") => Return(c, FALSE) /\ abandoned' = abandoned
<1>1. /\ ("transient" = "transient") = TRUE /\ ("permanent" = "transient") = FALSE
      /\ ("conflict" = "transient") = FALSE /\ ("missing" = "transient") = FALSE
      /\ "conflict" # "permanent" /\ "missing" # "permanent"
  OBVIOUS
<1>2. (err = "transient") = TRUE \/ (err = "transient") = FALSE
  OBVIOUS
<1>3. RequeueAPIErr(c, err) => /\ abandoned' \in {abandoned, abandoned \cup {c}}
                               /\ Return(c, TRUE) \/ Return(c, FALSE)
  BY <1>2, Zenon DEF RequeueAPIErr
<1> QED
  BY <1>1, <1>3, Zenon DEF RequeueAPIErr

\* What a controller may do to the history: nothing, or an update of the
\* latest version, which is fit for it, that touches its own finalizer only.
LEMMA StepEffect ==
    ASSUME FinalizerInv, NEW c \in Controllers, ControllerStep(c)
    PROVE  \/ history' = history
           \/ /\ object.exists /\ ~object.deleting /\ c \notin object.finalizers
              /\ Write(Added(c))
           \/ /\ object.exists /\ object.deleting /\ c \in object.finalizers
              /\ Write(Removed(c))
<1>1. CASE AddUpdate(c)
  <2>1. \/ history' = history
        \/ got[c] = Latest /\ Write([history[got[c]] EXCEPT !.finalizers = @ \cup {c}])
    BY <1>1, Zenon DEF AddUpdate, UpdateFails
  <2>2. pc[c] = "addUpdate"
    BY <1>1, Zenon DEF AddUpdate
  <2> QED
    BY <2>1, <2>2, Zenon DEF FinalizerInv, GotIsFit, object, Added
<1>2. CASE RemoveUpdate(c)
  <2>1. \/ history' = history
        \/ got[c] = Latest /\ Write([history[got[c]] EXCEPT !.finalizers = @ \ {c}])
    BY <1>2, Zenon DEF RemoveUpdate, UpdateFails
  <2>2. pc[c] = "removeUpdate"
    BY <1>2, Zenon DEF RemoveUpdate
  <2> QED
    BY <2>1, <2>2, Zenon DEF FinalizerInv, GotIsFit, object, Removed
<1>3. CASE Handle(c) \/ AddGet(c) \/ GetFails(c) \/ NextHandle(c) \/ RemoveGet(c)
  BY <1>3, Zenon DEF Handle, AddGet, GetFails, NextHandle, RemoveGet
<1> QED
  BY <1>1, <1>2, <1>3, Zenon DEF ControllerStep

\* The history only grows, by objects.
LEMMA HistoryGrows ==
    ASSUME FinalizerInv, [Next]_vars
    PROVE  /\ history' \in Seq(Object)
           /\ Latest' \in Nat /\ Latest <= Latest'
           /\ \A v \in 1..Latest : history'[v] = history[v]
<1> USE DEF FinalizerInv
<1>0. history \in Seq(Object) /\ object \in Object /\ Latest \in Nat \ {0}
  BY LatestIsObject, Zenon DEF TypeOK
<1>1. CASE history' = history
  BY <1>0, <1>1 DEF Latest
<1>2. ASSUME NEW o \in Object, Write(o)
      PROVE  /\ history' \in Seq(Object)
             /\ Latest' \in Nat /\ Latest <= Latest'
             /\ \A v \in 1..Latest : history'[v] = history[v]
  BY <1>0, <1>2, WriteAppends
<1>3. CASE UserEdits
  <2>1. [object EXCEPT !.deleting = TRUE] \in Object /\ New \in Object
    BY <1>0, Zenon DEF Object, New, Gone
  <2>2. Write(object) \/ Write([object EXCEPT !.deleting = TRUE]) \/ Write(New)
    BY <1>3, Zenon DEF UserEdits
  <2> QED
    BY <1>0, <1>2, <2>1, <2>2, Zenon
<1>4. ASSUME NEW c \in Controllers, ControllerStep(c)
      PROVE  history' = history \/ \E o \in Object : Write(o)
  <2>1. Added(c) \in Object /\ Removed(c) \in Object
    BY <1>0, Zenon DEF Added, Removed, Object
  <2> QED
    BY <1>4, <2>1, StepEffect, Zenon
<1>5. ASSUME NEW c \in Controllers, Deliver(c)
      PROVE  history' = history
  BY <1>5, Zenon DEF Deliver
<1>6. CASE UNCHANGED vars
  BY <1>6, <1>1, Zenon DEF vars
<1> QED
  BY <1>1, <1>2, <1>3, <1>4, <1>5, <1>6, Zenon DEF Next

\* A controller's program counter, and the version it has got.
LEMMA ProgramStep ==
    ASSUME FinalizerInv, [Next]_vars
    PROVE  /\ pc' \in [Controllers -> PC]
           /\ got' \in [Controllers -> 1..Latest]
           /\ \A c \in Controllers :
                 \/ pc'[c] = pc[c] /\ got'[c] = got[c]
                 \/ pc'[c] \notin {"addUpdate", "removeUpdate"}
                 \/ /\ pc'[c] = "addUpdate" /\ got'[c] = Latest
                    /\ object.exists /\ ~object.deleting /\ c \notin object.finalizers
                 \/ /\ pc'[c] = "removeUpdate" /\ got'[c] = Latest
                    /\ object.exists /\ object.deleting /\ c \in object.finalizers
<1>t. /\ pc \in [Controllers -> PC] /\ got \in [Controllers -> 1..Latest]
      /\ Latest \in Nat \ {0}
  BY LatestIsObject, Zenon DEF FinalizerInv, TypeOK, Version
<1>1. CASE UNCHANGED <<pc, got>>
  BY <1>1, <1>t, Zenon
<1>2. ASSUME NEW c \in Controllers, ControllerStep(c)
      PROVE  \/ pc' = pc /\ got' = got
             \/ \E l \in PC, v \in {1, got[c]} :
                   /\ l \notin {"addUpdate", "removeUpdate"}
                   /\ pc' = [pc EXCEPT ![c] = l] /\ got' = [got EXCEPT ![c] = v]
             \/ /\ pc' = [pc EXCEPT ![c] = "addUpdate"] /\ got' = [got EXCEPT ![c] = Latest]
                /\ object.exists /\ ~object.deleting /\ c \notin object.finalizers
             \/ /\ pc' = [pc EXCEPT ![c] = "removeUpdate"] /\ got' = [got EXCEPT ![c] = Latest]
                /\ object.exists /\ object.deleting /\ c \in object.finalizers
  <2>0. got = [got EXCEPT ![c] = got[c]]
    BY <1>t, Zenon
  <2>1. CASE Handle(c)
    BY <1>t, <2>0, <2>1, Zenon DEF Handle, PC
  <2>2. CASE AddGet(c)
    BY <1>t, <2>0, <2>2, RequeueEffect, Zenon DEF AddGet, Return, Goto, SetGot, PC
  <2>3. CASE AddUpdate(c)
    BY <1>t, <2>3, RequeueEffect, Zenon DEF AddUpdate, UpdateFails, Return, Goto, SetGot, PC
  <2>4. CASE GetFails(c)
    BY <1>t, <2>4, RequeueEffect, Zenon DEF GetFails, Return, PC
  <2>5. CASE NextHandle(c)
    BY <1>t, <2>0, <2>5, Zenon DEF NextHandle, Return, Goto, PC
  <2>6. CASE RemoveGet(c)
    BY <1>t, <2>0, <2>6, RequeueEffect, Zenon DEF RemoveGet, Return, Goto, SetGot, PC
  <2>7. CASE RemoveUpdate(c)
    BY <1>t, <2>7, RequeueEffect, Zenon DEF RemoveUpdate, UpdateFails, Return, PC
  <2> QED
    BY <1>2, <2>1, <2>2, <2>3, <2>4, <2>5, <2>6, <2>7, Zenon DEF ControllerStep
<1>3. ASSUME NEW c \in Controllers, ControllerStep(c)
      PROVE  /\ pc' \in [Controllers -> PC]
             /\ got' \in [Controllers -> 1..Latest]
             /\ \A d \in Controllers :
                 \/ pc'[d] = pc[d] /\ got'[d] = got[d]
                 \/ pc'[d] \notin {"addUpdate", "removeUpdate"}
                 \/ /\ pc'[d] = "addUpdate" /\ got'[d] = Latest
                    /\ object.exists /\ ~object.deleting /\ d \notin object.finalizers
                 \/ /\ pc'[d] = "removeUpdate" /\ got'[d] = Latest
                    /\ object.exists /\ object.deleting /\ d \in object.finalizers
  <2>1. "addUpdate" \in PC /\ "removeUpdate" \in PC
    BY Zenon DEF PC
  <2> HIDE DEF PC
  <2> QED
    BY <1>t, <1>2, <1>3, <2>1
<1>4. CASE UserEdits
  BY <1>1, <1>4, Zenon DEF UserEdits
<1>5. ASSUME NEW c \in Controllers, Deliver(c)
      PROVE  UNCHANGED <<pc, got>>
  BY <1>5, Zenon DEF Deliver
<1>6. CASE UNCHANGED vars
  BY <1>1, <1>6, Zenon DEF vars
<1> QED
  BY <1>1, <1>3, <1>4, <1>5, <1>6, Zenon DEF Next

------------------------------------------------------------------------------
\* The rest of the type invariant.
LEMMA OthersTyped ==
    ASSUME FinalizerInv, [Next]_vars
    PROVE  /\ seen' \in [Controllers -> 1..Latest'] /\ dirty' \subseteq Controllers
           /\ ctxObj' \in [Controllers -> 1..Latest'] /\ abandoned' \subseteq Controllers
           /\ edits' \in 0..MaxEdits /\ faults' \in 0..MaxFaults
<1>t. /\ seen \in [Controllers -> 1..Latest] /\ dirty \subseteq Controllers
      /\ ctxObj \in [Controllers -> 1..Latest] /\ abandoned \subseteq Controllers
      /\ edits \in 0..MaxEdits /\ faults \in 0..MaxFaults
      /\ Latest \in Nat \ {0}
  BY LatestIsObject, Zenon DEF FinalizerInv, TypeOK, Version
<1>g. Latest' \in Nat /\ Latest <= Latest'
  BY HistoryGrows, Zenon
<1>b. MaxEdits \in Nat /\ MaxFaults \in Nat
  BY FinalizerAssumption, Zenon
<1>0. seen \in [Controllers -> 1..Latest'] /\ ctxObj \in [Controllers -> 1..Latest']
  BY <1>t, <1>g
<1>1. CASE UNCHANGED vars
  BY <1>1, <1>t, <1>0, Zenon DEF vars
<1>2. CASE UserEdits
  BY <1>2, <1>t, <1>0, <1>b DEF UserEdits
<1>3. ASSUME NEW c \in Controllers, Deliver(c)
      PROVE  /\ seen' \in [Controllers -> 1..Latest']
             /\ dirty' \subseteq Controllers
             /\ UNCHANGED <<ctxObj, abandoned, edits, faults>>
  BY <1>3, <1>t, <1>g DEF Deliver
<1>4. ASSUME NEW c \in Controllers, ControllerStep(c)
      PROVE  /\ UNCHANGED <<seen, edits>>
             /\ dirty' \in {dirty, dirty \cup {c}, dirty \ {c}}
             /\ abandoned' \in {abandoned, abandoned \cup {c}, abandoned \ {c}}
             /\ faults' = faults \/ (faults < MaxFaults /\ faults' = faults + 1)
             /\ ctxObj' = ctxObj \/ \E v \in 1..Latest' : ctxObj' = [ctxObj EXCEPT ![c] = v]
  <2>0. 1 \in 1..Latest' /\ Latest \in 1..Latest' /\ seen[c] \in 1..Latest'
    BY <1>t, <1>g
  <2>1. CASE Handle(c)
    BY <2>0, <2>1, Zenon DEF Handle, SetCtx
  <2>2. CASE AddGet(c)
    BY <2>0, <2>2, RequeueEffect, Zenon DEF AddGet, Return, Goto, SetCtx
  <2>3. CASE AddUpdate(c)
    <3>1. CASE UpdateFails(c, [history[got[c]] EXCEPT !.finalizers = @ \cup {c}])
      BY <2>0, <2>3, <3>1, RequeueEffect, Zenon DEF AddUpdate, UpdateFails, Return
    <3>2. ASSUME NEW o, Write(o), SetCtx(c, Latest + 1), Goto(c, "next"), UNCHANGED faults
          PROVE  /\ ctxObj' = [ctxObj EXCEPT ![c] = Latest + 1]
                 /\ Latest + 1 \in 1..Latest'
                 /\ dirty' = dirty /\ abandoned' = abandoned /\ faults' = faults
      <4>1. Len(history') = Len(history) + 1
        BY <3>2, <1>t DEF Write, FinalizerInv, TypeOK, Latest
      <4> QED
        BY <3>2, <1>t, <4>1 DEF SetCtx, Goto, Latest
    <3> QED
      BY <2>3, <3>1, <3>2, Zenon DEF AddUpdate
  <2>4. CASE GetFails(c)
    BY <2>0, <2>4, RequeueEffect, Zenon DEF GetFails, Return
  <2>5. CASE NextHandle(c)
    BY <2>0, <2>5, Zenon DEF NextHandle, Return, Goto
  <2>6. CASE RemoveGet(c)
    BY <2>0, <2>6, RequeueEffect, Zenon DEF RemoveGet, Return, Goto
  <2>7. CASE RemoveUpdate(c)
    BY <2>0, <2>7, RequeueEffect, Zenon DEF RemoveUpdate, UpdateFails, Return
  <2> QED
    BY <1>4, <2>1, <2>2, <2>3, <2>4, <2>5, <2>6, <2>7, Zenon DEF ControllerStep
<1>5. ASSUME NEW c \in Controllers, ControllerStep(c)
      PROVE  /\ seen' \in [Controllers -> 1..Latest'] /\ dirty' \subseteq Controllers
             /\ ctxObj' \in [Controllers -> 1..Latest'] /\ abandoned' \subseteq Controllers
             /\ edits' \in 0..MaxEdits /\ faults' \in 0..MaxFaults
  <2>0. abandoned' \subseteq Controllers
    BY <1>t, <1>4, <1>5, Zenon
  <2>1. dirty' \subseteq Controllers /\ ctxObj' \in [Controllers -> 1..Latest']
    BY <1>t, <1>0, <1>4, <1>5
  <2>2. faults' \in 0..MaxFaults
    BY <1>t, <1>b, <1>4, <1>5
  <2> QED
    BY <1>t, <1>0, <1>4, <1>5, <2>0, <2>1, <2>2, Zenon
<1> QED
  BY <1>t, <1>0, <1>1, <1>2, <1>3, <1>5, Zenon DEF Next

\* GotIsFit is preserved: what was read stays as it was read.
LEMMA FitPreserved ==
    ASSUME FinalizerInv, [Next]_vars
    PROVE  GotIsFit'
<1>t. got \in [Controllers -> 1..Latest] /\ Latest \in Nat \ {0} /\ GotIsFit
  BY LatestIsObject, Zenon DEF FinalizerInv, TypeOK, Version
<1>1. /\ \A v \in 1..Latest : history'[v] = history[v]
      /\ history'[Latest] = object
  BY HistoryGrows, <1>t DEF object
<1>2. SUFFICES ASSUME NEW c \in Controllers
      PROVE  /\ pc'[c] = "addUpdate" =>
                 /\ history'[got'[c]].exists /\ ~history'[got'[c]].deleting
                 /\ c \notin history'[got'[c]].finalizers
             /\ pc'[c] = "removeUpdate" =>
                 /\ history'[got'[c]].exists /\ history'[got'[c]].deleting
                 /\ c \in history'[got'[c]].finalizers
  BY Zenon DEF GotIsFit
<1>3. history'[got[c]] = history[got[c]]
  BY <1>t, <1>1, Zenon
<1> QED
  BY <1>t, <1>1, <1>3, ProgramStep, Zenon DEF GotIsFit

\* finalizer.go: a controller that has read an object goes on only where the
\* version it has got allows it, and a version never changes (FinalizerInv).
THEOREM FinalizerInvariance == Spec => []FinalizerInv
<1>1. Init => FinalizerInv
  <2> SUFFICES ASSUME Init PROVE FinalizerInv
    OBVIOUS
  <2>1. New \in Object
    BY Zenon DEF New, Gone, Object
  <2>2. history \in Seq(Object) /\ Latest = 1
    BY <2>1 DEF Init, Latest
  <2>3. TypeOK
    BY FinalizerAssumption, <2>2 DEF Init, TypeOK, Version, PC
  <2> QED
    BY <2>3, Zenon DEF Init, FinalizerInv, GotIsFit
<1>2. FinalizerInv /\ [Next]_vars => FinalizerInv'
  <2> SUFFICES ASSUME FinalizerInv, [Next]_vars PROVE FinalizerInv'
    OBVIOUS
  <2>1. Latest \in Nat \ {0} /\ Latest' \in Nat /\ Latest <= Latest'
    BY HistoryGrows, LatestIsObject, Zenon DEF FinalizerInv
  <2>2. got' \in [Controllers -> 1..Latest']
    BY <2>1, ProgramStep
  <2>3. TypeOK'
    BY <2>1, <2>2, HistoryGrows, ProgramStep, OthersTyped DEF TypeOK, Version
  <2> QED
    BY <2>3, FitPreserved, Zenon DEF FinalizerInv
<1> QED
  BY <1>1, <1>2, PTL DEF Spec

\* Type correctness of the finalizer's handlers, server and users.
THEOREM TypeCorrect == Spec => []TypeOK
<1>1. FinalizerInv => TypeOK
  BY Zenon DEF FinalizerInv
<1> QED
  BY <1>1, FinalizerInvariance, PTL

\* The properties of one step of a controller.
LEMMA StepProperties ==
    ASSUME FinalizerInv, NEW c \in Controllers, ControllerStep(c)
    PROVE  /\ object'.exists => object.exists
           /\ object'.finalizers \ {c} = object.finalizers \ {c}
           /\ object'.exists => object'.deleting = object.deleting
           /\ c \in object'.finalizers \ object.finalizers => ~object.deleting
           /\ c \in object.finalizers \ object'.finalizers => object.deleting
<1>0. history \in Seq(Object) /\ object \in Object
  BY LatestIsObject, Zenon DEF FinalizerInv, TypeOK
<1>1. CASE history' = history
  BY <1>1, Zenon DEF object, Latest
<1>2. CASE /\ object.exists /\ ~object.deleting /\ c \notin object.finalizers
           /\ Write(Added(c))
  <2>1. Added(c) \in Object
    BY <1>0, Zenon DEF Added, Object
  <2>2. object' = Stored(Added(c))
    BY <1>0, <1>2, <2>1, WriteAppends, Zenon
  <2>3. /\ Added(c).exists = object.exists /\ Added(c).deleting = object.deleting
        /\ Added(c).finalizers = object.finalizers \cup {c}
    BY <1>0, Zenon DEF Added, Object
  <2>4. object' = Added(c)
    BY <1>2, <2>2, <2>3, Zenon DEF Stored
  <2> QED
    BY <1>2, <2>3, <2>4, Zenon
<1>3. CASE /\ object.exists /\ object.deleting /\ c \in object.finalizers
           /\ Write(Removed(c))
  <2>1. Removed(c) \in Object
    BY <1>0, Zenon DEF Removed, Object
  <2>2. object' = Stored(Removed(c))
    BY <1>0, <1>3, <2>1, WriteAppends, Zenon
  <2>3. /\ Removed(c).exists = object.exists /\ Removed(c).deleting = object.deleting
        /\ Removed(c).finalizers = object.finalizers \ {c}
    BY <1>0, Zenon DEF Removed, Object
  <2>4. CASE object.finalizers \ {c} = {}
    <3>1. object' = Gone
      BY <1>3, <2>2, <2>3, <2>4, Zenon DEF Stored
    <3> QED
      BY <1>3, <2>4, <3>1, Zenon DEF Gone
  <2>5. CASE object.finalizers \ {c} # {}
    <3>1. object' = Removed(c)
      BY <2>2, <2>3, <2>5, Zenon DEF Stored
    <3> QED
      BY <1>3, <2>3, <3>1, Zenon
  <2> QED
    BY <2>4, <2>5, Zenon
<1> QED
  BY <1>1, <1>2, <1>3, StepEffect, Zenon

\* Finalizers of others, and the mark for deletion, are kept by the
\* get-modify-write of both functions.
THEOREM OwnFinalizerOnlyHolds == Spec => OwnFinalizerOnly
<1>1. FinalizerInv => \A c \in Controllers : ControllerStep(c) =>
                 /\ object'.finalizers \ {c} = object.finalizers \ {c}
                 /\ object'.exists => object'.deleting = object.deleting
  BY StepProperties, Zenon
<1> QED
  BY <1>1, FinalizerInvariance, PTL DEF OwnFinalizerOnly

\* The checks of the deletion timestamp in GetAddFunc and GetRemoveFunc still
\* hold when the update is carried out, and the object is still there.
THEOREM DeletionRespectedHolds == Spec => DeletionRespected
<1>1. FinalizerInv => \A c \in Controllers : ControllerStep(c) =>
                 /\ object'.exists => object.exists
                 /\ c \in object'.finalizers \ object.finalizers => ~object.deleting
                 /\ c \in object.finalizers \ object'.finalizers => object.deleting
  BY StepProperties, Zenon
<1> QED
  BY <1>1, FinalizerInvariance, PTL DEF DeletionRespected

------------------------------------------------------------------------------
(***************************************************************************)
(* The part of FinalizersAreSet and DeletionCompletes that needs no        *)
(* fairness: the controllers stop only where the finalizers are right.     *)
(***************************************************************************)
\* The controller has no event and no queued key to come back for.
Settled(c) == c \notin dirty /\ seen[c] = Latest
AtRest(c) == Settled(c) /\ pc[c] = "idle"

(***************************************************************************)
(* A controller at rest that did not give up on an error of its last pass  *)
(* has its finalizer on the object exactly while the object is not marked  *)
(* for deletion, although a conflict and a missing object are not retried; *)
(* and when all of them are at rest, an object that still waits to be      *)
(* deleted waits for one that gave up.                                     *)
(***************************************************************************)
RestIsRight ==
    /\ \A c \in Controllers \ abandoned : AtRest(c) /\ object.exists =>
         (c \in object.finalizers <=> ~object.deleting)
    /\ (\A c \in Controllers : AtRest(c)) /\ object.exists /\ object.deleting =>
         object.finalizers \cap abandoned # {}

\* What a settled controller has in hand is still so: it works on the latest
\* version, for any later one brings an event.
UpToDate(c) ==
    Settled(c) =>
        /\ pc[c] = "idle" /\ c \notin abandoned =>
              (object.exists => (c \in object.finalizers <=> ~object.deleting))
        /\ pc[c] = "addGet" => object.exists /\ ~object.deleting /\ c \notin object.finalizers
        /\ pc[c] = "next" => /\ ctxObj[c] = Latest /\ object.exists
                             /\ c \in object.finalizers \/ object.deleting
        /\ pc[c] = "removeGet" => object.deleting
        /\ pc[c] \in {"addUpdate", "removeUpdate"} => got[c] = Latest

\* The server keeps no object without finalizers that is marked for deletion.
Reaped == object.deleting => object.finalizers # {}

RestInv == Reaped /\ \A c \in Controllers : UpToDate(c)

\* A write is news to every controller.
LEMMA WriteUnsettles ==
    ASSUME FinalizerInv, NEW o \in Object, Write(o), NEW c \in Controllers, seen'[c] = seen[c]
    PROVE  ~Settled(c)'
<1>1. seen[c] \in 1..Latest /\ Latest \in Nat /\ history \in Seq(Object)
  BY LatestIsObject, Zenon DEF FinalizerInv, TypeOK, Version
<1>2. Latest' = Latest + 1
  BY <1>1, WriteAppends, Zenon
<1>3. seen[c] # Latest'
  BY <1>1, <1>2
<1> QED
  BY <1>3, Zenon DEF Settled

\* A step that changes nothing a controller looks at.
LEMMA UpToDateStays ==
    ASSUME NEW c \in Controllers, UpToDate(c), history' = history, seen'[c] = seen[c],
           c \in dirty' <=> c \in dirty, c \in abandoned' <=> c \in abandoned,
           pc'[c] = pc[c], got'[c] = got[c], ctxObj'[c] = ctxObj[c]
    PROVE  UpToDate(c)'
<1>1. Latest' = Latest /\ object' = object
  BY Zenon DEF Latest, object
<1>2. Settled(c)' <=> Settled(c)
  BY <1>1, Zenon DEF Settled
<1> QED
  BY <1>1, <1>2, Zenon DEF UpToDate

\* What a step of a controller leaves alone of another one.
LEMMA OthersUntouched ==
    ASSUME FinalizerInv, NEW d \in Controllers, ControllerStep(d)
    PROVE  /\ seen' = seen
           /\ \A c \in Controllers \ {d} :
                /\ pc'[c] = pc[c] /\ got'[c] = got[c] /\ ctxObj'[c] = ctxObj[c]
                /\ c \in dirty' <=> c \in dirty
                /\ c \in abandoned' <=> c \in abandoned
<1>t. pc \in [Controllers -> PC] /\ got \in [Controllers -> Version] /\ ctxObj \in [Controllers -> Version]
  BY Zenon DEF FinalizerInv, TypeOK
<1>1. /\ seen' = seen
      /\ pc' = pc \/ \E l : pc' = [pc EXCEPT ![d] = l]
      /\ got' = got \/ \E v : got' = [got EXCEPT ![d] = v]
      /\ ctxObj' = ctxObj \/ \E v : ctxObj' = [ctxObj EXCEPT ![d] = v]
      /\ dirty' = dirty \/ dirty' = dirty \cup {d} \/ dirty' = dirty \ {d}
      /\ abandoned' \in {abandoned, abandoned \cup {d}, abandoned \ {d}}
  <2>1. CASE Handle(d)
    BY <2>1, Zenon DEF Handle, SetCtx
  <2>2. CASE AddGet(d)
    BY <2>2, RequeueEffect, Zenon DEF AddGet, Return, Goto, SetCtx, SetGot
  <2>3. CASE AddUpdate(d)
    BY <2>3, RequeueEffect, Zenon DEF AddUpdate, UpdateFails, Return, Goto, SetCtx, SetGot
  <2>4. CASE GetFails(d)
    BY <2>4, RequeueEffect, Zenon DEF GetFails, Return
  <2>5. CASE NextHandle(d)
    BY <2>5, Zenon DEF NextHandle, Return, Goto
  <2>6. CASE RemoveGet(d)
    BY <2>6, RequeueEffect, Zenon DEF RemoveGet, Return, Goto, SetGot
  <2>7. CASE RemoveUpdate(d)
    BY <2>7, RequeueEffect, Zenon DEF RemoveUpdate, UpdateFails, Return
  <2> QED
    BY <2>1, <2>2, <2>3, <2>4, <2>5, <2>6, <2>7, Zenon DEF ControllerStep
<1>2. ASSUME NEW c \in Controllers \ {d}
      PROVE  /\ pc'[c] = pc[c] /\ got'[c] = got[c] /\ ctxObj'[c] = ctxObj[c]
             /\ c \in dirty' <=> c \in dirty
             /\ c \in abandoned' <=> c \in abandoned
  <2>1. pc'[c] = pc[c]
    BY <1>t, <1>1, Zenon
  <2>2. got'[c] = got[c]
    BY <1>t, <1>1, Zenon
  <2>3. ctxObj'[c] = ctxObj[c]
    BY <1>t, <1>1, Zenon
  <2>4. c \in dirty' <=> c \in dirty
    BY <1>1, Zenon
  <2>5. c \in abandoned' <=> c \in abandoned
    BY <1>1, Zenon
  <2> QED
    BY <2>1, <2>2, <2>3, <2>4, <2>5, Zenon
<1> QED
  BY <1>1, <1>2, Zenon

\* A controller's own step.
LEMMA OwnStepUpToDate ==
    ASSUME FinalizerInv, NEW c \in Controllers, UpToDate(c), ControllerStep(c)
    PROVE  UpToDate(c)'
<1>t. /\ pc \in [Controllers -> PC] /\ got \in [Controllers -> Version]
      /\ ctxObj \in [Controllers -> Version] /\ seen' = seen
  BY OthersUntouched, Zenon DEF FinalizerInv, TypeOK
<1>u. SUFFICES ASSUME Settled(c)'
               PROVE  /\ pc'[c] = "idle" /\ c \notin abandoned' =>
                            (object'.exists => (c \in object'.finalizers <=> ~object'.deleting))
                      /\ pc'[c] = "addGet" => object'.exists /\ ~object'.deleting /\ c \notin object'.finalizers
                      /\ pc'[c] = "next" => /\ ctxObj'[c] = Latest' /\ object'.exists
                                            /\ c \in object'.finalizers \/ object'.deleting
                      /\ pc'[c] = "removeGet" => object'.deleting
                      /\ pc'[c] \in {"addUpdate", "removeUpdate"} => got'[c] = Latest'
  BY Zenon DEF UpToDate
<1>h. history' = history
  <2>1. Added(c) \in Object /\ Removed(c) \in Object
    BY LatestIsObject, Zenon DEF FinalizerInv, Added, Removed, Object
  <2> QED
    BY <1>t, <1>u, <2>1, StepEffect, WriteUnsettles, Zenon
<1>o. object' = object /\ Latest' = Latest /\ seen[c] = Latest /\ c \notin dirty'
  <2>1. object' = object /\ Latest' = Latest
    BY <1>h, Zenon DEF object, Latest
  <2> QED
    BY <1>t, <1>u, <2>1, Zenon DEF Settled
<1>s. ASSUME dirty' = dirty PROVE Settled(c)
  BY <1>o, <1>s, Zenon DEF Settled
<1>n. ASSUME Return(c, TRUE) PROVE FALSE
  BY <1>n, <1>o, Zenon DEF Return
<1>r. ASSUME Return(c, FALSE) PROVE dirty' = dirty /\ pc'[c] = "idle"
  BY <1>r, <1>t, Zenon DEF Return
<1>f. ASSUME NEW err \in Failure, RequeueAPIErr(c, err)
      PROVE  pc'[c] = "idle" /\ c \in abandoned'
  BY <1>f, <1>n, <1>r, RequeueEffect, Zenon DEF Failure
<1>1. CASE Handle(c)
  <2>1. CASE ~object.exists /\ pc' = pc
    BY <1>1, <1>o, <2>1, Zenon DEF Handle
  <2>2. CASE /\ object.exists /\ SetCtx(c, seen[c])
             /\ pc' = [pc EXCEPT ![c] = IF c \notin object.finalizers /\ ~object.deleting
                                         THEN "addGet" ELSE "next"]
    <3>1. ctxObj'[c] = Latest
      BY <1>t, <1>o, <2>2, Zenon DEF SetCtx
    <3>2. pc'[c] = IF c \notin object.finalizers /\ ~object.deleting THEN "addGet" ELSE "next"
      BY <1>t, <2>2, Zenon
    <3> QED
      BY <1>o, <2>2, <3>1, <3>2
  <2> QED
    BY <1>1, <1>o, <2>1, <2>2, Zenon DEF Handle, object
<1>2. CASE AddGet(c)
  <2>1. pc[c] = "addGet" /\ (Return(c, FALSE) \/ dirty' = dirty)
    BY <1>2, RequeueEffect, Zenon DEF AddGet, Goto
  <2>2. object.exists /\ ~object.deleting /\ c \notin object.finalizers
    BY <1>s, <1>r, <2>1, Zenon DEF UpToDate
  <2>3. Goto(c, "addUpdate") /\ SetGot(c, Latest)
    BY <1>2, <2>2, Zenon DEF AddGet
  <2>4. pc'[c] = "addUpdate" /\ got'[c] = Latest
    BY <1>t, <2>3, Zenon DEF Goto, SetGot
  <2> QED
    BY <1>o, <2>4
<1>3. ASSUME NEW o, UpdateFails(c, o), pc[c] \in {"addUpdate", "removeUpdate"}
      PROVE  pc'[c] = "idle" /\ c \in abandoned'
  <2>1. CASE got[c] # Latest /\ Return(c, FALSE)
    BY <1>3, <1>s, <1>r, <2>1, Zenon DEF UpToDate
  <2> QED
    BY <1>3, <1>f, <2>1, RequeueEffect, Zenon DEF UpdateFails
<1>4. ASSUME NEW o, Write(o) PROVE FALSE
  <2>1. Len(Append(history, IF o.deleting /\ o.finalizers = {} THEN Gone ELSE o)) = Latest + 1
    BY DEF FinalizerInv, TypeOK, Latest
  <2>2. history # Append(history, IF o.deleting /\ o.finalizers = {} THEN Gone ELSE o)
    BY <2>1, LatestIsObject DEF FinalizerInv, Latest
  <2> QED
    BY <1>4, <1>h, <2>2, Zenon DEF Write
<1>5. CASE AddUpdate(c) \/ RemoveUpdate(c)
  <2>1. pc'[c] = "idle" /\ c \in abandoned'
    BY <1>3, <1>4, <1>5, Zenon DEF AddUpdate, RemoveUpdate
  <2> QED
    BY <2>1
<1>6. CASE GetFails(c)
  <2>1. pc'[c] = "idle" /\ c \in abandoned'
    BY <1>6, <1>f, Zenon DEF GetFails
  <2> QED
    BY <2>1
<1>7. CASE NextHandle(c)
  <2>1. pc[c] = "next" /\ dirty' = dirty
    BY <1>7, <1>r, Zenon DEF NextHandle, Goto
  <2>2. history[ctxObj[c]] = object /\ object.exists /\ (c \in object.finalizers \/ object.deleting)
    BY <1>s, <2>1, Zenon DEF UpToDate, object
  <2>3. CASE object.deleting
    <3>1. pc'[c] = "removeGet"
      BY <1>t, <1>7, <2>2, <2>3, Zenon DEF NextHandle, Goto
    <3> QED
      BY <1>o, <2>3, <3>1
  <2>4. CASE ~object.deleting
    <3>1. pc'[c] = "idle"
      BY <1>r, <1>7, <2>2, <2>4, Zenon DEF NextHandle
    <3> QED
      BY <1>o, <2>2, <2>4, <3>1
  <2> QED
    BY <2>3, <2>4, Zenon
<1>8. CASE RemoveGet(c)
  <2>1. pc[c] = "removeGet" /\ (Return(c, FALSE) \/ dirty' = dirty)
    BY <1>8, RequeueEffect, Zenon DEF RemoveGet, Goto
  <2>2. object.deleting
    BY <1>s, <1>r, <2>1, Zenon DEF UpToDate
  <2>3. CASE Return(c, FALSE) /\ (~object.exists \/ c \notin object.finalizers)
    BY <1>r, <1>o, <2>2, <2>3
  <2>4. CASE Goto(c, "removeUpdate") /\ SetGot(c, Latest)
    <3>1. pc'[c] = "removeUpdate" /\ got'[c] = Latest
      BY <1>t, <2>4, Zenon DEF Goto, SetGot
    <3> QED
      BY <1>o, <3>1
  <2> QED
    BY <1>8, <2>2, <2>3, <2>4, RequeueEffect, Zenon DEF RemoveGet
<1> QED
  BY <1>1, <1>2, <1>5, <1>6, <1>7, <1>8, Zenon DEF ControllerStep

\* The latest version is never one that the server should have dropped.
LEMMA ReapedStays ==
    ASSUME FinalizerInv, Reaped, [Next]_vars
    PROVE  Reaped'
<1>1. history \in Seq(Object) /\ object \in Object
  BY LatestIsObject, Zenon DEF FinalizerInv, TypeOK
<1>2. ASSUME NEW o \in Object, Write(o) PROVE Reaped'
  <2>1. object' = Stored(o)
    BY <1>1, <1>2, WriteAppends, Zenon
  <2> QED
    BY <2>1, Zenon DEF Reaped, Stored, Gone
<1>3. CASE history' = history
  BY <1>3, Zenon DEF Reaped, object, Latest
<1>4. CASE UserEdits
  <2>1. [object EXCEPT !.deleting = TRUE] \in Object /\ New \in Object
    BY <1>1, Zenon DEF Object, New, Gone
  <2> QED
    BY <1>1, <1>2, <1>4, <2>1, Zenon DEF UserEdits
<1>5. ASSUME NEW c \in Controllers, ControllerStep(c) PROVE Reaped'
  <2>1. Added(c) \in Object /\ Removed(c) \in Object
    BY <1>1, Zenon DEF Added, Removed, Object
  <2> QED
    BY <1>2, <1>3, <1>5, <2>1, StepEffect, Zenon
<1>6. ASSUME NEW c \in Controllers, Deliver(c) PROVE history' = history
  BY <1>6, Zenon DEF Deliver
<1>7. CASE UNCHANGED vars
  BY <1>3, <1>7, Zenon DEF vars
<1> QED
  BY <1>3, <1>4, <1>5, <1>6, <1>7, Zenon DEF Next

\* Every step keeps every controller up to date.
LEMMA RestInvStep ==
    ASSUME FinalizerInv, RestInv, [Next]_vars
    PROVE  RestInv'
<1> SUFFICES ASSUME NEW c \in Controllers PROVE UpToDate(c)'
  BY ReapedStays, Zenon DEF RestInv
<1>t. UpToDate(c) /\ seen \in [Controllers -> Version] /\ object \in Object
  BY LatestIsObject, Zenon DEF RestInv, FinalizerInv, TypeOK
<1>1. CASE UserEdits
  <2>1. [object EXCEPT !.deleting = TRUE] \in Object /\ New \in Object /\ seen' = seen
    BY <1>1, <1>t, Zenon DEF Object, New, Gone, UserEdits
  <2>2. ~Settled(c)'
    BY <1>1, <1>t, <2>1, WriteUnsettles, Zenon DEF UserEdits
  <2> QED
    BY <2>2, Zenon DEF UpToDate
<1>2. ASSUME NEW d \in Controllers, Deliver(d) PROVE UpToDate(c)'
  <2>1. CASE d = c
    BY <1>2, <2>1, Zenon DEF Deliver, UpToDate, Settled
  <2>2. CASE d # c
    <3>1. /\ seen'[c] = seen[c] /\ (c \in dirty' <=> c \in dirty)
          /\ history' = history /\ pc' = pc /\ got' = got /\ ctxObj' = ctxObj
          /\ abandoned' = abandoned
      BY <1>2, <1>t, <2>2, Zenon DEF Deliver
    <3> QED
      BY <1>t, <3>1, UpToDateStays, Zenon
  <2> QED
    BY <2>1, <2>2, Zenon
<1>3. ASSUME NEW d \in Controllers, ControllerStep(d) PROVE UpToDate(c)'
  <2>1. CASE d = c
    BY <1>3, <1>t, <2>1, OwnStepUpToDate, Zenon
  <2>2. CASE d # c /\ history' = history
    BY <1>3, <1>t, <2>2, OthersUntouched, UpToDateStays, Zenon
  <2>3. CASE d # c /\ \E o \in Object : Write(o)
    <3>1. seen' = seen
      BY <1>3, OthersUntouched, Zenon
    <3>2. ~Settled(c)'
      BY <2>3, <3>1, WriteUnsettles, Zenon
    <3> QED
      BY <3>2, Zenon DEF UpToDate
  <2>4. Added(d) \in Object /\ Removed(d) \in Object
    BY <1>t, Zenon DEF Added, Removed, Object
  <2> QED
    BY <1>3, <2>1, <2>2, <2>3, <2>4, StepEffect, Zenon
<1>4. CASE UNCHANGED vars
  BY <1>4, <1>t, UpToDateStays, Zenon DEF vars
<1> QED
  BY <1>1, <1>2, <1>3, <1>4, Zenon DEF Next

\* RequeueAPIErr gives up on a conflict and on a missing object, and nothing is
\* lost by it: a controller comes to rest only where RestIsRight has it, or
\* after a failure that is not in ShouldRetry's list.
THEOREM RestIsRightHolds == Spec => []RestIsRight
<1>1. Init => RestInv
  <2> SUFFICES ASSUME Init PROVE RestInv
    OBVIOUS
  <2>1. object = New
    BY DEF Init, object, Latest
  <2> QED
    BY <2>1, Zenon DEF Init, RestInv, Reaped, UpToDate, Settled, New, Gone
<1>2. FinalizerInv /\ RestInv /\ [Next]_vars => RestInv'
  BY RestInvStep, Zenon
<1>3. FinalizerInv /\ RestInv => RestIsRight
  <2> SUFFICES ASSUME FinalizerInv, RestInv PROVE RestIsRight
    OBVIOUS
  <2>1. \A c \in Controllers \ abandoned : AtRest(c) /\ object.exists =>
              (c \in object.finalizers <=> ~object.deleting)
    BY Zenon DEF RestInv, UpToDate, AtRest
  <2>2. object.finalizers \subseteq Controllers
    BY LatestIsObject, Zenon DEF FinalizerInv, Object
  <2>3. ASSUME \A c \in Controllers : AtRest(c), object.exists, object.deleting
        PROVE  object.finalizers \cap abandoned # {}
    <3>1. PICK c \in object.finalizers : TRUE
      BY <2>3, Zenon DEF RestInv, Reaped
    <3> QED
      BY <2>1, <2>2, <2>3, <3>1, Zenon
  <2> QED
    BY <2>1, <2>3, Zenon DEF RestIsRight
<1> QED
  BY <1>1, <1>2, <1>3, FinalizerInvariance, PTL DEF Spec

------------------------------------------------------------------------------
(***************************************************************************)
(* pause.go, for any number of edits, self-pauses and faults.  Pause's     *)
(* variables and constants of the same name are the ones above; no formula *)
(* speaks of both components.                                              *)
(***************************************************************************)
CONSTANT MaxSelfPauses
VARIABLES selfPaused, selfPauses

P == INSTANCE Pause

PauseSettled == ~dirty /\ seen = P!Latest

(***************************************************************************)
(* The part of PauseTakesEffect and UnpauseTakesEffect that needs no       *)
(* fairness: the handlers rest only where the label and the Paused         *)
(* condition agree, whatever stale copies they worked on on the way, or    *)
(* where the last pass gave up on an error that is not retried.            *)
(***************************************************************************)
PauseRestIsRight ==
    PauseSettled /\ pc = "idle" /\ ~abandoned => (P!object.label <=> P!object.condition # "none")

\* What the handlers have in hand when no event and no queued key is left.  A
\* settled SelfPauseHandler is never between its two patches.
PauseUpToDate ==
    PauseSettled =>
        /\ pc # "selfLabel"
        /\ pc = "idle" /\ ~abandoned => (P!object.label <=> P!object.condition # "none")
        /\ pc = "pause" => P!object.label /\ P!object.condition = "none"
        /\ pc = "unpause" => ~P!object.label /\ P!object.condition # "none"
        /\ pc \in {"next", "selfStatus"} => ~P!object.label /\ P!object.condition = "none"

\* A patch that changes nothing makes no version.
LEMMA PauseWrite ==
    ASSUME P!TypeOK, NEW o \in P!Object, P!Write(o)
    PROVE  /\ history' \in Seq(P!Object) /\ P!object' = o
           /\ P!Latest' \in Nat /\ P!Latest <= P!Latest'
           /\ P!Latest' = P!Latest => o = P!object
<1>1. history \in Seq(P!Object) /\ seen \in 1..Len(history)
  BY Zenon DEF P!TypeOK, P!Latest
<1>2. CASE o = P!object
  <2>1. history' = history
    BY <1>2, Zenon DEF P!Write
  <2> QED
    BY <1>1, <1>2, <2>1 DEF P!Latest, P!object
<1>3. CASE o # P!object
  <2>1. history' = Append(history, o)
    BY <1>3, Zenon DEF P!Write
  <2> QED
    BY <1>1, <2>1 DEF P!Latest, P!object
<1> QED
  BY <1>2, <1>3, Zenon

\* The patched objects.
LEMMA PausePatched ==
    ASSUME P!TypeOK
    PROVE  /\ P!object \in P!Object
           /\ \A c \in P!Condition : /\ P!WithCondition(c) \in P!Object
                                     /\ P!WithCondition(c).label = P!object.label
                                     /\ P!WithCondition(c).condition = c
           /\ P!WithLabel \in P!Object /\ P!WithLabel.label = TRUE
           /\ \A on \in BOOLEAN : /\ [P!object EXCEPT !.label = on] \in P!Object
                                  /\ [P!object EXCEPT !.label = on].label = on
<1>1. P!object \in P!Object
  BY DEF P!TypeOK, P!object, P!Latest
<1> QED
  BY <1>1, Zenon DEF P!Object, P!WithCondition, P!WithLabel

\* What a step of the handlers does, call by call.
LEMMA PauseSteps ==
    ASSUME P!TypeOK, P!Next
    PROVE  \/ P!Deliver
           \/ /\ seen' = seen
              /\ history' = history \/ \E o \in P!Object : P!Write(o)
<1>1. CASE \E on \in BOOLEAN : P!UserSetsLabel(on)
  BY <1>1, PausePatched, Zenon DEF P!UserSetsLabel
<1>2. CASE P!HandlerStep
  <2>1. "PausedByLabel" \in P!Condition /\ "PausedByController" \in P!Condition /\ "none" \in P!Condition
    BY Zenon DEF P!Condition
  <2>2. ASSUME NEW o \in P!Object, NEW b, P!PatchFails(o, b)
        PROVE  history' = history \/ \E x \in P!Object : P!Write(x)
    BY <2>2, Zenon DEF P!PatchFails
  <2>3. CASE P!Handle \/ P!Reconcile
    BY <2>3, Zenon DEF P!Handle, P!Reconcile
  <2>4. CASE P!PatchPaused \/ P!PatchUnpaused \/ P!PatchSelfPaused \/ P!PatchLabel
    BY <2>1, <2>2, <2>4, PausePatched, Zenon DEF P!PatchPaused, P!PatchUnpaused, P!PatchSelfPaused, P!PatchLabel
  <2> QED
    BY <1>2, <2>3, <2>4, Zenon DEF P!HandlerStep
<1> QED
  BY <1>1, <1>2, Zenon DEF P!Next

\* A step after which everything is settled changed nothing: a changed object
\* is a version that the cache has not.
LEMMA PauseQuiet ==
    ASSUME P!TypeOK, P!Next, PauseSettled'
    PROVE  /\ seen = P!Latest /\ P!Latest' = P!Latest /\ P!object' = P!object
           /\ history[seen] = P!object /\ ~dirty' /\ ~P!Deliver
           /\ \A o \in P!Object : P!Write(o) => o = P!object
<1>t. history \in Seq(P!Object) /\ seen \in 1..P!Latest /\ P!Latest \in Nat
  BY DEF P!TypeOK, P!Latest
<1>1. ~P!Deliver
  BY Zenon DEF P!Deliver, PauseSettled
<1>2. seen' = seen /\ (history' = history \/ \E o \in P!Object : P!Write(o))
  BY <1>1, PauseSteps, Zenon
<1>3. P!Latest' \in Nat /\ P!Latest <= P!Latest'
  <2>1. history' = history => P!Latest' = P!Latest
    BY Zenon DEF P!Latest
  <2>2. P!Latest <= P!Latest
    BY <1>t
  <2> QED
    BY <1>t, <1>2, <2>1, <2>2, PauseWrite, Zenon
<1>4. P!Latest' = seen
  BY <1>2, Zenon DEF PauseSettled
<1>5. seen = P!Latest /\ P!Latest' = P!Latest
  BY <1>t, <1>3, <1>4
<1>6. P!object' = P!object
  <2>1. history' = history => P!object' = P!object
    BY <1>5, Zenon DEF P!object, P!Latest
  <2> QED
    BY <1>2, <1>5, <2>1, PauseWrite, Zenon
<1>7. history[seen] = P!object
  BY <1>5, Zenon DEF P!object
<1> QED
  BY <1>1, <1>5, <1>6, <1>7, PauseWrite, Zenon DEF PauseSettled

\* Every step of the system keeps the handlers up to date.
LEMMA PauseUpToDateStep ==
    ASSUME P!TypeOK, PauseUpToDate, [P!Next]_P!vars
    PROVE  PauseUpToDate'
<1>1. CASE UNCHANGED P!vars
  BY <1>1, Zenon DEF P!vars, PauseUpToDate, PauseSettled, P!object, P!Latest
<1>2. SUFFICES ASSUME P!Next, PauseSettled'
               PROVE  /\ pc' # "selfLabel"
                      /\ pc' = "idle" /\ ~abandoned' => (P!object.label <=> P!object.condition # "none")
                      /\ pc' = "pause" => P!object.label /\ P!object.condition = "none"
                      /\ pc' = "unpause" => ~P!object.label /\ P!object.condition # "none"
                      /\ pc' \in {"next", "selfStatus"} => ~P!object.label /\ P!object.condition = "none"
  <2>1. P!Next /\ PauseSettled' => P!object' = P!object
    BY PauseQuiet, Zenon
  <2> QED
    BY <1>1, <2>1, Zenon DEF PauseUpToDate
<1>q. /\ seen = P!Latest /\ history[seen] = P!object /\ ~dirty' /\ ~P!Deliver
      /\ \A o \in P!Object : P!Write(o) => o = P!object
  BY <1>2, PauseQuiet, Zenon
<1>s. ASSUME ~dirty
      PROVE  /\ pc # "selfLabel"
             /\ pc = "idle" /\ ~abandoned => (P!object.label <=> P!object.condition # "none")
             /\ pc = "pause" => P!object.label /\ P!object.condition = "none"
             /\ pc = "unpause" => ~P!object.label /\ P!object.condition # "none"
             /\ pc \in {"next", "selfStatus"} => ~P!object.label /\ P!object.condition = "none"
  BY <1>s, <1>q, Zenon DEF PauseUpToDate, PauseSettled
<1>d. ~P!Return(TRUE) /\ (P!Return(FALSE) => pc' = "idle" /\ ~dirty)
  BY <1>q, Zenon DEF P!Return
<1>f. ASSUME NEW o, NEW b \in BOOLEAN, P!PatchFails(o, b)
      PROVE  pc' = "idle" /\ abandoned' /\ ~dirty /\ b = FALSE
  <2>1. PICK shouldRetry \in BOOLEAN : P!Return(b \/ shouldRetry) /\ abandoned' = ~(b \/ shouldRetry)
    BY <1>f, Zenon DEF P!PatchFails
  <2>2. CASE b = FALSE /\ shouldRetry = FALSE
    <3>1. (b \/ shouldRetry) = FALSE
      BY <2>2
    <3> QED
      BY <1>d, <2>1, <2>2, <3>1, Zenon
  <2>3. CASE b = TRUE \/ shouldRetry = TRUE
    <3>1. (b \/ shouldRetry) = TRUE
      BY <2>3
    <3> QED
      BY <1>d, <2>1, <3>1, Zenon
  <2> QED
    BY <2>2, <2>3, Zenon
<1>w. \A c \in P!Condition : P!Write(P!WithCondition(c)) => P!object.condition = c
  BY <1>q, PausePatched, Zenon
<1>c. "PausedByLabel" \in P!Condition /\ "PausedByController" \in P!Condition /\ "none" \in P!Condition
  BY Zenon DEF P!Condition
<1>3. ASSUME NEW on \in BOOLEAN, P!UserSetsLabel(on) PROVE FALSE
  BY <1>3, <1>q, PausePatched, Zenon DEF P!UserSetsLabel
<1>4. CASE P!Handle
  <2>1. \/ P!object.label /\ P!object.condition # "none" /\ pc' = "idle"
        \/ P!object.label /\ P!object.condition = "none" /\ pc' = "pause"
        \/ ~P!object.label /\ P!object.condition = "none" /\ pc' = "next"
        \/ ~P!object.label /\ P!object.condition # "none" /\ pc' = "unpause"
    BY <1>4, <1>q, Zenon DEF P!Handle
  <2> QED
    BY <2>1
<1>5. CASE P!PatchPaused
  <2>1. CASE pc = "pause" /\ P!Write(P!WithCondition("PausedByLabel")) /\ P!Return(FALSE)
    <3>1. P!object.condition = "none" /\ P!object.condition = "PausedByLabel"
      BY <1>s, <1>d, <1>w, <1>c, <2>1, Zenon
    <3> QED
      BY <3>1
  <2>2. CASE pc' = "idle" /\ abandoned'
    BY <2>2
  <2> QED
    BY <1>5, <1>f, <2>1, <2>2, Zenon DEF P!PatchPaused
<1>6. CASE P!PatchUnpaused
  <2>1. CASE pc = "unpause" /\ P!Write(P!WithCondition("none")) /\ dirty' = dirty
    <3>1. P!object.condition # "none" /\ P!object.condition = "none"
      BY <1>s, <1>q, <1>w, <1>c, <2>1, Zenon
    <3> QED
      BY <3>1
  <2>2. CASE pc' = "idle" /\ abandoned'
    BY <2>2
  <2> QED
    BY <1>6, <1>f, <2>1, <2>2, Zenon DEF P!PatchUnpaused
<1>7. CASE P!Reconcile
  <2>1. pc = "next" /\ (P!Return(FALSE) \/ (pc' = "selfStatus" /\ dirty' = dirty))
    BY <1>7, Zenon DEF P!Reconcile
  <2>2. ~P!object.label /\ P!object.condition = "none" /\ pc' \in {"idle", "selfStatus"}
    BY <1>s, <1>d, <1>q, <2>1, Zenon
  <2> QED
    BY <2>2
<1>8. CASE P!PatchSelfPaused
  <2>1. pc = "selfStatus" /\ P!Write(P!WithCondition("PausedByController")) /\ dirty' = dirty
    <3>1. TRUE # FALSE
      OBVIOUS
    <3> QED
      BY <1>8, <1>f, <3>1, Zenon DEF P!PatchSelfPaused
  <2>2. P!object.condition = "none" /\ P!object.condition = "PausedByController"
    BY <1>s, <1>q, <1>w, <1>c, <2>1, Zenon
  <2> QED
    BY <2>2
<1>9. CASE P!PatchLabel
  <2>1. pc = "selfLabel" /\ ~dirty
    BY <1>9, <1>d, <1>f, Zenon DEF P!PatchLabel
  <2> QED
    BY <1>s, <2>1, Zenon
<1> QED
  BY <1>2, <1>q, <1>3, <1>4, <1>5, <1>6, <1>7, <1>8, <1>9, Zenon DEF P!Next, P!HandlerStep

\* Every step keeps the types, and takes the label from an object that the
\* controller has paused only when a user does.
LEMMA PauseTypeStep ==
    ASSUME MaxSelfPauses \in Nat, P!TypeOK, [P!Next]_P!vars
    PROVE  P!TypeOK'
<1>1. CASE UNCHANGED P!vars
  BY <1>1, Zenon DEF P!vars, P!bounds, P!TypeOK, P!object, P!Latest
<1>2. CASE P!Deliver
  <2>1. seen' \in 1..P!Latest' /\ P!object' = P!object
    BY <1>2 DEF P!Deliver, P!TypeOK, P!Latest, P!object
  <2> QED
    BY <1>2, <2>1, Zenon DEF P!Deliver, P!bounds, P!TypeOK
<1>3. ASSUME NEW on \in BOOLEAN, P!UserSetsLabel(on) PROVE P!TypeOK'
  <2>1. edits' \in 0..MaxEdits
    BY <1>3, FinalizerAssumption DEF P!UserSetsLabel, P!TypeOK
  <2>2. /\ history' \in Seq(P!Object) /\ P!object'.label = on
        /\ P!Latest' \in Nat /\ P!Latest <= P!Latest'
    BY <1>3, PausePatched, PauseWrite, Zenon DEF P!UserSetsLabel
  <2>3. seen' \in 1..P!Latest'
    BY <1>3, <2>2 DEF P!UserSetsLabel, P!TypeOK, P!Latest
  <2>4. selfPaused' \in BOOLEAN /\ (selfPaused' => P!object'.label)
    BY <1>3, <2>2 DEF P!UserSetsLabel
  <2> QED
    BY <1>3, <2>1, <2>2, <2>3, <2>4, Zenon DEF P!UserSetsLabel, P!TypeOK
<1>4. CASE P!HandlerStep
  <2>c. "PausedByLabel" \in P!Condition /\ "PausedByController" \in P!Condition /\ "none" \in P!Condition
    BY Zenon DEF P!Condition
  <2>r. ASSUME NEW b \in BOOLEAN, P!Return(b) PROVE pc' = "idle" /\ dirty' \in BOOLEAN
    BY <2>r DEF P!Return, P!TypeOK
  <2>u. dirty \in BOOLEAN /\ abandoned \in BOOLEAN /\ faults \in 0..MaxFaults /\ selfPauses \in 0..MaxSelfPauses
    BY Zenon DEF P!TypeOK
  <2>w. ASSUME NEW o \in P!Object, P!Write(o), P!object.label => o.label
        PROVE  /\ history' \in Seq(P!Object) /\ P!Latest' \in Nat /\ P!Latest <= P!Latest'
               /\ P!object.label => P!object'.label
    BY <2>w, PauseWrite, Zenon
  <2>h. ASSUME history' = history
        PROVE  /\ history' \in Seq(P!Object) /\ P!Latest' \in Nat /\ P!Latest <= P!Latest'
               /\ P!object.label => P!object'.label
    BY <2>h DEF P!TypeOK, P!Latest, P!object
  <2>f. ASSUME NEW o \in P!Object, P!object.label => o.label, NEW b \in BOOLEAN, P!PatchFails(o, b)
        PROVE  /\ history' \in Seq(P!Object) /\ P!Latest' \in Nat /\ P!Latest <= P!Latest'
               /\ P!object.label => P!object'.label
               /\ pc' = "idle" /\ dirty' \in BOOLEAN /\ abandoned' \in BOOLEAN
               /\ faults' \in 0..MaxFaults
    <3>1. PICK shouldRetry \in BOOLEAN :
            /\ faults < MaxFaults /\ faults' = faults + 1
            /\ P!Write(o) \/ history' = history
            /\ P!Return(b \/ shouldRetry) /\ abandoned' = ~(b \/ shouldRetry)
      BY <2>f, Zenon DEF P!PatchFails
    <3>2. faults' \in 0..MaxFaults
      BY <2>u, <3>1, FinalizerAssumption
    <3>3. (b \/ shouldRetry) \in BOOLEAN
      BY Zenon
    <3>4. abandoned' \in BOOLEAN
      BY <3>1, Zenon
    <3> QED
      BY <2>f, <2>r, <2>w, <2>h, <3>1, <3>2, <3>3, <3>4, Zenon
  <2>1. ASSUME /\ history' \in Seq(P!Object) /\ P!Latest' \in Nat /\ P!Latest <= P!Latest'
               /\ P!object.label => P!object'.label
               /\ pc' \in {"idle", "pause", "unpause", "next", "selfStatus", "selfLabel"}
               /\ dirty' \in BOOLEAN /\ abandoned' \in BOOLEAN
               /\ faults' \in 0..MaxFaults /\ selfPauses' \in 0..MaxSelfPauses
               /\ UNCHANGED <<seen, edits>>
               /\ selfPaused' = selfPaused \/ (selfPaused' = TRUE /\ P!object'.label)
        PROVE  P!TypeOK'
    <3>1. seen' \in 1..P!Latest'
      BY <2>1 DEF P!TypeOK, P!Latest
    <3>2. selfPaused' \in BOOLEAN /\ (selfPaused' => P!object'.label)
      <4>1. selfPaused \in BOOLEAN /\ (selfPaused => P!object.label)
        BY Zenon DEF P!TypeOK
      <4>2. CASE selfPaused' = selfPaused
        BY <2>1, <4>1, <4>2, Zenon
      <4>3. CASE selfPaused' = TRUE /\ P!object'.label
        BY <4>3, Zenon
      <4> QED
        BY <2>1, <4>2, <4>3, Zenon
    <3>3. edits' \in 0..MaxEdits
      BY <2>1, Zenon DEF P!TypeOK
    <3> QED
      BY <2>1, <3>1, <3>2, <3>3, Zenon DEF P!TypeOK
  <2>2. CASE P!Handle
    <3>1. /\ pc' \in {"idle", "pause", "unpause", "next", "selfStatus", "selfLabel"}
          /\ dirty' \in BOOLEAN /\ abandoned' \in BOOLEAN
          /\ UNCHANGED <<history, seen, selfPaused, edits, selfPauses, faults>>
      BY <2>2, Zenon DEF P!Handle, P!bounds
    <3> QED
      BY <2>u, <2>h, <2>1, <3>1, Zenon
  <2>3. CASE P!Reconcile
    <3>1. /\ P!Return(FALSE) \/ (pc' = "selfStatus" /\ dirty' = dirty)
          /\ selfPauses' = selfPauses \/ (selfPauses < MaxSelfPauses /\ selfPauses' = selfPauses + 1)
          /\ UNCHANGED <<history, seen, selfPaused, abandoned, edits, faults>>
      BY <2>3, Zenon DEF P!Reconcile
    <3>2. selfPauses' \in 0..MaxSelfPauses
      BY <2>u, <3>1
    <3> QED
      BY <2>u, <2>h, <2>r, <2>1, <3>1, <3>2, Zenon
  <2>4. ASSUME NEW c \in P!Condition, NEW l \in {"idle", "next", "selfLabel"}, NEW b \in BOOLEAN,
               \/ P!Write(P!WithCondition(c)) /\ pc' = l /\ dirty' \in BOOLEAN /\ UNCHANGED <<abandoned, faults>>
               \/ P!PatchFails(P!WithCondition(c), b),
               UNCHANGED <<seen, selfPaused, edits, selfPauses>>
        PROVE  P!TypeOK'
    <3>1. P!WithCondition(c) \in P!Object /\ (P!object.label => P!WithCondition(c).label)
      BY PausePatched, Zenon
    <3>2. CASE P!Write(P!WithCondition(c)) /\ pc' = l /\ dirty' \in BOOLEAN /\ UNCHANGED <<abandoned, faults>>
      BY <2>u, <2>w, <2>1, <2>4, <3>1, <3>2, Zenon
    <3>3. CASE P!PatchFails(P!WithCondition(c), b)
      BY <2>u, <2>f, <2>1, <2>4, <3>1, <3>3, Zenon
    <3> QED
      BY <2>4, <3>2, <3>3, Zenon
  <2>5. CASE P!PatchPaused
    BY <2>c, <2>r, <2>4, <2>5, Zenon DEF P!PatchPaused
  <2>6. CASE P!PatchUnpaused
    BY <2>c, <2>u, <2>4, <2>6, Zenon DEF P!PatchUnpaused
  <2>7. CASE P!PatchSelfPaused
    BY <2>c, <2>u, <2>4, <2>7, Zenon DEF P!PatchSelfPaused
  <2>8. CASE P!PatchLabel
    <3>1. P!WithLabel \in P!Object /\ P!WithLabel.label
      BY PausePatched, Zenon
    <3>2. CASE P!Write(P!WithLabel) /\ P!Return(FALSE) /\ selfPaused' = TRUE /\ UNCHANGED <<abandoned, faults>>
      <4>1. P!object' = P!WithLabel
        BY <3>1, <3>2, PauseWrite, Zenon
      <4> QED
        BY <2>u, <2>r, <2>w, <2>1, <2>8, <3>1, <3>2, <4>1, Zenon DEF P!PatchLabel
    <3>3. CASE P!PatchFails(P!WithLabel, FALSE) /\ selfPaused' = selfPaused
      BY <2>u, <2>f, <2>1, <2>8, <3>1, <3>3, Zenon DEF P!PatchLabel
    <3> QED
      BY <2>8, <3>2, <3>3, Zenon DEF P!PatchLabel
  <2> QED
    BY <1>4, <2>2, <2>3, <2>5, <2>6, <2>7, <2>8, Zenon DEF P!HandlerStep
<1> QED
  BY <1>1, <1>2, <1>3, <1>4, Zenon DEF P!Next

\* Type correctness of the pause handlers: in particular an object that the
\* controller has paused, and no user has unpaused, has the label.
THEOREM PauseTypeCorrect ==
    ASSUME MaxSelfPauses \in Nat
    PROVE  P!Spec => []P!TypeOK
<1>1. P!Init => P!TypeOK
  <2> SUFFICES ASSUME P!Init PROVE P!TypeOK
    OBVIOUS
  <2>1. [label |-> FALSE, condition |-> "none"] \in P!Object
    BY Zenon DEF P!Object, P!Condition
  <2>2. history \in Seq(P!Object) /\ P!Latest = 1
    BY <2>1 DEF P!Init, P!Latest
  <2>3. 0 \in 0..MaxEdits /\ 0 \in 0..MaxFaults /\ 0 \in 0..MaxSelfPauses /\ 1 \in 1..1
    BY FinalizerAssumption
  <2> QED
    BY <2>2, <2>3, Zenon DEF P!Init, P!TypeOK
<1>2. P!TypeOK /\ [P!Next]_P!vars => P!TypeOK'
  BY PauseTypeStep, Zenon
<1> QED
  BY <1>1, <1>2, PTL DEF P!Spec

\* The pause handlers rest only where label and condition agree, unless the
\* last pass gave up on a patch (pause.go:83-86, 106-109).  The label patch of
\* SelfPauseHandler never is that last pass: the event of its status patch is
\* still to come.
THEOREM PauseRestIsRightHolds ==
    ASSUME MaxSelfPauses \in Nat
    PROVE  P!Spec => []PauseRestIsRight
<1>1. P!Init => PauseUpToDate
  BY Zenon DEF P!Init, PauseUpToDate, PauseSettled
<1>2. P!TypeOK /\ PauseUpToDate /\ [P!Next]_P!vars => PauseUpToDate'
  BY PauseUpToDateStep, Zenon
<1>3. PauseUpToDate => PauseRestIsRight
  BY Zenon DEF PauseUpToDate, PauseRestIsRight
<1>4. P!Spec => []P!TypeOK
  BY PauseTypeCorrect
<1> QED
  BY <1>1, <1>2, <1>3, <1>4, PTL DEF P!Spec
==============================================================================
