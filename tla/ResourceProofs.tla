--------------------------- MODULE ResourceProofs ----------------------------
(***************************************************************************)
(* Theorems about resources that handlers share: Adoption, and Registry,   *)
(* which hands out the caches that such handlers read. The two share no    *)
(* state, and are proved about separately.                                 *)
(***************************************************************************)
EXTENDS Adoption, Registry, TLAPS

------------------------------------------------------------------------------
(***************************************************************************)
(* Theorems about Adoption, for any owners, objects and bounds.  The       *)
(* argument: an owner's field manager holds nothing but that owner's       *)
(* annotation, so whatever the owner's handler applies with it, or drops   *)
(* from it, leaves the annotations of the others alone.                    *)
(***************************************************************************)
AdoptionEvent == [obj : Objects, seen : Seen]

\* An owner's field manager holds that owner's annotation, or nothing.
OwnAnnotation == \A o \in Objects : \A m \in Owners : server[o].applied[m] \subseteq {m}

\* What an owner's handler needs to go on from where it is.
Fit(label, x, E, d) ==
    /\ label \in {"exists", "label", "annotate"} => x \in Objects
    /\ label \in {"idle", "exists", "label", "index"} => E = {}
    /\ label = "unlabel" => d \in Extra
    /\ \A e \in E : e.obj # x

HandlersFit == \A a \in Owners : Fit(pc[a], adoptee[a], extras[a], old[a])

\* The inductive invariant.
AdoptionInv == TypeOK /\ OwnAnnotation /\ HandlersFit

\* What the handler of an owner applies to an object.
Applies(a, obj) ==
    {WithLabels(obj, TRUE), WithLabels(obj, FALSE),
     WithAnnotations(obj, a, {a}), WithAnnotations(obj, a, {})}

------------------------------------------------------------------------------
\* View returns what the watch can show.
LEMMA AnnotationsType ==
    ASSUME NEW obj \in Object
    PROVE  Annotations(obj) \subseteq Owners
  BY DEF Object, Annotations

LEMMA ViewType ==
    ASSUME NEW obj \in Object
    PROVE  View(obj) \in Seen
  BY AnnotationsType, Zenon DEF View, Seen, Unseen

\* The effect of Write on the cluster and on the watch.
LEMMA WriteEffect ==
    ASSUME TypeOK, NEW o \in Objects, NEW obj \in Object, Write(o, obj)
    PROVE  /\ server' = [server EXCEPT ![o] = obj]
           /\ server' \in [Objects -> Object]
           /\ stream' \in Seq(AdoptionEvent)
<1>1. server \in [Objects -> Object] /\ stream \in Seq(AdoptionEvent)
  BY Zenon DEF TypeOK, AdoptionEvent
<1>2. [obj |-> o, seen |-> View(obj)] \in AdoptionEvent
  BY ViewType, Zenon DEF AdoptionEvent
<1> QED
  BY <1>1, <1>2 DEF Write

\* What handlers apply are objects, with the annotations of others as before.
LEMMA AppliesType ==
    ASSUME NEW a \in Owners, NEW obj \in Object, NEW new \in Applies(a, obj),
           \A m \in Owners : obj.applied[m] \subseteq {m}
    PROVE  /\ new \in Object
           /\ \A m \in Owners : new.applied[m] \subseteq {m}
           /\ Annotations(new) \ {a} = Annotations(obj) \ {a}
<1>1. CASE new = WithLabels(obj, TRUE) \/ new = WithLabels(obj, FALSE)
  <2>1. new \in Object /\ new.applied = obj.applied
    BY <1>1, Zenon DEF WithLabels, Object
  <2> QED
    BY <2>1 DEF Annotations
<1>2. ASSUME NEW E \in {{a}, {}}, new = WithAnnotations(obj, a, E)
      PROVE  /\ new \in Object
             /\ \A m \in Owners : new.applied[m] \subseteq {m}
             /\ Annotations(new) \ {a} = Annotations(obj) \ {a}
  <2>0. [obj.applied EXCEPT ![a] = E] \in [Owners -> SUBSET Owners]
    BY <1>2, Zenon DEF Object
  <2>a. new = [[obj EXCEPT !.exists = TRUE] EXCEPT !.applied = [obj.applied EXCEPT ![a] = E]]
    BY <1>2, Zenon DEF WithAnnotations, Object
  <2>1. new \in Object /\ new.applied = [obj.applied EXCEPT ![a] = E]
    BY <2>0, <2>a, Zenon DEF Object
  <2>2. \A m \in Owners : m # a => new.applied[m] = obj.applied[m]
    BY <2>1, Zenon DEF Object
  <2>3. new.applied[a] = E
    BY <2>1, Zenon DEF Object
  <2> QED
    BY <2>1, <2>2, <2>3 DEF Annotations
<1> QED
  BY <1>1, <1>2, Zenon DEF Applies

\* The local variables, in the next state.
LocalsTyped ==
    /\ pc' \in [Owners -> PC]
    /\ adoptee' \in [Owners -> Objects \cup {NoObject}]
    /\ extras' \in [Owners -> SUBSET Extra]
    /\ old' \in [Owners -> Extra \cup {NoExtra}]
    /\ \A d \in Owners : Fit(pc'[d], adoptee'[d], extras'[d], old'[d])

\* Return leaves the handler with nothing.
LEMMA ReturnEffect ==
    ASSUME AdoptionInv, NEW a \in Owners, NEW b \in BOOLEAN, Return(a, b)
    PROVE  LocalsTyped /\ dirty' \subseteq Owners
<1>t. /\ pc \in [Owners -> PC] /\ adoptee \in [Owners -> Objects \cup {NoObject}]
      /\ extras \in [Owners -> SUBSET Extra] /\ old \in [Owners -> Extra \cup {NoExtra}]
      /\ dirty \subseteq Owners /\ HandlersFit
  BY Zenon DEF AdoptionInv, TypeOK
<1>1. /\ pc' = [pc EXCEPT ![a] = "idle"] /\ adoptee' = [adoptee EXCEPT ![a] = NoObject]
      /\ extras' = [extras EXCEPT ![a] = {}] /\ old' = [old EXCEPT ![a] = NoExtra]
      /\ dirty' \in {dirty, dirty \cup {a}}
  BY Zenon DEF Return
<1>2. "idle" \in PC
  BY Zenon DEF PC
<1> QED
  BY <1>t, <1>1, <1>2, Zenon DEF LocalsTyped, HandlersFit, Fit

LEMMA ReturnEarlyEffect ==
    ASSUME AdoptionInv, NEW a \in Owners, NEW b \in BOOLEAN, ReturnEarly(a, b)
    PROVE  LocalsTyped /\ dirty' \subseteq Owners /\ abandoned' \in {abandoned, abandoned \cup {a}}
<1>1. Return(a, b) /\ abandoned' \in {abandoned, abandoned \cup {a}}
  BY Zenon DEF ReturnEarly
<1> QED
  BY <1>1, ReturnEffect, Zenon

\* A handler goes on elsewhere with some of its variables changed.
LEMMA GotoEffect ==
    ASSUME AdoptionInv, NEW a \in Owners, NEW label \in PC,
           NEW x \in Objects \cup {NoObject}, NEW E \in SUBSET Extra,
           NEW d \in Extra \cup {NoExtra}, Fit(label, x, E, d),
           pc' = [pc EXCEPT ![a] = label],
           (adoptee' = adoptee /\ x = adoptee[a]) \/ adoptee' = [adoptee EXCEPT ![a] = x],
           (extras' = extras /\ E = extras[a]) \/ extras' = [extras EXCEPT ![a] = E],
           (old' = old /\ d = old[a]) \/ old' = [old EXCEPT ![a] = d]
    PROVE  LocalsTyped
<1>t. /\ pc \in [Owners -> PC] /\ adoptee \in [Owners -> Objects \cup {NoObject}]
      /\ extras \in [Owners -> SUBSET Extra] /\ old \in [Owners -> Extra \cup {NoExtra}]
      /\ \A c \in Owners : Fit(pc[c], adoptee[c], extras[c], old[c])
  BY Zenon DEF AdoptionInv, TypeOK, HandlersFit
<1>1. /\ pc'[a] = label /\ adoptee'[a] = x /\ extras'[a] = E /\ old'[a] = d
      /\ \A c \in Owners : c # a => /\ pc'[c] = pc[c] /\ adoptee'[c] = adoptee[c]
                                    /\ extras'[c] = extras[c] /\ old'[c] = old[c]
  BY <1>t, Zenon
<1>2. /\ pc' \in [Owners -> PC] /\ adoptee' \in [Owners -> Objects \cup {NoObject}]
      /\ extras' \in [Owners -> SUBSET Extra] /\ old' \in [Owners -> Extra \cup {NoExtra}]
  BY <1>t
<1>3. ASSUME NEW c \in Owners
      PROVE  Fit(pc'[c], adoptee'[c], extras'[c], old'[c])
  BY <1>t, <1>1, Zenon
<1> QED
  BY <1>2, <1>3, Zenon DEF LocalsTyped

\* A call of ApplyFunc fails.
LEMMA ApplyFailsEffect ==
    ASSUME AdoptionInv, NEW a \in Owners, NEW o \in Objects, NEW obj, ApplyFails(a, o, obj)
    PROVE  /\ LocalsTyped /\ dirty' \subseteq Owners /\ faults' \in 0..MaxFaults
           /\ UNCHANGED <<server, stream>> \/ Write(o, obj)
           /\ abandoned' \in {abandoned, abandoned \cup {a}}
<1>1. PICK shouldRetry \in BOOLEAN :
        /\ faults < MaxFaults
        /\ faults' = faults + 1
        /\ Write(o, obj) \/ UNCHANGED <<server, stream>>
        /\ ReturnEarly(a, shouldRetry)
  BY Zenon DEF ApplyFails
<1>2. LocalsTyped /\ dirty' \subseteq Owners /\ abandoned' \in {abandoned, abandoned \cup {a}}
  BY <1>1, ReturnEarlyEffect, Zenon
<1>3. faults' \in 0..MaxFaults
  BY <1>1, AdoptionAssumption DEF AdoptionInv, TypeOK
<1> QED
  BY <1>1, <1>2, <1>3, Zenon

\* What a step of the handler may do.
LEMMA HandlerEffect ==
    ASSUME AdoptionInv, NEW a \in Owners, HandlerStep(a)
    PROVE  /\ LocalsTyped /\ dirty' \subseteq Owners /\ faults' \in 0..MaxFaults
           /\ UNCHANGED <<cache, ref, changes>>
           /\ abandoned' \in {abandoned, abandoned \cup {a}, abandoned \ {a}}
           /\ \/ UNCHANGED <<server, stream>>
              \/ \E o \in Objects : \E obj \in Applies(a, server[o]) : Write(o, obj)
<1>t. /\ adoptee[a] \in Objects \cup {NoObject} /\ ref[a] \in Objects \cup {NoObject}
      /\ extras[a] \in SUBSET Extra /\ old[a] \in Extra \cup {NoExtra}
      /\ dirty \subseteq Owners /\ faults \in 0..MaxFaults /\ MaxFaults \in Nat
      /\ Fit(pc[a], adoptee[a], extras[a], old[a])
  BY AdoptionAssumption, Zenon DEF AdoptionInv, TypeOK, HandlersFit
<1>g. {"idle", "exists", "label", "index", "annotate", "release", "unlabel"} = PC
  BY Zenon DEF PC
<1>1. CASE HandleBegins(a)
  <2>1. /\ UNCHANGED <<server, stream, cache, ref, extras, old, changes, faults>>
        /\ dirty' = dirty \ {a} /\ abandoned' = abandoned \ {a} /\ pc[a] = "idle"
        /\ adoptee' = [adoptee EXCEPT ![a] = ref[a]]
    BY <1>1, Zenon DEF HandleBegins
  <2>2. PICK label \in {"exists", "index"} :
          /\ pc' = [pc EXCEPT ![a] = label]
          /\ label = "exists" => ref[a] \in Objects
    BY <1>1, <1>t, Zenon DEF HandleBegins
  <2>3. Fit(label, ref[a], extras[a], old[a]) /\ label \in PC
    BY <1>t, <1>g, <2>1, <2>2, Zenon DEF Fit
  <2>4. LocalsTyped
    BY <1>t, <2>1, <2>2, <2>3, GotoEffect, Zenon
  <2> QED
    BY <1>t, <2>1, <2>4, Zenon
<1>2. CASE ReadFails(a)
  <2>1. ReturnEarly(a, TRUE) /\ faults < MaxFaults /\ faults' = faults + 1
        /\ UNCHANGED <<server, stream, cache, ref, changes>>
    BY <1>2, Zenon DEF ReadFails
  <2>2. LocalsTyped /\ dirty' \subseteq Owners /\ abandoned' \in {abandoned, abandoned \cup {a}}
    BY <2>1, ReturnEarlyEffect, Zenon
  <2>3. faults' \in 0..MaxFaults
    BY <1>t, <2>1
  <2> QED
    BY <2>1, <2>2, <2>3, Zenon
<1>3. CASE CheckExists(a)
  <2>1. pc[a] = "exists" /\ UNCHANGED <<server, stream, cache, ref, changes>>
    BY <1>3, Zenon DEF CheckExists
  <2>f. (faults < MaxFaults /\ faults' = faults + 1) \/ faults' = faults => faults' \in 0..MaxFaults
    BY <1>t
  <2>2. CASE /\ (faults < MaxFaults /\ faults' = faults + 1) \/ faults' = faults
             /\ \E requeue \in BOOLEAN : ReturnEarly(a, requeue)
    BY <1>t, <2>1, <2>2, <2>f, ReturnEarlyEffect, Zenon
  <2>3. CASE /\ pc' = [pc EXCEPT ![a] = "label"]
             /\ UNCHANGED <<adoptee, extras, old, dirty, abandoned, faults>>
    <3>1. Fit("label", adoptee[a], extras[a], old[a]) /\ "label" \in PC
      BY <1>t, <1>g, <2>1, Zenon DEF Fit
    <3>2. LocalsTyped
      BY <1>t, <2>3, <3>1, GotoEffect, Zenon
    <3> QED
      BY <1>t, <2>1, <2>3, <3>2, Zenon
  <2> QED
    BY <1>3, <2>2, <2>3, Zenon DEF CheckExists
<1>4. CASE ApplyLabel(a)
  <2> DEFINE obj == WithLabels(server[adoptee[a]], TRUE)
  <2>1. /\ pc[a] = "label" /\ UNCHANGED <<cache, ref, changes>>
        /\ \/ /\ Write(adoptee[a], obj) /\ pc' = [pc EXCEPT ![a] = "index"]
              /\ UNCHANGED <<adoptee, extras, old, dirty, abandoned, faults>>
           \/ ApplyFails(a, adoptee[a], obj)
    BY <1>4, Zenon DEF ApplyLabel
  <2>2. adoptee[a] \in Objects /\ obj \in Applies(a, server[adoptee[a]])
    BY <1>t, <2>1, Zenon DEF Fit, Applies
  <2> HIDE DEF obj
  <2>3. CASE ApplyFails(a, adoptee[a], obj)
    BY <2>1, <2>2, <2>3, ApplyFailsEffect, Zenon
  <2>4. CASE /\ Write(adoptee[a], obj) /\ pc' = [pc EXCEPT ![a] = "index"]
             /\ UNCHANGED <<adoptee, extras, old, dirty, abandoned, faults>>
    <3>1. Fit("index", adoptee[a], extras[a], old[a]) /\ "index" \in PC
      BY <1>t, <1>g, <2>1, Zenon DEF Fit
    <3>2. LocalsTyped
      BY <1>t, <2>4, <3>1, GotoEffect, Zenon
    <3> QED
      BY <1>t, <2>1, <2>2, <2>4, <3>2, Zenon
  <2> QED
    BY <2>1, <2>3, <2>4, Zenon
<1>5. CASE ByIndex(a)
  <2> DEFINE E == ExtraObjects(a, Indexed(a) \ {adoptee[a]})
  <2>1. /\ pc[a] = "index" /\ extras' = [extras EXCEPT ![a] = E]
        /\ UNCHANGED <<server, stream, cache, ref, dirty, adoptee, old, abandoned, changes, faults>>
    BY <1>5, Zenon DEF ByIndex
  <2>2. E \in SUBSET Extra /\ \A e \in E : e.obj # adoptee[a]
    <3> SUFFICES ASSUME NEW e \in E
                 PROVE  e \in Extra /\ e.obj # adoptee[a]
      OBVIOUS
    <3>1. PICK o \in Indexed(a) \ {adoptee[a]} :
            e = [obj |-> o, hasOtherOwner |-> cache[o].owners # {a}]
      BY Zenon DEF ExtraObjects
    <3>2. o \in Objects /\ o # adoptee[a]
      BY Zenon DEF Indexed
    <3>3. (cache[o].owners # {a}) \in BOOLEAN
      OBVIOUS
    <3> QED
      BY <3>1, <3>2, <3>3, Zenon DEF Extra
  <2> HIDE DEF E
  <2>3. PICK label \in {"release", "annotate"} :
          /\ pc' = [pc EXCEPT ![a] = label]
          /\ label = "annotate" => adoptee[a] \in Objects
    BY <1>5, <1>t, Zenon DEF ByIndex
  <2>4. Fit(label, adoptee[a], E, old[a]) /\ label \in PC
    BY <1>g, <2>2, <2>3, Zenon DEF Fit
  <2>5. LocalsTyped
    BY <1>t, <2>1, <2>2, <2>3, <2>4, GotoEffect, Zenon
  <2> QED
    BY <1>t, <2>1, <2>5, Zenon
<1>6. CASE Annotate(a)
  <2> DEFINE obj == WithAnnotations(server[adoptee[a]], a, {a})
  <2>1. /\ pc[a] = "annotate" /\ UNCHANGED <<cache, ref, changes>>
        /\ \/ /\ Write(adoptee[a], obj) /\ pc' = [pc EXCEPT ![a] = "release"]
              /\ UNCHANGED <<adoptee, extras, old, dirty, abandoned, faults>>
           \/ ApplyFails(a, adoptee[a], obj)
    BY <1>6, Zenon DEF Annotate, OwnerFieldManagerFunc
  <2>2. adoptee[a] \in Objects /\ obj \in Applies(a, server[adoptee[a]])
    BY <1>t, <2>1, Zenon DEF Fit, Applies
  <2> HIDE DEF obj
  <2>3. CASE ApplyFails(a, adoptee[a], obj)
    BY <2>1, <2>2, <2>3, ApplyFailsEffect, Zenon
  <2>4. CASE /\ Write(adoptee[a], obj) /\ pc' = [pc EXCEPT ![a] = "release"]
             /\ UNCHANGED <<adoptee, extras, old, dirty, abandoned, faults>>
    <3>1. Fit("release", adoptee[a], extras[a], old[a]) /\ "release" \in PC
      BY <1>t, <1>g, <2>1, Zenon DEF Fit
    <3>2. LocalsTyped
      BY <1>t, <2>4, <3>1, GotoEffect, Zenon
    <3> QED
      BY <1>t, <2>1, <2>2, <2>4, <3>2, Zenon
  <2> QED
    BY <2>1, <2>3, <2>4, Zenon
<1>7. ASSUME NEW e \in extras[a], RemoveAnnotation(a, e)
      PROVE  /\ LocalsTyped /\ dirty' \subseteq Owners /\ faults' \in 0..MaxFaults
             /\ UNCHANGED <<cache, ref, changes>>
             /\ abandoned' \in {abandoned, abandoned \cup {a}, abandoned \ {a}}
             /\ \/ UNCHANGED <<server, stream>>
                \/ \E o \in Objects : \E obj \in Applies(a, server[o]) : Write(o, obj)
  <2> DEFINE obj == WithAnnotations(server[e.obj], a, {})
             E == extras[a] \ {e}
  <2>1. /\ pc[a] = "release" /\ UNCHANGED <<cache, ref, changes>>
        /\ \/ /\ Write(e.obj, obj) /\ extras' = [extras EXCEPT ![a] = E]
              /\ \/ UNCHANGED <<pc, old>>
                 \/ pc' = [pc EXCEPT ![a] = "unlabel"] /\ old' = [old EXCEPT ![a] = e]
              /\ UNCHANGED <<adoptee, dirty, abandoned, faults>>
           \/ ApplyFails(a, e.obj, obj)
    BY <1>7, Zenon DEF RemoveAnnotation, OwnerFieldManagerFunc
  <2>2. /\ e \in Extra /\ e.obj \in Objects /\ obj \in Applies(a, server[e.obj])
        /\ E \in SUBSET Extra /\ \A f \in E : f.obj # adoptee[a]
    BY <1>t, Zenon DEF Fit, Applies, Extra
  <2> HIDE DEF obj, E
  <2>3. CASE ApplyFails(a, e.obj, obj)
    BY <2>1, <2>2, <2>3, ApplyFailsEffect, Zenon
  <2>4. ASSUME Write(e.obj, obj), extras' = [extras EXCEPT ![a] = E],
               UNCHANGED <<adoptee, dirty, abandoned, faults>>, UNCHANGED <<pc, old>>
        PROVE  LocalsTyped
    <3>1. pc \in [Owners -> PC] /\ pc' = [pc EXCEPT ![a] = "release"]
      BY <2>1, <2>4, Zenon DEF AdoptionInv, TypeOK
    <3>2. Fit("release", adoptee[a], E, old[a]) /\ "release" \in PC
      BY <1>g, <2>2, Zenon DEF Fit
    <3> QED
      BY <1>t, <2>2, <2>4, <3>1, <3>2, GotoEffect, Zenon
  <2>5. ASSUME Write(e.obj, obj), extras' = [extras EXCEPT ![a] = E],
               UNCHANGED <<adoptee, dirty, abandoned, faults>>,
               pc' = [pc EXCEPT ![a] = "unlabel"], old' = [old EXCEPT ![a] = e]
        PROVE  LocalsTyped
    <3>1. Fit("unlabel", adoptee[a], E, e) /\ "unlabel" \in PC
      BY <1>g, <2>2, Zenon DEF Fit
    <3> QED
      BY <1>t, <2>2, <2>5, <3>1, GotoEffect, Zenon
  <2> QED
    BY <1>t, <2>1, <2>2, <2>3, <2>4, <2>5, Zenon
<1>8. CASE RemoveLabel(a)
  <2> DEFINE obj == WithLabels(server[old[a].obj], FALSE)
  <2>1. /\ pc[a] = "unlabel" /\ UNCHANGED <<cache, ref, changes>>
        /\ \/ /\ Write(old[a].obj, obj) /\ pc' = [pc EXCEPT ![a] = "release"]
              /\ old' = [old EXCEPT ![a] = NoExtra]
              /\ UNCHANGED <<adoptee, extras, dirty, abandoned, faults>>
           \/ ApplyFails(a, old[a].obj, obj)
    BY <1>8, Zenon DEF RemoveLabel
  <2>2. old[a].obj \in Objects /\ obj \in Applies(a, server[old[a].obj])
    BY <1>t, <2>1, Zenon DEF Fit, Applies, Extra
  <2> HIDE DEF obj
  <2>3. CASE ApplyFails(a, old[a].obj, obj)
    BY <2>1, <2>2, <2>3, ApplyFailsEffect, Zenon
  <2>4. CASE /\ Write(old[a].obj, obj) /\ pc' = [pc EXCEPT ![a] = "release"]
             /\ old' = [old EXCEPT ![a] = NoExtra]
             /\ UNCHANGED <<adoptee, extras, dirty, abandoned, faults>>
    <3>1. Fit("release", adoptee[a], extras[a], NoExtra) /\ "release" \in PC
      BY <1>t, <1>g, <2>1, Zenon DEF Fit
    <3>2. LocalsTyped
      BY <1>t, <2>4, <3>1, GotoEffect, Zenon
    <3> QED
      BY <1>t, <2>1, <2>2, <2>4, <3>2, Zenon
  <2> QED
    BY <2>1, <2>3, <2>4, Zenon
<1>9. CASE HandleNext(a)
  BY <1>9, <1>t, ReturnEffect, Zenon DEF HandleNext
<1> QED
  BY <1>1, <1>2, <1>3, <1>4, <1>5, <1>6, <1>7, <1>8, <1>9, Zenon DEF HandlerStep

------------------------------------------------------------------------------
\* Init establishes the invariant.
LEMMA AdoptionInit == Init => AdoptionInv
<1> SUFFICES ASSUME Init PROVE AdoptionInv
  OBVIOUS
<1>1. Blank \in Object /\ \A m \in Owners : Blank.applied[m] = {}
  BY Zenon DEF Blank, Object
<1>2. Unseen \in Seen
  BY Zenon DEF Unseen, Seen
<1>3. server \in [Objects -> Object] /\ cache \in [Objects -> Seen]
  BY <1>1, <1>2, Zenon DEF Init
<1>4. stream \in Seq([obj : Objects, seen : Seen])
  BY DEF Init
<1>5. /\ pc \in [Owners -> PC] /\ adoptee \in [Owners -> Objects \cup {NoObject}]
      /\ extras \in [Owners -> SUBSET Extra] /\ old \in [Owners -> Extra \cup {NoExtra}]
      /\ \A a \in Owners : \A e \in extras[a] : e.obj # adoptee[a]
  BY Zenon DEF Init, PC
<1>6. /\ ref \in [Owners -> Objects \cup {NoObject}] /\ dirty \subseteq Owners
      /\ changes \in 0..MaxChanges /\ faults \in 0..MaxFaults
      /\ abandoned \subseteq Owners
  BY AdoptionAssumption DEF Init
<1>7. OwnAnnotation
  BY <1>1, Zenon DEF Init, OwnAnnotation
<1>8. HandlersFit
  BY Zenon DEF Init, HandlersFit, Fit
<1> QED
  BY <1>3, <1>4, <1>5, <1>6, <1>7, <1>8, Zenon DEF AdoptionInv, TypeOK

\* A step that leaves the handlers alone leaves them fit.
LEMMA LocalsUnchanged ==
    ASSUME AdoptionInv, UNCHANGED handlerVars
    PROVE  LocalsTyped
<1>1. /\ pc \in [Owners -> PC] /\ adoptee \in [Owners -> Objects \cup {NoObject}]
      /\ extras \in [Owners -> SUBSET Extra] /\ old \in [Owners -> Extra \cup {NoExtra}]
      /\ HandlersFit
  BY Zenon DEF AdoptionInv, TypeOK
<1>2. pc' = pc /\ adoptee' = adoptee /\ extras' = extras /\ old' = old
  BY Zenon DEF handlerVars
<1> QED
  BY <1>1, <1>2, Zenon DEF LocalsTyped, HandlersFit

\* A write that keeps each field manager to its annotation.
LEMMA WriteKeeps ==
    ASSUME AdoptionInv, NEW o \in Objects, NEW obj \in Object, Write(o, obj),
           \A m \in Owners : obj.applied[m] \subseteq {m}
    PROVE  server' \in [Objects -> Object] /\ stream' \in Seq(AdoptionEvent) /\ OwnAnnotation'
<1>1. server \in [Objects -> Object] /\ OwnAnnotation
  BY Zenon DEF AdoptionInv, TypeOK
<1>2. /\ server' = [server EXCEPT ![o] = obj]
      /\ server' \in [Objects -> Object] /\ stream' \in Seq(AdoptionEvent)
  BY WriteEffect, Zenon DEF AdoptionInv
<1> QED
  BY <1>1, <1>2 DEF OwnAnnotation

\* Every step preserves the invariant.
LEMMA AdoptionNext == AdoptionInv /\ [Next]_vars => AdoptionInv'
<1> SUFFICES ASSUME AdoptionInv, [Next]_vars PROVE AdoptionInv'
  OBVIOUS
<1>t. /\ server \in [Objects -> Object] /\ stream \in Seq(AdoptionEvent)
      /\ cache \in [Objects -> Seen] /\ ref \in [Owners -> Objects \cup {NoObject}]
      /\ dirty \subseteq Owners /\ changes \in 0..MaxChanges /\ faults \in 0..MaxFaults
      /\ abandoned \subseteq Owners
      /\ OwnAnnotation /\ MaxChanges \in Nat /\ MaxFaults \in Nat
  BY AdoptionAssumption, Zenon DEF AdoptionInv, TypeOK, AdoptionEvent
<1> DEFINE Cluster == server' \in [Objects -> Object] /\ stream' \in Seq(AdoptionEvent) /\ OwnAnnotation'
           Rest == /\ cache' \in [Objects -> Seen]
                   /\ ref' \in [Owners -> Objects \cup {NoObject}]
                   /\ dirty' \subseteq Owners /\ abandoned' \subseteq Owners
                   /\ changes' \in 0..MaxChanges /\ faults' \in 0..MaxFaults
<1> SUFFICES LocalsTyped /\ Cluster /\ Rest
  <2>1. \A a \in Owners : \A e \in extras'[a] : e.obj # adoptee'[a]
    BY Zenon DEF LocalsTyped, Fit
  <2>2. HandlersFit'
    BY Zenon DEF LocalsTyped, HandlersFit
  <2> QED
    BY <2>1, <2>2, Zenon DEF AdoptionInv, TypeOK, LocalsTyped, AdoptionEvent
<1>0. UNCHANGED <<server, stream>> => Cluster
  BY <1>t, Zenon DEF OwnAnnotation
<1>1. CASE Deliver
  <2>1. stream # <<>> /\ stream' = Tail(stream)
        /\ UNCHANGED <<server, ref, handlerVars, abandoned, changes, faults>>
    BY <1>1, Zenon DEF Deliver
  <2> DEFINE e == Head(stream)
  <2>2. e \in AdoptionEvent /\ stream' \in Seq(AdoptionEvent)
    BY <1>t, <2>1
  <2>3. /\ cache' = [cache EXCEPT ![e.obj] = e.seen]
        /\ dirty' = dirty \cup cache[e.obj].owners \cup e.seen.owners
    BY <1>1, Zenon DEF Deliver
  <2> HIDE DEF e
  <2>4. e.obj \in Objects /\ e.seen \in Seen
    BY <2>2, Zenon DEF AdoptionEvent
  <2>5. cache' \in [Objects -> Seen] /\ dirty' \subseteq Owners
    BY <1>t, <2>3, <2>4, Zenon DEF Seen
  <2>6. LocalsTyped
    BY <2>1, LocalsUnchanged, Zenon
  <2>7. OwnAnnotation'
    BY <1>t, <2>1, Zenon DEF OwnAnnotation
  <2> QED
    BY <1>t, <2>1, <2>2, <2>5, <2>6, <2>7, Zenon
<1>2. ASSUME NEW a \in Owners, NEW o \in Objects \cup {NoObject}, ChangeReference(a, o)
      PROVE  LocalsTyped /\ Cluster /\ Rest
  <2>1. /\ ref' = [ref EXCEPT ![a] = o] /\ dirty' = dirty \cup {a}
        /\ changes < MaxChanges /\ changes' = changes + 1
        /\ UNCHANGED <<server, stream, cache, handlerVars, abandoned, faults>>
    BY <1>2, Zenon DEF ChangeReference
  <2>2. LocalsTyped
    BY <2>1, LocalsUnchanged, Zenon
  <2>3. changes' \in 0..MaxChanges
    BY <1>t, <2>1
  <2> QED
    BY <1>t, <1>0, <2>1, <2>2, <2>3, Zenon
<1>3. ASSUME NEW o \in Objects, DeleteObject(o) \/ CreateObject(o)
      PROVE  LocalsTyped /\ Cluster /\ Rest
  <2>1. PICK obj \in {Absent, Blank} : Write(o, obj)
    BY <1>3, Zenon DEF DeleteObject, CreateObject
  <2>2. /\ changes < MaxChanges /\ changes' = changes + 1
        /\ UNCHANGED <<cache, ref, dirty, handlerVars, faults>>
    BY <1>3, Zenon DEF DeleteObject, CreateObject
  <2>3. obj \in Object /\ \A m \in Owners : obj.applied[m] = {}
    <3>1. Blank \in Object /\ \A m \in Owners : Blank.applied[m] = {}
      BY Zenon DEF Blank, Object
    <3>2. Absent \in Object /\ Absent.applied = Blank.applied
      BY <3>1, Zenon DEF Absent, Object
    <3> QED
      BY <3>1, <3>2, Zenon
  <2>4. Cluster
    BY <2>1, <2>3, WriteKeeps, Zenon
  <2>5. LocalsTyped
    BY <2>2, LocalsUnchanged, Zenon
  <2>6. changes' \in 0..MaxChanges
    BY <1>t, <2>2
  <2>7. abandoned' \subseteq Owners
    <3>1. Annotations(server[o]) \subseteq Owners
      BY <1>t, AnnotationsType, Zenon
    <3>2. abandoned' \in {abandoned, abandoned \cup Annotations(server[o])}
      BY <1>3, Zenon DEF DeleteObject, CreateObject
    <3> QED
      BY <1>t, <3>1, <3>2, Zenon
  <2> QED
    BY <1>t, <2>2, <2>4, <2>5, <2>6, <2>7, Zenon
<1>4. ASSUME NEW a \in Owners, HandlerStep(a)
      PROVE  LocalsTyped /\ Cluster /\ Rest
  <2>0. abandoned' \in {abandoned, abandoned \cup {a}, abandoned \ {a}}
    BY <1>4, HandlerEffect, Zenon
  <2>1. LocalsTyped /\ Rest
    <3>1. abandoned' \subseteq Owners
      BY <1>t, <2>0, Zenon
    <3> QED
      BY <1>t, <1>4, <3>1, HandlerEffect, Zenon
  <2>2. ASSUME NEW o \in Objects, NEW obj \in Applies(a, server[o]), Write(o, obj)
        PROVE  Cluster
    <3>1. server[o] \in Object /\ \A m \in Owners : server[o].applied[m] \subseteq {m}
      BY <1>t, Zenon DEF OwnAnnotation
    <3>2. obj \in Object /\ \A m \in Owners : obj.applied[m] \subseteq {m}
      BY <3>1, AppliesType
    <3> QED
      BY <2>2, <3>2, WriteKeeps, Zenon
  <2>3. Cluster
    BY <1>0, <1>4, <2>2, HandlerEffect, Zenon
  <2> QED
    BY <2>1, <2>3, Zenon
<1>5. CASE Restart
  <2>1. /\ faults < MaxFaults /\ faults' = faults + 1
        /\ stream' = <<>> /\ cache' = [o \in Objects |-> View(server[o])]
        /\ dirty' = Owners /\ abandoned' = {} /\ UNCHANGED <<server, ref, changes>>
    BY <1>5, Zenon DEF Restart
  <2>2. cache' \in [Objects -> Seen]
    BY <1>t, <2>1, ViewType, Zenon
  <2>3. LocalsTyped
    <3>1. /\ pc' = [a \in Owners |-> "idle"] /\ adoptee' = [a \in Owners |-> NoObject]
          /\ extras' = [a \in Owners |-> {}] /\ old' = [a \in Owners |-> NoExtra]
      BY <1>5, Zenon DEF Restart
    <3>2. "idle" \in PC
      BY Zenon DEF PC
    <3>3. /\ pc' \in [Owners -> PC] /\ adoptee' \in [Owners -> Objects \cup {NoObject}]
          /\ extras' \in [Owners -> SUBSET Extra] /\ old' \in [Owners -> Extra \cup {NoExtra}]
      BY <3>1, <3>2, Zenon
    <3>4. \A a \in Owners : Fit(pc'[a], adoptee'[a], extras'[a], old'[a])
      BY <3>1, Zenon DEF Fit
    <3> QED
      BY <3>3, <3>4, Zenon DEF LocalsTyped
  <2>4. Cluster
    BY <1>t, <2>1 DEF OwnAnnotation
  <2>5. faults' \in 0..MaxFaults
    BY <1>t, <2>1
  <2> QED
    BY <1>t, <2>1, <2>2, <2>3, <2>4, <2>5, Zenon
<1>6. CASE UNCHANGED vars
  <2>1. LocalsTyped
    BY <1>6, LocalsUnchanged, Zenon DEF vars
  <2> QED
    BY <1>6, <1>0, <1>t, <2>1, Zenon DEF vars
<1> QED
  BY <1>1, <1>2, <1>3, <1>4, <1>5, <1>6, Zenon DEF Next

\* A step of an owner's handler leaves the other owners' annotations alone.
LEMMA StepKeepsOthers ==
    ASSUME AdoptionInv, NEW a \in Owners, HandlerStep(a), NEW o \in Objects
    PROVE  Annotations(server'[o]) \ {a} = Annotations(server[o]) \ {a}
<1>t. server \in [Objects -> Object] /\ OwnAnnotation
  BY Zenon DEF AdoptionInv, TypeOK
<1>1. CASE UNCHANGED <<server, stream>>
  BY <1>1, Zenon
<1>2. ASSUME NEW p \in Objects, NEW obj \in Applies(a, server[p]), Write(p, obj)
      PROVE  Annotations(server'[o]) \ {a} = Annotations(server[o]) \ {a}
  <2>1. server[p] \in Object /\ \A m \in Owners : server[p].applied[m] \subseteq {m}
    BY <1>t, Zenon DEF OwnAnnotation
  <2>2. obj \in Object /\ Annotations(obj) \ {a} = Annotations(server[p]) \ {a}
    BY <2>1, AppliesType, ZenonT(60)
  <2>3. server' = [server EXCEPT ![p] = obj]
    BY <1>2, Zenon DEF Write
  <2>4. server'[o] = IF o = p THEN obj ELSE server[o]
    BY <1>t, <2>3, Zenon
  <2> QED
    BY <2>2, <2>4, Zenon
<1> QED
  BY <1>1, <1>2, HandlerEffect, Zenon

(***************************************************************************)
(* The inductive invariant holds: types, field managers that hold their    *)
(* own owner's annotation only, and handlers whose locals fit their place  *)
(* in Handle.                                                              *)
(***************************************************************************)
THEOREM AdoptionInvariance == Spec => []AdoptionInv
  BY AdoptionInit, AdoptionNext, PTL DEF Spec

(***************************************************************************)
(* The type invariant, with its conjunct that the adoptee is never among   *)
(* the extra objects Handle releases.                                      *)
(***************************************************************************)
THEOREM TypeCorrect == Spec => []TypeOK
<1>1. AdoptionInv => TypeOK
  BY Zenon DEF AdoptionInv
<1> QED
  BY <1>1, AdoptionInvariance, PTL

(***************************************************************************)
(* No owner's handler adds or removes another owner's annotation, for any  *)
(* number of owners and objects, any lag of the cache, any failing calls   *)
(* and restarts.                                                           *)
(***************************************************************************)
THEOREM OtherOwnersKeptHolds == Spec => OtherOwnersKept
<1>1. AdoptionInv /\ [Next]_vars
        => [\A a \in Owners :
              \/ \A o \in Objects : Annotations(server'[o]) \ {a} = Annotations(server[o]) \ {a}
              \/ ~HandlerStep(a)]_vars
  BY StepKeepsOthers, Zenon
<1> QED
  BY <1>1, AdoptionInvariance, PTL DEF Spec, OtherOwnersKept

------------------------------------------------------------------------------
(***************************************************************************)
(* The part of ReferencesAreFollowed that needs no fairness: an owner      *)
(* rests only where its reference is followed.  The latest event on its    *)
(* way, if there is one, shows an object as the watch sees it now,         *)
(* otherwise the cache does (ViewShown).  So an owner that no event on its *)
(* way will queue has the index right (QuietView), and its handler has     *)
(* decided on the annotations as they are (OwnerUpToDate), although other  *)
(* owners' handlers write the same objects at the same time.               *)
(***************************************************************************)
\* An event on its way will queue the owner.
Awaits(a) ==
    \E i \in 1..Len(stream) : a \in stream[i].seen.owners \cup cache[stream[i].obj].owners

Annotated(a) == ref[a] # NoObject => a \in Annotations(server[ref[a]])

\* The objects with the owner's annotation that the watch covers.
Watched(a) == {o \in Objects : a \in View(server[o]).owners}

(***************************************************************************)
(* An owner that is neither queued nor being handled, and that no event on *)
(* its way will queue, has its annotation on the object it references and  *)
(* on no other that the watch covers, unless the handler gave up on it or  *)
(* its object was deleted without an event.                                *)
(***************************************************************************)
RestFollowsReference ==
    \A a \in Owners \ abandoned :
        a \notin dirty /\ pc[a] = "idle" /\ ~Awaits(a) =>
            /\ ref[a] # NoObject => a \in Annotations(server[ref[a]])
            /\ \A o \in Objects \ {ref[a]} : server[o].label => a \notin Annotations(server[o])

ViewShown(o) ==
    \/ cache[o] = View(server[o]) /\ \A i \in 1..Len(stream) : stream[i].obj # o
    \/ \E i \in 1..Len(stream) :
         /\ stream[i].obj = o /\ stream[i].seen = View(server[o])
         /\ \A j \in 1..Len(stream) : j > i => stream[j].obj # o

Listed(a) == {e.obj : e \in extras[a]}

OwnerUpToDate(a) ==
    a \notin dirty /\ ~Awaits(a) =>
        /\ pc[a] = "idle" /\ a \notin abandoned => Annotated(a) /\ Watched(a) \subseteq {ref[a]}
        /\ pc[a] # "idle" => adoptee[a] = ref[a]
        /\ pc[a] \in {"annotate", "release", "unlabel"} => Watched(a) \subseteq Listed(a) \cup {ref[a]}
        /\ pc[a] \in {"release", "unlabel"} /\ a \notin abandoned => Annotated(a)

\* An object that does not exist has no labels and no annotations.
ObjectsShown == \A o \in Objects : ViewShown(o) /\ (server[o].exists \/ server[o] = Absent)

LEMMA BlankType ==
    /\ Blank \in Object /\ Blank.exists
    /\ Absent \in Object /\ ~Absent.exists /\ ~Absent.label /\ Annotations(Absent) = {}
<1>1. Blank \in Object /\ Blank.exists /\ \A m \in Owners : Blank.applied[m] = {}
  BY Zenon DEF Blank, Object
<1>2. Absent \in Object /\ Absent.applied = Blank.applied /\ ~Absent.exists
  BY <1>1, Zenon DEF Absent, Object
<1>3. Absent.label = Blank.label /\ ~Blank.label
  BY DEF Absent, Blank
<1>4. Annotations(Absent) = {}
  BY <1>1, <1>2, Zenon DEF Annotations
<1> QED
  BY <1>1, <1>2, <1>3, <1>4, Zenon

\* Without an event that will queue the owner, the index has its objects.
LEMMA QuietView ==
    ASSUME NEW a \in Owners, NEW o \in Objects, ViewShown(o), ~Awaits(a)
    PROVE  a \in cache[o].owners <=> a \in View(server[o]).owners
<1>1. CASE cache[o] = View(server[o])
  BY <1>1, Zenon
<1>2. ASSUME NEW i \in 1..Len(stream), stream[i].obj = o, stream[i].seen = View(server[o])
      PROVE  a \in cache[o].owners <=> a \in View(server[o]).owners
  <2>1. a \notin stream[i].seen.owners /\ a \notin cache[stream[i].obj].owners
    BY Zenon DEF Awaits
  <2> QED
    BY <1>2, <2>1, Zenon
<1> QED
  BY <1>1, <1>2, Zenon DEF ViewShown

\* A change of what the watch sees of an object is an event, which will queue
\* the owners the object had and the owners it has.
LEMMA ViewWrite ==
    ASSUME AdoptionInv, NEW o \in Objects, NEW obj \in Object, Write(o, obj), cache' = cache,
           \A p \in Objects : ViewShown(p)
    PROVE  /\ \A p \in Objects : ViewShown(p)'
           /\ \A a \in Owners : ~Awaits(a)' => ~Awaits(a) /\ Watched(a)' = Watched(a)
<1>t. server \in [Objects -> Object] /\ stream \in Seq(AdoptionEvent)
  BY Zenon DEF AdoptionInv, TypeOK, AdoptionEvent
<1>1. server' = [server EXCEPT ![o] = obj]
  BY Zenon DEF Write
<1>2. server'[o] = obj /\ \A p \in Objects : p # o => server'[p] = server[p]
  BY <1>t, <1>1, Zenon
<1>3. CASE View(obj) = View(server[o])
  <2>1. stream' = stream /\ \A p \in Objects : View(server'[p]) = View(server[p])
    BY <1>2, <1>3, Zenon DEF Write
  <2>2. ASSUME NEW p \in Objects PROVE ViewShown(p)'
    <3>1. ViewShown(p)
      OBVIOUS
    <3>2. View(server'[p]) = View(server[p])
      BY <2>1, Zenon
    <3> HIDE DEF View
    <3> QED
      BY <2>1, <3>1, <3>2 DEF ViewShown
  <2>3. ASSUME NEW a \in Owners, ~Awaits(a)' PROVE ~Awaits(a) /\ Watched(a)' = Watched(a)
    BY <2>1, <2>3, Zenon DEF Awaits, Watched
  <2> QED
    BY <2>2, <2>3, Zenon
<1>4. CASE View(obj) # View(server[o])
  <2> DEFINE e == [obj |-> o, seen |-> View(obj)]
             k == Len(stream)
  <2>1. e \in AdoptionEvent /\ e.obj = o /\ e.seen = View(obj) /\ stream' = Append(stream, e)
    BY <1>4, ViewType, Zenon DEF AdoptionEvent, Write
  <2> HIDE DEF e
  <2>2. Len(stream') = k + 1 /\ k \in Nat /\ stream'[k + 1] = e
    BY <1>t, <2>1, SMTT(30)
  <2>3. \A i \in 1..k : stream'[i] = stream[i]
    BY <1>t, <2>1, SMTT(30)
  <2> HIDE DEF k
  <2>4. \A i \in 1..(k + 1) : i \in 1..k \/ i = k + 1
    BY <2>2
  <2>5. (\A i \in 1..k : i \in 1..(k + 1)) /\ k + 1 \in 1..(k + 1)
    BY <2>2
  <2>6. ASSUME NEW p \in Objects PROVE ViewShown(p)'
    <3>1. CASE p = o
      <4>1. \A j \in 1..(k + 1) : ~(j > k + 1)
        BY <2>2
      <4>2. stream'[k + 1].obj = p /\ stream'[k + 1].seen = View(server'[p])
        BY <1>2, <2>1, <2>2, <3>1, Zenon
      <4> QED
        BY <2>2, <2>5, <4>1, <4>2, Zenon DEF ViewShown
    <3>2. CASE p # o
      <4>1. View(server'[p]) = View(server[p])
        BY <1>2, <3>2, Zenon
      <4>2. CASE cache[p] = View(server[p]) /\ \A i \in 1..k : stream[i].obj # p
        <5>1. \A i \in 1..(k + 1) : stream'[i].obj # p
          BY <2>1, <2>2, <2>3, <2>4, <3>2, <4>2, Zenon
        <5>2. cache'[p] = View(server'[p])
          BY <4>1, <4>2, Zenon
        <5> QED
          BY <2>2, <5>1, <5>2, Zenon DEF ViewShown
      <4>3. ASSUME NEW i \in 1..k, stream[i].obj = p, stream[i].seen = View(server[p]),
                   \A j \in 1..k : j > i => stream[j].obj # p
            PROVE  ViewShown(p)'
        <5>1. \A j \in 1..(k + 1) : j > i => stream'[j].obj # p
          BY <2>1, <2>2, <2>3, <2>4, <3>2, <4>3, Zenon
        <5>2. i \in 1..(k + 1) /\ stream'[i].obj = p /\ stream'[i].seen = View(server'[p])
          BY <2>3, <2>5, <4>1, <4>3, Zenon
        <5> QED
          BY <2>2, <5>1, <5>2, Zenon DEF ViewShown
      <4> QED
        BY <4>2, <4>3, Zenon DEF ViewShown, k
    <3> QED
      BY <3>1, <3>2, Zenon
  <2>7. ASSUME NEW a \in Owners, ~Awaits(a)' PROVE ~Awaits(a) /\ Watched(a)' = Watched(a)
    <3>1. \A i \in 1..(k + 1) : a \notin stream'[i].seen.owners /\ a \notin cache[stream'[i].obj].owners
      BY <2>2, <2>7, Zenon DEF Awaits
    <3>2. \A i \in 1..k : a \notin stream[i].seen.owners /\ a \notin cache[stream[i].obj].owners
      BY <2>3, <2>5, <3>1, Zenon
    <3>3. ~Awaits(a)
      BY <3>2, Zenon DEF Awaits, k
    <3>4. a \notin View(obj).owners /\ a \notin cache[o].owners
      BY <2>1, <2>2, <2>5, <3>1, Zenon
    <3>5. a \notin View(server[o]).owners
      BY <3>3, <3>4, QuietView, Zenon
    <3>6. \A p \in Objects : a \in View(server'[p]).owners <=> a \in View(server[p]).owners
      BY <1>2, <3>4, <3>5, Zenon
    <3> QED
      BY <3>3, <3>6, Zenon DEF Watched
  <2> QED
    BY <2>6, <2>7, Zenon
<1> QED
  BY <1>3, <1>4, Zenon

\* An event that arrives queues the owners it was to queue.
LEMMA ViewDeliver ==
    ASSUME AdoptionInv, Deliver, \A p \in Objects : ViewShown(p)
    PROVE  /\ \A p \in Objects : ViewShown(p)'
           /\ \A a \in Owners : a \notin dirty' /\ ~Awaits(a)' => a \notin dirty /\ ~Awaits(a)
<1> DEFINE e == Head(stream)
           k == Len(stream)
<1>t. stream \in Seq(AdoptionEvent) /\ cache \in [Objects -> Seen]
  BY Zenon DEF AdoptionInv, TypeOK, AdoptionEvent
<1>1. /\ stream # <<>> /\ stream' = Tail(stream) /\ server' = server
      /\ cache' = [cache EXCEPT ![e.obj] = e.seen]
      /\ dirty' = dirty \cup cache[e.obj].owners \cup e.seen.owners
  BY Zenon DEF Deliver
<1>2. e \in AdoptionEvent /\ e = stream[1] /\ k \in Nat \ {0}
  BY <1>t, <1>1
<1>3. Len(stream') = k - 1
  BY <1>t, <1>1
<1>4. \A i \in 1..(k - 1) : stream'[i] = stream[i + 1]
  BY <1>t, <1>1
<1>5. e.obj \in Objects /\ e.seen \in Seen
  BY <1>2, Zenon DEF AdoptionEvent
<1> HIDE DEF e, k
<1>6. cache'[e.obj] = e.seen /\ \A p \in Objects : p # e.obj => cache'[p] = cache[p]
  BY <1>t, <1>1, <1>5, Zenon
<1>7. \A i \in 1..(k - 1) : i + 1 \in 1..k
  BY <1>2
<1>8. \A i \in 1..k : i = 1 \/ (i - 1 \in 1..(k - 1) /\ (i - 1) + 1 = i)
  BY <1>2
<1>9. ASSUME NEW p \in Objects PROVE ViewShown(p)'
  <2>0. View(server'[p]) = View(server[p])
    BY <1>1, Zenon
  <2>1. CASE cache[p] = View(server[p]) /\ \A i \in 1..k : stream[i].obj # p
    <3>1. 1 \in 1..k
      BY <1>2
    <3>2. e.obj # p
      BY <1>2, <2>1, <3>1, Zenon
    <3>3. cache'[p] = View(server'[p])
      BY <1>6, <2>0, <2>1, <3>2, Zenon
    <3>4. \A i \in 1..(k - 1) : stream'[i].obj # p
      BY <1>4, <1>7, <2>1, Zenon
    <3> QED
      BY <1>3, <3>3, <3>4, Zenon DEF ViewShown
  <2>2. ASSUME NEW i \in 1..k, stream[i].obj = p, stream[i].seen = View(server[p]),
               \A j \in 1..k : j > i => stream[j].obj # p
        PROVE  ViewShown(p)'
    <3>1. CASE i = 1
      <4>1. cache'[p] = View(server'[p])
        BY <1>2, <1>6, <2>0, <2>2, <3>1, Zenon
      <4>2. \A j \in 1..(k - 1) : j + 1 \in 1..k /\ j + 1 > i
        BY <1>2, <3>1
      <4>3. \A j \in 1..(k - 1) : stream'[j].obj # p
        BY <1>4, <2>2, <4>2, Zenon
      <4> QED
        BY <1>3, <4>1, <4>3, Zenon DEF ViewShown
    <3>2. CASE i - 1 \in 1..(k - 1) /\ (i - 1) + 1 = i
      <4>1. \A j \in 1..(k - 1) : j > i - 1 => j + 1 \in 1..k /\ j + 1 > i
        BY <1>2, <3>2
      <4>2. \A j \in 1..(k - 1) : j > i - 1 => stream'[j].obj # p
        BY <1>4, <2>2, <4>1, Zenon
      <4>3. stream'[i - 1].obj = p /\ stream'[i - 1].seen = View(server'[p])
        BY <1>4, <2>0, <2>2, <3>2, Zenon
      <4> QED
        BY <1>3, <3>2, <4>2, <4>3, Zenon DEF ViewShown
    <3> QED
      BY <1>8, <3>1, <3>2, Zenon
  <2> QED
    BY <2>1, <2>2, Zenon DEF ViewShown, k
<1>10. ASSUME NEW a \in Owners, a \notin dirty', ~Awaits(a)' PROVE a \notin dirty /\ ~Awaits(a)
  <2>1. a \notin dirty /\ a \notin cache[e.obj].owners /\ a \notin e.seen.owners
    BY <1>1, <1>10, Zenon
  <2>2. \A i \in 1..(k - 1) : a \notin stream'[i].seen.owners /\ a \notin cache'[stream'[i].obj].owners
    BY <1>3, <1>10, Zenon DEF Awaits
  <2>3. ASSUME NEW i \in 1..k PROVE a \notin stream[i].seen.owners /\ a \notin cache[stream[i].obj].owners
    <3>1. CASE i = 1
      BY <1>2, <2>1, <3>1, Zenon
    <3>2. CASE i - 1 \in 1..(k - 1) /\ (i - 1) + 1 = i
      <4>1. stream'[i - 1] = stream[i]
        BY <1>4, <3>2, Zenon
      <4>s. stream[i] \in AdoptionEvent
        BY <1>t DEF k
      <4>2. stream[i].obj \in Objects
        BY <4>s, Zenon DEF AdoptionEvent
      <4>3. a \notin stream[i].seen.owners /\ a \notin cache'[stream[i].obj].owners
        BY <2>2, <3>2, <4>1, Zenon
      <4> QED
        BY <1>6, <2>1, <4>2, <4>3, Zenon
    <3> QED
      BY <1>8, <3>1, <3>2, Zenon
  <2> QED
    BY <2>1, <2>3, Zenon DEF Awaits, k
<1> QED
  BY <1>9, <1>10, Zenon

\* What the handler of an owner applies exists, and takes no annotation away
\* but, in the last case, its owner's.
LEMMA AppliesKeeps ==
    ASSUME AdoptionInv, NEW a \in Owners, NEW o \in Objects, NEW obj \in Applies(a, server[o])
    PROVE  /\ obj \in Object /\ obj.exists
           /\ \A c \in Owners \ {a} : c \in Annotations(server[o]) => c \in Annotations(obj)
           /\ obj # WithAnnotations(server[o], a, {}) =>
                (a \in Annotations(server[o]) => a \in Annotations(obj))
           /\ obj = WithAnnotations(server[o], a, {a}) => a \in Annotations(obj)
<1>1. server[o] \in Object /\ \A m \in Owners : server[o].applied[m] \subseteq {m}
  BY Zenon DEF AdoptionInv, TypeOK, OwnAnnotation
<1>2. obj \in Object /\ Annotations(obj) \ {a} = Annotations(server[o]) \ {a}
  BY <1>1, AppliesType, ZenonT(60)
<1>3. \A c \in Owners \ {a} : c \in Annotations(server[o]) => c \in Annotations(obj)
  BY <1>2, Zenon
<1>4. ASSUME NEW E \in {{a}, {}}, obj = WithAnnotations(server[o], a, E)
      PROVE  obj.exists /\ (E = {a} => a \in Annotations(obj))
  <2>1. obj = [[server[o] EXCEPT !.exists = TRUE] EXCEPT !.applied = [server[o].applied EXCEPT ![a] = E]]
    BY <1>1, <1>4, Zenon DEF WithAnnotations, Object
  <2>2. obj.exists /\ obj.applied[a] = E
    BY <1>1, <2>1, Zenon DEF Object
  <2> QED
    BY <2>2, Zenon DEF Annotations
<1>5. CASE obj = WithLabels(server[o], TRUE) \/ obj = WithLabels(server[o], FALSE)
  <2>1. obj.exists /\ obj.applied = server[o].applied
    BY <1>1, <1>5, Zenon DEF WithLabels, Object
  <2>2. Annotations(obj) = Annotations(server[o])
    BY <2>1, Zenon DEF Annotations
  <2>3. obj = WithAnnotations(server[o], a, {a}) => a \in Annotations(obj)
    BY <1>4, Zenon
  <2> QED
    BY <1>2, <1>3, <2>1, <2>2, <2>3, Zenon
<1>6. CASE obj = WithAnnotations(server[o], a, {a})
  BY <1>2, <1>3, <1>4, <1>6, Zenon
<1>7. CASE obj = WithAnnotations(server[o], a, {})
  <2>1. obj.exists
    BY <1>4, <1>7, Zenon
  <2>2. obj # WithAnnotations(server[o], a, {a}) \/ a \in Annotations(obj)
    BY <1>4, Zenon
  <2> QED
    BY <1>2, <1>3, <1>7, <2>1, <2>2, Zenon
<1> QED
  BY <1>5, <1>6, <1>7, Zenon DEF Applies

\* What a write of an owner's handler means to the owners.
LEMMA WriteFollows ==
    ASSUME AdoptionInv, ObjectsShown, NEW a \in Owners, NEW o \in Objects,
           NEW obj \in Applies(a, server[o]), Write(o, obj), cache' = cache, ref' = ref
    PROVE  /\ ObjectsShown'
           /\ \A c \in Owners : ~Awaits(c)' => ~Awaits(c) /\ Watched(c)' = Watched(c)
           /\ \A c \in Owners \ {a} : Annotated(c) => Annotated(c)'
           /\ obj # WithAnnotations(server[o], a, {}) \/ o # ref[a] => (Annotated(a) => Annotated(a)')
<1>t. server \in [Objects -> Object] /\ ref \in [Owners -> Objects \cup {NoObject}]
  BY Zenon DEF AdoptionInv, TypeOK
<1>1. /\ obj \in Object /\ obj.exists
      /\ \A c \in Owners \ {a} : c \in Annotations(server[o]) => c \in Annotations(obj)
      /\ obj # WithAnnotations(server[o], a, {}) =>
           (a \in Annotations(server[o]) => a \in Annotations(obj))
  BY AppliesKeeps, Zenon
<1>2. server' = [server EXCEPT ![o] = obj]
  BY Zenon DEF Write
<1>3. server'[o] = obj /\ \A p \in Objects : p # o => server'[p] = server[p]
  BY <1>t, <1>2, Zenon
<1>4. \A p \in Objects : ViewShown(p)
  BY Zenon DEF ObjectsShown
<1>5. /\ \A p \in Objects : ViewShown(p)'
      /\ \A c \in Owners : ~Awaits(c)' => ~Awaits(c) /\ Watched(c)' = Watched(c)
  BY <1>1, <1>4, ViewWrite, Zenon
<1>6. \A p \in Objects : server'[p].exists \/ server'[p] = Absent
  BY <1>1, <1>3, Zenon DEF ObjectsShown
<1>7. ASSUME NEW c \in Owners, Annotated(c), ref[c] # NoObject,
             ref[c] = o => (c \in Annotations(server[o]) => c \in Annotations(obj))
      PROVE  Annotated(c)'
  <2>1. ref[c] \in Objects /\ c \in Annotations(server[ref[c]])
    BY <1>t, <1>7, Zenon DEF Annotated
  <2>2. c \in Annotations(server'[ref[c]])
    BY <1>3, <1>7, <2>1, Zenon
  <2> QED
    BY <2>2, Zenon DEF Annotated
<1>8. \A c \in Owners : ref[c] = NoObject => Annotated(c)'
  BY Zenon DEF Annotated
<1>9. ASSUME NEW c \in Owners \ {a}, Annotated(c) PROVE Annotated(c)'
  BY <1>1, <1>7, <1>8, <1>9, Zenon
<1>10. ASSUME obj # WithAnnotations(server[o], a, {}) \/ o # ref[a], Annotated(a) PROVE Annotated(a)'
  BY <1>1, <1>7, <1>8, <1>10, Zenon
<1> QED
  BY <1>5, <1>6, <1>9, <1>10, Zenon DEF ObjectsShown

\* Return and what else a handler does to its own variables.
LEMMA ReturnOthers ==
    ASSUME AdoptionInv, NEW a \in Owners, NEW b \in BOOLEAN, Return(a, b), NEW c \in Owners \ {a}
    PROVE  /\ pc'[c] = pc[c] /\ adoptee'[c] = adoptee[c] /\ extras'[c] = extras[c]
           /\ c \in dirty' <=> c \in dirty
<1>1. /\ pc \in [Owners -> PC] /\ adoptee \in [Owners -> Objects \cup {NoObject}]
      /\ extras \in [Owners -> SUBSET Extra]
  BY Zenon DEF AdoptionInv, TypeOK
<1>2. /\ pc' = [pc EXCEPT ![a] = "idle"] /\ adoptee' = [adoptee EXCEPT ![a] = NoObject]
      /\ extras' = [extras EXCEPT ![a] = {}] /\ dirty' \in {dirty, dirty \cup {a}}
  BY Zenon DEF Return
<1> QED
  BY <1>1, <1>2, Zenon

\* A step of one owner's handler leaves the variables of the others alone.
LEMMA OthersLocals ==
    ASSUME AdoptionInv, NEW a \in Owners, HandlerStep(a), NEW c \in Owners \ {a}
    PROVE  /\ pc'[c] = pc[c] /\ adoptee'[c] = adoptee[c] /\ extras'[c] = extras[c]
           /\ c \in dirty' <=> c \in dirty
           /\ c \in abandoned' <=> c \in abandoned
<1> DEFINE Goal == /\ pc'[c] = pc[c] /\ adoptee'[c] = adoptee[c] /\ extras'[c] = extras[c]
                   /\ c \in dirty' <=> c \in dirty
<1> HIDE DEF Goal
<1>t. /\ pc \in [Owners -> PC] /\ adoptee \in [Owners -> Objects \cup {NoObject}]
      /\ extras \in [Owners -> SUBSET Extra]
  BY Zenon DEF AdoptionInv, TypeOK
<1>r. \A b \in BOOLEAN : Return(a, b) => Goal
  BY ReturnOthers, Zenon DEF Goal
<1>f. ASSUME NEW o, NEW obj, ApplyFails(a, o, obj) PROVE Goal
  BY <1>f, <1>r, Zenon DEF ApplyFails, ReturnEarly
<1>g. ASSUME NEW label, pc' = [pc EXCEPT ![a] = label], UNCHANGED <<adoptee, extras, dirty>>
      PROVE  Goal
  BY <1>g, <1>t, Zenon DEF Goal
<1>h. abandoned' \in {abandoned, abandoned \cup {a}, abandoned \ {a}}
  BY HandlerEffect, Zenon
<1> SUFFICES Goal
  BY <1>h, Zenon DEF Goal
<1>1. CASE HandleBegins(a)
  BY <1>1, <1>t, Zenon DEF HandleBegins, Goal
<1>2. CASE ReadFails(a)
  BY <1>2, <1>r, Zenon DEF ReadFails, ReturnEarly
<1>3. CASE CheckExists(a)
  BY <1>3, <1>g, <1>r, Zenon DEF CheckExists, ReturnEarly
<1>4. CASE ApplyLabel(a)
  BY <1>4, <1>f, <1>g, Zenon DEF ApplyLabel
<1>5. CASE ByIndex(a)
  BY <1>5, <1>t, Zenon DEF ByIndex, Goal
<1>6. CASE Annotate(a)
  BY <1>6, <1>f, <1>g, Zenon DEF Annotate
<1>7. ASSUME NEW e \in extras[a], RemoveAnnotation(a, e) PROVE Goal
  BY <1>7, <1>f, <1>t, Zenon DEF RemoveAnnotation, Goal
<1>8. CASE RemoveLabel(a)
  BY <1>8, <1>f, <1>g, Zenon DEF RemoveLabel
<1>9. CASE HandleNext(a)
  BY <1>9, <1>r, Zenon DEF HandleNext
<1> QED
  BY <1>1, <1>2, <1>3, <1>4, <1>5, <1>6, <1>7, <1>8, <1>9, Zenon DEF HandlerStep

\* What a step leaves up to date.
LEMMA UpToDateKept ==
    ASSUME NEW c \in Owners, OwnerUpToDate(c),
           pc'[c] = pc[c], adoptee'[c] = adoptee[c], extras'[c] = extras[c], ref'[c] = ref[c],
           c \in abandoned => c \in abandoned',
           c \notin dirty' /\ ~Awaits(c)' =>
               /\ c \notin dirty /\ ~Awaits(c) /\ Watched(c)' = Watched(c)
               /\ Annotated(c) => Annotated(c)' \/ c \in abandoned'
    PROVE  OwnerUpToDate(c)'
<1> SUFFICES ASSUME c \notin dirty', ~Awaits(c)' PROVE OwnerUpToDate(c)'
  BY Zenon DEF OwnerUpToDate
<1>1. /\ c \notin dirty /\ ~Awaits(c) /\ Watched(c)' = Watched(c)
      /\ Annotated(c) => Annotated(c)' \/ c \in abandoned'
  BY Zenon
<1>2. Listed(c)' = Listed(c)
  BY Zenon DEF Listed
<1> QED
  BY <1>1, <1>2, Zenon DEF OwnerUpToDate

\* A handler that is not to run again has decided on what is there: a write
\* that changes what the watch sees of its owner is an event for it, and an
\* error queues the owner or makes the handler give up on it.
LEMMA OwnFollows ==
    ASSUME AdoptionInv, ObjectsShown, NEW a \in Owners, OwnerUpToDate(a), HandlerStep(a)
    PROVE  OwnerUpToDate(a)'
<1> SUFFICES ASSUME a \notin dirty', ~Awaits(a)' PROVE OwnerUpToDate(a)'
  BY Zenon DEF OwnerUpToDate
<1>t. /\ pc \in [Owners -> PC] /\ adoptee \in [Owners -> Objects \cup {NoObject}]
      /\ extras \in [Owners -> SUBSET Extra] /\ ref \in [Owners -> Objects \cup {NoObject}]
      /\ Fit(pc[a], adoptee[a], extras[a], old[a]) /\ NoObject \notin Objects
  BY AdoptionAssumption, Zenon DEF AdoptionInv, TypeOK, HandlersFit
<1>u. UNCHANGED <<cache, ref>>
  BY HandlerEffect, Zenon
<1>r. ASSUME NEW b \in BOOLEAN, ReturnEarly(a, b) PROVE OwnerUpToDate(a)'
  <2>1. pc' = [pc EXCEPT ![a] = "idle"]
    BY <1>r, Zenon DEF ReturnEarly, Return
  <2>2. pc'[a] = "idle"
    BY <1>t, <2>1, Zenon
  <2>3. a \in abandoned'
    BY <1>r, Zenon DEF ReturnEarly, Return
  <2> QED
    BY <2>2, <2>3, Zenon DEF OwnerUpToDate
<1>e. ASSUME NEW o, NEW obj, ApplyFails(a, o, obj) PROVE OwnerUpToDate(a)'
  BY <1>e, <1>r, Zenon DEF ApplyFails
<1>f. SUFFICES ASSUME \A o, obj : ~ApplyFails(a, o, obj) PROVE OwnerUpToDate(a)'
  BY <1>e, Zenon
<1>q. stream' = stream => ~Awaits(a)
  BY <1>u, Zenon DEF Awaits
<1>w. UNCHANGED <<server, stream>> => Watched(a)' = Watched(a) /\ (Annotated(a) => Annotated(a)')
  BY <1>u, Zenon DEF Watched, Annotated
<1>1. CASE HandleBegins(a)
  <2>1. adoptee'[a] = ref[a] /\ pc'[a] \in {"exists", "index"}
    BY <1>1, <1>t, Zenon DEF HandleBegins
  <2> QED
    BY <1>u, <2>1, Zenon DEF OwnerUpToDate
<1>2. CASE ReadFails(a)
  BY <1>2, <1>r, Zenon DEF ReadFails
<1>3. CASE CheckExists(a)
  <2>1. pc[a] = "exists" /\ stream' = stream
    BY <1>3, <1>t, Zenon DEF CheckExists
  <2>2. CASE \E requeue \in BOOLEAN : ReturnEarly(a, requeue)
    BY <1>r, <2>2, Zenon
  <2>3. CASE pc' = [pc EXCEPT ![a] = "label"] /\ adoptee' = adoptee /\ dirty' = dirty
    <3>1. pc'[a] = "label"
      BY <1>t, <2>3, Zenon
    <3>2. adoptee[a] = ref[a]
      BY <1>q, <2>1, <2>3, Zenon DEF OwnerUpToDate
    <3> QED
      BY <1>u, <2>3, <3>1, <3>2, Zenon DEF OwnerUpToDate
  <2> QED
    BY <1>3, <2>2, <2>3, Zenon DEF CheckExists
<1>4. CASE ApplyLabel(a)
  <2> DEFINE obj == WithLabels(server[adoptee[a]], TRUE)
  <2>1. /\ pc[a] = "label" /\ Write(adoptee[a], obj) /\ pc'[a] = "index"
        /\ adoptee' = adoptee /\ dirty' = dirty
    BY <1>4, <1>f, <1>t, Zenon DEF ApplyLabel
  <2>2. adoptee[a] \in Objects /\ obj \in Applies(a, server[adoptee[a]])
    BY <1>t, <2>1, Zenon DEF Fit, Applies
  <2> HIDE DEF obj
  <2>3. ~Awaits(a)
    BY <1>u, <2>1, <2>2, WriteFollows, Zenon
  <2>4. adoptee[a] = ref[a]
    BY <2>1, <2>3, Zenon DEF OwnerUpToDate
  <2> QED
    BY <1>u, <2>1, <2>4, Zenon DEF OwnerUpToDate
<1>5. CASE ByIndex(a)
  <2>1. /\ pc[a] = "index" /\ UNCHANGED <<server, stream, dirty, adoptee>>
        /\ extras'[a] = ExtraObjects(a, Indexed(a) \ {adoptee[a]})
        /\ pc'[a] = IF adoptee[a] \in Indexed(a) \cup {NoObject} THEN "release" ELSE "annotate"
    BY <1>5, <1>t, Zenon DEF ByIndex
  <2>2. ~Awaits(a)
    BY <1>q, <2>1, Zenon
  <2>3. adoptee'[a] = ref'[a] /\ adoptee[a] = ref[a]
    BY <1>u, <2>1, <2>2, Zenon DEF OwnerUpToDate
  <2>4. \A o \in Objects : ViewShown(o)
    BY Zenon DEF ObjectsShown
  <2>5. Indexed(a) = Watched(a)
    BY <2>2, <2>4, QuietView, Zenon DEF Indexed, Watched
  <2>6. ASSUME NEW o \in Watched(a), o # ref[a] PROVE o \in Listed(a)'
    <3> DEFINE e == [obj |-> o, hasOtherOwner |-> cache[o].owners # {a}]
    <3>1. e \in extras'[a] /\ e.obj = o
      BY <2>1, <2>3, <2>5, <2>6, Zenon DEF ExtraObjects
    <3> HIDE DEF e
    <3> QED
      BY <3>1, Zenon DEF Listed
  <2>7. Watched(a)' \subseteq Listed(a)' \cup {ref'[a]}
    BY <1>u, <1>w, <2>1, <2>6, Zenon
  <2>8. CASE pc'[a] = "annotate"
    BY <2>3, <2>7, <2>8, Zenon DEF OwnerUpToDate
  <2>9. CASE pc'[a] = "release" /\ adoptee[a] \in Indexed(a) \cup {NoObject}
    <3>1. Annotated(a)
      <4>1. CASE ref[a] = NoObject
        BY <4>1, Zenon DEF Annotated
      <4>2. CASE a \in View(server[ref[a]]).owners
        <5>1. Unseen.owners = {}
          BY Zenon DEF Unseen
        <5>2. View(server[ref[a]]).owners = Annotations(server[ref[a]])
          BY <4>2, <5>1, Zenon DEF View
        <5> QED
          BY <4>2, <5>2, Zenon DEF Annotated
      <4> QED
        BY <2>3, <2>5, <2>9, <4>1, <4>2, Zenon DEF Watched
    <3>2. Annotated(a)'
      BY <1>w, <2>1, <3>1, Zenon
    <3> QED
      BY <2>3, <2>7, <2>9, <3>2, Zenon DEF OwnerUpToDate
  <2> QED
    BY <2>1, <2>8, <2>9, Zenon
<1>6. CASE Annotate(a)
  <2> DEFINE obj == WithAnnotations(server[adoptee[a]], a, {a})
  <2>1. /\ pc[a] = "annotate" /\ Write(adoptee[a], obj) /\ pc'[a] = "release"
        /\ UNCHANGED <<adoptee, extras, dirty>>
    BY <1>6, <1>f, <1>t, Zenon DEF Annotate, OwnerFieldManagerFunc
  <2>2. adoptee[a] \in Objects /\ obj \in Applies(a, server[adoptee[a]])
    BY <1>t, <2>1, Zenon DEF Fit, Applies
  <2>3. obj \in Object /\ a \in Annotations(obj)
    BY <2>2, AppliesKeeps, Zenon
  <2> HIDE DEF obj
  <2>4. ~Awaits(a) /\ Watched(a)' = Watched(a)
    BY <1>u, <2>1, <2>2, WriteFollows, Zenon
  <2>5. adoptee[a] = ref[a] /\ Watched(a) \subseteq Listed(a) \cup {ref[a]}
    BY <2>1, <2>4, Zenon DEF OwnerUpToDate
  <2>6. server' = [server EXCEPT ![adoptee[a]] = obj] /\ server \in [Objects -> Object]
    BY <2>1, Zenon DEF Write, AdoptionInv, TypeOK
  <2>7. Annotated(a)'
    BY <1>u, <2>2, <2>3, <2>5, <2>6, Zenon DEF Annotated
  <2>8. Listed(a)' = Listed(a)
    BY <2>1, Zenon DEF Listed
  <2> QED
    BY <1>u, <2>1, <2>4, <2>5, <2>7, <2>8, Zenon DEF OwnerUpToDate
<1>7. ASSUME NEW e \in extras[a], RemoveAnnotation(a, e) PROVE OwnerUpToDate(a)'
  <2> DEFINE obj == WithAnnotations(server[e.obj], a, {})
  <2>0. /\ pc[a] = "release" /\ Write(e.obj, obj) /\ extras' = [extras EXCEPT ![a] = @ \ {e}]
        /\ pc' = pc \/ pc' = [pc EXCEPT ![a] = "unlabel"]
        /\ UNCHANGED <<adoptee, dirty, abandoned>>
    BY <1>7, <1>f, Zenon DEF RemoveAnnotation, OwnerFieldManagerFunc
  <2>p. pc'[a] = "release" \/ pc'[a] = "unlabel"
    BY <1>t, <2>0, Zenon
  <2>e. extras'[a] = extras[a] \ {e}
    BY <1>t, <2>0, Zenon
  <2>1. /\ pc[a] = "release" /\ Write(e.obj, obj) /\ pc'[a] \in {"release", "unlabel"}
        /\ extras'[a] = extras[a] \ {e} /\ UNCHANGED <<adoptee, dirty, abandoned>>
    BY <2>0, <2>p, <2>e, Zenon
  <2>x. e \in Extra /\ e.obj # adoptee[a]
    BY <1>t, Zenon DEF Fit
  <2>y. e.obj \in Objects
    BY <2>x, Zenon DEF Extra
  <2>2. e.obj \in Objects /\ obj \in Applies(a, server[e.obj]) /\ e.obj # adoptee[a]
    BY <2>x, <2>y, Zenon DEF Applies
  <2>3. /\ ~Awaits(a) /\ Watched(a)' = Watched(a)
        /\ e.obj # ref[a] => (Annotated(a) => Annotated(a)')
    BY <1>u, <2>1, <2>2, WriteFollows, Zenon
  <2>4. /\ adoptee[a] = ref[a] /\ Watched(a) \subseteq Listed(a) \cup {ref[a]}
        /\ a \notin abandoned => Annotated(a)
    BY <2>1, <2>3, Zenon DEF OwnerUpToDate
  <2>5. a \notin abandoned' => Annotated(a)'
    BY <2>1, <2>2, <2>3, <2>4, Zenon
  <2>6. e.obj \notin Watched(a)'
    <3>1. server[e.obj] \in Object /\ server \in [Objects -> Object]
          /\ \A m \in Owners : server[e.obj].applied[m] \subseteq {m}
      BY <2>2, Zenon DEF AdoptionInv, TypeOK, OwnAnnotation
    <3>2. obj = [[server[e.obj] EXCEPT !.exists = TRUE] EXCEPT
                   !.applied = [server[e.obj].applied EXCEPT ![a] = {}]]
      BY <3>1, Zenon DEF WithAnnotations, Object
    <3>3. obj.applied = [server[e.obj].applied EXCEPT ![a] = {}]
      BY <3>1, <3>2, Zenon DEF Object
    <3>4. obj.applied[a] = {} /\ \A m \in Owners \ {a} : obj.applied[m] = server[e.obj].applied[m]
      BY <3>1, <3>3, Zenon DEF Object
    <3>5. \A m \in Owners : a \notin obj.applied[m]
      BY <3>1, <3>4, Zenon
    <3>6. a \notin Annotations(obj)
      BY <3>5, Zenon DEF Annotations
    <3>7. Unseen.owners = {}
      BY Zenon DEF Unseen
    <3> HIDE DEF obj
    <3>8. a \notin View(obj).owners
      BY <3>6, <3>7, Zenon DEF View
    <3>9. server'[e.obj] = obj
      BY <2>1, <2>2, <3>1, Zenon DEF Write
    <3> QED
      BY <3>8, <3>9, Zenon DEF Watched
  <2>7. ASSUME NEW o \in Watched(a)', o # ref[a] PROVE o \in Listed(a)'
    <3>1. o \in Listed(a) /\ o # e.obj
      BY <2>3, <2>4, <2>6, <2>7, Zenon
    <3>2. PICK d \in extras[a] : d.obj = o
      BY <3>1, Zenon DEF Listed
    <3>3. d \in extras'[a]
      BY <2>1, <3>1, <3>2, Zenon
    <3> QED
      BY <3>2, <3>3, Zenon DEF Listed
  <2>8. Watched(a)' \subseteq Listed(a)' \cup {ref'[a]}
    BY <1>u, <2>7, Zenon
  <2> QED
    BY <1>u, <2>1, <2>4, <2>5, <2>8, Zenon DEF OwnerUpToDate
<1>8. CASE RemoveLabel(a)
  <2> DEFINE obj == WithLabels(server[old[a].obj], FALSE)
  <2>1. /\ pc[a] = "unlabel" /\ Write(old[a].obj, obj) /\ pc'[a] = "release"
        /\ UNCHANGED <<adoptee, extras, dirty, abandoned>>
    BY <1>8, <1>f, <1>t, Zenon DEF RemoveLabel
  <2>2. old[a].obj \in Objects /\ obj \in Applies(a, server[old[a].obj])
    BY <1>t, <2>1, Zenon DEF Fit, Applies, Extra
  <2>3. server[old[a].obj] \in Object
    BY <2>2, Zenon DEF AdoptionInv, TypeOK
  <2>4. obj.applied = server[old[a].obj].applied
    BY <2>3, Zenon DEF WithLabels, Object
  <2>5. Annotations(obj) = Annotations(server[old[a].obj])
    BY <2>4, Zenon DEF Annotations
  <2> HIDE DEF obj
  <2>6. ~Awaits(a) /\ Watched(a)' = Watched(a)
    BY <1>u, <2>1, <2>2, WriteFollows, Zenon
  <2>7. /\ adoptee[a] = ref[a] /\ Watched(a) \subseteq Listed(a) \cup {ref[a]}
        /\ a \notin abandoned => Annotated(a)
    BY <2>1, <2>6, Zenon DEF OwnerUpToDate
  <2>8. server' = [server EXCEPT ![old[a].obj] = obj] /\ server \in [Objects -> Object]
    BY <2>1, Zenon DEF Write, AdoptionInv, TypeOK
  <2>9. \A o \in Objects : Annotations(server'[o]) = Annotations(server[o])
    BY <2>2, <2>5, <2>8, Zenon
  <2>10. a \notin abandoned' => Annotated(a)'
    BY <1>t, <1>u, <2>1, <2>7, <2>9, Zenon DEF Annotated
  <2>11. Listed(a)' = Listed(a)
    BY <2>1, Zenon DEF Listed
  <2> QED
    BY <1>u, <2>1, <2>6, <2>7, <2>10, <2>11, Zenon DEF OwnerUpToDate
<1>9. CASE HandleNext(a)
  <2>1. /\ pc[a] = "release" /\ extras[a] = {} /\ pc'[a] = "idle"
        /\ UNCHANGED <<server, stream, dirty, abandoned>>
    BY <1>9, <1>t, Zenon DEF HandleNext, Return
  <2>2. Watched(a) \subseteq Listed(a) \cup {ref[a]} /\ (a \notin abandoned => Annotated(a))
    BY <1>q, <2>1, Zenon DEF OwnerUpToDate
  <2>3. Listed(a) = {}
    BY <2>1, Zenon DEF Listed
  <2>4. Watched(a)' \subseteq {ref'[a]} /\ (a \notin abandoned' => Annotated(a)')
    BY <1>u, <1>w, <2>1, <2>2, <2>3, Zenon
  <2> QED
    BY <2>1, <2>4, Zenon DEF OwnerUpToDate
<1> QED
  BY <1>1, <1>2, <1>3, <1>4, <1>5, <1>6, <1>7, <1>8, <1>9, Zenon DEF HandlerStep

\* Every step leaves every owner up to date.
LEMMA OwnersFollow ==
    ASSUME AdoptionInv, ObjectsShown, \A c \in Owners : OwnerUpToDate(c), [Next]_vars
    PROVE  ObjectsShown' /\ \A c \in Owners : OwnerUpToDate(c)'
<1> DEFINE Goal == ObjectsShown' /\ \A c \in Owners : OwnerUpToDate(c)'
<1>s. \A o \in Objects : ViewShown(o) /\ (server[o].exists \/ server[o] = Absent)
  BY Zenon DEF ObjectsShown
<1>0. ASSUME UNCHANGED <<server, stream, cache>> PROVE ObjectsShown'
  <2>1. ASSUME NEW o \in Objects PROVE ViewShown(o)' /\ (server'[o].exists \/ server'[o] = Absent)
    <3>1. ViewShown(o) /\ View(server'[o]) = View(server[o])
      BY <1>0, <1>s, Zenon
    <3>2. server'[o].exists \/ server'[o] = Absent
      BY <1>0, <1>s, Zenon
    <3> HIDE DEF View
    <3>3. ViewShown(o)'
      BY <1>0, <3>1 DEF ViewShown
    <3> QED
      BY <3>2, <3>3, Zenon
  <2> QED
    BY <2>1, Zenon DEF ObjectsShown
<1>q. ASSUME UNCHANGED <<server, stream, cache>>, NEW c \in Owners, ref'[c] = ref[c]
      PROVE  ~Awaits(c)' => ~Awaits(c) /\ Watched(c)' = Watched(c) /\ (Annotated(c) => Annotated(c)')
  BY <1>q, Zenon DEF Awaits, Watched, Annotated
<1>1. CASE Deliver
  <2>1. UNCHANGED <<server, ref, pc, adoptee, extras, abandoned>>
    BY <1>1, Zenon DEF Deliver, handlerVars
  <2>2. /\ \A p \in Objects : ViewShown(p)'
        /\ \A c \in Owners : c \notin dirty' /\ ~Awaits(c)' => c \notin dirty /\ ~Awaits(c)
    BY <1>1, <1>s, ViewDeliver, Zenon
  <2>3. ObjectsShown'
    BY <1>s, <2>1, <2>2, Zenon DEF ObjectsShown
  <2>4. ASSUME NEW c \in Owners PROVE OwnerUpToDate(c)'
    <3>1. Watched(c)' = Watched(c) /\ (Annotated(c) => Annotated(c)')
      BY <2>1, Zenon DEF Watched, Annotated
    <3> QED
      BY <2>1, <2>2, <3>1, UpToDateKept, Zenon
  <2> QED
    BY <2>3, <2>4, Zenon
<1>2. ASSUME NEW a \in Owners, NEW o \in Objects \cup {NoObject}, ChangeReference(a, o) PROVE Goal
  <2>1. /\ UNCHANGED <<server, stream, cache, pc, adoptee, extras, abandoned>>
        /\ ref' = [ref EXCEPT ![a] = o] /\ dirty' = dirty \cup {a}
    BY <1>2, Zenon DEF ChangeReference, handlerVars
  <2>2. ref \in [Owners -> Objects \cup {NoObject}]
    BY Zenon DEF AdoptionInv, TypeOK
  <2>3. ASSUME NEW c \in Owners PROVE OwnerUpToDate(c)'
    <3>1. CASE c = a
      BY <2>1, <3>1, Zenon DEF OwnerUpToDate
    <3>2. CASE c # a
      <4>1. ref'[c] = ref[c]
        BY <2>1, <2>2, <3>2, Zenon
      <4> QED
        BY <1>q, <2>1, <4>1, UpToDateKept, Zenon
    <3> QED
      BY <3>1, <3>2, Zenon
  <2> QED
    BY <1>0, <2>1, <2>3, Zenon
<1>3. ASSUME NEW o \in Objects, DeleteObject(o) \/ CreateObject(o) PROVE Goal
  <2>t. /\ server \in [Objects -> Object] /\ ref \in [Owners -> Objects \cup {NoObject}]
        /\ NoObject \notin Objects
    BY AdoptionAssumption, Zenon DEF AdoptionInv, TypeOK
  <2>1. UNCHANGED <<cache, ref, dirty, pc, adoptee, extras>> /\ abandoned \subseteq abandoned'
    BY <1>3, Zenon DEF DeleteObject, CreateObject, handlerVars
  <2>2. PICK obj \in {Absent, Blank} : Write(o, obj)
    BY <1>3, Zenon DEF DeleteObject, CreateObject
  <2>3. obj \in Object /\ (obj.exists \/ obj = Absent)
    BY BlankType, Zenon
  <2>4. /\ \A p \in Objects : ViewShown(p)'
        /\ \A c \in Owners : ~Awaits(c)' => ~Awaits(c) /\ Watched(c)' = Watched(c)
    BY <1>s, <2>1, <2>2, <2>3, ViewWrite, Zenon
  <2>5. server' = [server EXCEPT ![o] = obj]
    BY <2>2, Zenon DEF Write
  <2>6. server'[o] = obj /\ \A p \in Objects : p # o => server'[p] = server[p]
    BY <2>t, <2>5, Zenon
  <2>7. ObjectsShown'
    BY <1>s, <2>3, <2>4, <2>6, Zenon DEF ObjectsShown
  <2>8. ASSUME NEW c \in Owners, ~Awaits(c)', Annotated(c), c \notin abandoned' PROVE Annotated(c)'
    <3>1. CASE ref[c] # o
      BY <2>t, <2>1, <2>6, <2>8, <3>1, Zenon DEF Annotated
    <3>2. CASE ref[c] = o
      <4>1. c \in Annotations(server[o])
        BY <2>t, <2>8, <3>2, Zenon DEF Annotated
      <4>2. CASE CreateObject(o)
        BY <1>s, <4>1, <4>2, BlankType, Zenon DEF CreateObject
      <4>3. CASE DeleteObject(o)
        <5>1. server[o].exists /\ server[o].label
          BY <2>8, <4>1, <4>3, Zenon DEF DeleteObject
        <5>2. o \in Watched(c)
          BY <4>1, <5>1, Zenon DEF Watched, View
        <5>3. Write(o, Absent)
          BY <4>3, Zenon DEF DeleteObject
        <5>4. server'[o] = Absent
          BY <2>t, <5>3, Zenon DEF Write
        <5>5. View(server'[o]) = Unseen
          BY <5>4, BlankType, Zenon DEF View
        <5>6. Unseen.owners = {}
          BY Zenon DEF Unseen
        <5>7. o \notin Watched(c)'
          BY <5>5, <5>6, Zenon DEF Watched
        <5> QED
          BY <2>4, <2>8, <5>2, <5>7, Zenon
      <4> QED
        BY <1>3, <4>2, <4>3, Zenon
    <3> QED
      BY <3>1, <3>2, Zenon
  <2>9. ASSUME NEW c \in Owners PROVE OwnerUpToDate(c)'
    BY <2>1, <2>4, <2>8, UpToDateKept, Zenon
  <2> QED
    BY <2>7, <2>9, Zenon
<1>4. ASSUME NEW a \in Owners, HandlerStep(a) PROVE Goal
  <2>1. OwnerUpToDate(a)'
    BY <1>4, OwnFollows, Zenon
  <2>2. UNCHANGED <<cache, ref>>
    BY <1>4, HandlerEffect, Zenon
  <2>3. CASE UNCHANGED <<server, stream>>
    <3>1. ASSUME NEW c \in Owners \ {a} PROVE OwnerUpToDate(c)'
      <4>1. /\ pc'[c] = pc[c] /\ adoptee'[c] = adoptee[c] /\ extras'[c] = extras[c]
            /\ c \in dirty' <=> c \in dirty
            /\ c \in abandoned' <=> c \in abandoned
        BY <1>4, OthersLocals, Zenon
      <4> QED
        BY <1>q, <2>2, <2>3, <4>1, UpToDateKept, Zenon
    <3> QED
      BY <1>0, <2>1, <2>2, <2>3, <3>1, Zenon
  <2>4. ASSUME NEW o \in Objects, NEW obj \in Applies(a, server[o]), Write(o, obj) PROVE Goal
    <3>1. /\ ObjectsShown'
          /\ \A c \in Owners : ~Awaits(c)' => ~Awaits(c) /\ Watched(c)' = Watched(c)
          /\ \A c \in Owners \ {a} : Annotated(c) => Annotated(c)'
      BY <2>2, <2>4, WriteFollows, Zenon
    <3>2. ASSUME NEW c \in Owners \ {a} PROVE OwnerUpToDate(c)'
      <4>1. /\ pc'[c] = pc[c] /\ adoptee'[c] = adoptee[c] /\ extras'[c] = extras[c]
            /\ c \in dirty' <=> c \in dirty
            /\ c \in abandoned' <=> c \in abandoned
        BY <1>4, OthersLocals, Zenon
      <4> QED
        BY <2>2, <3>1, <4>1, UpToDateKept, Zenon
    <3> QED
      BY <2>1, <3>1, <3>2, Zenon
  <2> QED
    BY <1>4, <2>3, <2>4, HandlerEffect, Zenon
<1>5. CASE Restart
  <2>1. stream' = <<>> /\ cache' = [o \in Objects |-> View(server[o])] /\ dirty' = Owners /\ server' = server
    BY <1>5, Zenon DEF Restart
  <2>2. ASSUME NEW o \in Objects PROVE ViewShown(o)' /\ (server'[o].exists \/ server'[o] = Absent)
    <3>1. cache'[o] = View(server'[o]) /\ (server'[o].exists \/ server'[o] = Absent)
      BY <1>s, <2>1, Zenon
    <3>2. \A i \in 1..Len(stream') : stream'[i].obj # o
      BY <2>1
    <3> QED
      BY <3>1, <3>2, Zenon DEF ViewShown
  <2>3. \A c \in Owners : OwnerUpToDate(c)'
    BY <2>1, Zenon DEF OwnerUpToDate
  <2> QED
    BY <2>2, <2>3, Zenon DEF ObjectsShown
<1>6. CASE UNCHANGED vars
  <2>1. UNCHANGED <<server, stream, cache, ref, dirty, pc, adoptee, extras, abandoned>>
    BY <1>6, Zenon DEF vars, handlerVars
  <2>2. ASSUME NEW c \in Owners PROVE OwnerUpToDate(c)'
    BY <1>q, <2>1, UpToDateKept, Zenon
  <2> QED
    BY <1>0, <2>1, <2>2, Zenon
<1> QED
  BY <1>1, <1>2, <1>3, <1>4, <1>5, <1>6, Zenon DEF Next

(***************************************************************************)
(* AdoptionHandler lets an owner that it has not given up on rest only     *)
(* where its annotation is on the object it references and on no other the *)
(* watch covers (RestFollowsReference): whatever the cache lags, other     *)
(* owners' handlers write the same objects, objects come and go, calls     *)
(* fail and the controller restarts.                                       *)
(***************************************************************************)
THEOREM RestFollowsReferenceHolds == Spec => []RestFollowsReference
<1> DEFINE Following == ObjectsShown /\ \A c \in Owners : OwnerUpToDate(c)
<1>1. Init => Following
  <2> SUFFICES ASSUME Init PROVE Following
    BY Zenon
  <2>1. ASSUME NEW o \in Objects PROVE ViewShown(o) /\ (server[o].exists \/ server[o] = Absent)
    <3>1. server[o] = Blank /\ cache[o] = Unseen /\ Blank.exists /\ ~Blank.label /\ Len(stream) = 0
      BY DEF Init, Blank
    <3>2. cache[o] = View(server[o])
      BY <3>1, Zenon DEF View
    <3>3. \A i \in 1..Len(stream) : stream[i].obj # o
      BY <3>1
    <3> QED
      BY <3>1, <3>2, <3>3, Zenon DEF ViewShown
  <2>2. dirty = Owners
    BY Zenon DEF Init
  <2> QED
    BY <2>1, <2>2, Zenon DEF ObjectsShown, OwnerUpToDate
<1>2. AdoptionInv /\ Following /\ [Next]_vars => Following'
  BY OwnersFollow, Zenon
<1>3. AdoptionInv /\ Following => RestFollowsReference
  <2> SUFFICES ASSUME Following, NEW a \in Owners \ abandoned, a \notin dirty, pc[a] = "idle", ~Awaits(a)
               PROVE  /\ Annotated(a)
                      /\ \A o \in Objects \ {ref[a]} : server[o].label => a \notin Annotations(server[o])
    BY Zenon DEF RestFollowsReference, Annotated
  <2>1. Annotated(a) /\ Watched(a) \subseteq {ref[a]}
    BY Zenon DEF OwnerUpToDate
  <2>2. ASSUME NEW o \in Objects \ {ref[a]}, server[o].label PROVE a \notin Annotations(server[o])
    <3>0. server[o].exists \/ server[o] = Absent
      BY Zenon DEF ObjectsShown
    <3>1. a \notin View(server[o]).owners /\ server[o].exists
      BY <2>1, <2>2, <3>0, BlankType, Zenon DEF Watched
    <3>2. View(server[o]).owners = Annotations(server[o])
      BY <2>2, <3>1, Zenon DEF View
    <3> QED
      BY <3>1, <3>2, Zenon
  <2> QED
    BY <2>1, <2>2, Zenon
<1> QED
  BY <1>1, <1>2, <1>3, AdoptionInvariance, PTL DEF Spec

------------------------------------------------------------------------------
(***************************************************************************)
(* Proofs about Registry, for any providers, consumers, keys, resources    *)
(* and number of factories.                                                *)
(*                                                                         *)
(* CachesAreShared compares handles that were handed out at different      *)
(* times.  The invariant relates each of them to the registry as it is     *)
(* now: a provider's registration is the current one of its key            *)
(* (Registrations), and a handle of a key's current registration has the   *)
(* factory that the registry has (Handles).                                *)
(***************************************************************************)
\* What a provider is that has a registration.
Holding == [at : {"registered", "started"}, reg : [key : Keys, since : Nat],
            factory : Factories, declared : SUBSET Resources]

RegistryTypes ==
    /\ factories \in [Keys -> Factories \cup {NoFactory}]
    /\ created \in Nat
    /\ removals \in [Keys -> Nat]
    /\ provider \in [Providers -> {Idle} \cup Holding]
    /\ handle \in [Consumers ->
         {None} \cup [found : {TRUE}, reg : [key : Keys, since : Nat],
                      factory : Factories, resource : Resources]]

Registrations ==
    /\ \A p \in Registered :
         /\ provider[p].reg = Current(provider[p].reg.key)
         /\ factories[provider[p].reg.key] = provider[p].factory
    /\ \A p, q \in Registered : provider[p].reg.key = provider[q].reg.key => p = q

Handles ==
    /\ \A c \in Found : LET k == handle[c].reg.key IN
         /\ handle[c].reg.since <= removals[k]
         /\ handle[c].reg = Current(k) => handle[c].factory = factories[k]
    /\ \A c, d \in Found : handle[c].reg = handle[d].reg => handle[c].factory = handle[d].factory

RegistryInv == RegistryTypes /\ Registrations /\ Handles

\* What the variables hold.
LEMMA Records ==
    ASSUME RegistryTypes
    PROVE  /\ \A p \in Registered :
                /\ p \in Providers /\ provider[p].reg.key \in Keys
                /\ provider[p].reg.since \in Nat /\ provider[p].factory \in Factories
                /\ provider[p].reg = [key |-> provider[p].reg.key, since |-> provider[p].reg.since]
           /\ \A c \in Found :
                /\ c \in Consumers /\ handle[c].reg.key \in Keys
                /\ handle[c].reg.since \in Nat /\ handle[c].factory \in Factories
                /\ handle[c].reg = [key |-> handle[c].reg.key, since |-> handle[c].reg.since]
           /\ \A p \in Providers : provider[p].at \in {"registered", "started"} => p \in Registered
           /\ \A c \in Consumers : c \in Found <=> handle[c] # None
<1>1. ASSUME NEW p \in Registered
      PROVE  /\ p \in Providers /\ provider[p].reg.key \in Keys
             /\ provider[p].reg.since \in Nat /\ provider[p].factory \in Factories
             /\ provider[p].reg = [key |-> provider[p].reg.key, since |-> provider[p].reg.since]
  BY Zenon DEF Registered, RegistryTypes, Holding
<1>2. ASSUME NEW c \in Found
      PROVE  /\ c \in Consumers /\ handle[c].reg.key \in Keys
             /\ handle[c].reg.since \in Nat /\ handle[c].factory \in Factories
             /\ handle[c].reg = [key |-> handle[c].reg.key, since |-> handle[c].reg.since]
  <2>1. c \in Consumers /\ handle[c] # None
    BY DEF Found, None
  <2> QED
    BY <2>1, Zenon DEF RegistryTypes
<1>3. ASSUME NEW p \in Providers, provider[p].at \in {"registered", "started"} PROVE p \in Registered
  BY <1>3 DEF Registered, Idle
<1>4. ASSUME NEW c \in Consumers PROVE c \in Found <=> handle[c] # None
  <2>1. handle[c] # None => handle[c].found = TRUE
    BY Zenon DEF RegistryTypes
  <2> QED
    BY <2>1 DEF Found, None
<1> QED
  BY <1>1, <1>2, <1>3, <1>4, Zenon

\* Nothing is registered and nothing handed out.
LEMMA RegistryBegins == RegistryInit => RegistryInv
<1> SUFFICES ASSUME RegistryInit PROVE RegistryInv
  OBVIOUS
<1>1. RegistryTypes
  BY Zenon DEF RegistryInit, RegistryTypes
<1>2. Registered = {} /\ Found = {}
  BY Zenon DEF RegistryInit, Registered, Found, None
<1> QED
  BY <1>1, <1>2, Zenon DEF RegistryInv, Registrations, Handles

\* No handle and no registration is a key's current one while the key is free.
LEMMA FreeKey ==
    ASSUME RegistryInv, NEW k \in Keys, factories[k] = NoFactory
    PROVE  /\ \A p \in Registered : provider[p].reg.key # k
           /\ \A c \in Found : handle[c].reg # Current(k)
<1>1. ASSUME NEW p \in Registered PROVE provider[p].reg.key # k
  <2>1. provider[p].factory \in Factories
    BY Records, Zenon DEF RegistryInv
  <2>2. factories[provider[p].reg.key] = provider[p].factory
    BY Zenon DEF RegistryInv, Registrations
  <2> QED
    BY RegistryAssumption, <2>1, <2>2, Zenon
<1>2. ASSUME NEW c \in Found, handle[c].reg = Current(k) PROVE FALSE
  <2>1. handle[c].reg.key = k
    BY <1>2 DEF Current
  <2> QED
    BY RegistryAssumption, <1>2, <2>1, Records, Zenon DEF RegistryInv, Handles
<1> QED
  BY <1>1, <1>2, Zenon

\* A provider registers under a free key.
LEMMA NewPreserves ==
    ASSUME RegistryInv, NEW p \in Providers, NEW k \in Keys, New(p, k)
    PROVE  RegistryInv'
<1> DEFINE f == created + 1
<1>1. /\ RegistryTypes /\ Registrations /\ Handles
      /\ provider[p] = Idle /\ factories[k] = NoFactory /\ f \in Factories /\ created' = f
      /\ factories' = [factories EXCEPT ![k] = f]
      /\ provider' = [provider EXCEPT ![p] =
           [at |-> "registered", reg |-> Current(k), factory |-> f, declared |-> {}]]
      /\ f \in Nat /\ UNCHANGED <<removals, handle>>
  <2>1. created \in Nat /\ created < MaxFactories /\ MaxFactories \in Nat
    BY RegistryAssumption, Zenon DEF RegistryInv, RegistryTypes, New
  <2>2. f \in Nat /\ f \in Factories
    BY <2>1 DEF Factories
  <2> QED
    BY <2>2, Zenon DEF RegistryInv, New, Add
<1> HIDE DEF f
<1>2. Current(k) \in [key : Keys, since : Nat] /\ Current(k).key = k
  BY <1>1, Zenon DEF Current, RegistryTypes
<1>3. RegistryTypes'
  <2>1. [at |-> "registered", reg |-> Current(k), factory |-> f, declared |-> {}] \in Holding
    BY <1>1, <1>2, Zenon DEF Holding
  <2> QED
    BY <1>1, <2>1, Zenon DEF RegistryTypes
<1>4. /\ provider'[p].reg = Current(k) /\ provider'[p].factory = f
      /\ \A q \in Providers \ {p} : provider'[q] = provider[q]
      /\ factories'[k] = f /\ \A l \in Keys \ {k} : factories'[l] = factories[l]
  BY <1>1, Zenon DEF RegistryTypes
<1>5. Registered' \subseteq Registered \cup {p}
  BY <1>4, Zenon DEF Registered
<1>6. Found' = Found
  BY <1>1, Zenon DEF Found
<1>7. \A q \in Registered : q # p /\ provider[q].reg.key # k
  BY <1>1, FreeKey, Zenon DEF Registered
<1>8. \A q \in Registered' \ {p} : q \in Registered /\ provider'[q] = provider[q]
                                 /\ provider[q].reg.key \in Keys \ {k}
  BY <1>1, <1>4, <1>5, <1>7, Records, ZenonT(30)
<1>9. Registrations'
  <2>0. provider'[p].reg.key = k
    BY <1>2, <1>4, Zenon
  <2>1. ASSUME NEW q \in Registered'
        PROVE  /\ provider'[q].reg = Current(provider'[q].reg.key)
               /\ factories'[provider'[q].reg.key] = provider'[q].factory
    <3>1. CASE q = p
      BY <1>4, <2>0, <3>1, Zenon
    <3>2. CASE q # p
      <4>1. /\ provider[q].reg = Current(provider[q].reg.key)
            /\ factories[provider[q].reg.key] = provider[q].factory
        BY <1>1, <1>8, <3>2, Zenon DEF Registrations
      <4>2. provider'[q] = provider[q] /\ provider[q].reg.key \in Keys \ {k}
        BY <1>8, <3>2, Zenon
      <4>3. factories'[provider[q].reg.key] = factories[provider[q].reg.key]
        BY <1>4, <4>2, Zenon
      <4> QED
        BY <4>1, <4>2, <4>3, Zenon
    <3> QED
      BY <3>1, <3>2, Zenon
  <2>2. ASSUME NEW q \in Registered', NEW o \in Registered',
               provider'[q].reg.key = provider'[o].reg.key
        PROVE  q = o
    <3>1. CASE q # p /\ o # p
      <4>1. q \in Registered /\ o \in Registered /\ provider[q].reg.key = provider[o].reg.key
        BY <1>8, <2>2, <3>1, Zenon
      <4> QED
        BY <1>1, <4>1, Zenon DEF Registrations
    <3>2. CASE q # p /\ o = p
      BY <1>8, <2>0, <2>2, <3>2, Zenon
    <3>3. CASE q = p /\ o # p
      BY <1>8, <2>0, <2>2, <3>3, Zenon
    <3> QED
      BY <3>1, <3>2, <3>3, Zenon
  <2> QED
    BY <1>1, <2>1, <2>2, ZenonT(60) DEF Registrations, Current
<1>10. Handles'
  <2>1. \A c \in Found : handle[c].reg # Current(k)
    BY <1>1, FreeKey, Zenon
  <2>2. ASSUME NEW c \in Found
        PROVE  /\ handle[c].reg.since <= removals[handle[c].reg.key]
               /\ handle[c].reg = Current(handle[c].reg.key) =>
                    handle[c].factory = factories'[handle[c].reg.key]
    <3>1. /\ handle[c].reg.since <= removals[handle[c].reg.key]
          /\ handle[c].reg = Current(handle[c].reg.key) =>
               handle[c].factory = factories[handle[c].reg.key]
      BY <1>1, Zenon DEF Handles
    <3>2. handle[c].reg.key \in Keys
      BY <1>1, Records, Zenon
    <3> QED
      BY <1>4, <2>1, <3>1, <3>2, Zenon
  <2> QED
    BY <1>1, <1>6, <2>2, Zenon DEF Handles, Current
<1> QED
  BY <1>3, <1>9, <1>10, Zenon DEF RegistryInv

\* A provider that removes its key ends the key's registration.
LEMMA RemovePreserves == ASSUME RegistryInv, NEW p \in Providers, Remove(p) PROVE RegistryInv'
<1> DEFINE k == provider[p].reg.key
<1>1. /\ RegistryTypes /\ Registrations /\ Handles /\ p \in Registered /\ k \in Keys
      /\ factories' = [factories EXCEPT ![k] = NoFactory]
      /\ removals' = [removals EXCEPT ![k] = removals[k] + 1]
      /\ provider' = [provider EXCEPT ![p] = Idle]
      /\ UNCHANGED <<created, handle>>
  BY Records, Zenon DEF RegistryInv, Remove
<1> HIDE DEF k
<1>2. RegistryTypes'
  <2>1. removals' \in [Keys -> Nat]
    BY <1>1 DEF RegistryTypes
  <2>2. provider' \in [Providers -> {Idle} \cup Holding]
    BY <1>1, Zenon DEF RegistryTypes
  <2> QED
    BY <1>1, <2>1, <2>2, Zenon DEF RegistryTypes
<1>3. /\ provider'[p] = Idle /\ \A q \in Providers \ {p} : provider'[q] = provider[q]
      /\ removals'[k] = removals[k] + 1 /\ removals[k] \in Nat
      /\ \A l \in Keys \ {k} : factories'[l] = factories[l] /\ removals'[l] = removals[l]
  BY <1>1, Zenon DEF RegistryTypes
<1>4. \A q \in Registered' : /\ q \in Registered /\ q # p /\ provider'[q] = provider[q]
                            /\ provider[q].reg.key \in Keys \ {k}
  <2>1. ASSUME NEW q \in Registered' PROVE q \in Registered /\ q # p /\ provider'[q] = provider[q]
    BY <1>3, Zenon DEF Registered
  <2> QED
    BY <1>1, <2>1, Records, Zenon DEF Registrations, k
<1>5. Registrations'
  <2>1. ASSUME NEW q \in Registered'
        PROVE  /\ provider'[q].reg = [key |-> provider'[q].reg.key,
                                      since |-> removals'[provider'[q].reg.key]]
               /\ factories'[provider'[q].reg.key] = provider'[q].factory
    <3>1. /\ provider[q].reg = [key |-> provider[q].reg.key,
                                since |-> removals[provider[q].reg.key]]
          /\ factories[provider[q].reg.key] = provider[q].factory
      BY <1>1, <1>4, Zenon DEF Registrations, Current
    <3>2. /\ factories'[provider[q].reg.key] = factories[provider[q].reg.key]
          /\ removals'[provider[q].reg.key] = removals[provider[q].reg.key]
      BY <1>3, <1>4, Zenon
    <3> QED
      BY <1>4, <3>1, <3>2, Zenon
  <2>2. ASSUME NEW q \in Registered', NEW o \in Registered',
               provider'[q].reg.key = provider'[o].reg.key
        PROVE  q = o
    <3>1. q \in Registered /\ o \in Registered /\ provider[q].reg.key = provider[o].reg.key
      BY <1>4, <2>2, Zenon
    <3> QED
      BY <1>1, <3>1, Zenon DEF Registrations
  <2> QED
    BY <2>1, <2>2, ZenonT(30) DEF Registrations, Current
<1>6. Found' = Found
  BY <1>1, Zenon DEF Found
<1>7. ASSUME NEW c \in Found
      PROVE  /\ handle[c].reg.since <= removals'[handle[c].reg.key]
             /\ handle[c].reg = [key |-> handle[c].reg.key, since |-> removals'[handle[c].reg.key]] =>
                  handle[c].factory = factories'[handle[c].reg.key]
  <2>1. handle[c].reg.key \in Keys /\ handle[c].reg.since \in Nat
    BY <1>1, Records, Zenon
  <2>2. handle[c].reg.since <= removals[handle[c].reg.key]
    BY <1>1, Zenon DEF Handles
  <2>3. CASE handle[c].reg.key = k
    <3>1. handle[c].reg.since # removals'[k] /\ handle[c].reg.since <= removals'[k]
      <4> DEFINE s == handle[c].reg.since
                 r == removals[k]
      <4>1. s <= r /\ s \in Nat /\ r \in Nat /\ removals'[k] = r + 1
        BY <1>3, <2>1, <2>2, <2>3, Zenon
      <4> HIDE DEF s, r
      <4>2. s # r + 1 /\ s <= r + 1
        BY <4>1
      <4> QED
        BY <4>1, <4>2, Zenon DEF s
    <3>2. [key |-> k, since |-> removals'[k]].since = removals'[k]
      BY Zenon
    <3>3. handle[c].reg # [key |-> k, since |-> removals'[k]]
      BY <3>1, <3>2, Zenon
    <3> QED
      BY <2>3, <3>1, <3>3, Zenon
  <2>4. CASE handle[c].reg.key # k
    <3>1. /\ removals'[handle[c].reg.key] = removals[handle[c].reg.key]
          /\ factories'[handle[c].reg.key] = factories[handle[c].reg.key]
      BY <1>3, <2>1, <2>4, Zenon
    <3>2. handle[c].reg = [key |-> handle[c].reg.key, since |-> removals[handle[c].reg.key]] =>
             handle[c].factory = factories[handle[c].reg.key]
      BY <1>1, Zenon DEF Handles, Current
    <3> QED
      BY <2>2, <3>1, <3>2, Zenon
  <2> QED
    BY <2>3, <2>4, Zenon
<1>8. Handles'
  <2>1. \A c, d \in Found : handle[c].reg = handle[d].reg => handle[c].factory = handle[d].factory
    BY <1>1, Zenon DEF Handles
  <2> QED
    BY <1>1, <1>6, <1>7, <2>1, ZenonT(60) DEF Handles, Current
<1> QED
  BY <1>2, <1>5, <1>8, Zenon DEF RegistryInv

\* A consumer is handed out the factory of the key's current registration.
LEMMA LookupPreserves ==
    ASSUME RegistryInv, NEW c \in Consumers, NEW k \in Keys, NEW r \in Resources, Lookup(c, k, r)
    PROVE  RegistryInv'
<1>1. /\ RegistryTypes /\ Registrations /\ Handles
      /\ factories[k] \in Factories
      /\ handle' = [handle EXCEPT ![c] =
           [found |-> TRUE, reg |-> Current(k), factory |-> factories[k], resource |-> r]]
      /\ UNCHANGED <<factories, created, removals, provider>>
  BY Zenon DEF RegistryInv, Lookup, RegistryTypes
<1>2. Current(k) \in [key : Keys, since : Nat] /\ Current(k).key = k /\ Current(k).since = removals[k]
  BY <1>1, Zenon DEF Current, RegistryTypes
<1>3. RegistryTypes'
  BY <1>1, <1>2, Zenon DEF RegistryTypes
<1>4. Registrations'
  BY <1>1, Zenon DEF Registrations, Registered, Current
<1>5. /\ handle'[c].reg = Current(k) /\ handle'[c].factory = factories[k]
      /\ \A d \in Consumers \ {c} : handle'[d] = handle[d]
      /\ \A l : Current(l)' = Current(l)
  BY <1>1, Zenon DEF RegistryTypes, Current
<1>6. \A d \in Found' : d = c \/ (d \in Found /\ handle'[d] = handle[d])
  BY <1>5, ZenonT(30) DEF Found
<1>7. \A d \in Found : handle[d].reg = Current(k) => handle[d].factory = factories[k]
  <2>1. ASSUME NEW d \in Found, handle[d].reg = Current(k)
        PROVE  handle[d].factory = factories[k]
    <3>1. handle[d].reg.key = k
      BY <1>2, <2>1, Zenon
    <3> QED
      BY <1>1, <2>1, <3>1, Zenon DEF Handles
  <2> QED
    BY <2>1, Zenon
<1>8. removals[k] \in Nat
  BY <1>1, Zenon DEF RegistryTypes
<1>9. ASSUME NEW d \in Found'
      PROVE  /\ handle'[d].reg.since <= removals[handle'[d].reg.key]
             /\ handle'[d].reg = Current(handle'[d].reg.key) =>
                  handle'[d].factory = factories[handle'[d].reg.key]
  <2>1. CASE d = c
    <3>1. handle'[d].reg.since = removals[k] /\ handle'[d].reg.key = k /\ removals[k] <= removals[k]
      BY <1>2, <1>5, <1>8, <2>1
    <3> QED
      BY <1>5, <2>1, <3>1, Zenon
  <2>2. CASE d \in Found /\ handle'[d] = handle[d]
    BY <1>1, <2>2, ZenonT(30) DEF Handles
  <2> QED
    BY <1>6, <2>1, <2>2, ZenonT(30)
<1>10. ASSUME NEW d \in Found', NEW e \in Found', handle'[d].reg = handle'[e].reg
       PROVE  handle'[d].factory = handle'[e].factory
  <2>1. \A x, y \in Found : handle[x].reg = handle[y].reg => handle[x].factory = handle[y].factory
    BY <1>1, Zenon DEF Handles
  <2>2. CASE d = c /\ e # c
    BY <1>5, <1>6, <1>7, <1>10, <2>2, Zenon
  <2>3. CASE d # c /\ e = c
    BY <1>5, <1>6, <1>7, <1>10, <2>3, Zenon
  <2>4. CASE d # c /\ e # c
    BY <1>6, <1>10, <2>1, <2>4, ZenonT(60)
  <2> QED
    BY <2>2, <2>3, <2>4, Zenon
<1>11. Handles'
  BY <1>1, <1>5, <1>9, <1>10, Zenon DEF Handles
<1> QED
  BY <1>3, <1>4, <1>11, Zenon DEF RegistryInv

\* A provider that goes on with its factory keeps its registration.
LEMMA ProviderPreserves ==
    ASSUME RegistryInv, NEW p \in Providers, NEW r,
           StartFactory(p) \/ (r \in Resources /\ Declare(p, r))
    PROVE  RegistryInv'
<1>1. /\ RegistryTypes /\ Registrations /\ Handles /\ p \in Registered
      /\ UNCHANGED <<factories, created, removals, handle>>
  BY Records, Zenon DEF RegistryInv, StartFactory, Declare
<1>2. provider[p] \in Holding
  BY <1>1, Zenon DEF RegistryTypes, Registered
<1>3. PICK new \in Holding :
        /\ provider' = [provider EXCEPT ![p] = new]
        /\ new.reg = provider[p].reg /\ new.factory = provider[p].factory
  <2>1. CASE StartFactory(p)
    <3> DEFINE new == [provider[p] EXCEPT !.at = "started"]
    <3>1. provider' = [provider EXCEPT ![p] = new]
      BY <1>1, <2>1, Zenon DEF StartFactory, RegistryTypes
    <3>2. new \in Holding /\ new.reg = provider[p].reg /\ new.factory = provider[p].factory
      BY <1>2, Zenon DEF Holding
    <3> HIDE DEF new
    <3> QED
      BY <3>1, <3>2, Zenon
  <2>2. CASE r \in Resources /\ Declare(p, r)
    <3> DEFINE new == [provider[p] EXCEPT !.declared = provider[p].declared \cup {r}]
    <3>1. provider' = [provider EXCEPT ![p] = new]
      BY <1>1, <2>2, Zenon DEF Declare, RegistryTypes
    <3>2. new \in Holding /\ new.reg = provider[p].reg /\ new.factory = provider[p].factory
      BY <1>2, <2>2, Zenon DEF Holding
    <3> HIDE DEF new
    <3> QED
      BY <3>1, <3>2, Zenon
  <2> QED
    BY <2>1, <2>2, Zenon
<1>4. RegistryTypes'
  BY <1>1, <1>3, Zenon DEF RegistryTypes
<1>5. \A q \in Registered' : /\ q \in Registered
                             /\ provider'[q].reg = provider[q].reg
                             /\ provider'[q].factory = provider[q].factory
  BY <1>1, <1>3, Zenon DEF Registered, RegistryTypes
<1>6. Registrations'
  <2>1. ASSUME NEW q \in Registered'
        PROVE  /\ provider'[q].reg = Current(provider'[q].reg.key)
               /\ factories[provider'[q].reg.key] = provider'[q].factory
    <3>1. /\ provider[q].reg = Current(provider[q].reg.key)
          /\ factories[provider[q].reg.key] = provider[q].factory
      BY <1>1, <1>5, Zenon DEF Registrations
    <3> QED
      BY <1>5, <3>1, Zenon
  <2>2. ASSUME NEW q \in Registered', NEW o \in Registered',
               provider'[q].reg.key = provider'[o].reg.key
        PROVE  q = o
    <3>1. q \in Registered /\ o \in Registered /\ provider[q].reg.key = provider[o].reg.key
      BY <1>5, <2>2, Zenon
    <3> QED
      BY <1>1, <3>1, Zenon DEF Registrations
  <2> QED
    BY <1>1, <2>1, <2>2, Zenon DEF Registrations, Current
<1>7. Handles'
  BY <1>1, ZenonT(60) DEF Handles, Found, Current
<1> QED
  BY <1>4, <1>6, <1>7, Zenon DEF RegistryInv

\* Every step preserves the invariant.
LEMMA RegistryStep ==
    RegistryInv /\ [RegistryNext]_registryVars => RegistryInv'
<1> SUFFICES ASSUME RegistryInv, [RegistryNext]_registryVars PROVE RegistryInv'
  OBVIOUS
<1>1. CASE UNCHANGED registryVars
  <2>1. UNCHANGED <<factories, created, removals, provider, handle>>
    BY <1>1, Zenon DEF registryVars
  <2>2. RegistryTypes'
    BY <2>1, Zenon DEF RegistryInv, RegistryTypes
  <2>3. Registrations' /\ Handles'
    BY <2>1, ZenonT(60) DEF RegistryInv, Registrations, Handles, Registered, Found, Current
  <2> QED
    BY <2>2, <2>3, Zenon DEF RegistryInv
<1>2. ASSUME NEW p \in Providers, NEW k \in Keys, NewFails(p, k) PROVE RegistryInv'
  <2>1. /\ created' = created + 1
        /\ UNCHANGED <<factories, removals, provider, handle>>
    BY <1>2, Zenon DEF NewFails
  <2>2. RegistryTypes'
    <3>1. created' \in Nat
      BY <2>1 DEF RegistryInv, RegistryTypes
    <3> QED
      BY <2>1, <3>1, Zenon DEF RegistryInv, RegistryTypes
  <2>3. Registrations' /\ Handles'
    BY <2>1, ZenonT(60) DEF RegistryInv, Registrations, Handles, Registered, Found, Current
  <2> QED
    BY <2>2, <2>3, Zenon DEF RegistryInv
<1> QED
  BY <1>1, <1>2, NewPreserves, RemovePreserves, LookupPreserves, ProviderPreserves, Zenon DEF RegistryNext

\* The invariant implies the property.
LEMMA InvShares == RegistryInv => CachesAreShared
<1> SUFFICES ASSUME Registrations, Handles PROVE CachesAreShared
  BY Zenon DEF RegistryInv
<1>1. ASSUME NEW c \in Found, NEW p \in Registered, handle[c].reg = provider[p].reg
      PROVE  handle[c].factory = provider[p].factory
  <2> DEFINE k == provider[p].reg.key
  <2>1. handle[c].reg.key = k /\ handle[c].reg = Current(k) /\ factories[k] = provider[p].factory
    BY <1>1, Zenon DEF Registrations
  <2> HIDE DEF k
  <2> QED
    BY <2>1, Zenon DEF Handles
<1> QED
  BY <1>1, Zenon DEF Registrations, Handles, CachesAreShared

(***************************************************************************)
(* Whoever looks a resource up between a registration of a key and its     *)
(* removal gets the factory that the provider registered, however many     *)
(* providers compete for the key and take turns with it.                   *)
(***************************************************************************)
THEOREM SharingHolds == RegistrySpec => []CachesAreShared
<1> QED
  BY InvShares, RegistryBegins, RegistryStep, PTL DEF RegistrySpec

(***************************************************************************)
(* The part of DeclaredIsServed that needs no fairness: a consumer that    *)
(* was handed out a resource which the provider declared has a running     *)
(* informer from the moment the provider has started its factory, whether  *)
(* it looked the resource up before or after the start.  The invariant     *)
(* says it of the provider: what it declared has an informer in its        *)
(* factory, and a running one once it has started.                         *)
(***************************************************************************)
StartedIsServed ==
    \A c \in Found, p \in Registered :
        (/\ handle[c].reg = provider[p].reg
         /\ handle[c].resource \in provider[p].declared
         /\ provider[p].at = "started")
        => handle[c].resource \in running[handle[c].factory]

Declarations ==
    /\ informers \in [Factories -> SUBSET Resources]
    /\ running \in [Factories -> SUBSET Resources]
    /\ \A f \in Factories : running[f] \subseteq informers[f]
    /\ \A p \in Registered :
         /\ provider[p].declared \subseteq informers[provider[p].factory]
         /\ provider[p].at = "started" => provider[p].declared \subseteq running[provider[p].factory]

\* Informers are neither taken away nor stopped, and a provider is left alone or
\* its declarations are in order.
Keeping ==
    /\ informers' \in [Factories -> SUBSET Resources]
    /\ running' \in [Factories -> SUBSET Resources]
    /\ \A f \in Factories : /\ informers[f] \subseteq informers'[f]
                            /\ running[f] \subseteq running'[f]
                            /\ running'[f] \subseteq informers'[f]
    /\ \A p \in Registered' :
         \/ p \in Registered /\ provider'[p] = provider[p]
         \/ /\ provider'[p].declared \subseteq informers'[provider'[p].factory]
            /\ provider'[p].at = "started" =>
                 provider'[p].declared \subseteq running'[provider'[p].factory]

LEMMA DeclarationsStay ==
    ASSUME RegistryTypes, Declarations, Keeping
    PROVE  Declarations'
<1>1. ASSUME NEW p \in Registered'
      PROVE  /\ provider'[p].declared \subseteq informers'[provider'[p].factory]
             /\ provider'[p].at = "started" =>
                  provider'[p].declared \subseteq running'[provider'[p].factory]
  <2>1. CASE p \in Registered /\ provider'[p] = provider[p]
    <3>1. provider[p].factory \in Factories
      BY <2>1, Records, Zenon
    <3>2. /\ informers[provider[p].factory] \subseteq informers'[provider[p].factory]
          /\ running[provider[p].factory] \subseteq running'[provider[p].factory]
      BY <3>1, Zenon DEF Keeping
    <3>3. /\ provider[p].declared \subseteq informers[provider[p].factory]
          /\ provider[p].at = "started" => provider[p].declared \subseteq running[provider[p].factory]
      BY <2>1, Zenon DEF Declarations
    <3> QED
      BY <2>1, <3>2, <3>3, Zenon
  <2> QED
    BY <2>1, Zenon DEF Keeping
<1> QED
  BY <1>1, Zenon DEF Declarations, Keeping

\* A step that touches no informer, and registers or removes providers only.
LEMMA RegistrationKeeps ==
    ASSUME Declarations, UNCHANGED <<informers, running>>,
           \A q \in Registered' : \/ q \in Registered /\ provider'[q] = provider[q]
                                  \/ provider'[q].at = "registered" /\ provider'[q].declared = {}
    PROVE  Keeping
<1>1. ASSUME NEW p \in Registered', provider'[p].at = "registered", provider'[p].declared = {}
      PROVE  /\ provider'[p].declared \subseteq informers'[provider'[p].factory]
             /\ provider'[p].at # "started"
  BY <1>1
<1>2. \A f \in Factories : informers[f] \subseteq informers[f] /\ running[f] \subseteq running[f]
  BY Zenon
<1>3. \A p \in Registered' :
         \/ p \in Registered /\ provider'[p] = provider[p]
         \/ /\ provider'[p].declared \subseteq informers'[provider'[p].factory]
            /\ provider'[p].at = "started" =>
                 provider'[p].declared \subseteq running'[provider'[p].factory]
  BY <1>1, Zenon
<1> QED
  BY <1>2, <1>3, Zenon DEF Declarations, Keeping

\* A step that changes at most one provider.
LEMMA OthersStay ==
    ASSUME NEW p, \A q \in Providers \ {p} : provider'[q] = provider[q]
    PROVE  \A q \in Registered' : q = p \/ (q \in Registered /\ provider'[q] = provider[q])
<1> SUFFICES ASSUME NEW q \in Registered', q # p PROVE q \in Registered /\ provider'[q] = provider[q]
  BY Zenon
<1>1. q \in Providers /\ provider'[q] # Idle
  BY Zenon DEF Registered
<1>2. provider'[q] = provider[q]
  BY <1>1, Zenon
<1> QED
  BY <1>1, <1>2, Zenon DEF Registered

\* Every step keeps what was declared, and what runs.
LEMMA EveryStepKeeps ==
    ASSUME RegistryInv, Declarations, [RegistryNext]_registryVars
    PROVE  Keeping
<1>1. RegistryTypes
  BY Zenon DEF RegistryInv
<1>2. CASE UNCHANGED registryVars
  BY <1>2, RegistrationKeeps, Zenon DEF registryVars, Registered
<1>3. ASSUME NEW p \in Providers, NEW k \in Keys, NewFails(p, k) PROVE Keeping
  BY <1>3, RegistrationKeeps, Zenon DEF NewFails, Registered
<1>4. ASSUME NEW p \in Providers, NEW k \in Keys, New(p, k) PROVE Keeping
  <2>1. /\ UNCHANGED <<informers, running>> /\ provider'[p].at = "registered" /\ provider'[p].declared = {}
        /\ \A q \in Providers \ {p} : provider'[q] = provider[q]
    BY <1>1, <1>4, Zenon DEF New, RegistryTypes
  <2>2. \A q \in Registered' : q = p \/ (q \in Registered /\ provider'[q] = provider[q])
    BY <2>1, OthersStay, Zenon
  <2> QED
    BY <2>1, <2>2, RegistrationKeeps, Zenon
<1>5. ASSUME NEW p \in Providers, Remove(p) PROVE Keeping
  <2>1. /\ UNCHANGED <<informers, running>> /\ provider'[p] = Idle
        /\ \A q \in Providers \ {p} : provider'[q] = provider[q]
    BY <1>1, <1>5, Zenon DEF Remove, RegistryTypes
  <2>2. \A q \in Registered' : q \in Registered /\ provider'[q] = provider[q]
    BY <2>1, Zenon DEF Registered
  <2> QED
    BY <2>1, <2>2, RegistrationKeeps, Zenon
<1>6. ASSUME NEW p \in Providers, provider[p].at = "registered"
      PROVE  /\ p \in Registered /\ provider[p] \in Holding /\ provider[p].factory \in Factories
             /\ provider[p].declared \subseteq informers[provider[p].factory]
  BY <1>1, <1>6, Records, Zenon DEF Declarations, RegistryTypes, Registered
<1>7. ASSUME NEW p \in Providers, StartFactory(p) PROVE Keeping
  <2> DEFINE f == provider[p].factory
  <2>1. /\ p \in Registered /\ f \in Factories /\ provider[p].declared \subseteq informers[f]
        /\ provider[p] \in Holding
        /\ running' = [running EXCEPT ![f] = informers[f]]
        /\ provider' = [provider EXCEPT ![p].at = "started"]
        /\ informers' = informers
    BY <1>6, <1>7, Zenon DEF StartFactory
  <2>2. /\ provider'[p].factory = f /\ provider'[p].declared = provider[p].declared
        /\ \A q \in Providers \ {p} : provider'[q] = provider[q]
    BY <1>1, <2>1, Zenon DEF RegistryTypes, Holding
  <2> HIDE DEF f
  <2>3. /\ running' \in [Factories -> SUBSET Resources] /\ running'[f] = informers[f]
        /\ \A g \in Factories \ {f} : running'[g] = running[g]
    BY <2>1, Zenon DEF Declarations
  <2>4. \A q \in Registered' : q = p \/ (q \in Registered /\ provider'[q] = provider[q])
    BY <2>2, OthersStay, Zenon
  <2>5. ASSUME NEW g \in Factories
        PROVE  running[g] \subseteq running'[g] /\ running'[g] \subseteq informers[g]
    <3>1. CASE g = f
      BY <2>3, <3>1, Zenon DEF Declarations
    <3>2. CASE g # f
      BY <2>3, <3>2, Zenon DEF Declarations
    <3> QED
      BY <3>1, <3>2, Zenon
  <2>6. /\ provider'[p].declared \subseteq informers'[provider'[p].factory]
        /\ provider'[p].declared \subseteq running'[provider'[p].factory]
    BY <2>1, <2>2, <2>3, Zenon
  <2> QED
    BY <2>1, <2>3, <2>4, <2>5, <2>6, Zenon DEF Keeping, Declarations
<1>8. ASSUME NEW f \in Factories, NEW r \in Resources, running' = running,
             informers' = [informers EXCEPT ![f] = @ \cup {r}],
             \A p \in Registered' :
               \/ p \in Registered /\ provider'[p] = provider[p]
               \/ /\ provider'[p].declared \subseteq informers'[provider'[p].factory]
                  /\ provider'[p].at # "started"
      PROVE  Keeping
  <2>1. /\ informers' \in [Factories -> SUBSET Resources] /\ informers'[f] = informers[f] \cup {r}
        /\ \A g \in Factories \ {f} : informers'[g] = informers[g]
    BY <1>8, Zenon DEF Declarations
  <2>2. ASSUME NEW g \in Factories
        PROVE  informers[g] \subseteq informers'[g] /\ running[g] \subseteq informers'[g]
    <3>1. CASE g = f
      BY <2>1, <3>1, Zenon DEF Declarations
    <3>2. CASE g # f
      BY <2>1, <3>2, Zenon DEF Declarations
    <3> QED
      BY <3>1, <3>2, Zenon
  <2> QED
    BY <1>8, <2>1, <2>2, Zenon DEF Keeping, Declarations
<1>9. ASSUME NEW p \in Providers, NEW r \in Resources, Declare(p, r) PROVE Keeping
  <2> DEFINE f == provider[p].factory
  <2>1. /\ p \in Registered /\ f \in Factories /\ provider[p].declared \subseteq informers[f]
        /\ provider[p] \in Holding /\ provider[p].at = "registered"
        /\ informers' = [informers EXCEPT ![f] = @ \cup {r}]
        /\ provider' = [provider EXCEPT ![p].declared = @ \cup {r}]
        /\ running' = running
    BY <1>6, <1>9, Zenon DEF Declare
  <2>2. /\ provider'[p].factory = f /\ provider'[p].declared = provider[p].declared \cup {r}
        /\ provider'[p].at = "registered"
        /\ \A q \in Providers \ {p} : provider'[q] = provider[q]
    BY <1>1, <2>1, Zenon DEF RegistryTypes, Holding
  <2> HIDE DEF f
  <2>3. informers'[f] = informers[f] \cup {r}
    BY <2>1, Zenon DEF Declarations
  <2>4. \A q \in Registered' : q = p \/ (q \in Registered /\ provider'[q] = provider[q])
    BY <2>2, OthersStay, Zenon
  <2>5. provider'[p].declared \subseteq informers'[provider'[p].factory] /\ provider'[p].at # "started"
    BY <2>1, <2>2, <2>3
  <2> QED
    BY <1>8, <2>1, <2>4, <2>5, Zenon
<1>10. ASSUME NEW c \in Consumers, NEW k \in Keys, NEW r \in Resources, Lookup(c, k, r) PROVE Keeping
  <2>1. /\ factories[k] \in Factories /\ running' = running /\ provider' = provider
        /\ informers' = [informers EXCEPT ![factories[k]] = @ \cup {r}]
    BY <1>1, <1>10, Zenon DEF Lookup, RegistryTypes
  <2> QED
    BY <1>8, <2>1, Zenon DEF Registered
<1> QED
  BY <1>2, <1>3, <1>4, <1>5, <1>7, <1>9, <1>10, Zenon DEF RegistryNext

(***************************************************************************)
(* A consumer that was handed out a declared resource has a running        *)
(* informer as soon as the provider has started its factory.               *)
(***************************************************************************)
THEOREM StartedServes == RegistrySpec => []StartedIsServed
<1>1. RegistryInit => Declarations
  BY Zenon DEF RegistryInit, Declarations, Registered
<1>2. RegistryInv /\ Declarations /\ [RegistryNext]_registryVars => Declarations'
  BY EveryStepKeeps, DeclarationsStay, Zenon DEF RegistryInv
<1>3. RegistryInv /\ Declarations => StartedIsServed
  <2> SUFFICES ASSUME RegistryInv, Declarations PROVE StartedIsServed
    OBVIOUS
  <2>1. CachesAreShared
    BY InvShares, Zenon
  <2> QED
    BY <2>1, Zenon DEF Declarations, StartedIsServed, CachesAreShared
<1> QED
  BY <1>1, <1>2, <1>3, RegistryBegins, RegistryStep, PTL DEF RegistrySpec
==============================================================================
