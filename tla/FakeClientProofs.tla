--------------------------- MODULE FakeClientProofs ---------------------------
(***************************************************************************)
(* Proofs about FakeClient, for any callers, objects, fields, managers and *)
(* configurations.                                                         *)
(*                                                                         *)
(* The invariant says what an undisturbed Apply has to go by at each of    *)
(* its steps (Progress), that it is the only Apply of its object (Single), *)
(* that an Apply of an object that has not diverged is undisturbed         *)
(* (Undisturbed), what every Apply needs to go on (Ready), and that the    *)
(* stores agree on an object that has not diverged while no Apply has      *)
(* changed its tracker (Agree).                                            *)
(***************************************************************************)
EXTENDS FakeClient, TLAPS

Early == {"get", "check", "copy", "apply"}

Single ==
    \A c \in undisturbed, d \in Callers :
        pc[d] # "idle" /\ req[d].name = req[c].name => d = c

Undisturbed ==
    \A c \in Callers : pc[c] # "idle" /\ req[c].name \notin diverged => c \in undisturbed

\* The object after an Apply as the tracker has it, compared with upstream.
Kept(t, up, r, own) ==
    \A f \in Fields \ DOMAIN r.config : t.val[f] = up[f] \/ (f \in own /\ t.val[f] = Unset)

Progress(c) ==
    LET n == req[c].name IN
    /\ pc[c] \in {"check", "copy"} => original[c] = upstream[n]
    /\ pc[c] = "copy" => tracker[n] = NoObject /\ original[c] # NoObject
    /\ pc[c] = "apply" /\ upstream[n] # NoObject => tracker[n] # NoObject
    /\ pc[c] \in {"result", "update", "create"} =>
         /\ tracker[n] # NoObject
         /\ \A f \in DOMAIN req[c].config : tracker[n].val[f] = req[c].config[f]
    /\ pc[c] \in {"update", "create"} => result[c] = tracker[n].val
    /\ pc[c] = "create" => upstream[n] = NoObject
    /\ pc[c] \in {"result", "update"} /\ n \notin diverged /\ upstream[n] # NoObject =>
         Kept(tracker[n], upstream[n], req[c], had[c])

\* Also a disturbed Apply has something to copy, and finds its object.
Ready(c) ==
    /\ pc[c] = "copy" => original[c] # NoObject
    /\ pc[c] = "result" => tracker[req[c].name] # NoObject

AgreeOn(n) ==
    (/\ n \notin diverged
     /\ tracker[n] # NoObject
     /\ \A c \in Callers : pc[c] # "idle" /\ req[c].name = n => pc[c] \in Early)
    => upstream[n] = tracker[n].val

IInv ==
    /\ TypeOK
    /\ Single
    /\ Undisturbed
    /\ \A c \in Callers : Ready(c)
    /\ \A c \in undisturbed : Progress(c)
    /\ \A n \in Names : AgreeOn(n)

------------------------------------------------------------------------------
(***************************************************************************)
(* What the tracker makes of an object is an object with its owners.       *)
(***************************************************************************)
LEMMA BlankType == Blank \in Managed
  BY Zenon DEF Blank, Managed, Object, Owners

\* Create stores the object it is given.
LEMMA CreatedType ==
    ASSUME NEW obj \in Object PROVE Created(obj) \in Managed /\ Created(obj).val = obj
  BY Zenon DEF Created, Managed, Object, Owners

\* Apply stores an object with its owners.
LEMMA MergedType ==
    ASSUME NEW t \in Managed, NEW r \in ApplyRequest PROVE Merged(t, r) \in Managed
<1>1. /\ t.val \in [Fields -> Values \cup {Unset}]
      /\ t.own \in [Fields -> Owners]
      /\ r.config \in Configs /\ r.manager \in Managers
  BY Zenon DEF Managed, Object, ApplyRequest
<1>2. \A f \in DOMAIN r.config : r.config[f] \in Values
  BY <1>1, FakeClientAssumption, Zenon DEF Range
<1>3. \A f \in Fields : /\ t.own[f] \ {r.manager} \in Owners
                        /\ t.own[f] \cup {r.manager} \in Owners
                        /\ {r.manager} \in Owners
  BY <1>1, Zenon DEF Owners
<1> QED
  BY <1>1, <1>2, <1>3, Zenon DEF Merged, Managed, Object

\* What an apply changes in an object.
LEMMA MergedFields ==
    ASSUME NEW t \in Managed, NEW r \in ApplyRequest
    PROVE  /\ \A f \in DOMAIN r.config : Merged(t, r).val[f] = r.config[f]
           /\ Kept(Merged(t, r), t.val, r, OwnedBy(t, r.manager))
<1>1. DOMAIN r.config \subseteq Fields
  BY FakeClientAssumption, Zenon DEF ApplyRequest
<1> QED
  BY <1>1, Zenon DEF Merged, Kept, OwnedBy

\* An Apply whose own variables and whose object do not change keeps its
\* progress.
LEMMA ProgressStays ==
    ASSUME NEW e, Progress(e), NEW n, n = req[e].name,
           pc'[e] = pc[e], req'[e] = req[e], original'[e] = original[e],
           result'[e] = result[e], had'[e] = had[e],
           upstream'[n] = upstream[n], tracker'[n] = tracker[n],
           n \in diverged' <=> n \in diverged
    PROVE  Progress(e)'
<1>0. req'[e].name = n
  BY Zenon
<1>1. pc[e] \in {"check", "copy"} => original'[e] = upstream'[n]
  BY Zenon DEF Progress
<1>2. pc[e] = "copy" => tracker'[n] = NoObject /\ original'[e] # NoObject
  BY Zenon DEF Progress
<1>3. pc[e] = "apply" /\ upstream'[n] # NoObject => tracker'[n] # NoObject
  BY Zenon DEF Progress
<1>4. pc[e] \in {"result", "update", "create"} =>
         /\ tracker'[n] # NoObject
         /\ \A f \in DOMAIN req'[e].config : tracker'[n].val[f] = req'[e].config[f]
  BY Zenon DEF Progress
<1>5. pc[e] \in {"update", "create"} => result'[e] = tracker'[n].val
  BY Zenon DEF Progress
<1>6. pc[e] = "create" => upstream'[n] = NoObject
  BY Zenon DEF Progress
<1>7. pc[e] \in {"result", "update"} /\ n \notin diverged' /\ upstream'[n] # NoObject =>
         Kept(tracker'[n], upstream'[n], req'[e], had'[e])
  BY Zenon DEF Progress
<1> QED
  BY <1>0, <1>1, <1>2, <1>3, <1>4, <1>5, <1>6, <1>7, Zenon DEF Progress

------------------------------------------------------------------------------
(***************************************************************************)
(* A step of the caller c in its Apply: it leaves other objects and other  *)
(* callers alone.                                                          *)
(***************************************************************************)
OwnStep(c) ==
    LET n == req[c].name IN
    /\ pc[c] # "idle"
    /\ \A m \in Names \ {n} :
         upstream'[m] = upstream[m] /\ tracker'[m] = tracker[m] /\ (m \in diverged' <=> m \in diverged)
    /\ \A d \in Callers \ {c} :
         /\ pc'[d] = pc[d] /\ req'[d] = req[d] /\ original'[d] = original[d]
         /\ result'[d] = result[d] /\ had'[d] = had[d]
         /\ d \in undisturbed' <=> d \in undisturbed
    /\ pc'[c] # "idle" => req'[c] = req[c] /\ (c \in undisturbed' <=> c \in undisturbed)
    /\ n \in diverged /\ n \notin diverged' => c \in undisturbed /\ pc'[c] = "idle"
    /\ n \in diverged' => n \in diverged
    /\ tracker[n] # NoObject => tracker'[n] # NoObject

\* Such a step preserves the invariant if it does so for the caller and its
\* object.
LEMMA OwnStepPreserves ==
    ASSUME IInv, NEW c \in Callers, OwnStep(c), TypeOK',
           NEW n, n = req[c].name,
           Ready(c)', c \in undisturbed' => Progress(c)', AgreeOn(n)'
    PROVE  IInv'
<1>t. /\ pc \in [Callers -> PC] /\ req \in [Callers -> ApplyRequest \cup {NoRequest}]
      /\ \A d \in Callers : pc[d] = "idle" <=> req[d] = NoRequest
      /\ undisturbed \subseteq {d \in Callers : pc[d] # "idle"}
      /\ undisturbed' \subseteq {d \in Callers : pc'[d] # "idle"}
  BY Zenon DEF IInv, TypeOK
<1>s. pc[c] # "idle" /\ Single /\ Undisturbed
  BY Zenon DEF IInv, OwnStep
<1>o. \A d \in Callers \ {c} :
         /\ pc'[d] = pc[d] /\ req'[d] = req[d] /\ original'[d] = original[d]
         /\ result'[d] = result[d] /\ had'[d] = had[d]
         /\ d \in undisturbed' <=> d \in undisturbed
  BY Zenon DEF OwnStep
<1>c. pc'[c] # "idle" => req'[c] = req[c] /\ (c \in undisturbed' <=> c \in undisturbed)
  BY Zenon DEF OwnStep
<1>m. \A m \in Names \ {n} :
         upstream'[m] = upstream[m] /\ tracker'[m] = tracker[m] /\ (m \in diverged' <=> m \in diverged)
  BY Zenon DEF OwnStep
<1>n. \A d \in Callers : pc[d] # "idle" => req[d] \in ApplyRequest /\ req[d].name \in Names
  BY <1>t, Zenon DEF ApplyRequest
<1>1. Single'
  <2> SUFFICES ASSUME NEW e \in undisturbed', NEW d \in Callers,
                      pc'[d] # "idle", req'[d].name = req'[e].name
               PROVE  d = e
    BY Zenon DEF Single
  <2>1. e \in Callers /\ pc'[e] # "idle"
    BY <1>t, Zenon
  <2>2. e \in undisturbed /\ req'[e] = req[e]
    BY <2>1, <1>o, <1>c, Zenon
  <2>3. pc[d] # "idle" /\ req'[d] = req[d]
    BY <1>s, <1>o, <1>c, Zenon
  <2> QED
    BY <2>2, <2>3, <1>s, Zenon DEF Single
<1>2. Undisturbed'
  <2> SUFFICES ASSUME NEW d \in Callers, pc'[d] # "idle", req'[d].name \notin diverged'
               PROVE  d \in undisturbed'
    BY Zenon DEF Undisturbed
  <2>1. pc[d] # "idle" /\ req'[d] = req[d] /\ (d \in undisturbed' <=> d \in undisturbed)
    BY <1>s, <1>o, <1>c, Zenon
  <2>2. CASE req[d].name \notin diverged
    BY <2>1, <2>2, <1>s, Zenon DEF Undisturbed
  <2>3. CASE req[d].name \in diverged
    <3>1. req[d].name = n
      BY <2>1, <2>3, <1>m, <1>n, Zenon
    <3>2. c \in undisturbed /\ pc'[c] = "idle"
      BY <2>1, <2>3, <3>1, Zenon DEF OwnStep
    <3>3. d = c
      BY <2>1, <3>1, <3>2, <1>s, Zenon DEF Single
    <3> QED
      BY <3>2, <3>3, Zenon
  <2> QED
    BY <2>2, <2>3, Zenon
<1>3. ASSUME NEW e \in undisturbed' PROVE Progress(e)'
  <2>1. CASE e = c
    BY <2>1, ZenonT(30)
  <2>2. CASE e # c
    <3>1. e \in Callers /\ e \in undisturbed /\ pc[e] # "idle"
      BY <2>2, <1>t, <1>o, Zenon
    <3>2. req[e].name # n /\ req[e].name \in Names
      BY <2>2, <3>1, <1>s, <1>n, Zenon DEF Single
    <3>3. Progress(e)
      BY <3>1, Zenon DEF IInv
    <3>4. /\ pc'[e] = pc[e] /\ req'[e] = req[e] /\ original'[e] = original[e]
          /\ result'[e] = result[e] /\ had'[e] = had[e]
      BY <2>2, <3>1, <1>o, Zenon
    <3>5. /\ upstream'[req[e].name] = upstream[req[e].name]
          /\ tracker'[req[e].name] = tracker[req[e].name]
          /\ req[e].name \in diverged' <=> req[e].name \in diverged
      BY <3>2, <1>m, Zenon
    <3> QED
      BY <3>3, <3>4, <3>5, ProgressStays, Zenon
  <2> QED
    BY <2>1, <2>2, Zenon
<1>4. ASSUME NEW m \in Names PROVE AgreeOn(m)'
  <2>1. CASE m = n
    BY <2>1, Zenon
  <2>2. CASE m # n
    <3>1. AgreeOn(m)
      BY Zenon DEF IInv
    <3>2. \A d \in Callers : pc[d] # "idle" /\ req[d].name = m =>
            pc'[d] = pc[d] /\ req'[d] = req[d]
      BY <2>2, <1>o, Zenon
    <3> QED
      BY <2>2, <3>1, <3>2, <1>m, Zenon DEF AgreeOn
  <2> QED
    BY <2>1, <2>2, Zenon
<1>5. ASSUME NEW d \in Callers PROVE Ready(d)'
  <2>1. CASE d = c
    BY <2>1, Zenon
  <2>2. CASE d # c
    <3>1. Ready(d) /\ pc'[d] = pc[d] /\ req'[d] = req[d] /\ original'[d] = original[d]
      BY <2>2, <1>o, Zenon DEF IInv
    <3>2. pc[d] # "idle" /\ tracker[req[d].name] # NoObject => tracker'[req[d].name] # NoObject
      BY <1>m, <1>n, Zenon DEF OwnStep
    <3> QED
      BY <3>1, <3>2, Zenon DEF Ready
  <2> QED
    BY <2>1, <2>2, Zenon
<1> QED
  BY <1>1, <1>2, <1>3, <1>4, <1>5, Zenon DEF IInv

------------------------------------------------------------------------------
(***************************************************************************)
(* The steps of an Apply.                                                  *)
(***************************************************************************)
\* What a call that goes on changes.
LEMMA GotoEffect ==
    ASSUME TypeOK, NEW c \in Callers, NEW step \in PC \ {"idle"}, pc[c] # "idle",
           Goto(c, step), UNCHANGED <<req, undisturbed>>
    PROVE  /\ pc' \in [Callers -> PC] /\ pc'[c] = step
           /\ \A d \in Callers \ {c} : pc'[d] = pc[d]
           /\ \A d \in Callers : pc'[d] = "idle" <=> req'[d] = NoRequest
           /\ undisturbed' \subseteq {d \in Callers : pc'[d] # "idle"}
  BY Zenon DEF TypeOK, Goto

\* What a call that returns changes.
LEMMA ReturnEffect ==
    ASSUME TypeOK, NEW c \in Callers, Return(c)
    PROVE  /\ pc' \in [Callers -> PC] /\ pc'[c] = "idle"
           /\ req' \in [Callers -> ApplyRequest \cup {NoRequest}]
           /\ \A d \in Callers : pc'[d] = "idle" <=> req'[d] = NoRequest
           /\ original' \in [Callers -> Object \cup {NoObject}]
           /\ result' \in [Callers -> Object \cup {NoObject}]
           /\ had' \in [Callers -> SUBSET Fields]
           /\ undisturbed' \subseteq {d \in Callers : pc'[d] # "idle"} /\ c \notin undisturbed'
           /\ \A d \in Callers \ {c} :
                /\ pc'[d] = pc[d] /\ req'[d] = req[d] /\ original'[d] = original[d]
                /\ result'[d] = result[d] /\ had'[d] = had[d]
                /\ d \in undisturbed' <=> d \in undisturbed
<1>1. /\ pc' = [pc EXCEPT ![c] = "idle"]
      /\ req' = [req EXCEPT ![c] = NoRequest]
      /\ undisturbed' = undisturbed \ {c}
      /\ original' = [original EXCEPT ![c] = NoObject]
      /\ result' = [result EXCEPT ![c] = NoObject]
      /\ had' = [had EXCEPT ![c] = {}]
  BY Zenon DEF Return, Goto
<1>2. /\ pc \in [Callers -> PC] /\ req \in [Callers -> ApplyRequest \cup {NoRequest}]
      /\ \A d \in Callers : pc[d] = "idle" <=> req[d] = NoRequest
      /\ original \in [Callers -> Object \cup {NoObject}]
      /\ result \in [Callers -> Object \cup {NoObject}]
      /\ had \in [Callers -> SUBSET Fields]
      /\ undisturbed \subseteq {d \in Callers : pc[d] # "idle"}
  BY Zenon DEF TypeOK
<1>3. "idle" \in PC
  BY Zenon DEF PC
<1> QED
  BY <1>1, <1>2, <1>3, Zenon

\* A caller in Apply has a request.
LEMMA RequestType ==
    ASSUME TypeOK, NEW c \in Callers, pc[c] # "idle"
    PROVE  /\ req[c] \in ApplyRequest /\ req[c].name \in Names
           /\ upstream[req[c].name] \in Object \cup {NoObject}
           /\ tracker[req[c].name] \in Managed \cup {NoObject}
<1>1. req[c] \in ApplyRequest
  BY Zenon DEF TypeOK
<1>2. req[c].name \in Names
  BY <1>1, Zenon DEF ApplyRequest
<1> QED
  BY <1>1, <1>2, Zenon DEF TypeOK

\* An undisturbed Apply has read the object as it is upstream.
LEMMA GetOriginalPreserves ==
    ASSUME IInv, NEW c \in Callers, GetOriginal(c) PROVE IInv'
<1> DEFINE n == req[c].name
<1>1. /\ pc[c] = "get" /\ Goto(c, "check") /\ TypeOK /\ AgreeOn(n)
      /\ original' = [original EXCEPT ![c] = upstream[n]]
      /\ UNCHANGED <<upstream, tracker, req, result, had, calls, undisturbed, diverged>>
  BY RequestType, Zenon DEF IInv, GetOriginal, stores, history
<1>2. /\ pc' \in [Callers -> PC] /\ pc'[c] = "check"
      /\ \A d \in Callers \ {c} : pc'[d] = pc[d]
      /\ \A d \in Callers : pc'[d] = "idle" <=> req'[d] = NoRequest
      /\ undisturbed' \subseteq {d \in Callers : pc'[d] # "idle"}
  BY <1>1, GotoEffect, Zenon DEF PC
<1>3. /\ original' \in [Callers -> Object \cup {NoObject}]
      /\ original'[c] = upstream[n]
      /\ \A d \in Callers \ {c} : original'[d] = original[d]
  BY <1>1, RequestType, Zenon DEF TypeOK
<1>4. TypeOK'
  BY <1>1, <1>2, <1>3, Zenon DEF TypeOK
<1>5. OwnStep(c)
  BY <1>1, <1>2, <1>3, Zenon DEF OwnStep
<1>6. Ready(c)' /\ Progress(c)'
  BY <1>1, <1>2, <1>3, Zenon DEF Ready, Progress
<1>7. ASSUME NEW m, m = n PROVE AgreeOn(m)'
  BY <1>1, <1>2, <1>7, Zenon DEF AgreeOn, Early
<1> QED
  BY <1>4, <1>5, <1>6, <1>7, OwnStepPreserves, Zenon

\* It goes on to copy only what exists and the tracker lacks.
LEMMA CheckTrackerPreserves ==
    ASSUME IInv, NEW c \in Callers, CheckTracker(c) PROVE IInv'
<1> DEFINE n == req[c].name
           step == IF original[c] # NoObject /\ tracker[n] = NoObject THEN "copy" ELSE "apply"
<1>1. /\ pc[c] = "check" /\ Goto(c, step) /\ TypeOK /\ AgreeOn(n)
      /\ c \in undisturbed => original[c] = upstream[n]
      /\ UNCHANGED <<upstream, tracker, req, original, result, had, calls, undisturbed, diverged>>
  BY RequestType, Zenon DEF IInv, CheckTracker, Progress, stores, history
<1>2. /\ pc' \in [Callers -> PC] /\ pc'[c] = step
      /\ \A d \in Callers \ {c} : pc'[d] = pc[d]
      /\ \A d \in Callers : pc'[d] = "idle" <=> req'[d] = NoRequest
      /\ undisturbed' \subseteq {d \in Callers : pc'[d] # "idle"}
  BY <1>1, GotoEffect DEF PC
<1>4. TypeOK'
  BY <1>1, <1>2, Zenon DEF TypeOK
<1>5. OwnStep(c)
  BY <1>1, <1>2, Zenon DEF OwnStep
<1>6. Ready(c)' /\ (c \in undisturbed' => Progress(c)')
  BY <1>1, <1>2, Zenon DEF Ready, Progress
<1>7. ASSUME NEW m, m = n PROVE AgreeOn(m)'
  BY <1>1, <1>2, <1>7, Zenon DEF AgreeOn, Early
<1> QED
  BY <1>4, <1>5, <1>6, <1>7, OwnStepPreserves, Zenon

\* A call that returns early, with nothing written, from a step at which the
\* invariant says that the stores agree or have diverged.
LEMMA EarlyReturnPreserves ==
    ASSUME IInv, NEW c \in Callers, pc[c] # "idle", Return(c),
           UNCHANGED <<upstream, tracker, calls, diverged>>,
           pc[c] \in Early \/ req[c].name \in diverged
    PROVE  IInv'
<1> DEFINE n == req[c].name
<1>1. TypeOK /\ AgreeOn(n)
  BY RequestType, Zenon DEF IInv
<1>2. /\ pc' \in [Callers -> PC] /\ pc'[c] = "idle"
      /\ req' \in [Callers -> ApplyRequest \cup {NoRequest}]
      /\ \A d \in Callers : pc'[d] = "idle" <=> req'[d] = NoRequest
      /\ original' \in [Callers -> Object \cup {NoObject}]
      /\ result' \in [Callers -> Object \cup {NoObject}]
      /\ had' \in [Callers -> SUBSET Fields]
      /\ undisturbed' \subseteq {d \in Callers : pc'[d] # "idle"} /\ c \notin undisturbed'
      /\ \A d \in Callers \ {c} :
           /\ pc'[d] = pc[d] /\ req'[d] = req[d] /\ original'[d] = original[d]
           /\ result'[d] = result[d] /\ had'[d] = had[d]
           /\ d \in undisturbed' <=> d \in undisturbed
  BY <1>1, ReturnEffect, Zenon
<1>3. TypeOK'
  BY <1>1, <1>2, Zenon DEF TypeOK
<1>4. OwnStep(c)
  BY <1>2, Zenon DEF OwnStep
<1>5. Ready(c)'
  BY <1>2, Zenon DEF Ready
<1>6. ASSUME NEW m, m = n PROVE AgreeOn(m)'
  BY <1>1, <1>2, <1>6, Zenon DEF AgreeOn
<1> QED
  BY <1>2, <1>3, <1>4, <1>5, <1>6, OwnStepPreserves, Zenon

\* The copy of an undisturbed Apply makes the stores agree.
LEMMA CopyToTrackerPreserves ==
    ASSUME IInv, NEW c \in Callers, CopyToTracker(c) PROVE IInv'
<1> DEFINE n == req[c].name
<1>1. /\ pc[c] = "copy" /\ TypeOK /\ Undisturbed
      /\ UNCHANGED <<upstream, calls, diverged>>
      /\ req[c] \in ApplyRequest /\ n \in Names /\ AgreeOn(n)
      /\ c \in undisturbed => original[c] = upstream[n]
  BY RequestType, Zenon DEF IInv, CopyToTracker, Progress
<1>2. CASE tracker[n] # NoObject
  <2>1. Return(c) /\ UNCHANGED tracker
    BY <1>2, Zenon DEF CopyToTracker
  <2> QED
    BY <1>1, <2>1, EarlyReturnPreserves, Zenon DEF Early
<1>3. CASE tracker[n] = NoObject
  <2>1. /\ tracker' = [tracker EXCEPT ![n] = Created(original[c])]
        /\ Goto(c, "apply")
        /\ UNCHANGED <<req, original, result, had, undisturbed>>
    BY <1>3, Zenon DEF CopyToTracker
  <2>2. /\ pc' \in [Callers -> PC] /\ pc'[c] = "apply"
        /\ \A d \in Callers \ {c} : pc'[d] = pc[d]
        /\ \A d \in Callers : pc'[d] = "idle" <=> req'[d] = NoRequest
        /\ undisturbed' \subseteq {d \in Callers : pc'[d] # "idle"}
    BY <1>1, <2>1, GotoEffect, Zenon DEF PC
  <2>3. original[c] \in Object
    BY <1>1, Zenon DEF IInv, Ready, TypeOK
  <2>4. Created(original[c]) \in Managed /\ Created(original[c]).val = original[c]
    BY <2>3, CreatedType, Zenon
  <2>5. /\ tracker' \in [Names -> Managed \cup {NoObject}]
        /\ tracker'[n] = Created(original[c]) /\ tracker'[n] # NoObject
        /\ \A m \in Names \ {n} : tracker'[m] = tracker[m]
    BY <1>1, <2>1, <2>4, FakeClientAssumption, Zenon DEF TypeOK
  <2>6. TypeOK'
    BY <1>1, <2>1, <2>2, <2>5, Zenon DEF TypeOK
  <2>7. OwnStep(c)
    BY <1>1, <2>1, <2>2, <2>5, Zenon DEF OwnStep
  <2>8. Ready(c)' /\ Progress(c)'
    BY <2>1, <2>2, <2>5, Zenon DEF Ready, Progress
  <2>9. ASSUME NEW m, m = n PROVE AgreeOn(m)'
    BY <1>1, <2>4, <2>5, <2>9, Zenon DEF AgreeOn, Undisturbed
  <2> QED
    BY <2>6, <2>7, <2>8, <2>9, OwnStepPreserves, Zenon
<1> QED
  BY <1>2, <1>3, Zenon

\* What the tracker has after an apply, compared with upstream before it.
LEMMA ApplyToTrackerPreserves ==
    ASSUME IInv, NEW c \in Callers, ApplyToTracker(c) PROVE IInv'
<1> DEFINE n == req[c].name
           t == OrBlank(tracker[n])
<1>1. /\ pc[c] = "apply" /\ TypeOK /\ Single
      /\ UNCHANGED <<upstream, calls, diverged>>
      /\ req[c] \in ApplyRequest /\ n \in Names /\ AgreeOn(n)
      /\ tracker[n] \in Managed \cup {NoObject}
      /\ c \in undisturbed /\ upstream[n] # NoObject => tracker[n] # NoObject
  BY RequestType, Zenon DEF IInv, ApplyToTracker, Progress
<1>2. CASE Return(c) /\ UNCHANGED tracker
  BY <1>1, <1>2, EarlyReturnPreserves, Zenon DEF Early
<1>3. CASE /\ tracker' = [tracker EXCEPT ![n] = Merged(t, req[c])]
           /\ had' = [had EXCEPT ![c] = OwnedBy(t, req[c].manager)]
           /\ Goto(c, "result")
           /\ UNCHANGED <<req, original, result, undisturbed>>
  <2>2. /\ pc' \in [Callers -> PC] /\ pc'[c] = "result"
        /\ \A d \in Callers \ {c} : pc'[d] = pc[d]
        /\ \A d \in Callers : pc'[d] = "idle" <=> req'[d] = NoRequest
        /\ undisturbed' \subseteq {d \in Callers : pc'[d] # "idle"}
    BY <1>1, <1>3, GotoEffect, Zenon DEF PC
  <2>3. t \in Managed
    BY <1>1, BlankType, Zenon DEF OrBlank
  <2>4. Merged(t, req[c]) \in Managed
    BY <1>1, <2>3, MergedType, Zenon
  <2>5. /\ tracker' \in [Names -> Managed \cup {NoObject}]
        /\ tracker'[n] = Merged(t, req[c]) /\ tracker'[n] # NoObject
        /\ \A m \in Names \ {n} : tracker'[m] = tracker[m]
    BY <1>1, <1>3, <2>4, FakeClientAssumption, Zenon DEF TypeOK
  <2>6. /\ had' \in [Callers -> SUBSET Fields]
        /\ had'[c] = OwnedBy(t, req[c].manager)
        /\ \A d \in Callers \ {c} : had'[d] = had[d]
    BY <1>1, <1>3, Zenon DEF TypeOK, OwnedBy
  <2>7. TypeOK'
    BY <1>1, <1>3, <2>2, <2>5, <2>6, Zenon DEF TypeOK
  <2>8. OwnStep(c)
    BY <1>1, <1>3, <2>2, <2>5, <2>6, Zenon DEF OwnStep
  <2>9. Ready(c)'
    BY <1>3, <2>2, <2>5, Zenon DEF Ready
  <2>10. ASSUME c \in undisturbed, n \notin diverged, upstream[n] # NoObject
         PROVE  t.val = upstream[n]
    <3>1. \A d \in Callers : pc[d] # "idle" /\ req[d].name = n => pc[d] \in Early
      BY <1>1, <2>10, Zenon DEF Single, Early
    <3> QED
      BY <1>1, <2>10, <3>1, Zenon DEF AgreeOn, OrBlank
  <2>11. c \in undisturbed' => Progress(c)'
    <3>1. /\ \A f \in DOMAIN req[c].config : tracker'[n].val[f] = req[c].config[f]
          /\ Kept(tracker'[n], t.val, req[c], had'[c])
      <4>1. /\ \A f \in DOMAIN req[c].config : Merged(t, req[c]).val[f] = req[c].config[f]
            /\ Kept(Merged(t, req[c]), t.val, req[c], OwnedBy(t, req[c].manager))
        BY <1>1, <2>3, MergedFields, Zenon
      <4> HIDE DEF t
      <4> QED
        BY <2>5, <2>6, <4>1, Zenon
    <3> QED
      BY <1>1, <1>3, <2>2, <2>5, <2>10, <3>1, Zenon DEF Progress
  <2>12. ASSUME NEW m, m = n PROVE AgreeOn(m)'
    BY <1>3, <2>2, <2>12, Zenon DEF AgreeOn, Early
  <2> QED
    BY <2>7, <2>8, <2>9, <2>11, <2>12, OwnStepPreserves, Zenon
<1> QED
  BY <1>2, <1>3, Zenon DEF ApplyToTracker

\* The result of an undisturbed Apply is what the tracker has.
LEMMA GetResultPreserves ==
    ASSUME IInv, NEW c \in Callers, GetResult(c) PROVE IInv'
<1> DEFINE n == req[c].name
<1>1. /\ pc[c] = "result" /\ Goto(c, "update") /\ TypeOK /\ n \in Names
      /\ result' = [result EXCEPT ![c] = tracker[n].val]
      /\ UNCHANGED <<upstream, tracker, req, original, had, calls, undisturbed, diverged>>
  BY RequestType, Zenon DEF IInv, GetResult, stores, history
<1>2. /\ pc' \in [Callers -> PC] /\ pc'[c] = "update"
      /\ \A d \in Callers \ {c} : pc'[d] = pc[d]
      /\ \A d \in Callers : pc'[d] = "idle" <=> req'[d] = NoRequest
      /\ undisturbed' \subseteq {d \in Callers : pc'[d] # "idle"}
  BY <1>1, GotoEffect, Zenon DEF PC
<1>3. tracker[n].val \in Object
  BY <1>1 DEF IInv, Ready, TypeOK, Managed
<1>4. /\ result' \in [Callers -> Object \cup {NoObject}]
      /\ result'[c] = tracker[n].val
      /\ \A d \in Callers \ {c} : result'[d] = result[d]
  BY <1>1, <1>3, Zenon DEF TypeOK
<1>5. TypeOK'
  BY <1>1, <1>2, <1>4, Zenon DEF TypeOK
<1>6. OwnStep(c)
  BY <1>1, <1>2, <1>4, Zenon DEF OwnStep
<1>7. Ready(c)'
  BY <1>2, Zenon DEF Ready
<1>8. c \in undisturbed' => Progress(c)'
  <2>1. c \in undisturbed => Progress(c)
    BY Zenon DEF IInv
  <2> QED
    BY <1>1, <1>2, <1>4, <2>1, Zenon DEF Progress
<1>9. ASSUME NEW m, m = n PROVE AgreeOn(m)'
  BY <1>1, <1>2, <1>9, Zenon DEF AgreeOn, Early
<1> QED
  BY <1>5, <1>6, <1>7, <1>8, <1>9, OwnStepPreserves, Zenon

\* Writing that result makes the stores agree.
LEMMA WritePreserves ==
    ASSUME IInv, NEW c \in Callers, pc[c] \in {"update", "create"}, Write(c) PROVE IInv'
<1> DEFINE n == req[c].name
<1>1. /\ TypeOK /\ Undisturbed /\ n \in Names /\ Return(c)
      /\ upstream' = [upstream EXCEPT ![n] = result[c]]
      /\ diverged' = IF c \in undisturbed THEN diverged \ {n} ELSE diverged
      /\ UNCHANGED <<tracker, calls>>
      /\ c \in undisturbed => result[c] = tracker[n].val
  BY RequestType, Zenon DEF IInv, Write, Progress
<1>2. /\ pc' \in [Callers -> PC] /\ pc'[c] = "idle"
      /\ req' \in [Callers -> ApplyRequest \cup {NoRequest}]
      /\ \A d \in Callers : pc'[d] = "idle" <=> req'[d] = NoRequest
      /\ original' \in [Callers -> Object \cup {NoObject}]
      /\ result' \in [Callers -> Object \cup {NoObject}]
      /\ had' \in [Callers -> SUBSET Fields]
      /\ undisturbed' \subseteq {d \in Callers : pc'[d] # "idle"} /\ c \notin undisturbed'
      /\ \A d \in Callers \ {c} :
           /\ pc'[d] = pc[d] /\ req'[d] = req[d] /\ original'[d] = original[d]
           /\ result'[d] = result[d] /\ had'[d] = had[d]
           /\ d \in undisturbed' <=> d \in undisturbed
  BY <1>1, ReturnEffect, Zenon
<1>3. /\ upstream' \in [Names -> Object \cup {NoObject}]
      /\ upstream'[n] = result[c]
      /\ \A m \in Names \ {n} : upstream'[m] = upstream[m]
  BY <1>1, Zenon DEF TypeOK
<1>4. TypeOK'
  BY <1>1, <1>2, <1>3, Zenon DEF TypeOK
<1>5. OwnStep(c)
  BY <1>1, <1>2, <1>3, Zenon DEF OwnStep
<1>6. Ready(c)'
  BY <1>2, Zenon DEF Ready
<1>7. ASSUME NEW m, m = n PROVE AgreeOn(m)'
  BY <1>1, <1>3, <1>7, Zenon DEF AgreeOn, Undisturbed
<1> QED
  BY <1>2, <1>4, <1>5, <1>6, <1>7, OwnStepPreserves, Zenon

\* Without an object to update, Create is next.
LEMMA UpdateUpstreamPreserves ==
    ASSUME IInv, NEW c \in Callers, UpdateUpstream(c) PROVE IInv'
<1> DEFINE n == req[c].name
<1>1. pc[c] = "update" /\ TypeOK
  BY Zenon DEF IInv, UpdateUpstream
<1>2. CASE upstream[n] # NoObject
  BY <1>1, <1>2, WritePreserves, Zenon DEF UpdateUpstream
<1>3. CASE upstream[n] = NoObject
  <2>1. /\ Goto(c, "create")
        /\ UNCHANGED <<upstream, tracker, req, original, result, had, calls, undisturbed, diverged>>
    BY <1>3, Zenon DEF UpdateUpstream, stores, history
  <2>2. /\ pc' \in [Callers -> PC] /\ pc'[c] = "create"
        /\ \A d \in Callers \ {c} : pc'[d] = pc[d]
        /\ \A d \in Callers : pc'[d] = "idle" <=> req'[d] = NoRequest
        /\ undisturbed' \subseteq {d \in Callers : pc'[d] # "idle"}
    BY <1>1, <2>1, GotoEffect, Zenon DEF PC
  <2>3. TypeOK'
    BY <1>1, <2>1, <2>2, Zenon DEF TypeOK
  <2>4. OwnStep(c)
    BY <1>1, <2>1, <2>2, Zenon DEF OwnStep
  <2>5. Ready(c)'
    BY <2>2, Zenon DEF Ready
  <2>6. c \in undisturbed' => Progress(c)'
    <3>1. c \in undisturbed => Progress(c)
      BY Zenon DEF IInv
    <3> QED
      BY <1>1, <1>3, <2>1, <2>2, <3>1, Zenon DEF Progress
  <2>7. ASSUME NEW m, m = n PROVE AgreeOn(m)'
    BY <2>1, <2>2, <2>7, Zenon DEF AgreeOn, Early
  <2> QED
    BY <2>3, <2>4, <2>5, <2>6, <2>7, OwnStepPreserves, Zenon
<1> QED
  BY <1>2, <1>3, Zenon

\* Create fails only if something else has created the object meanwhile.
LEMMA CreateUpstreamPreserves ==
    ASSUME IInv, NEW c \in Callers, CreateUpstream(c) PROVE IInv'
<1> DEFINE n == req[c].name
<1>1. pc[c] = "create" /\ Undisturbed
  BY Zenon DEF IInv, CreateUpstream
<1>2. CASE upstream[n] = NoObject
  BY <1>1, <1>2, WritePreserves, Zenon DEF CreateUpstream
<1>3. CASE upstream[n] # NoObject
  <2>1. Return(c) /\ UNCHANGED <<upstream, tracker, calls, diverged>>
    BY <1>3, Zenon DEF CreateUpstream, stores
  <2>2. c \notin undisturbed
    BY <1>1, <1>3, Zenon DEF IInv, Progress
  <2>3. n \in diverged
    BY <1>1, <2>2, Zenon DEF Undisturbed
  <2> QED
    BY <1>1, <2>1, <2>3, EarlyReturnPreserves, Zenon
<1> QED
  BY <1>2, <1>3, Zenon

------------------------------------------------------------------------------
(***************************************************************************)
(* The calls that begin.                                                   *)
(***************************************************************************)
\* A delegated call disturbs the Applies of its object.
LEMMA DelegatePreserves ==
    ASSUME IInv, NEW n \in Names, NEW obj \in Written, Delegate(n, obj) PROVE IInv'
<1>1. /\ TypeOK /\ Single /\ Undisturbed
      /\ upstream' = [upstream EXCEPT ![n] = obj]
      /\ undisturbed' = undisturbed \ InApply(n)
      /\ UNCHANGED <<tracker, pc, req, original, result, had>>
      /\ diverged' = IF tracker[n] = NoObject /\ InApply(n) = {} THEN diverged ELSE diverged \cup {n}
      /\ calls' \in 0..MaxCalls
  BY FakeClientAssumption DEF IInv, Delegate, TypeOK
<1>2. /\ upstream' \in [Names -> Object \cup {NoObject}]
      /\ \A m \in Names \ {n} : upstream'[m] = upstream[m] /\ (m \in diverged' <=> m \in diverged)
  BY <1>1, FakeClientAssumption, Zenon DEF TypeOK
<1>3. TypeOK'
  BY <1>1, <1>2, Zenon DEF TypeOK
<1>4. Single'
  BY <1>1, Zenon DEF Single
<1>5. Undisturbed'
  <2> SUFFICES ASSUME NEW c \in Callers, pc[c] # "idle", req[c].name \notin diverged'
               PROVE  c \in undisturbed'
    BY <1>1, Zenon DEF Undisturbed
  <2>1. c \in undisturbed
    BY <1>1, Zenon DEF Undisturbed
  <2>2. c \notin InApply(n)
    BY <1>1, Zenon DEF InApply
  <2> QED
    BY <1>1, <2>1, <2>2, Zenon
<1>6. ASSUME NEW c \in Callers PROVE Ready(c)'
  BY <1>1, ZenonT(30) DEF IInv, Ready
<1>7. ASSUME NEW c \in undisturbed' PROVE Progress(c)'
  <2>1. c \in Callers /\ pc[c] # "idle" /\ c \notin InApply(n) /\ Progress(c)
    BY <1>1, Zenon DEF IInv, TypeOK
  <2>2. req[c].name \in Names \ {n}
    BY <1>1, <2>1, RequestType, Zenon DEF InApply
  <2> QED
    BY <1>1, <1>2, <2>1, <2>2, ProgressStays, Zenon
<1>8. ASSUME NEW m \in Names PROVE AgreeOn(m)'
  <2>1. AgreeOn(m)
    BY Zenon DEF IInv
  <2> QED
    BY <1>1, <1>2, <2>1, Zenon DEF AgreeOn
<1> QED
  BY <1>3, <1>4, <1>5, <1>6, <1>7, <1>8, Zenon DEF IInv

\* An Apply disturbs the other Applies of its object.
LEMMA ApplyPreserves ==
    ASSUME IInv, NEW c \in Callers, NEW r \in ApplyRequest, Apply(c, r) PROVE IInv'
<1> DEFINE n == r.name
<1>1. /\ TypeOK /\ Single /\ Undisturbed /\ pc[c] = "idle" /\ n \in Names /\ r # NoRequest
      /\ pc' = [pc EXCEPT ![c] = "get"]
      /\ req' = [req EXCEPT ![c] = r]
      /\ undisturbed' = IF InApply(n) = {} THEN undisturbed \cup {c} ELSE undisturbed \ InApply(n)
      /\ diverged' = IF InApply(n) = {} THEN diverged ELSE diverged \cup {n}
      /\ UNCHANGED <<upstream, tracker, original, result, had>>
      /\ calls' \in 0..MaxCalls
  BY FakeClientAssumption DEF IInv, Apply, Goto, TypeOK, ApplyRequest, stores
<1>2. /\ pc' \in [Callers -> PC] /\ pc'[c] = "get"
      /\ req' \in [Callers -> ApplyRequest \cup {NoRequest}] /\ req'[c] = r
      /\ \A d \in Callers \ {c} : pc'[d] = pc[d] /\ req'[d] = req[d]
      /\ c \notin undisturbed
  BY <1>1, Zenon DEF TypeOK, PC
<1>3. /\ \A d \in Callers : pc'[d] = "idle" <=> req'[d] = NoRequest
      /\ undisturbed' \subseteq {d \in Callers : pc'[d] # "idle"}
  BY <1>1, <1>2, Zenon DEF TypeOK
<1>4. TypeOK'
  BY <1>1, <1>2, <1>3, Zenon DEF TypeOK
<1>5. \A e \in undisturbed' \ {c} : /\ e \in Callers \ {c} /\ e \in undisturbed
                                    /\ pc[e] # "idle" /\ req[e].name # n
  BY <1>1, Zenon DEF TypeOK, InApply
<1>6. c \in undisturbed' <=> InApply(n) = {}
  BY <1>1, <1>2, Zenon DEF InApply
<1>7. Single'
  BY <1>1, <1>2, <1>5, <1>6 DEF Single, InApply
<1>8. Undisturbed'
  <2> SUFFICES ASSUME NEW d \in Callers, pc'[d] # "idle", req'[d].name \notin diverged'
               PROVE  d \in undisturbed'
    BY Zenon DEF Undisturbed
  <2>1. CASE d = c
    BY <1>1, <1>2, <2>1, Zenon
  <2>2. CASE d # c
    <3>1. d \in undisturbed
      BY <1>1, <1>2, <2>2, Zenon DEF Undisturbed
    <3>2. InApply(n) # {} => d \notin InApply(n)
      BY <1>1, <1>2, <2>2, Zenon DEF InApply
    <3> QED
      BY <1>1, <3>1, <3>2, Zenon
  <2> QED
    BY <2>1, <2>2, Zenon
<1>9. ASSUME NEW d \in Callers PROVE Ready(d)'
  BY <1>1, <1>2, Zenon DEF IInv, Ready
<1>10. ASSUME NEW e \in undisturbed' PROVE Progress(e)'
  <2>1. CASE e = c
    BY <1>2, <2>1, Zenon DEF Progress
  <2>2. CASE e # c
    <3>1. Progress(e) /\ e \in Callers \ {c} /\ req[e].name # n
      BY <1>5, <2>2, Zenon DEF IInv
    <3>2. pc'[e] = pc[e] /\ req'[e] = req[e] /\ (req[e].name \in diverged' <=> req[e].name \in diverged)
      BY <1>1, <1>2, <3>1, Zenon
    <3> QED
      BY <1>1, <3>1, <3>2, ProgressStays, Zenon
  <2> QED
    BY <2>1, <2>2, Zenon
<1>11. ASSUME NEW m \in Names PROVE AgreeOn(m)'
  <2>1. AgreeOn(m)
    BY Zenon DEF IInv
  <2> QED
    BY <1>1, <1>2, <2>1, Zenon DEF AgreeOn
<1> QED
  BY <1>4, <1>7, <1>8, <1>9, <1>10, <1>11, Zenon DEF IInv

------------------------------------------------------------------------------
\* No Apply has begun and the tracker is empty.
LEMMA InitEstablishes == Init => IInv
<1> SUFFICES ASSUME Init PROVE IInv
  OBVIOUS
<1>1. TypeOK
  BY FakeClientAssumption DEF Init, TypeOK, PC
<1> QED
  BY <1>1, Zenon DEF Init, IInv, Single, Undisturbed, Ready, AgreeOn

\* Every step preserves the invariant.
LEMMA NextPreserves == IInv /\ [Next]_vars => IInv'
<1> SUFFICES ASSUME IInv, [Next]_vars PROVE IInv'
  OBVIOUS
<1>1. CASE UNCHANGED vars
  <2>1. UNCHANGED <<upstream, tracker, pc, req, original, result, had, calls, undisturbed, diverged>>
    BY <1>1, Zenon DEF vars, stores, callVars, history
  <2>2. TypeOK' /\ Single' /\ Undisturbed'
    BY <2>1, Zenon DEF IInv, TypeOK, Single, Undisturbed
  <2>3. ASSUME NEW c \in Callers PROVE Ready(c)'
    BY <2>1, Zenon DEF IInv, Ready
  <2>4. ASSUME NEW c \in undisturbed' PROVE Progress(c)'
    BY <2>1, Zenon DEF IInv, Progress, Kept
  <2>5. ASSUME NEW n \in Names PROVE AgreeOn(n)'
    BY <2>1, Zenon DEF IInv, AgreeOn
  <2> QED
    BY <2>2, <2>3, <2>4, <2>5, Zenon DEF IInv
<1>2. ASSUME NEW n \in Names, NEW obj \in Written, Delegate(n, obj) PROVE IInv'
  BY <1>2, DelegatePreserves, Zenon
<1>3. ASSUME NEW c \in Callers, NEW r \in ApplyRequest, Apply(c, r) PROVE IInv'
  BY <1>3, ApplyPreserves, Zenon
<1>4. ASSUME NEW c \in Callers, ApplyStep(c) PROVE IInv'
  BY <1>4, GetOriginalPreserves, CheckTrackerPreserves, CopyToTrackerPreserves,
     ApplyToTrackerPreserves, GetResultPreserves, UpdateUpstreamPreserves,
     CreateUpstreamPreserves, Zenon DEF ApplyStep
<1> QED
  BY <1>1, <1>2, <1>3, <1>4, Zenon DEF Next

\* The invariant holds in every state of the fake client.
THEOREM Invariance == Spec => []IInv
  BY InitEstablishes, NextPreserves, PTL DEF Spec

\* The step with which an undisturbed Apply ends writes what the tracker has.
LEMMA LastStep ==
    ASSUME IInv, Next, NEW c \in undisturbed, pc[c] \in {"update", "create"}, pc'[c] = "idle"
    PROVE  /\ Progress(c)
           /\ req[c].name \in Names
           /\ upstream' = [upstream EXCEPT ![req[c].name] = tracker[req[c].name].val]
<1> DEFINE n == req[c].name
<1>1. TypeOK /\ c \in Callers /\ Progress(c)
  BY Zenon DEF IInv, TypeOK
<1>2. /\ req[c].name \in Names /\ pc \in [Callers -> PC]
      /\ result[c] = tracker[n].val
  BY <1>1, RequestType, Zenon DEF Progress, TypeOK
<1>3. ~\E m \in Names, obj \in Written : Delegate(m, obj)
  BY <1>2, Zenon DEF Delegate
<1>4. ~\E d \in Callers, r \in ApplyRequest : Apply(d, r)
  BY <1>1, <1>2, Zenon DEF Apply, Goto
<1>5. ASSUME NEW d \in Callers, ApplyStep(d) PROVE d = c
  BY <1>1, <1>2, <1>5, Zenon DEF ApplyStep, GetOriginal, CheckTracker, CopyToTracker, ApplyToTracker,
     GetResult, UpdateUpstream, CreateUpstream, Write, Return, Goto
<1>6. ApplyStep(c)
  BY <1>3, <1>4, <1>5, Zenon DEF Next
<1>7. UpdateUpstream(c) \/ CreateUpstream(c)
  BY <1>6, Zenon DEF ApplyStep, GetOriginal, CheckTracker, CopyToTracker, ApplyToTracker, GetResult
<1>8. Write(c)
  <2>1. CASE UpdateUpstream(c)
    BY <1>1, <1>2, <2>1, Zenon DEF UpdateUpstream, Goto
  <2>2. CASE CreateUpstream(c)
    BY <1>1, <2>2, Zenon DEF CreateUpstream, Progress
  <2> QED
    BY <1>7, <2>1, <2>2, Zenon
<1> QED
  BY <1>1, <1>2, <1>8, Zenon DEF Write

------------------------------------------------------------------------------
(***************************************************************************)
(* The two trackers of the fake client agree on an object that has not     *)
(* diverged and that no Apply is working on.                               *)
(***************************************************************************)
THEOREM TrackersAgree == Spec => []StoresAgree
<1>1. IInv => StoresAgree
  BY Zenon DEF IInv, AgreeOn, StoresAgree, InApply
<1> QED
  BY <1>1, Invariance, PTL

(***************************************************************************)
(* An Apply that nothing disturbs and that succeeds leaves upstream what   *)
(* it applied.                                                             *)
(***************************************************************************)
THEOREM AppliedIsServedHolds == Spec => AppliedIsServed
<1> DEFINE Served(c) ==
        LET n == req[c].name IN
        pc[c] \in {"update", "create"} /\ pc'[c] = "idle" /\ c \in undisturbed =>
            /\ upstream'[n] # NoObject
            /\ \A f \in DOMAIN req[c].config : upstream'[n][f] = req[c].config[f]
<1>1. ASSUME IInv, Next, NEW c \in Callers PROVE Served(c)
  <2> SUFFICES ASSUME pc[c] \in {"update", "create"}, pc'[c] = "idle", c \in undisturbed
               PROVE  /\ upstream'[req[c].name] # NoObject
                      /\ \A f \in DOMAIN req[c].config : upstream'[req[c].name][f] = req[c].config[f]
    OBVIOUS
  <2>1. /\ Progress(c)
        /\ req[c].name \in Names
        /\ upstream' = [upstream EXCEPT ![req[c].name] = tracker[req[c].name].val]
    BY <1>1, LastStep, Zenon
  <2>2. upstream \in [Names -> Object \cup {NoObject}] /\ tracker[req[c].name] \in Managed
    <3>1. TypeOK /\ tracker[req[c].name] # NoObject
      BY <1>1, <2>1, Zenon DEF IInv, Progress
    <3> QED
      BY <2>1, <3>1, Zenon DEF TypeOK
  <2>3. tracker[req[c].name].val # NoObject
    BY <2>2, FakeClientAssumption, Zenon DEF Managed
  <2> QED
    BY <2>1, <2>2, <2>3, Zenon DEF Progress
<1>2. IInv /\ [Next]_vars => [\A c \in Callers : Served(c)]_vars
  BY <1>1, Zenon
<1> QED
  BY <1>2, Invariance, PTL DEF Spec, AppliedIsServed

(***************************************************************************)
(* An Apply that nothing disturbs changes no field of an object that has   *)
(* not diverged but those of its configuration and those that its manager  *)
(* alone had applied before.                                               *)
(***************************************************************************)
THEOREM ApplyKeepsOthersHolds == Spec => ApplyKeepsOthers
<1> DEFINE Keeps(c) ==
        LET n == req[c].name IN
        Writes(c) /\ c \in undisturbed /\ n \notin diverged /\ upstream[n] # NoObject =>
            \A f \in Fields \ DOMAIN req[c].config :
                \/ upstream'[n][f] = upstream[n][f]
                \/ f \in had[c] /\ upstream'[n][f] = Unset
<1>1. ASSUME IInv, Next, NEW c \in Callers PROVE Keeps(c)
  <2> DEFINE n == req[c].name
  <2> SUFFICES ASSUME Writes(c), c \in undisturbed, n \notin diverged, upstream[n] # NoObject
               PROVE  \A f \in Fields \ DOMAIN req[c].config :
                        \/ upstream'[n][f] = upstream[n][f]
                        \/ f \in had[c] /\ upstream'[n][f] = Unset
    OBVIOUS
  <2>1. /\ Progress(c)
        /\ n \in Names
        /\ upstream' = [upstream EXCEPT ![n] = tracker[n].val]
        /\ pc[c] \in {"update", "create"}
    BY <1>1, LastStep, Zenon DEF Writes
  <2>2. upstream'[n] = tracker[n].val
    BY <1>1, <2>1, Zenon DEF IInv, TypeOK
  <2>3. Kept(tracker[n], upstream[n], req[c], had[c])
    BY <2>1, Zenon DEF Progress
  <2> QED
    BY <2>2, <2>3, Zenon DEF Kept
<1>2. IInv /\ [Next]_vars => [\A c \in Callers : Keeps(c)]_vars
  BY <1>1, Zenon
<1> QED
  BY <1>2, Invariance, PTL DEF Spec, ApplyKeepsOthers
==============================================================================
