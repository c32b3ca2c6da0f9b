------------------------------ MODULE FakeClient ------------------------------
(***************************************************************************)
(* client/fake/fake.go: a fake dynamic client with server-side apply.      *)
(* Apply works on a tracker that knows the owners of every field; all      *)
(* other calls, also Get, work on the tracker of the upstream fake.        *)
(* Apply copies an object from the one to the other before the first       *)
(* apply, and back after every apply; each of its calls on a tracker is a  *)
(* step of its own.                                                        *)
(*                                                                         *)
(* The trackers are external.  Every call on one is a single step.  A raw  *)
(* apply patch is handled by a reactor, which has the lock that the        *)
(* upstream fake takes for each of its calls, and repeats the code of      *)
(* Apply.                                                                  *)
(***************************************************************************)
EXTENDS Naturals, FiniteSets, Functions

CONSTANTS Callers,          \* goroutines that use the client
          Names,            \* objects
          Fields, Values, Unset,
          Managers,         \* field managers
          Updater,          \* owner of the fields of an object that was created
          NoObject, NoRequest,
          Configs,          \* apply configurations
          Written,          \* what the other calls make of an object, or NoObject
          MaxCalls

Object == [Fields -> Values \cup {Unset}]
Owners == SUBSET (Managers \cup {Updater})
Managed == [val : Object, own : [Fields -> Owners]]
ApplyRequest ==
    [name : Names, config : Configs, manager : Managers, force : BOOLEAN, raw : BOOLEAN]

ASSUME FakeClientAssumption ==
    /\ NoRequest \notin ApplyRequest
    /\ Unset \notin Values /\ Updater \notin Managers
    /\ NoObject \notin Object /\ NoObject \notin Managed
    /\ \A config \in Configs : DOMAIN config \subseteq Fields /\ Range(config) \subseteq Values
    /\ Written \subseteq Object \cup {NoObject}
    /\ MaxCalls \in Nat

VARIABLES
    upstream,    \* the objects of the upstream tracker
    tracker,     \* fieldManagedTracker
    pc, req,     \* where each caller is in Apply, and its request
    original,    \* what Apply has read from the upstream tracker
    result,      \* what it will write there
    undisturbed, \* history: callers of Apply during whose call there was no
                 \* other write or Apply of the object
    diverged,    \* history: objects that have been written other than by an
                 \* undisturbed Apply since the last of those
    had,         \* history: fields that only the caller's manager owned
    calls

stores == <<upstream, tracker>>
callVars == <<pc, req, original, result, had, calls>>
history == <<undisturbed, diverged>>
vars == <<stores, callVars, history>>

PC == {"idle", "get", "check", "copy", "apply", "result", "update", "create"}

TypeOK ==
    /\ upstream \in [Names -> Object \cup {NoObject}]
    /\ tracker \in [Names -> Managed \cup {NoObject}]
    /\ pc \in [Callers -> PC]
    /\ req \in [Callers -> ApplyRequest \cup {NoRequest}]
    /\ \A c \in Callers : pc[c] = "idle" <=> req[c] = NoRequest
    /\ original \in [Callers -> Object \cup {NoObject}]
    /\ result \in [Callers -> Object \cup {NoObject}]
    /\ undisturbed \subseteq {c \in Callers : pc[c] # "idle"}
    /\ diverged \subseteq Names
    /\ had \in [Callers -> SUBSET Fields]
    /\ calls \in 0..MaxCalls

Init ==
    /\ upstream \in [Names -> Written]
    /\ tracker = [n \in Names |-> NoObject]
    /\ pc = [c \in Callers |-> "idle"]
    /\ req = [c \in Callers |-> NoRequest]
    /\ original = [c \in Callers |-> NoObject]
    /\ result = [c \in Callers |-> NoObject]
    /\ undisturbed = {}
    /\ diverged = {}
    /\ had = [c \in Callers |-> {}]
    /\ calls = 0

------------------------------------------------------------------------------
(***************************************************************************)
(* Server-side apply as the tracker does it (external).                    *)
(***************************************************************************)
Blank == [val |-> [f \in Fields |-> Unset], own |-> [f \in Fields |-> {}]]
OrBlank(t) == IF t = NoObject THEN Blank ELSE t

\* The object as Create stores it.
Created(obj) ==
    [val |-> obj, own |-> [f \in Fields |-> IF obj[f] = Unset THEN {} ELSE {Updater}]]

Conflicts(t, r) ==
    {f \in DOMAIN r.config : t.val[f] # r.config[f] /\ t.own[f] \ {r.manager} # {}}

\* Fields that an apply without them removes.
OwnedBy(t, m) == {f \in Fields : t.own[f] = {m}}

Merged(t, r) ==
    [val |-> [f \in Fields |->
                IF f \in DOMAIN r.config THEN r.config[f]
                ELSE IF f \in OwnedBy(t, r.manager) THEN Unset
                ELSE t.val[f]],
     own |-> [f \in Fields |->
                IF f \notin DOMAIN r.config THEN t.own[f] \ {r.manager}
                ELSE IF t.val[f] = r.config[f] THEN t.own[f] \cup {r.manager}
                ELSE {r.manager}]]

------------------------------------------------------------------------------
InApply(n) == {c \in Callers : pc[c] # "idle" /\ req[c].name = n}

\* A raw patch holds the lock of the upstream fake until its reactor returns.
Locked == \E c \in Callers : pc[c] # "idle" /\ req[c].raw

Goto(c, step) == pc' = [pc EXCEPT ![c] = step]

\* The call returns; what it has read is gone.
Return(c) ==
    /\ Goto(c, "idle")
    /\ req' = [req EXCEPT ![c] = NoRequest]
    /\ undisturbed' = undisturbed \ {c}
    /\ original' = [original EXCEPT ![c] = NoObject]
    /\ result' = [result EXCEPT ![c] = NoObject]
    /\ had' = [had EXCEPT ![c] = {}]

(***************************************************************************)
(* Create, Update, UpdateStatus, Patch and Delete are left to the upstream *)
(* fake.  obj is the object after the call, NoObject after Delete.         *)
(***************************************************************************)
Delegate(n, obj) ==
    /\ calls < MaxCalls
    /\ calls' = calls + 1
    /\ ~Locked
    /\ obj # upstream[n]
    /\ upstream' = [upstream EXCEPT ![n] = obj]
    /\ undisturbed' = undisturbed \ InApply(n)
    /\ diverged' = IF tracker[n] = NoObject /\ InApply(n) = {} THEN diverged ELSE diverged \cup {n}
    /\ UNCHANGED <<tracker, pc, req, original, result, had>>

\* Apply, ApplyStatus, Patch with an apply patch, and the reactor.
Apply(c, r) ==
    /\ calls < MaxCalls
    /\ calls' = calls + 1
    /\ pc[c] = "idle"
    /\ r.raw => ~Locked
    /\ req' = [req EXCEPT ![c] = r]
    /\ Goto(c, "get")
    /\ undisturbed' =
          IF InApply(r.name) = {} THEN undisturbed \cup {c} ELSE undisturbed \ InApply(r.name)
    /\ diverged' = IF InApply(r.name) = {} THEN diverged ELSE diverged \cup {r.name}
    /\ UNCHANGED <<stores, original, result, had>>

GetOriginal(c) ==
    /\ pc[c] = "get"
    /\ original' = [original EXCEPT ![c] = upstream[req[c].name]]
    /\ Goto(c, "check")
    /\ UNCHANGED <<stores, req, result, had, calls, history>>

\* A plausible slip: the object is not copied before its first apply.
CheckNever(c) ==
    /\ pc[c] = "check"
    /\ Goto(c, "apply")
    /\ UNCHANGED <<stores, req, original, result, had, calls, history>>

\* Is the object in the upstream tracker and not yet in the other one?
CheckTracker(c) ==
    /\ pc[c] = "check"
    /\ Goto(c, IF original[c] # NoObject /\ tracker[req[c].name] = NoObject THEN "copy" ELSE "apply")
    /\ UNCHANGED <<stores, req, original, result, had, calls, history>>

\* An object that another Apply has created in the meantime is an error.
CopyToTracker(c) ==
    LET n == req[c].name IN
    /\ pc[c] = "copy"
    /\ IF tracker[n] = NoObject
       THEN /\ tracker' = [tracker EXCEPT ![n] = Created(original[c])]
            /\ Goto(c, "apply")
            /\ UNCHANGED <<req, original, result, had, undisturbed>>
       ELSE /\ Return(c)
            /\ UNCHANGED tracker
    /\ UNCHANGED <<upstream, calls, diverged>>

\* The tracker's Apply, or a conflict.
ApplyToTracker(c) ==
    LET n == req[c].name  t == OrBlank(tracker[n]) IN
    /\ pc[c] = "apply"
    /\ IF Conflicts(t, req[c]) # {} /\ ~req[c].force
       THEN /\ Return(c)
            /\ UNCHANGED tracker
       ELSE /\ tracker' = [tracker EXCEPT ![n] = Merged(t, req[c])]
            /\ had' = [had EXCEPT ![c] = OwnedBy(t, req[c].manager)]
            /\ Goto(c, "result")
            /\ UNCHANGED <<req, original, result, undisturbed>>
    /\ UNCHANGED <<upstream, calls, diverged>>

\* A plausible slip: what was asked for is taken for the result.
ResultIsConfig(c) ==
    /\ pc[c] = "result"
    /\ result' = [result EXCEPT ![c] =
          [f \in Fields |-> IF f \in DOMAIN req[c].config THEN req[c].config[f] ELSE Unset]]
    /\ Goto(c, "update")
    /\ UNCHANGED <<stores, req, original, had, calls, history>>

GetResult(c) ==
    /\ pc[c] = "result"
    /\ result' = [result EXCEPT ![c] = tracker[req[c].name].val]
    /\ Goto(c, "update")
    /\ UNCHANGED <<stores, req, original, had, calls, history>>

\* The result is written; after an undisturbed Apply the stores agree again.
Write(c) ==
    LET n == req[c].name IN
    /\ upstream' = [upstream EXCEPT ![n] = result[c]]
    /\ diverged' = IF c \in undisturbed THEN diverged \ {n} ELSE diverged
    /\ Return(c)
    /\ UNCHANGED <<tracker, calls>>

\* A plausible slip: a failed update is the end.
UpdateOnly(c) ==
    /\ pc[c] = "update"
    /\ IF upstream[req[c].name] # NoObject
       THEN Write(c)
       ELSE Return(c) /\ UNCHANGED <<stores, calls, diverged>>

\* Update; when there is no such object Create is next.
UpdateUpstream(c) ==
    /\ pc[c] = "update"
    /\ IF upstream[req[c].name] # NoObject
       THEN Write(c)
       ELSE /\ Goto(c, "create")
            /\ UNCHANGED <<stores, req, original, result, had, calls, history>>

CreateUpstream(c) ==
    /\ pc[c] = "create"
    /\ IF upstream[req[c].name] = NoObject
       THEN Write(c)
       ELSE Return(c) /\ UNCHANGED <<stores, calls, diverged>>

------------------------------------------------------------------------------
ApplyStep(c) ==
    \/ GetOriginal(c) \/ CheckTracker(c) \/ CopyToTracker(c) \/ ApplyToTracker(c)
    \/ GetResult(c) \/ UpdateUpstream(c) \/ CreateUpstream(c)

Next ==
    \/ \E n \in Names, obj \in Written : Delegate(n, obj)
    \/ \E c \in Callers : (\E r \in ApplyRequest : Apply(c, r)) \/ ApplyStep(c)

Spec == Init /\ [][Next]_vars

------------------------------------------------------------------------------
(***************************************************************************)
(* client/fake/README.md: "Full field management".  The two trackers agree *)
(* on an object that no Apply is working on, unless something has written  *)
(* it that only one of them knows of: a delegated call after the first     *)
(* Apply, or an Apply that overlaps with another write; the next Apply     *)
(* that is left alone brings them together again.                          *)
(***************************************************************************)
StoresAgree ==
    \A n \in Names :
        n \notin diverged /\ InApply(n) = {} /\ tracker[n] # NoObject => upstream[n] = tracker[n].val

\* The step in which a caller's Apply writes the upstream tracker.
Writes(c) == pc[c] \in {"update", "create"} /\ pc'[c] = "idle" /\ upstream' # upstream

(***************************************************************************)
(* fake.go, Apply: an Apply that nothing disturbs changes the fields of    *)
(* its configuration only, and removes those that its manager alone had    *)
(* applied before: whatever others have set stays, also what was in the    *)
(* object before the first Apply.                                          *)
(***************************************************************************)
ApplyKeepsOthers ==
    [][\A c \in Callers : LET n == req[c].name IN
        Writes(c) /\ c \in undisturbed /\ n \notin diverged /\ upstream[n] # NoObject =>
            \A f \in Fields \ DOMAIN req[c].config :
                \/ upstream'[n][f] = upstream[n][f]
                \/ f \in had[c] /\ upstream'[n][f] = Unset]_vars

(***************************************************************************)
(* fake.go, "Sync with upstream client storage so Get operations work": an *)
(* Apply that succeeds leaves the object with the values it applied,       *)
(* whatever was done to the object before, deletion included, as long as   *)
(* nothing disturbs the Apply itself.                                      *)
(***************************************************************************)
AppliedIsServed ==
    [][\A c \in Callers : LET n == req[c].name IN
        pc[c] \in {"update", "create"} /\ pc'[c] = "idle" /\ c \in undisturbed =>
            /\ upstream'[n] # NoObject
            /\ \A f \in DOMAIN req[c].config : upstream'[n][f] = req[c].config[f]]_vars

(***************************************************************************)
(* The same without `diverged': "full field management" would also keep    *)
(* what a finished call of another kind has set since the first Apply.     *)
(* TLC refutes it; see the README.                                         *)
(***************************************************************************)
ApplyKeepsUpdates ==
    [][\A c \in Callers : LET n == req[c].name IN
        Writes(c) /\ c \in undisturbed /\ upstream[n] # NoObject =>
            \A f \in Fields \ DOMAIN req[c].config :
                \/ upstream'[n][f] = upstream[n][f]
                \/ f \in had[c] /\ upstream'[n][f] = Unset]_vars
==============================================================================
