-------------------------------- MODULE Pause --------------------------------
(***************************************************************************)
(* pause/pause.go: Handler, which stops the reconciliation of an object    *)
(* that has the paused label, and SelfPauseHandler, with which the         *)
(* controller sets that label itself.                                      *)
(*                                                                         *)
(* history holds every state the object has had: whether it has the label, *)
(* and its Paused condition.  The handlers work on a copy from the cache,  *)
(* which is some versions behind.  The functions PatchStatus and Patch are *)
(* the author's; they write the condition, or the label, of the copy, and  *)
(* nothing else: SelfPauseHandler uses the same copy for both, so they     *)
(* cannot insist on its resource version.  The API server, the watch and   *)
(* the handler that Next leads to are external.                            *)
(***************************************************************************)
EXTENDS Naturals, Sequences

CONSTANTS MaxEdits,       \* times users add or remove the label
          MaxSelfPauses,  \* times the controller decides to pause itself
          MaxFaults       \* failing patches

ASSUME PauseAssumption ==
    MaxEdits \in Nat /\ MaxSelfPauses \in Nat /\ MaxFaults \in Nat

VARIABLES
    history,     \* the object's states so far
    seen,        \* the version in the cache
    dirty,       \* the object's key is queued
    pc,          \* where the handlers are
    selfPaused,  \* history: SelfPause ran to its end and no user undid it
    abandoned,   \* history: the last pass ended with an error that is not retried
    edits, selfPauses, faults

bounds == <<edits, selfPauses, faults>>
vars == <<history, seen, dirty, pc, selfPaused, abandoned, bounds>>

Condition == {"none", "PausedByLabel", "PausedByController"}
Object == [label : BOOLEAN, condition : Condition]

Latest == Len(history)
object == history[Latest]

TypeOK ==
    /\ history \in Seq(Object)
    /\ seen \in 1..Latest
    /\ dirty \in BOOLEAN
    /\ pc \in {"idle", "pause", "unpause", "next", "selfStatus", "selfLabel"}
    /\ selfPaused \in BOOLEAN
    /\ selfPaused => object.label
    /\ abandoned \in BOOLEAN
    /\ edits \in 0..MaxEdits
    /\ selfPauses \in 0..MaxSelfPauses
    /\ faults \in 0..MaxFaults

Init ==
    /\ history = <<[label |-> FALSE, condition |-> "none"]>>
    /\ seen = 1
    /\ dirty = TRUE
    /\ pc = "idle"
    /\ selfPaused = FALSE
    /\ abandoned = FALSE
    /\ edits = 0
    /\ selfPauses = 0
    /\ faults = 0

(***************************************************************************)
(* The API server, its watch and the users.                                *)
(***************************************************************************)
Write(o) == IF o = object THEN UNCHANGED history ELSE history' = Append(history, o)

Deliver ==
    /\ seen < Latest
    /\ seen' = seen + 1
    /\ dirty' = TRUE
    /\ UNCHANGED <<history, pc, selfPaused, abandoned, bounds>>

UserSetsLabel(on) ==
    /\ edits < MaxEdits
    /\ edits' = edits + 1
    /\ object.label # on
    /\ Write([object EXCEPT !.label = on])
    /\ selfPaused' = (selfPaused /\ on)
    /\ UNCHANGED <<seen, dirty, pc, abandoned, selfPauses, faults>>

(***************************************************************************)
(* The handlers.                                                           *)
(***************************************************************************)
WithCondition(c) == [object EXCEPT !.condition = c]
WithLabel == [object EXCEPT !.label = TRUE]

\* The handler returns, with the key queued again or not.
Return(requeue) == pc' = "idle" /\ dirty' = (dirty \/ requeue)

\* A patch that fails, though it may have been carried out.  RequeueErr queues
\* the key again; RequeueAPIErr does so for an error that ShouldRetry lists.
PatchFails(o, requeueAlways) ==
    /\ faults < MaxFaults
    /\ faults' = faults + 1
    /\ Write(o) \/ UNCHANGED history
    /\ \E shouldRetry \in BOOLEAN :
         /\ Return(requeueAlways \/ shouldRetry)
         /\ abandoned' = ~(requeueAlways \/ shouldRetry)

\* A plausible slip: the condition alone decides.
HandleByCondition ==
    /\ pc = "idle"
    /\ dirty
    /\ dirty' = FALSE
    /\ abandoned' = FALSE
    /\ LET o == history[seen] IN
         pc' = IF o.condition # "none" THEN "idle"
               ELSE IF o.label THEN "pause" ELSE "next"
    /\ UNCHANGED <<history, seen, selfPaused, bounds>>

\* Handler.Handle up to its first call: a paused object that has the
\* condition is done with, one that has not gets it; an object that is not
\* paused loses the condition, if it has it, and goes on to Next.
Handle ==
    /\ pc = "idle"
    /\ dirty
    /\ dirty' = FALSE
    /\ abandoned' = FALSE
    /\ LET o == history[seen] IN
         \/ o.label /\ o.condition # "none" /\ pc' = "idle"
         \/ o.label /\ o.condition = "none" /\ pc' = "pause"
         \/ ~o.label /\ o.condition = "none" /\ pc' = "next"
         \/ ~o.label /\ o.condition # "none" /\ pc' = "unpause"
    /\ UNCHANGED <<history, seen, selfPaused, bounds>>

\* A plausible slip: a failing patch, also one that a retry would mend, is
\* taken for a success.
PatchPausedOnce ==
    /\ pc = "pause"
    /\ \/ /\ Write(WithCondition("PausedByLabel"))
          /\ UNCHANGED faults
       \/ /\ faults < MaxFaults
          /\ faults' = faults + 1
          /\ UNCHANGED history
    /\ Return(FALSE)
    /\ UNCHANGED <<seen, selfPaused, abandoned, edits, selfPauses>>

PatchPaused ==
    /\ pc = "pause"
    /\ \/ /\ Write(WithCondition("PausedByLabel"))
          /\ Return(FALSE)
          /\ UNCHANGED <<abandoned, faults>>
       \/ PatchFails(WithCondition("PausedByLabel"), FALSE)
    /\ UNCHANGED <<seen, selfPaused, edits, selfPauses>>

PatchUnpaused ==
    /\ pc = "unpause"
    /\ \/ /\ Write(WithCondition("none"))
          /\ pc' = "next"
          /\ UNCHANGED <<dirty, abandoned, faults>>
       \/ PatchFails(WithCondition("none"), FALSE)
    /\ UNCHANGED <<seen, selfPaused, edits, selfPauses>>

\* The handlers after Next: the object is reconciled, or the controller finds
\* a state it cannot recover from.
Reconcile ==
    /\ pc = "next"
    /\ \/ Return(FALSE) /\ UNCHANGED selfPauses
       \/ /\ selfPauses < MaxSelfPauses
          /\ selfPauses' = selfPauses + 1
          /\ pc' = "selfStatus"
          /\ UNCHANGED dirty
    /\ UNCHANGED <<history, seen, selfPaused, abandoned, edits, faults>>

\* SelfPauseHandler.Handle: the status, then the label.
PatchSelfPaused ==
    /\ pc = "selfStatus"
    /\ \/ /\ Write(WithCondition("PausedByController"))
          /\ pc' = "selfLabel"
          /\ UNCHANGED <<dirty, abandoned, faults>>
       \/ PatchFails(WithCondition("PausedByController"), TRUE)
    /\ UNCHANGED <<seen, selfPaused, edits, selfPauses>>

PatchLabel ==
    /\ pc = "selfLabel"
    /\ \/ /\ Write(WithLabel)
          /\ Return(FALSE)
          /\ selfPaused' = TRUE
          /\ UNCHANGED <<abandoned, faults>>
       \/ PatchFails(WithLabel, FALSE) /\ UNCHANGED selfPaused
    /\ UNCHANGED <<seen, edits, selfPauses>>

------------------------------------------------------------------------------
HandlerStep ==
    \/ Handle \/ PatchPaused \/ PatchUnpaused
    \/ Reconcile \/ PatchSelfPaused \/ PatchLabel

Next == Deliver \/ (\E on \in BOOLEAN : UserSetsLabel(on)) \/ HandlerStep

\* Watch events arrive, a queued key is processed and calls return.
Spec == Init /\ [][Next]_vars /\ WF_vars(Deliver) /\ WF_vars(HandlerStep)

------------------------------------------------------------------------------
(***************************************************************************)
(* An object that keeps the label ends up with the Paused condition and    *)
(* outside the handlers after Next, also when the condition was being      *)
(* removed, on a stale copy, while the label was added again.  Only a      *)
(* patch that fails with an error outside ShouldRetry's list may leave it  *)
(* without the condition, and only as the last thing that happens.         *)
(***************************************************************************)
PauseTakesEffect ==
    <>[]object.label => <>[](pc = "idle" /\ (object.condition # "none" \/ abandoned))

(***************************************************************************)
(* An object that stays without the label loses the condition: no stale or *)
(* half-done pause, the controller's own included, leaves it marked.  And  *)
(* removing the label brings the object back to Next, unless the label is  *)
(* set again.  The exception is the same: the last pass gave up on a patch *)
(* whose error is not in ShouldRetry's list.                               *)
(***************************************************************************)
UnpauseTakesEffect ==
    /\ <>[]~object.label => <>[](object.condition = "none" \/ abandoned)
    /\ (object.condition # "none" /\ ~object.label) ~> (object.label \/ pc = "next" \/ []abandoned)

\* pause.go:4-6: once the controller has paused an object, it refuses to
\* process it until the label is removed.
\* TLC refutes it; see the README.
SelfPauseHolds == [][selfPaused /\ pc' = "next" => pc = "next"]_vars
==============================================================================
