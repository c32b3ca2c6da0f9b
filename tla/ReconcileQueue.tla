--------------------------- MODULE ReconcileQueue ---------------------------
(***************************************************************************)
(* What the queue-driven controller promises to whoever asks for a key to  *)
(* be reconciled, with no queue, timer or worker in sight.                 *)
(*                                                                         *)
(*   want    the keys whose reconciliation was asked for and has not begun *)
(*           since: by an informer event, or by a handler that requeues    *)
(*   active  the keys being reconciled                                     *)
(*   closed  the controller is shutting down                               *)
(*                                                                         *)
(* A key is reconciled by one worker at a time.  A request is answered by  *)
(* any reconciliation that begins after it; reconciling without a request  *)
(* is harmless.  Until the controller closes no request is forgotten, and  *)
(* each is answered.                                                       *)
(***************************************************************************)
CONSTANT Key
VARIABLES want, active, closed

vars == <<want, active, closed>>

Init == want = {} /\ active = {} /\ closed = FALSE

Ask(k) ==
    /\ want' = want \cup {k}
    /\ UNCHANGED <<active, closed>>

Begin(k) ==
    /\ k \notin active
    /\ active' = active \cup {k}
    /\ want' = want \ {k}
    /\ UNCHANGED closed

End(k) ==
    /\ k \in active
    /\ active' = active \ {k}
    /\ UNCHANGED <<want, closed>>

Close ==
    /\ ~closed
    /\ closed' = TRUE
    /\ UNCHANGED <<want, active>>

Next ==
    \/ \E k \in Key : Ask(k) \/ Begin(k) \/ End(k)
    \/ Close

\* A request is answered while the controller is open; a reconciliation ends.
Answer(k) == k \in want /\ ~closed /\ Begin(k)

Safety == Init /\ [][Next]_vars

Spec == Safety /\ \A k \in Key : SF_vars(Answer(k)) /\ WF_vars(End(k))
==============================================================================
