---------------------- MODULE MCOwnedResourceController ----------------------
(***************************************************************************)
(* Values for the constants of OwnedResourceController: one error of each  *)
(* kind that ShouldRetry tells apart, a negative and a positive duration.  *)
(***************************************************************************)
EXTENDS OwnedResourceController

MCBackoff == [n \in 0..1 |-> n + 1]

Delay == [suggests |-> TRUE, seconds |-> 2, transient |-> FALSE]
Transient == [suggests |-> FALSE, seconds |-> 0, transient |-> TRUE]
Permanent == [suggests |-> FALSE, seconds |-> 0, transient |-> FALSE]

MCErrors == {Delay, Transient, Permanent}
MCDurations == {-1, 2}
==============================================================================
