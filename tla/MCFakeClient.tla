----------------------------- MODULE MCFakeClient -----------------------------
(***************************************************************************)
(* FakeClient with two callers and two fields.  The configurations overlap *)
(* in one field, with the same value and with another one.                 *)
(***************************************************************************)
EXTENDS FakeClient, TLC

CONSTANTS f1, f2, v1, v2

MCSymmetry == Permutations(Callers) \cup Permutations(Managers)

MCConfigs == {f1 :> v1, f1 :> v2 @@ f2 :> v1}

MCWritten == {NoObject, f1 :> v2 @@ f2 :> Unset, f1 :> v1 @@ f2 :> v2}
==============================================================================
