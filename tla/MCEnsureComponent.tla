-------------------------- MODULE MCEnsureComponent --------------------------
(***************************************************************************)
(* Small instances of EnsureComponent: two specs whose objects share a     *)
(* name, and a third spec whose object has a name of its own.              *)
(***************************************************************************)
EXTENDS EnsureComponent

CONSTANTS s1, s2, s3, n1, n2, n3

MCNameOf == [s \in Specs |-> IF s = s3 THEN n2 ELSE n1]
==============================================================================
