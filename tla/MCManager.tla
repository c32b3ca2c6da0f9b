------------------------------ MODULE MCManager ------------------------------
(***************************************************************************)
(* Values for the constants of Manager.                                    *)
(***************************************************************************)
EXTENDS Manager, TLC

CONSTANTS a, b, na, nb, s1, s2

MCName == (a :> na) @@ (b :> nb)
MCStartArgs == (s1 :> <<a, b>>) @@ (s2 :> <<b>>)
MCOneStart == s1 :> <<a>>
MCClientArgs == {<<b>>}
==============================================================================
