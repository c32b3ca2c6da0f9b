----------------------------- MODULE MCAdoption -----------------------------
(***************************************************************************)
(* Small instances of Adoption.                                            *)
(***************************************************************************)
EXTENDS Adoption, TLC

CONSTANTS a, b, x, y

\* Two owners.  The other five ways to reference two objects are these four
\* with the names of the owners or of the objects swapped.
MCReferences ==
    {a :> r[1] @@ b :> r[2] :
        r \in {<<x, x>>, <<x, y>>, <<x, NoObject>>, <<NoObject, NoObject>>}}
==============================================================================
