-------------------------------- MODULE MCCRDs --------------------------------
(***************************************************************************)
(* CRDs with two CRDs x and y, in an old definition and a new one that     *)
(* serves one resource more; x is there at first.  The replicas are those  *)
(* of a rolling upgrade: the files of r1 have the new definitions, those   *)
(* of the others the old ones.                                             *)
(***************************************************************************)
EXTENDS CRDs

CONSTANTS x, y, old, new, r1

MCCrds == <<x, y>>
MCServes == [c \in {x, y} |-> [d \in {old, new} |-> IF d = old THEN {<<c, old>>} ELSE {<<c, old>>, <<c, new>>}]]
MCUpgrade == [r \in Replicas |-> [c \in Names |-> IF r = r1 THEN new ELSE old]]
MCExisting == [c \in Names |-> IF c = x THEN old ELSE NoCrd]
==============================================================================
