----------------------------- MODULE MCStaticFile -----------------------------
(***************************************************************************)
(* StaticFile with a file of two objects, and one that has another form of *)
(* the first of them and a second document that cannot be decoded.         *)
(***************************************************************************)
EXTENDS StaticFile

CONSTANTS c1, c2, o1, o2, s1, s2

MCDocs ==
    [c \in {c1, c2} |->
        CASE c = c1 -> <<[obj |-> o1, spec |-> s1], [obj |-> o2, spec |-> s1]>>
          [] c = c2 -> <<[obj |-> o1, spec |-> s2], Bad>>]

MCSum64 == [c \in {c1, c2} |-> CASE c = c1 -> 1 [] c = c2 -> 2]
==============================================================================
