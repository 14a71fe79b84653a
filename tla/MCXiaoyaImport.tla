---------------------------- MODULE MCXiaoyaImport ----------------------------
(***************************************************************************)
(* Two directories with one item and a loose one with two.  The state is   *)
(* saved after every second directory, and a request takes two items.      *)
(***************************************************************************)
EXTENDS XiaoyaImport

CONSTANTS d1, d2, d3, i1, i2

MCItems == [d \in Dirs |-> IF d = d3 THEN {i1, i2} ELSE {d}]

\* The directories with one item are interchangeable.
Symmetry == Permutations({d1, d2})

\* One directory changes on the site.
OneChange == Cardinality({d \in Dirs : site[d] > 0}) <= 1
=============================================================================
