----------------------------- MODULE MCImageCache -----------------------------
(***************************************************************************)
(* Two images that do not fit together: one of size 1 and one of size 2,   *)
(* under a quota of 2.  A temporary file counts against the quota too, so  *)
(* one request alone can bring the directory over it.                      *)
(***************************************************************************)
EXTENDS ImageCache, TLC

CONSTANTS i1, i2

MCSize == [i \in Images |-> IF i = i2 THEN 2 ELSE 1]

\* Handlers are interchangeable.
Symmetry == Permutations(Requests)
=============================================================================
