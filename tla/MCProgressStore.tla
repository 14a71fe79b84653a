--------------------------- MODULE MCProgressStore ---------------------------
(***************************************************************************)
(* One pair of user and item on which two calls or reports, two buffered   *)
(* positions and their flushes meet; two failed attempts of the shutdown's *)
(* flush are its limit here, three in the code.                            *)
(***************************************************************************)
EXTENDS ProgressStore
=============================================================================
