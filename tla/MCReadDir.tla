----------------------------- MODULE MCReadDir ------------------------------
(***************************************************************************)
(* Instances of ReadDir for TLC.  No symmetry: liveness is checked.        *)
(***************************************************************************)
EXTENDS ReadDir
=============================================================================
