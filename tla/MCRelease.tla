------------------------------ MODULE MCRelease ------------------------------
(***************************************************************************)
(* ReleaseChain for TLC.                                                   *)
(***************************************************************************)
EXTENDS ReleaseChain, TLC

Symmetry == Permutations(Handler)
=============================================================================
