------------------------------- MODULE MCPod -------------------------------
(* PodBootstrap for TLC: requests only name each other.                      *)
EXTENDS PodBootstrap, TLC

Symmetry == Permutations(Handler)
=============================================================================
