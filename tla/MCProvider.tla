----------------------------- MODULE MCProvider -----------------------------
(***************************************************************************)
(* ProviderLifecycle for TLC.                                              *)
(***************************************************************************)
EXTENDS ProviderLifecycle, TLC
=============================================================================
