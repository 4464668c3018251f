--------------------------- MODULE MCStudioQueue ---------------------------
(***************************************************************************)
(* StudioQueue for TLC.  Embedded workers are interchangeable, and so are  *)
(* external ones; the runs that check safety only use that.                *)
(***************************************************************************)
EXTENDS StudioPromise, TLC

Symmetry == Permutations(Thread) \cup Permutations(Process) \cup Permutations(Handler)
=============================================================================
