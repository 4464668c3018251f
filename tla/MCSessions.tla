----------------------------- MODULE MCSessions -----------------------------
(* SessionQuality for TLC: requests and sessions only name each other;        *)
(* pictures that are fine, soft, of another tone, or clipped and soft.        *)
EXTENDS SessionQuality, TLC

Symmetry == Permutations(Handler) \cup Permutations(Session)

Looks == {Before, [Before EXCEPT !.detail = 0], [Before EXCEPT !.tone = 1],
          [clip |-> 2, detail |-> 0, tone |-> 0]}
=============================================================================
