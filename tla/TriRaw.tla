------------------------------- MODULE TriRaw -------------------------------
(***************************************************************************)
(* What the TriRaw engine makes of one bracket, as far as the job that     *)
(* orders it can tell: a foundation of plan and report, then a fused       *)
(* preview if every frame can be looked at, and whether the report says so.*)
(***************************************************************************)
EXTENDS Naturals

CONSTANTS
  Frames             \* frames of a bracket

\* build_tri_raw_foundation_plan refuses any other bracket.
ASSUME BracketAssumption == Frames \in {3, 9}

\* What a frame can be looked at by: the picture beside it, else the RAW file.
Look == {"companion", "decode", "nothing"}

\* _load_preview_proxy.
Proxy(companion, decodes) ==
  CASE companion -> "companion" [] ~companion /\ decodes -> "decode" [] OTHER -> "nothing"

\* The brackets that come in: all frames alike, but for one that cannot be looked at.
Brackets == {[f \in 1..Frames |-> Proxy(look = "companion", look = "decode")] : look \in Look}
            \cup {[f \in 1..Frames |-> Proxy(f # odd, FALSE)] : odd \in 1..Frames}

\* build_tri_raw_foundation_plan and materialize_tri_raw_foundation_plan: whatever
\* was fused before, plan and report start anew.
Foundation == "foundation_written"

\* materialize_tri_raw_preview_runtime, when nothing raises.
Fused(bracket) ==
  IF \A f \in 1..Frames : bracket[f] # "nothing" THEN "preview_fused" ELSE "nothing"
=============================================================================
