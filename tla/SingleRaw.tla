------------------------------ MODULE SingleRaw ------------------------------
(***************************************************************************)
(* What the SingleRaw engine makes of one RAW file, as far as the session  *)
(* that keeps it can tell: from the sensor if a backend decodes it, else   *)
(* from a preview, else nothing but a plan; and DreamISP after it.         *)
(***************************************************************************)
\* build_single_raw_mode_policy.
ResolvedMode(preset, preference) ==
  CASE preference = "hq" -> "hq"
    [] preference = "safe" \/ (preference # "hq" /\ preset = "safe") -> "safe"
    [] OTHER -> "fast"

\* build_single_raw_fallback_decision: which preview the user starts from.
Variant(mode, source) ==
  CASE mode = "safe" /\ source = "preview" -> "preview_holdout"
    [] mode = "safe" /\ source = "sensor" -> "guarded_preview"
    [] mode = "hq" -> "recovery_preview"
    [] OTHER -> IF source = "sensor" THEN "runtime_preview" ELSE "guarded_preview"

Planned == [status |-> "planned", source |-> "none", variant |-> "none", baseline |-> FALSE]

\* materialize_single_raw_sensor_decode: everything from the sensor, or nothing.
SensorDecoded(mode) ==
  [status |-> "sensor_decoded", source |-> "sensor", variant |-> Variant(mode, "sensor"), baseline |-> mode = "hq"]

PreviewBootstrapped(mode) ==
  [status |-> "preview_bootstrapped", source |-> "preview", variant |-> Variant(mode, "preview"), baseline |-> mode = "hq"]

\* materialize_single_raw_foundation_plan.
Materialized(mode, decodes, hasPreview) ==
  CASE decodes -> SensorDecoded(mode)
    [] ~decodes /\ hasPreview -> PreviewBootstrapped(mode)
    [] ~decodes /\ ~hasPreview -> Planned

\* DreamISP is handed what has a scene-linear master.
HandsOver(single) == single.source # "none"
=============================================================================
