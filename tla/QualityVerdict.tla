---------------------------- MODULE QualityVerdict ----------------------------
(***************************************************************************)
(* How the quality automation judges a picture: what the metrics show, what *)
(* the judge says, and the golden profile of the tool, fused into a verdict *)
(* that is never better than any of the three.  Confidences are in percent. *)
(***************************************************************************)
EXTENDS Integers, FiniteSets, FiniteSetsExt

\* What the metrics tell of a picture: clipping from none to critical, how much detail
\* there is, and its tone.
Picture == [clip : 0..2, detail : 0..2, tone : 0..1]

NoPicture == [clip |-> 0, detail |-> -1, tone |-> 0]

When(condition, tag, severity) == IF condition THEN {[tag |-> tag, severity |-> severity]} ELSE {}

\* Seeded fault: the reference is not looked at.
MetricSignalsAlone(p, reference) ==
  When(p.clip > 0, "highlight_clip", IF p.clip = 2 THEN "critical" ELSE "warning")
    \cup When(p.detail = 0, "low_detail", "warning")

\* _metric_signals.
MetricSignals(p, reference) ==
  When(p.clip > 0, "highlight_clip", IF p.clip = 2 THEN "critical" ELSE "warning")
    \cup When(p.detail = 0, "low_detail", "warning")
    \cup IF reference = NoPicture THEN {}
         ELSE When(p.detail < reference.detail, "detail_loss", "critical")
                \cup When(p.tone # reference.tone, "color_shift", "warning")

-----------------------------------------------------------------------------
\* The judge: a verdict, a confidence, and how the axes stand.
Axis  == {"subject_preservation", "mask_boundary"}
Score == {"unknown", "failing", "doubtful", "good"}

NoJudge == [verdict |-> "none", confidence |-> 0, axes |-> [a \in Axis |-> "unknown"]]

\* _normalize_signal: an answer without a known verdict is suspicious.
Normalized(answer) ==
  [answer EXCEPT !.verdict = IF @ \in {"fail", "suspicious", "pass"} THEN @ ELSE "suspicious"]

\* _qwen_score_tuning_tags; a doubtful axis is above its thresholds.
ScoreTags(judge) ==
  {IF a = "mask_boundary" THEN "mask_boundary_failure" ELSE "subject_damage" : a \in {b \in Axis : judge.axes[b] = "failing"}}

-----------------------------------------------------------------------------
\* The golden profiles of the seed.
NoProfile == [guarded |-> {}, required |-> {}, penalty |-> [highlight_clip |-> 0, other |-> 0], cap |-> 100]

\* Seeded fault: no tool guards the mask's boundary.
ProfileOfSubjects(tool) ==
  IF tool = "replaceBg"
  THEN [guarded |-> {"subject_preservation"}, required |-> {"mask_evidence", "golden_context"},
        penalty |-> [warning |-> 8, critical |-> 18, color_shift |-> 10], cap |-> 68]
  ELSE [guarded |-> {"subject_preservation"}, required |-> {"golden_context"},
        penalty |-> [warning |-> 8, critical |-> 18, highlight_clip |-> 12, detail_loss |-> 16, color_shift |-> 10], cap |-> 72]

\* _select_golden_profile.
Profile(tool) ==
  IF tool = "replaceBg"
  THEN [guarded |-> Axis, required |-> {"mask_evidence", "golden_context"},
        penalty |-> [warning |-> 8, critical |-> 18, color_shift |-> 10], cap |-> 68]
  ELSE [guarded |-> {"subject_preservation"}, required |-> {"golden_context"},
        penalty |-> [warning |-> 8, critical |-> 18, highlight_clip |-> 12, detail_loss |-> 16, color_shift |-> 10], cap |-> 72]

\* build_judge_evidence_packet: what there is no evidence of.
MissingEvidence(reference, masked, golden) ==
  (IF reference = NoPicture THEN {"reference_image"} ELSE {})
    \cup (IF masked THEN {} ELSE {"mask_evidence"})
    \cup (IF golden = NoProfile THEN {"golden_context"} ELSE {})

Rank(verdict) == CASE verdict = "pass" -> 0 [] verdict = "suspicious" -> 1 [] verdict = "fail" -> 2

\* _worse_verdict.
Worst(verdicts) == CHOOSE v \in verdicts : \A w \in verdicts : Rank(w) <= Rank(v)

Penalty(profile, s) == profile.penalty[IF s.tag \in DOMAIN profile.penalty THEN s.tag ELSE s.severity]

\* apply_golden_calibration: the judge's verdict can only get worse.  A profile that is
\* not there leaves it alone, a judge that is not there leaves it suspicious.
Calibrated(profile, judge, missing, signals) ==
  LET weak     == {a \in profile.guarded : judge.axes[a] \in {"failing", "doubtful"}}
      failing  == {a \in profile.guarded : judge.axes[a] = "failing"}
      critical == {s \in signals : s.severity = "critical"}
      lacks    == profile.required \cap missing # {}
      lowered  == judge.confidence - MapThenSumSet(LAMBDA s : Penalty(profile, s), signals)
      left     == IF lowered < 0 THEN 0 ELSE lowered
  IN  CASE profile = NoProfile -> [applied |-> FALSE, verdict |-> "none", confidence |-> 100, tags |-> {}, adjusted |-> FALSE]
        [] profile # NoProfile /\ judge = NoJudge ->
             [applied |-> TRUE, verdict |-> "suspicious", confidence |-> 0, tags |-> {"qwen_judge_missing"}, adjusted |-> TRUE]
        [] profile # NoProfile /\ judge # NoJudge ->
             [applied |-> TRUE,
              verdict |-> Worst({judge.verdict}
                                  \cup (IF weak # {} \/ critical # {} \/ lacks THEN {"suspicious"} ELSE {})
                                  \cup (IF failing # {} THEN {"fail"} ELSE {})),
              confidence |-> IF lacks /\ left > profile.cap THEN profile.cap ELSE left,
              tags |-> (IF weak # {} THEN {"below_golden"} ELSE {}) \cup (IF failing # {} THEN {"golden_fail"} ELSE {})
                         \cup (IF critical # {} THEN {"golden_guard"} ELSE {}) \cup (IF lacks THEN {"missing_required_evidence"} ELSE {}),
              adjusted |-> weak # {} \/ signals # {} \/ lacks]

\* Seeded fault: warnings of the metrics do not hold a pass back.
VerdictDespiteWarnings(signals, judge, golden) ==
  LET critical == Cardinality({s \in signals : s.severity = "critical"})
  IN  IF "fail" \in {golden.verdict, judge.verdict} \/ critical >= 2 THEN "fail"
      ELSE IF "suspicious" \in {golden.verdict, judge.verdict} \/ critical = 1 THEN "suspicious"
      ELSE "pass"

\* _verdict.
Verdict(signals, judge, golden) ==
  LET critical == Cardinality({s \in signals : s.severity = "critical"})
  IN  IF "fail" \in {golden.verdict, judge.verdict} \/ critical >= 2 THEN "fail"
      ELSE IF "suspicious" \in {golden.verdict, judge.verdict} \/ signals # {} THEN "suspicious"
      ELSE "pass"

\* build_quality_assessment: who has to approve, and how often it may be tried again.
Assessment(profile, judge, missing, signals) ==
  LET golden  == Calibrated(profile, judge, missing, signals)
      verdict == Verdict(signals, judge, golden)
  IN  [verdict    |-> verdict,
       golden     |-> golden.applied,
       adjusted   |-> golden.adjusted,
       confidence |-> golden.confidence,
       approval   |-> verdict # "pass" \/ (judge # NoJudge /\ judge.confidence < 70) \/ golden.confidence < 70,
       attempts   |-> IF verdict = "fail" THEN 2 ELSE 1,
       tags       |-> {s.tag : s \in signals} \cup golden.tags \cup ScoreTags(judge)]

\* _suggested_change: what a proposal would have changed, by a person.
Target(tag) ==
  CASE tag \in {"highlight_clip"} -> "metric_threshold"
    [] tag \in {"detail_loss", "low_detail"} -> "preset"
    [] tag \in {"color_shift"} -> "prompt"
    [] tag \in {"mask_boundary_failure", "subject_damage"} -> "workflow"
    [] OTHER -> "rubric"
=============================================================================
