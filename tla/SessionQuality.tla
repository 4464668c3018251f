---------------------------- MODULE SessionQuality ----------------------------
(***************************************************************************)
(* Quality assessments of a session's result.  A request may ask the local *)
(* judge first and wait for its answer; it measures the picture, gathers   *)
(* the evidence and calibrates against the golden seed, reading picture    *)
(* and seed anew each time.  A proposal counts the failures of assessments *)
(* it is given.                                                            *)
(***************************************************************************)
EXTENDS SessionIntake, QualityVerdict

CONSTANTS
  Tool,              \* "compare" or "replaceBg"
  Look,              \* bound: pictures, as their metrics show them
  MaxAssessments     \* bound: assessments in one behaviour

ASSUME QualityAssumption == Look \subseteq Picture /\ MaxAssessments \in Nat

VARIABLES
  result,            \* the result's file: which picture it is and its look
  seeded,            \* whether the golden seed is there and can be read
  assessments, proposals

quality == <<result, seeded, assessments, proposals>>

\* What the user had before, when it is given as a reference.
Before == [clip |-> 0, detail |-> 1, tone |-> 0]

ProfileNow(tool) == IF seeded THEN Profile(tool) ELSE NoProfile

\* What a judge may say; one that passes nothing is sure of it and faults no axis.
Answer == {a \in [verdict : {"fail", "suspicious", "pass"}, confidence : {65, 95},
                  axes : {[x \in Axis |-> "good"],
                          [x \in Axis |-> IF x = "mask_boundary" THEN "failing" ELSE "good"],
                          [x \in Axis |-> IF x = "subject_preservation" THEN "doubtful" ELSE "good"]}] :
             a.verdict = "pass" \/ (a.confidence = 95 /\ \A x \in Axis : a.axes[x] = "good")}

\* POST /quality-automation/assess: with the judge's signal, with a judge to be run, or
\* with none.  A packet of evidence may be given: its tool, which nobody compares with the
\* request's, is then the one that counts.
BeginAssess(h) ==
  /\ Seen({"assess"}) /\ requests < MaxRequests /\ Len(assessments) < MaxAssessments
  /\ \A g \in Handler : call[g].kind # "assess"
  /\ \E tool \in Tool, given, masked, packed \in BOOLEAN, ran \in BOOLEAN, judge \in Answer \cup {NoJudge} :
       /\ ran => judge = NoJudge
       /\ packed => ~masked
       /\ Begins(h, [Idle EXCEPT !.kind = "assess",
                    !.rest = (IF ran THEN <<"show", "answer">> ELSE <<>>) \o <<"measure", "gather", "calibrate">>,
                    !.ask = [tool |-> tool, packed |-> packed, masked |-> masked,
                             reference |-> IF given THEN Before ELSE NoPicture],
                    !.hold = [judge |-> judge, shown |-> 0, of |-> 0,
                              metrics |-> NoPicture, missing |-> {}]])
  /\ UNCHANGED <<sfiles, delivery, intake, quality, changes>>

\* build_qwen_judge_signal sends the picture; a file that has gone ends the request.
ShowJudge(h) ==
  /\ At(h, "show")
  /\ IF result.of = 0 THEN Fails(h) ELSE Goes(h, [call[h] EXCEPT !.hold.shown = result.of])
  /\ UNCHANGED <<sfiles, delivery, intake, quality, scounts>>

\* The judge answers, or not, or nothing that can be read.
JudgeAnswers(h) ==
  /\ At(h, "answer")
  /\ \/ Fails(h)
     \/ \E a \in Answer, odd \in BOOLEAN :
          Goes(h, [call[h] EXCEPT !.hold.judge = Normalized(IF odd THEN [a EXCEPT !.verdict = "odd"] ELSE a)])
  /\ UNCHANGED <<sfiles, delivery, intake, quality, scounts>>

Measure(h) ==
  /\ At(h, "measure")
  /\ IF result.of = 0 THEN Fails(h)
     ELSE Goes(h, [call[h] EXCEPT !.hold.metrics = result.look, !.hold.of = result.of])
  /\ UNCHANGED <<sfiles, delivery, intake, quality, scounts>>

\* A packet that is given says of itself what it lacks: here, nothing.
Gather(h) ==
  /\ At(h, "gather")
  /\ IF result.of = 0 /\ ~call[h].ask.packed THEN Fails(h)
     ELSE Goes(h, [call[h] EXCEPT !.hold.missing =
            IF call[h].ask.packed THEN {}
            ELSE MissingEvidence(call[h].ask.reference, call[h].ask.masked, ProfileNow(call[h].ask.tool))])
  /\ UNCHANGED <<sfiles, delivery, intake, quality, scounts>>

\* apply_golden_calibration reads the seed again; then the assessment is written, under a
\* name of its own.
Calibrate(h) ==
  /\ At(h, "calibrate")
  /\ LET c       == call[h].hold
         profile == ProfileNow(call[h].ask.tool)
     IN  assessments' = Append(assessments, Assessment(profile, c.judge, c.missing, MetricSignals(c.metrics, call[h].ask.reference)))
  /\ Fails(h)
  /\ UNCHANGED <<sfiles, delivery, intake, result, seeded, proposals, scounts>>

\* build_quality_tuning_proposal: assessments are given whole or by path; one may be
\* given twice and then counts twice.  It shares nothing with an assessment under way
\* and so comes after one; one that is given none waits whenever it comes.
Propose(h) ==
  /\ assessments # <<>> /\ \A g \in Handler : call[g].kind = "none"
  /\ requests < MaxRequests /\ requests' = requests + 1
  /\ "propose" \in kinds
  /\ \E n \in 0..2 : \E given \in [1..n -> DOMAIN assessments] :
       LET tags == UNION {assessments[given[i]].tags : i \in 1..n}
       IN  proposals' = Append(proposals,
             [waits    |-> n = 0,
              clusters |-> [t \in tags |-> Cardinality({i \in 1..n : t \in assessments[given[i]].tags})],
              targets  |-> {Target(t) : t \in tags}])
  /\ UNCHANGED <<sfiles, delivery, intake, result, seeded, assessments, kinds, call, changes>>

\* The result is made anew or removed, the seed is damaged or put back, while somebody
\* may be reading them.
ResultMoves ==
  /\ \E h \in Handler : call[h].kind = "assess"
  /\ changes < MaxChanges /\ changes' = changes + 1
  /\ \/ /\ \E look \in Look : result' \in {[of |-> result.of + 1, look |-> look], [of |-> 0, look |-> NoPicture]}
        /\ UNCHANGED seeded
     \/ seeded' = ~seeded /\ UNCHANGED result
  /\ call' = [h \in Handler |-> [call[h] EXCEPT !.solo = call[h].kind = "none"]]
  /\ UNCHANGED <<sfiles, delivery, intake, assessments, proposals, kinds, requests>>

ServeQuality(h) ==
  BeginAssess(h) \/ ShowJudge(h) \/ JudgeAnswers(h) \/ Measure(h) \/ Gather(h) \/ Calibrate(h) \/ Propose(h)

QualityInit ==
  /\ IntakeInit
  /\ \E look \in Look : result = [of |-> 1, look |-> look]
  /\ seeded \in BOOLEAN
  /\ Seen({"assess"}) \/ (seeded /\ result.look = Before)
  /\ assessments = <<>> /\ proposals = <<>>

QualityStep ==
  \/ \E h \in Handler : ServeQuality(h)
  \/ ResultMoves
  \/ IntakeStep /\ UNCHANGED quality

qvars == <<ivars, quality>>

SessionSpec == QualityInit /\ [][QualityStep]_qvars

-----------------------------------------------------------------------------
\* Whatever was not passed, was passed with little confidence, or was adjusted by the
\* golden calibration waits for a person's approval.
ApprovalsAsPromised ==
  \A i \in DOMAIN assessments :
    LET a == assessments[i]
    IN  a.verdict # "pass" \/ a.confidence < 70 \/ a.adjusted => a.approval

\* With the golden seed there, what is passed without a person was passed by the judge,
\* clips nothing and lost nothing to its reference, and neither the subject nor, where the
\* background is replaced, the mask's boundary is weak.  If nothing overlapped the request, the judge it ran saw that picture.
AcceptedPassIsClean ==
  [][\A h \in Handler : Calibrate(h) /\ seeded =>
       LET a == assessments'[Len(assessments')]
           c == call[h].hold
       IN  ~a.approval =>
             /\ c.judge.verdict = "pass" /\ c.judge.confidence >= 70
             /\ c.judge.axes["subject_preservation"] \notin {"failing", "doubtful"}
             /\ call[h].ask.tool = "replaceBg" => c.judge.axes["mask_boundary"] \notin {"failing", "doubtful"}
             /\ c.metrics.clip = 0 /\ c.metrics.detail > 0
             /\ call[h].ask.reference # NoPicture => c.metrics.detail >= Before.detail /\ c.metrics.tone = Before.tone
             /\ ~call[h].ask.packed /\ call[h].ask.tool = "replaceBg" => call[h].ask.masked
             /\ call[h].solo => c.of = result.of /\ c.shown \in {0, c.of}]_qvars
=============================================================================
