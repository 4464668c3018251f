---------------------------- MODULE ReleaseChain ----------------------------
(***************************************************************************)
(* From the benchmark's evidence to the decision about the default engine. *)
(* The requests of routes_rawprep.py's benchmark section, and the scripts  *)
(* that do the same, each write several files one after the other: the     *)
(* sample library, measurements, record, report, RunPod smoke, gate,       *)
(* review, packet, decision.  Requests overlap file by file, and somebody  *)
(* may change the evidence or the pod's health meanwhile.                  *)
(*                                                                         *)
(* A request is the list of steps it has still to take; what it holds in   *)
(* memory between two of them is in its record.                            *)
(***************************************************************************)
EXTENDS BenchmarkLibrary, Sequences

CONSTANTS
  Handler,           \* requests served at the same time
  Kind,              \* the kinds of request there are in this instance
  Part,              \* what packets are asked to bring along in this instance: "review", "gate", "smoke", "none"
  MaxRequests,       \* bound: requests
  MaxChanges         \* bound: crashes, and changes to the evidence from outside

ASSUME ReleaseAssumption ==
  /\ Kind \subseteq {"sync", "scaffold", "single", "tri", "measure", "bridge", "packet", "review", "decision"}
  /\ Part \subseteq {"review", "gate", "smoke", "none"}
  /\ MaxRequests \in Nat /\ MaxChanges \in Nat

VARIABLES
  pod,               \* the pod's bootstrap summary and health checks, and what its bootstrap writes next
  art,               \* the artifacts in the benchmark's output directory
  call,              \* the requests
  stood,             \* which evidence stood at some time since nobody was at work
  requests, changes

counts == <<requests, changes>>
rvars  == <<library, pod, art, call, stood, counts>>

\* A manifest that has been put together and not written yet.
NoDraft == [scope |-> "single", text |-> NoManifest]

Idle == [kind |-> "none", rest |-> <<>>, todo |-> {}, batch |-> {}, hold |-> NoPath,
         preserve |-> FALSE, draft |-> NoDraft, status |-> "none", ready |-> FALSE, foundation |-> "none",
         smoke |-> "none", report |-> "none", decision |-> "none", solo |-> TRUE]

NoArtifacts ==
  [record |-> "missing", report |-> "missing", smoke |-> "missing", gate |-> FALSE,
   review |-> [ready |-> FALSE, report |-> "none", smoke |-> "none"],
   packet |-> [benchmark |-> "none", foundation |-> "none"], decision |-> "none"]

-----------------------------------------------------------------------------
\* The RunPod smoke.

Pod == [summary : {"missing", "failing", "passing"}, rawprep : {"missing", "present"},
        single : {"missing", "failing", "unsampled", "undecoded", "decoded"},
        boot : {"none", "rawprep", "single", "summary"}]

NoEvidence == [summary |-> "missing", rawprep |-> "missing", single |-> "missing", boot |-> "none"]

\* Blockers of the smoke; a raw preparation check that is not ok only warns.
SmokeBlockers ==
  (IF pod.summary = "missing" THEN {"summary_missing"} ELSE {}) \cup
  (IF pod.summary = "failing" THEN {"check_failed"} ELSE {}) \cup
  (IF pod.rawprep = "missing" THEN {"rawprep_missing"} ELSE {}) \cup
  (CASE pod.single = "missing"   -> {"single_missing"}
     [] pod.single = "failing"   -> {"single_not_ok"}
     [] pod.single = "unsampled" -> {"sample_missing"}
     [] pod.single = "undecoded" -> {"sample_failed"}
     [] pod.single = "decoded"   -> {})

\* build_rawprep_benchmark_runpod_smoke.
SmokeStatus ==
  CASE SmokeBlockers = {} -> "passed"
    [] SmokeBlockers = {"sample_missing"} -> "bootstrap_only"
    [] SmokeBlockers # {} /\ SmokeBlockers \subseteq {"summary_missing", "rawprep_missing", "single_missing"} -> "missing"
    [] OTHER -> "failed"

\* The gate's blockers that are about the benchmark; the others are the smoke's.
BenchmarkBlocked ==
  \/ art.record # "measured" \/ art.report # "measured"
  \/ FoundationStatus # "measured_ready"

\* Seeded fault: the smoke is looked at first.
DecisionSmokeFirst(packet, review) ==
  CASE review.smoke # "passed" -> "hold_runpod_smoke_pending"
    [] OTHER -> IF packet.benchmark # "measured" \/ review.report # "measured"
                THEN "benchmark_evidence_incomplete"
                ELSE IF review.ready THEN "ready_for_default_review" ELSE "hold_review_pending"

\* _build_default_decision.
Decision(packet, review) ==
  CASE \/ packet.benchmark # "measured" \/ packet.foundation # "measured_ready"
       \/ review.report # "measured" -> "benchmark_evidence_incomplete"
    [] OTHER -> IF review.smoke # "passed" THEN "hold_runpod_smoke_pending"
                ELSE IF review.ready THEN "ready_for_default_review" ELSE "hold_review_pending"

-----------------------------------------------------------------------------
\* The steps each request consists of.

Benchmark == <<"count", "record", "report">>
Gate      == <<"smoke", "assess", "look", "gate">>
Review    == <<"smoke">> \o Gate \o <<"judge", "review">>

\* write_rawprep_benchmark_packet: the parts that were asked for.
Packet(part) ==
  Benchmark \o <<"foundation">>
  \o (CASE part = "review" -> Review [] part = "gate" -> Gate
        [] part = "smoke" -> <<"smoke">> [] part = "none" -> <<>>)
  \o <<"packet">>

\* Seeded fault: a decision is made from the packet and the review that are there.
ProgramsFromFiles(kind) ==
  CASE kind = "decision" -> {<<"weigh", "decision">>}
    [] kind = "packet"   -> {Packet("review")}
    [] OTHER             -> {Review}

Programs(kind) ==
  CASE kind = "sync"     -> {<<"empty", "single", "manifest", "stub", "tri", "manifest", "stub">>}
    [] kind = "scaffold" -> {<<scope, "manifest">> \o stubs : scope \in Scope, stubs \in {<<>>, <<"stub">>}}
    [] kind \in {"single", "tri"} -> {<<"run">>, <<"run">> \o Benchmark}
    [] kind = "measure"  -> {<<"batch">>}
    [] kind = "bridge"   -> {<<"bridge">>}
    [] kind = "packet"   -> {<<"bridge", "batch">> \o Packet(part) : part \in Part}
    [] kind = "review"   -> {Review}
    [] kind = "decision" -> {Packet("review") \o <<"weigh", "decision">>}

\* The samples a request is about: what the plan lists, what its manifest lists
\* now, what it was given, or what the report scaffold finds.
Chosen(kind, given) ==
  CASE kind = "sync" -> {Sample}
    [] kind = "single" -> {{e.id : e \in {e \in manifest["single"].entries : e.id \in given /\ RunSources(e)}}}
    [] kind = "tri"    -> {{e.id : e \in {e \in manifest["tri"].entries : e.id \in given /\ RunSources(e)}}}
    [] kind \in {"bridge", "packet"} -> {{}} \cup {ScaffoldEntries(existing) : existing \in BOOLEAN}
    [] OTHER -> {{}}

Begin(h) ==
  /\ call[h].kind = "none" /\ requests < MaxRequests
  /\ \E kind \in Kind, given \in SUBSET Sample : \E todo \in Chosen(kind, given) :
     \E program \in Programs(kind), preserve \in IF kind \in {"sync", "scaffold"} THEN BOOLEAN ELSE {FALSE} :
       /\ kind \notin {"measure", "packet", "single", "tri"} => given = {}
       /\ kind = "packet" => given = {} \/ (todo = {} /\ given = Single)
       /\ kind \in {"single", "tri"} => given = Sample /\ manifest[kind].exists
       /\ call' = [g \in Handler |->
            IF g = h THEN [Idle EXCEPT !.kind = kind, !.rest = program, !.todo = todo,
                                       !.batch = given, !.preserve = preserve,
                                       !.solo = \A f \in Handler : call[f].kind = "none"]
                     ELSE [call[g] EXCEPT !.solo = FALSE]]
  /\ requests' = requests + 1
  /\ UNCHANGED <<library, pod, art, changes>>

At(h, step) == call[h].rest # <<>> /\ Head(call[h].rest) = step

\* The request goes on, or is over, with c in its memory.
Goes(h, c) ==
  LET rest == Tail(call[h].rest)
  IN  call' = [call EXCEPT ![h] = IF rest = <<>> THEN Idle ELSE [c EXCEPT !.rest = rest]]

Stays(h, c) == call' = [call EXCEPT ![h] = c]

\* A file that cannot be read, or is not there, ends the request.
Fails(h) == call' = [call EXCEPT ![h] = Idle] /\ UNCHANGED <<library, pod, art, counts>>

-----------------------------------------------------------------------------
\* The library's steps.

\* materialize_rawprep_benchmark_sample_library: a sample's directory is removed
\* and filled again; a source that is missing ends the synchronization.
Empty(h) ==
  /\ At(h, "empty")
  /\ IF call[h].todo = {} THEN Goes(h, call[h]) /\ UNCHANGED raw
     ELSE \E s \in IF call[h].todo \cap Single # {} THEN call[h].todo \cap Single ELSE call[h].todo :
            /\ raw' = [raw EXCEPT ![s] = "none"]
            /\ \/ Stays(h, [call[h] EXCEPT !.todo = @ \ {s}, !.hold = s, !.rest = <<"copy">> \o @])
               \/ Stays(h, Idle)
  /\ UNCHANGED <<manifest, result, reports, pod, art, counts>>

Copy(h) ==
  /\ At(h, "copy")
  /\ raw' = [raw EXCEPT ![call[h].hold] = "right"]
  /\ Goes(h, [call[h] EXCEPT !.hold = NoPath])
  /\ UNCHANGED <<manifest, result, reports, pod, art, counts>>

\* build_rawprep_benchmark_scaffold: what is found is put together with the manifest
\* on file, the manifest is written, whatever has become of it meanwhile, then a stub
\* for every sample found that has no result file yet.
Scaffold(h, scope) ==
  /\ At(h, scope)
  /\ Goes(h, [call[h] EXCEPT !.todo = {e.id : e \in Discovered(scope)},
                             !.draft = [scope |-> scope, text |-> Merged(scope, call[h].preserve)]])
  /\ UNCHANGED <<library, pod, art, counts>>

WriteManifest(h) ==
  /\ At(h, "manifest")
  /\ manifest' = [manifest EXCEPT ![call[h].draft.scope] = call[h].draft.text]
  /\ Goes(h, [call[h] EXCEPT !.draft = NoDraft])
  /\ UNCHANGED <<raw, result, reports, pod, art, counts>>

Stub(h) ==
  /\ At(h, "stub")
  /\ LET c == call[h]
     IN  IF c.hold # NoPath
           THEN /\ result' = [result EXCEPT ![c.hold] = [status |-> "pending", id |-> c.hold]]
                /\ Stays(h, [c EXCEPT !.hold = NoPath])
           ELSE /\ UNCHANGED result
                /\ IF c.todo = {} THEN Goes(h, c)
                   ELSE \E s \in c.todo :
                          Stays(h, [c EXCEPT !.todo = @ \ {s},
                                             !.hold = IF result[s].status = "absent" THEN s ELSE NoPath])
  /\ UNCHANGED <<raw, manifest, reports, pod, art, counts>>

\* run_rawprep_benchmark_single_raw_samples: a sample that does not materialize, or
\* whose measurement cannot be written, is an issue, and the run goes on.
RunSingle(h) ==
  /\ At(h, "run") /\ call[h].kind = "single" /\ call[h].todo # {}
  /\ \E s \in call[h].todo, p \in Preference :
       /\ Stays(h, [call[h] EXCEPT !.todo = @ \ {s}])
       /\ \/ WriteMeasurement(s, "measured") /\ reports' = [reports EXCEPT ![s] = @ \cup {p}]
          \/ UNCHANGED <<result, reports>>
  /\ UNCHANGED <<raw, manifest, pod, art, counts>>

\* run_rawprep_benchmark_tri_raw_samples: a runtime without previews is an issue, a
\* measurement that cannot be written ends the run.
RunTri(h) ==
  /\ At(h, "run") /\ call[h].kind = "tri" /\ call[h].todo # {}
  /\ UNCHANGED <<raw, manifest, reports, pod, art, counts>>
  /\ \E s \in call[h].todo :
       \/ WriteMeasurement(s, "measured")
          /\ IF WriteRaises(s) THEN Stays(h, Idle) ELSE Stays(h, [call[h] EXCEPT !.todo = @ \ {s}])
       \/ UNCHANGED result /\ Stays(h, [call[h] EXCEPT !.todo = @ \ {s}])

RunDone(h) ==
  /\ At(h, "run") /\ call[h].todo = {}
  /\ Goes(h, call[h])
  /\ UNCHANGED <<library, pod, art, counts>>

\* write_rawprep_benchmark_measurement_batch_from_single_raw_report: a report
\* without a timing is an issue.
Bridge(h) ==
  /\ At(h, "bridge")
  /\ IF call[h].todo = {} THEN Goes(h, call[h]) /\ UNCHANGED result
     ELSE \E s \in call[h].todo :
            /\ Stays(h, [call[h] EXCEPT !.todo = @ \ {s}])
            /\ WriteMeasurement(s, "measured") \/ UNCHANGED result
  /\ UNCHANGED <<raw, manifest, reports, pod, art, counts>>

\* write_rawprep_benchmark_measurement_batch, and one measurement.
Batch(h) ==
  /\ At(h, "batch")
  /\ IF call[h].batch = {} THEN Goes(h, call[h]) /\ UNCHANGED result
     ELSE \E s \in call[h].batch, status \in {"measured", "pending"} :
            /\ Stays(h, [call[h] EXCEPT !.batch = @ \ {s}])
            /\ WriteMeasurement(s, status)
  /\ UNCHANGED <<raw, manifest, reports, pod, art, counts>>

LibraryStep(h) ==
  \/ Empty(h) \/ Copy(h) \/ (\E scope \in Scope : Scaffold(h, scope)) \/ WriteManifest(h) \/ Stub(h)
  \/ RunSingle(h) \/ RunTri(h) \/ RunDone(h) \/ Bridge(h) \/ Batch(h)

-----------------------------------------------------------------------------
\* The chain's steps.

\* run_rawprep_benchmark computes both files before it writes the first.
Count(h) ==
  /\ At(h, "count")
  /\ IF Raises THEN Fails(h)
     ELSE Goes(h, [call[h] EXCEPT !.status = RecordStatus]) /\ UNCHANGED <<library, pod, art, counts>>

\* A step that writes the artifact of its own name.
Puts(h, name, value) ==
  /\ At(h, name)
  /\ art' = [art EXCEPT ![name] = value]
  /\ Goes(h, call[h])
  /\ UNCHANGED <<library, pod, counts>>

WriteRecord(h) == Puts(h, "record", call[h].status)
WriteReport(h) == Puts(h, "report", call[h].status)
WriteSmoke(h)  == Puts(h, "smoke", SmokeStatus)
WriteGate(h)   == Puts(h, "gate", call[h].ready)
WriteReview(h) == Puts(h, "review", [ready |-> call[h].ready, report |-> call[h].report, smoke |-> call[h].smoke])
WritePacket(h) == Puts(h, "packet", [benchmark |-> call[h].status, foundation |-> call[h].foundation])
WriteDecision(h) == Puts(h, "decision", call[h].decision)

ReadFoundation(h) ==
  /\ At(h, "foundation")
  /\ IF Raises THEN Fails(h)
     ELSE Goes(h, [call[h] EXCEPT !.foundation = FoundationStatus]) /\ UNCHANGED <<library, pod, art, counts>>

\* build_rawprep_benchmark_gate: foundation, record and report, and then the smoke,
\* which it does not take from the file.
Assess(h) ==
  /\ At(h, "assess")
  /\ IF Raises THEN Fails(h)
     ELSE Goes(h, [call[h] EXCEPT !.ready = ~BenchmarkBlocked]) /\ UNCHANGED <<library, pod, art, counts>>

Look(h) ==
  /\ At(h, "look")
  /\ Goes(h, [call[h] EXCEPT !.smoke = SmokeStatus, !.ready = @ /\ SmokeBlockers = {}])
  /\ UNCHANGED <<library, pod, art, counts>>

\* _build_release_review_from_gate: from the gate in memory and the report on file.
Judge(h) ==
  /\ At(h, "judge")
  /\ IF Raises THEN Fails(h)
     ELSE Goes(h, [call[h] EXCEPT !.report = art.report]) /\ UNCHANGED <<library, pod, art, counts>>

\* _load_decision_inputs: from the files, whoever wrote them last.
Weigh(h) ==
  /\ At(h, "weigh")
  /\ IF art.report = "missing" THEN Fails(h)
     ELSE /\ Goes(h, [call[h] EXCEPT !.decision = Decision(art.packet, art.review)])
          /\ UNCHANGED <<library, pod, art, counts>>

ChainStep(h) ==
  \/ Count(h) \/ WriteRecord(h) \/ WriteReport(h) \/ ReadFoundation(h)
  \/ WriteSmoke(h) \/ Assess(h) \/ Look(h) \/ WriteGate(h) \/ Judge(h) \/ WriteReview(h)
  \/ WritePacket(h) \/ Weigh(h) \/ WriteDecision(h)

-----------------------------------------------------------------------------
\* What happens outside of requests.

Disturb == call' = [h \in Handler |-> [call[h] EXCEPT !.solo = FALSE]]

\* What is changed after the last request is of no consequence.
Changes ==
  /\ changes < MaxChanges /\ changes' = changes + 1
  /\ requests < MaxRequests \/ \E h \in Handler : call[h].kind # "none"

\* Ways to write an entry by hand: without a result, with somebody's, with too few
\* or too many sources.
HandWritten(s) ==
  {[id |-> s, path |-> path, sources |-> Expected(s)] : path \in (Sample \ {s}) \cup {NoPath}}
  \cup {[id |-> s, path |-> s, sources |-> IF s \in Single THEN 0 ELSE 9]}

\* The library is edited by hand.
Edit ==
  /\ Changes
  /\ \/ \E s \in Sample, files \in {"none", "many"} : EditRaw(s, files)
     \/ \E s \in Sample : \E e \in HandWritten(s), measured \in BOOLEAN :
          (measured <=> e.path = NoPath) /\ EditEntry(s, e, measured)
  /\ Disturb
  /\ UNCHANGED <<pod, art, requests>>

\* The pod's evidence changes under every request.
Leaves(evidence) == pod' = evidence /\ Disturb /\ UNCHANGED <<library, art, requests>>

\* A bootstrap of the pod, which a forced one begins by removing the evidence.  From one
\* file to the next it may come to an end and leave what an earlier one has written.
BeginBoot ==
  /\ Changes /\ pod.boot = "none"
  /\ \E evidence \in {pod, NoEvidence} : Leaves([evidence EXCEPT !.boot = "rawprep"])

\* setup.sh checks the raw preparation, missing tools allowed, unless told not to.
CheckRawprep ==
  /\ pod.boot = "rawprep"
  /\ \E next \in {"single", "none"}, checked \in {"present", pod.rawprep} :
       Leaves([pod EXCEPT !.rawprep = checked, !.boot = next])
  /\ UNCHANGED changes

\* verify_bootstrap_runtime_contract: the check of the decoder names no sample; a bad
\* one is written before it ends the run, and a check that is not there ends it too.
CheckDecoder ==
  /\ pod.boot = "single"
  /\ \/ Leaves([pod EXCEPT !.single = "failing", !.boot = "none"])
     \/ \E next \in {"none"} \cup (IF pod.rawprep = "present" THEN {"summary"} ELSE {}) :
          Leaves([pod EXCEPT !.single = "unsampled", !.boot = next])
  /\ UNCHANGED changes

\* build_runpod_bootstrap_summary, at the end of the bootstrap or to refresh it later:
\* the checks are that both files are there and that the decoder is ready.
Summarize ==
  /\ \/ pod.boot = "summary" /\ UNCHANGED changes
     \/ pod.boot = "none" /\ Changes
  /\ Leaves([pod EXCEPT !.boot = "none", !.summary =
       IF pod.rawprep = "present" /\ pod.single \in {"unsampled", "undecoded", "decoded"} THEN "passing" ELSE "failing"])

\* The smoke: single_raw_healthcheck.py with a sample.  A decode that fails makes the
\* check a bad one: "undecoded", for which the smoke looks, is never left.
SmokeSample ==
  /\ Changes /\ pod.boot = "none"
  /\ \E outcome \in {"failing", "decoded"} : Leaves([pod EXCEPT !.single = outcome])

BootStep == BeginBoot \/ CheckRawprep \/ CheckDecoder \/ Summarize \/ SmokeSample

\* The result a request may be about to write.
Writing(h, s) ==
  \/ s = call[h].hold /\ At(h, "stub")
  \/ /\ s \in call[h].todo \cup call[h].batch
     /\ \E step \in {"run", "bridge", "batch"} : At(h, step)

\* The backend dies and is started again; a measurement or stub may be left half written.
Crash ==
  /\ Changes
  /\ call' = [h \in Handler |-> Idle]
  /\ \/ UNCHANGED result
     \/ \E h \in Handler : \E s \in Sample :
          /\ Writing(h, s) /\ (At(h, "stub") \/ HasTarget(s))
          /\ result' = [result EXCEPT ![IF At(h, "stub") THEN s ELSE Target(s)] =
                          [status |-> "torn", id |-> NoPath]]
  /\ UNCHANGED <<raw, manifest, reports, pod, art, requests>>

-----------------------------------------------------------------------------
Facts == (IF EvidenceComplete THEN {"benchmark"} ELSE {}) \cup
         (IF pod.summary = "passing" /\ pod.rawprep = "present" /\ pod.single = "decoded" THEN {"pod"} ELSE {})

\* The library is new, or measured by an earlier release.
Init ==
  /\ \/ /\ raw = [s \in Sample |-> "none"]
        /\ manifest = [scope \in Scope |-> NoManifest]
        /\ result = [s \in Sample |-> NoMeasurement]
     \/ /\ raw = [s \in Sample |-> "right"]
        /\ manifest = [scope \in Scope |-> [exists |-> TRUE, measured |-> FALSE, entries |->
             {[id |-> s, path |-> s, sources |-> Expected(s)] : s \in {s \in Sample : ScopeOf(s) = scope}}]]
        /\ result = [s \in Sample |-> [status |-> "measured", id |-> s]]
  /\ reports = [s \in Single |-> {}]
  /\ pod \in {NoEvidence} \cup [summary : {"passing"}, rawprep : {"present"}, single : {"unsampled", "decoded"}, boot : {"none"}]
  /\ art = NoArtifacts
  /\ call = [h \in Handler |-> Idle]
  /\ stood = Facts
  /\ requests = 0 /\ changes = 0

Serve(h) == Begin(h) \/ LibraryStep(h) \/ ChainStep(h)

Next ==
  /\ (\E h \in Handler : Serve(h)) \/ Edit \/ BootStep \/ Crash
  /\ stood' = Facts' \cup IF \A h \in Handler : call[h].kind = "none" THEN {} ELSE stood

Spec == Init /\ [][Next]_rvars

-----------------------------------------------------------------------------
\* Files, artifacts and requests are well formed.
ReleaseTypeOK ==
  /\ LibraryTypeOK
  /\ pod \in Pod
  /\ stood \subseteq {"benchmark", "pod"}
  /\ art.record \in {"missing", "measured", "partially_populated", "foundation_ready"}
  /\ art.smoke \in {"missing", "failed", "bootstrap_only", "passed"}
  /\ art.decision \in {"none", "benchmark_evidence_incomplete", "hold_runpod_smoke_pending",
                       "hold_review_pending", "ready_for_default_review"}
  /\ \A h \in Handler : call[h].kind = "none" <=> call[h].rest = <<>>

\* A foundation that says measured_ready rests on a measurement of its own for every
\* official sample, although the statistics it starts from count any measurement,
\* and although entries may be edited to share a result.
MeasuredReadyMeansMeasured ==
  ~Raises /\ FoundationStatus = "measured_ready" => EvidenceComplete

\* A decision for the default engine is backed: however requests overlap, complete
\* evidence and a passing pod both stood at some time while requests were at work.
DecisionIsBacked ==
  [][art'.decision = "ready_for_default_review" /\ (\E h \in Handler : WriteDecision(h))
       => stood = {"benchmark", "pod"}]_rvars

\* The decision the evidence on file calls for.
Called ==
  IF "benchmark" \notin Facts THEN "benchmark_evidence_incomplete"
  ELSE IF "pod" \notin Facts THEN "hold_runpod_smoke_pending" ELSE "ready_for_default_review"

\* A decision that was made without anybody else at work is the one called for,
\* through record, report, smoke, gate, review and packet: nothing an earlier
\* release left in those files shows through.
SoloDecisionIsCalledFor ==
  [][\A h \in Handler : call[h].solo /\ WriteDecision(h)
       => art'.decision = Called]_rvars
=============================================================================
