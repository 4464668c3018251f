---------------------------- MODULE PodBootstrap ----------------------------
(***************************************************************************)
(* What becomes of DreamCatcher.zip on a pod: the operator uploads and     *)
(* unpacks it, bootstrap.sh extracts the smoke bundle, bootstrap_core.sh   *)
(* prepares the workspace and leaves evidence in app/runtime, the smoke    *)
(* decodes the sample, and contracts and summary are brought back file by  *)
(* file for the readiness report.  A bootstrap may fail at any point and   *)
(* leaves what an earlier one left.                                        *)
(*                                                                         *)
(* One operator does one thing at a time, at the desk or on the pod.       *)
(***************************************************************************)
EXTENDS SmokeHandoff

CONSTANTS
  Carried,           \* bound: samples that requests are about where the zip goes to a pod
  MaxUploads,        \* bound: uploads
  MaxRuns            \* bound: bootstraps and refreshes of the evidence

ASSUME PodAssumption == Carried \subseteq Sample /\ MaxUploads \in Nat /\ MaxRuns \in Nat

VARIABLES
  trip,              \* whether the zip goes to a pod in this behaviour
  zip,               \* the zip in /workspace
  disk,              \* the workspace: code, smoke bundle, RAW samples, the stamp of a zip
  runtime,           \* the evidence in app/runtime
  boot,              \* the bootstrap or refresh under way
  booted,            \* how the last bootstrap of the code that is there was completed
  smoke,             \* the smoke report
  home,              \* the evidence brought back
  uploads, runs

pod   == <<zip, disk, runtime, boot, booted, smoke, home, uploads, runs>>
pvars == <<hvars, pod, trip>>

\* The run that wrote a contract or summary counts: 0 if there is none.
NoHealth  == [there |-> FALSE, code |-> 0, sample |-> Nothing, ok |-> FALSE]
NoModels  == [ok |-> FALSE, scoped |-> FALSE]
NoNodes   == [run |-> 0, ok |-> FALSE]
NoSummary == [run |-> 0, checked |-> FALSE, ready |-> FALSE, models |-> NoModels, nodes |-> FALSE]
NoRuntime == [health |-> NoHealth, models |-> NoModels, nodes |-> NoNodes, summary |-> NoSummary]
AtRest    == [step |-> "none", force |-> FALSE]

-----------------------------------------------------------------------------
\* The contract of models.

\* What a run is asked to fetch: the profile's sets, sets by name, everything.
Asked == [profile : BOOLEAN, named : BOOLEAN, all : BOOLEAN]

DownloadScope(asked) ==
  CASE asked.all -> "download_all"
    [] ~asked.all /\ asked.profile -> IF asked.named THEN "profile_plus_requested" ELSE "profile:frontier"
    [] ~asked.all /\ ~asked.profile -> IF asked.named THEN "requested_only" ELSE "lazy_on_demand"

\* PROFILE_SCOPED_MODEL_SCOPES, the scopes readiness accepts.
ProfileScoped == {"lazy_on_demand", "requested_only", "profile:frontier", "profile_plus_requested", "download_all"}

\* build_runpod_model_bootstrap_contract: whatever can be asked for is supported, so that
\* a contract that is there is ok.
ModelContract(asked) == [ok |-> TRUE, scoped |-> DownloadScope(asked) \in ProfileScoped]

-----------------------------------------------------------------------------
\* The smoke and the readiness reports.

\* build_rawprep_benchmark_runpod_smoke; a check without a sample does not stand in for
\* a summary that is not there.
Failing(r) == \/ r.summary.run # 0 /\ ~r.summary.ready
              \/ r.health.there /\ (~r.health.ok \/ (r.summary.run = 0 /\ r.health.sample = Nothing))

SmokeOf(r) ==
  CASE Failing(r) -> "failed"
    [] ~Failing(r) /\ (r.summary.run = 0 \/ ~r.health.there) -> "missing"
    [] ~Failing(r) /\ r.summary.run # 0 /\ r.health.there ->
         IF r.health.sample = Nothing THEN "bootstrap_only" ELSE "passed"

\* _extract_model_contract: the file that was brought back, else the summary's copy.
ModelsOf(h) == IF h.models.ok THEN h.models ELSE h.summary.models

\* Seeded fault: the decoder's check is taken for that of the nodes.
BootstrapReadinessByDecoder(h) ==
  IF h.summary.run = 0 THEN "missing_evidence"
  ELSE IF h.summary.checked /\ ModelsOf(h).scoped /\ (h.nodes.ok \/ h.summary.ready)
         THEN "ready_for_bootstrap_review" ELSE "evidence_partial"

\* build_rawprep_runpod_bootstrap_readiness: the health checks, the scope of the models,
\* and the node contract's word or the summary's.
BootstrapReadiness(h) ==
  IF h.summary.run = 0 THEN "missing_evidence"
  ELSE IF /\ h.summary.checked
          /\ ModelsOf(h).ok \/ h.summary.models.ok
          /\ ModelsOf(h).scoped
          /\ h.nodes.ok \/ h.summary.nodes
         THEN "ready_for_bootstrap_review" ELSE "evidence_partial"

\* build_rawprep_single_raw_decode_readiness: a sample was decoded, with its artifacts.
DecodeReadiness(r) ==
  IF ~r.health.there THEN "missing_evidence"
  ELSE IF r.health.ok /\ r.health.sample # Nothing THEN "ready_for_sensor_decode" ELSE "needs_tuning"

-----------------------------------------------------------------------------
\* The operator.

Quiet == boot.step = "none"

\* The zip that is uploaded is the one at the root, finished or not.
Upload ==
  /\ Quiet /\ uploads < MaxUploads /\ app["root"].code # 0
  /\ zip' = app["root"] /\ uploads' = uploads + 1
  /\ UNCHANGED <<hvars, disk, runtime, boot, booted, smoke, home, runs>>

\* The handoff's first command extracts the zip over what is there.
Unpack ==
  /\ Quiet /\ zip.code # 0
  /\ disk' = [disk EXCEPT !.code = zip.code, !.bundled = @ \/ zip.bundled,
                          !.bundle = IF zip.bundled THEN zip.embed ELSE @]
  /\ booted' = "no"
  /\ UNCHANGED <<hvars, zip, runtime, boot, smoke, home, uploads, runs>>

\* bootstrap.sh, itself unpacked from a zip, extracts the bundle that is there and
\* goes on with bootstrap_core.sh.
Boot(force) ==
  /\ Quiet /\ disk.code # 0 /\ runs < MaxRuns
  /\ runs' = runs + 1
  /\ disk' = [disk EXCEPT !.samples = IF disk.bundled THEN @ \cup disk.bundle ELSE @]
  /\ boot' = [step |-> "prepare", force |-> force]
  /\ UNCHANGED <<hvars, zip, runtime, booted, smoke, home, uploads>>

-----------------------------------------------------------------------------
\* bootstrap_core.sh.

Step(from, to) == boot.step = from /\ boot' = [boot EXCEPT !.step = to]

\* Seeded fault: a zip that differs from its stamp is taken for a forced reseed.
PrepareAnew ==
  /\ Step("prepare", "health")
  /\ IF zip.code # 0 /\ (boot.force \/ disk.stamp # zip)
       THEN /\ disk' = [code |-> zip.code, bundled |-> zip.bundled, bundle |-> zip.embed,
                        samples |-> {}, stamp |-> zip]
            /\ runtime' = NoRuntime /\ booted' = "no"
       ELSE UNCHANGED <<disk, runtime, booted>>
  /\ UNCHANGED <<hvars, zip, smoke, home, uploads, runs>>

\* prepare_workspace: a forced reseed removes the application, evidence and samples
\* included; without one a zip that differs from its stamp is left alone.
Prepare ==
  /\ Step("prepare", "health")
  /\ IF boot.force /\ zip.code # 0
       THEN /\ disk' = [code |-> zip.code, bundled |-> zip.bundled, bundle |-> zip.embed,
                        samples |-> {}, stamp |-> zip]
            /\ runtime' = NoRuntime /\ booted' = "no"
       ELSE /\ disk' = [disk EXCEPT !.stamp = IF @.code = 0 THEN zip ELSE @]
            /\ UNCHANGED <<runtime, booted>>
  /\ UNCHANGED <<hvars, zip, smoke, home, uploads, runs>>

\* Seeded fault: a health check that is there is kept.
KeepHealth ==
  /\ Step("health", "storage")
  /\ runtime' = [runtime EXCEPT !.health = IF @.there THEN @ ELSE
       [there |-> TRUE, code |-> disk.code, sample |-> Nothing, ok |-> TRUE]]
  /\ UNCHANGED <<hvars, zip, disk, booted, smoke, home, uploads, runs>>

\* The health check of the decoder names no sample, and replaces one that did.  It is
\* written before it ends the run for being bad.
Health ==
  /\ boot.step = "health"
  /\ \E ok \in BOOLEAN :
       /\ runtime' = [runtime EXCEPT !.health =
            [there |-> TRUE, code |-> disk.code, sample |-> Nothing, ok |-> ok]]
       /\ boot' = IF ok THEN [boot EXCEPT !.step = "storage"] ELSE AtRest
  /\ UNCHANGED <<hvars, zip, disk, booted, smoke, home, uploads, runs>>

\* build_runpod_storage_contract --require-ok: outputs that share a directory with models,
\* caches, workflows or scratch files end the run.  No decision reads the contract.
Storage ==
  /\ boot.step = "storage"
  /\ \E mixed \in BOOLEAN : boot' = IF mixed THEN AtRest ELSE [boot EXCEPT !.step = "models"]
  /\ UNCHANGED <<hvars, zip, disk, runtime, booted, smoke, home, uploads, runs>>

\* A bootstrap always has a profile (apply_model_profile).
Models ==
  /\ Step("models", "nodes")
  /\ \E asked \in {a \in Asked : a.profile} : runtime' = [runtime EXCEPT !.models = ModelContract(asked)]
  /\ UNCHANGED <<hvars, zip, disk, booted, smoke, home, uploads, runs>>

\* The contract of nodes, whose verdict ends no run.
Contracts ==
  /\ boot.step \in {"nodes", "renodes"}
  /\ boot' = [boot EXCEPT !.step = IF @ = "nodes" THEN "summary" ELSE "refreshed"]
  /\ \E ok \in BOOLEAN : runtime' = [runtime EXCEPT !.nodes = [run |-> runs, ok |-> ok]]
  /\ UNCHANGED <<hvars, zip, disk, booted, smoke, home, uploads, runs>>

\* Seeded fault: no summary of a bootstrap whose nodes are not ready.
SummarizeIfReady ==
  /\ boot.step \in {"summary", "refreshed"}
  /\ boot' = AtRest
  /\ runtime' = IF ~runtime.nodes.ok THEN runtime ELSE [runtime EXCEPT !.summary =
       [run |-> runs, checked |-> runtime.health.there,
        ready |-> runtime.health.ok, models |-> runtime.models, nodes |-> runtime.nodes.ok]]
  /\ booted' = IF boot.step = "refreshed" THEN booted ELSE IF boot.force THEN "forced" ELSE "plain"
  /\ UNCHANGED <<hvars, zip, disk, smoke, home, uploads, runs>>

\* build_runpod_bootstrap_summary from the files as they are.  A refresh is not a bootstrap.
Summarize ==
  /\ boot.step \in {"summary", "refreshed"}
  /\ boot' = AtRest
  /\ runtime' = [runtime EXCEPT !.summary =
       [run |-> runs, checked |-> runtime.health.there,
        ready |-> runtime.health.ok, models |-> runtime.models, nodes |-> runtime.nodes.ok]]
  /\ booted' = IF boot.step = "refreshed" THEN booted ELSE IF boot.force THEN "forced" ELSE "plain"
  /\ UNCHANGED <<hvars, zip, disk, smoke, home, uploads, runs>>

\* runpod_refresh_bootstrap_evidence.py: the contracts and the summary, without the checks.
Refresh ==
  /\ Quiet /\ disk.code # 0 /\ runs < MaxRuns
  /\ runs' = runs + 1
  /\ boot' = [AtRest EXCEPT !.step = "renodes"]
  /\ \E asked \in Asked : runtime' = [runtime EXCEPT !.models = ModelContract(asked)]
  /\ UNCHANGED <<hvars, zip, disk, booted, smoke, home, uploads>>

\* set -e, or the operator, or the pod: ComfyUI, the nodes, the models, the frontend and
\* the backend come between the steps, and what does not come up ends the run.
BootFails ==
  /\ ~Quiet
  /\ boot' = AtRest
  /\ UNCHANGED <<hvars, zip, disk, runtime, booted, smoke, home, uploads, runs>>

-----------------------------------------------------------------------------
\* The smoke on the pod, and what is brought back from it.

\* single_raw_healthcheck.py --sample-raw, for the sample the handoff's commands name;
\* build_single_raw_runtime_health fails a file that is not there.
Decode ==
  /\ Quiet /\ disk.code # 0 /\ handoff.sample # Nothing
  /\ \E ok \in BOOLEAN :
       /\ ok => handoff.sample \in disk.samples
       /\ runtime' = [runtime EXCEPT !.health =
            [there |-> TRUE, code |-> disk.code, sample |-> handoff.sample, ok |-> ok]]
  /\ UNCHANGED <<hvars, zip, disk, boot, booted, smoke, home, uploads, runs>>

WriteSmoke ==
  /\ Quiet /\ disk.code # 0
  /\ smoke' = SmokeOf(runtime)
  /\ UNCHANGED <<hvars, zip, disk, runtime, boot, booted, home, uploads, runs>>

\* The operator brings a contract or a summary back.
Recover ==
  /\ Quiet
  /\ \E f \in DOMAIN home : home' = [home EXCEPT ![f] = runtime[f]]
  /\ home' # home
  /\ UNCHANGED <<hvars, zip, disk, runtime, boot, booted, smoke, uploads, runs>>

PodStep ==
  \/ Upload \/ Unpack \/ (\E force \in BOOLEAN : Boot(force)) \/ Prepare \/ Health
  \/ Storage \/ Models \/ Contracts \/ Summarize \/ Refresh \/ BootFails \/ Decode \/ WriteSmoke \/ Recover

Init ==
  /\ HandoffInit
  /\ trip \in BOOLEAN
  /\ zip = NoZip
  /\ disk = [code |-> 0, bundled |-> FALSE, bundle |-> {}, samples |-> {}, stamp |-> NoZip]
  /\ runtime = NoRuntime /\ home = [models |-> NoModels, nodes |-> NoNodes, summary |-> NoSummary]
  /\ boot = AtRest /\ booted = "no" /\ smoke = "none"
  /\ uploads = 0 /\ runs = 0

\* Before a trip the script serves one request at a time, and what the desk does after
\* the last upload reaches no pod; what meets or dies at the desk does so without a trip.
DeskStep(h) ==
  /\ Quiet /\ uploads < MaxUploads
  /\ \A g \in Handler \ {h} : call[g].kind = "none"
  /\ Serve(h)
  /\ call'[h].kind \in {"none", "script"} /\ {call'[h].want, call'[h].sample} \subseteq Carried \cup {Nothing}

Next ==
  /\ UNCHANGED trip
  /\ \/ ~trip /\ HandoffStep /\ UNCHANGED pod
     \/ trip /\ (\E h \in Handler : DeskStep(h)) /\ UNCHANGED pod
     \/ trip /\ Quiet /\ uploads < MaxUploads /\ Change /\ files \cup files' = Sample
          /\ Sample \ Carried \subseteq files' /\ UNCHANGED pod
     \/ trip /\ (\A h \in Handler : call[h].kind = "none") /\ PodStep

Spec == Init /\ [][Next]_pvars

-----------------------------------------------------------------------------
\* The files of desk and pod are well formed: no bootstrap is complete without a summary,
\* and none runs without code.
PodTypeOK ==
  /\ HandoffTypeOK
  /\ zip \in Zip /\ disk.stamp \in Zip
  /\ disk.bundle \subseteq Sample /\ disk.samples \subseteq Sample
  /\ boot.step \in {"none", "prepare", "health", "storage", "models", "nodes", "summary", "renodes", "refreshed"}
  /\ booted \in {"no", "plain", "forced"}
  /\ booted # "no" => runtime.summary.run # 0 /\ runtime.models.ok
  /\ ~Quiet => disk.code # 0

\* Once a bootstrap of the unpacked code was completed, a smoke that passes decoded a
\* sample that is on the pod, with that code: no evidence of an earlier zip or of a
\* bootstrap that failed stands in for it.
PassedSmokeIsOfThisCode ==
  [][WriteSmoke /\ smoke' = "passed" /\ booted # "no"
       => /\ runtime.health.code = disk.code /\ runtime.health.sample \in disk.samples
          /\ DecodeReadiness(runtime) = "ready_for_sensor_decode"]_pvars

\* A completed bootstrap leaves the bundle's samples on the pod, as the handoff says it
\* does; unless it was forced to reseed, which removes them after they were extracted.
BootBringsTheSample ==
  booted = "plain" /\ disk.bundled => disk.bundle \subseteq disk.samples

\* Evidence that was brought back whole from one run, whose health checks were there, is
\* called ready exactly when its contract of nodes says so, whatever runs left files there
\* and whatever models they were asked to fetch.
ReadinessSaysWhatTheRunFound ==
  home.summary.checked /\ home.summary.run = home.nodes.run
    => (BootstrapReadiness(home) = "ready_for_bootstrap_review" <=> home.nodes.ok)
=============================================================================
