# A formal model of DreamCatcher

DreamCatcher is a photo studio: a FastAPI backend that hands image jobs to ComfyUI, a React
frontend, a file-based job queue between them, a RAW engine, sessions that live in JSON files, and
a rented GPU pod that is stopped and started again. This directory holds TLA+ modules that model
the parts in which several threads, processes, requests and machines act on the same files, and the
decisions that rest on those files; the TLC configurations that check them; and proofs that TLAPS
checks. Paths below are relative to `src/app/backend/app/` unless they say otherwise.

## 1. Inventory of the system

| Component | Code | State it keeps | Operations |
|---|---|---|---|
| Studio queue | `core/studio_queue.py` | `_queue/pending/*.json`, `_queue/history/*.json`, `worker_heartbeat.json`, `worker_stop.json`, the in-process registry `_active_workers` | enqueue, recover stale entries, list, mark running, requeue for poll, schedule retry, archive, cancel, start/stop/launch workers, heartbeat |
| Studio job service | `core/studio_job_service.py` | `studio_job.json` per job, a job index | build, assess readiness, execute (prepare, submit), refresh, cancel, retry |
| Job endpoints | `api/routes_jobs.py` | none | create, poll, cancel, retry |
| Operations board | `api/routes_studio.py` (`/ops`), `core/studio_ops.py` | investigations of dead letters | summary (which wakes the worker), start, stop, retry of dead letters, provider pause and resume |
| Provider lifecycle | `core/runpod_provider.py`, `api/main.py` | a checkpoint file | checkpoint, pause (stop request, drain, stop the pod), resume, boot |
| ComfyUI client | `core/comfy_client.py` | none; ComfyUI has a queue and a history | submit, history, delete, interrupt |
| Rawprep service | `core/rawprep_service.py`, `api/routes_rawprep.py` | `rawprep_job.json` and plan per job, the job index, a TriRaw report per bracket | initialise, execute, cancel, retry; shares the queue |
| Session files | `core/studio_catalog.py`, `studio_selection_service.py`, `studio_edit_linkage.py`, `studio_compare_memory.py` | one JSON file each per session | read, change, write back |
| Delivery and recovery | `core/studio_files.py`, `studio_recovery.py` | packages (zip), recovery packet | export by preset, by list or in batch; recovery packet, pause upon one |
| Intake and DreamISP | `core/studio_intake.py`, `studio_dreamisp_service.py`, `raw_engine_v2/isp/` | uploaded and staged files, `studio_intake.json` | upload, stage, plan, decode, hand over, develop |
| Quality automation | `core/studio_quality_automation.py`, `studio_qwen_judge.py` | assessments, tuning proposals | ask the judge, measure, calibrate, decide on approval, propose |
| RAW engine | `raw_engine_v2/single_raw/`, `tri_raw/` | plans, reports and pictures per sample | plan, decode or look at previews, fuse |
| Benchmark chain | `core/rawprep_benchmark_*.py` | sample library, manifests, measurements, record, report, smoke, gate, review, packet, decision | synchronise, scaffold, run, measure, and a request for each artifact |
| Smoke handoff, pod bootstrap | `core/rawprep_benchmark_runpod_*.py`, `runpod_*_contract.py`, `src/runpod/*.sh`, `src/app/scripts/` | `DreamCatcher.zip` with an embedded sample, evidence in `app/runtime` | stage, embed, hand off, unpack, bootstrap, smoke, bring back, judge readiness |
| Recipes, templates, workflow patches; telemetry; read-only summaries | `core/recipe_router.py` and others | an append-only log | table lookups, JSON rewriting, reports |
| Frontend | `src/app/frontend/src` | the browser's session | polls a job while it is active, polls the board while it is open |

How they interact. A request creates a record and an entry and wakes a worker. The worker is a
thread of the API process (*embedded*) or a process of its own (*external*); both list the pending
directory, mark an entry running, call the job service, and archive the entry or put it back. A
poll of a job refreshes its record from ComfyUI in the request's own thread, beside the worker; the
end of a job rewrites its session's edit linkage, beside the session's own requests. A pause of the
pod checkpoints what is active and may insist on a recovery packet; a boot resumes. Benchmark
requests each rewrite a chain of files, the last of which decides on the default engine. Nothing but
`_active_workers` is protected by a lock: everything else is plain files that every party reads,
changes in memory and writes back whole.

What is hard about it:

* **Copies that grow old.** `execute_studio_job`, `refresh_studio_job` and `execute_rawprep_job`
  work on a record loaded before a long call and save it after; `_mark_running` writes an entry from
  the listing; session files are read, changed and written back; a decision is made of files that
  another request is rewriting.
* **Nobody owns an entry.** `_recover_stale_entries` puts back every running entry, also one that a
  live worker has in hand.
* **One heartbeat file, a time to live, several writers.**
* **Two writes where one is meant**: record and entry, history and pending file, ComfyUI's
  acceptance and the prompt's id, a retry's new foundations and its record. A crash may come between.
* **Files written in place.** A reader may find half of one, and takes it for absent or empty.
* **One pass, then gone.** The embedded worker does not look again for what was enqueued meanwhile.
* **Directories named by the second** that two uploads or two exports share.
* **Evidence that outlives what it is about**: of an earlier zip, release, bootstrap, run or picture.

`PROJECT.json` lists the hazards line by line, with the properties that would catch each.

## 2. Modules

| Module | What it models | Builds on |
|---|---|---|
| `QueueEntries` | one pending entry and what each queue operation writes into it | |
| `StudioRecords` | one job record: statuses, polls, what the worker runs, the result it reports | |
| `StudioQueue` | the queue with its workers, files, requests, ComfyUI, operator and crashes | the two above |
| `QueuePromise` | the abstract queue: demands, prompts given, outcomes | |
| `StudioPromise` | the refinement mapping of `StudioQueue` to `QueuePromise` | `StudioQueue` |
| `ProviderLifecycle` | checkpoint, pause, stop of the pod, boot, resume, around the whole queue | `StudioQueue` |
| `TriRaw` | what becomes of one bracket | |
| `RawprepQueue` | raw preparation jobs, their brackets, worker, records and the shared index | `QueueEntries`, `TriRaw` |
| `BenchmarkLibrary` | manifests, measurements and statistics of the benchmark's evidence | |
| `ReleaseChain` | the requests that turn evidence into a decision, file by file | `BenchmarkLibrary` |
| `SmokeHandoff` | staging a sample, embedding it in the zip, handing off, rebuilding beside | |
| `PodBootstrap` | upload, unpacking, bootstrap, smoke, evidence and readiness | `SmokeHandoff` |
| `SessionFiles` | catalog, selection, linkage, dead letters, compare decisions | |
| `SessionDelivery` | packages, recovery packets, the pause that waits for one | `SessionFiles` |
| `SingleRaw` | what becomes of one RAW file | |
| `SessionIntake` | uploads, intakes, plans and DreamISP | `SessionDelivery`, `SingleRaw` |
| `QualityVerdict` | signals, calibration, verdict and approval as pure operators | |
| `SessionQuality` | assessments with and without the judge, and proposals | `SessionIntake`, `QualityVerdict` |
| `StudioQueue_proofs`, `StudioPromise_proofs` | theorems about every mode of the queue, and the refinement | `StudioQueue`, `StudioPromise` |
| `StudioEmbedded_proofs` | theorems about the embedded mode | `StudioPromise_proofs` |
| `ProviderLifecycle_proofs` | theorems about the queue with the pod around it | `ProviderLifecycle`, `StudioEmbedded_proofs` |
| `RawprepQueue_proofs`, `ReleaseChain_proofs` | theorems | `RawprepQueue`, `ReleaseChain` |
| `PodBootstrap_proofs` | theorems about the desk and the pod, and the pod as an implementation of the desk | `PodBootstrap` |
| `SessionQuality_proofs` | theorems about everything in a session | `SessionQuality` |
| `MCStudioQueue`, `MCProvider`, `MCRelease`, `MCPod`, `MCSessions` | symmetry sets and the pictures of the instance, for TLC | |

### The Studio queue

| Model | Code |
|---|---|
| `pending`, `archived` | the job's file in `pending/`, the outcome of its latest file in `history/` |
| `record` | the job's `studio_job.json`; the fields that decide what happens next |
| `asked`, `comfy` | how often a run was demanded; the prompts ComfyUI was given, with their state |
| `heartbeat`, `stop`, `registry` | the two files and `_active_workers` |
| `pc`, `todo`, `hand` | a worker's next step, what is left of its listing, its copies of entry and record |
| `call` | a request's next step and its copy of the record |
| `Recover List EndPass SkipDelayed Take` | `process_pending_queue` up to `_process_entry` |
| `Load Prepare Submit FailToSubmit SaveSubmitted Poll SavePolled` | `_process_studio_entry`, `execute_studio_job`, `refresh_studio_job`, one step per save or call to ComfyUI |
| `Postpone Archive Unlink` | `_requeue_for_poll`, `_schedule_retry`, and the two writes of `_archive_entry` |
| `EndThread Unregister` | the `finally` block of the embedded worker |
| `Boot Look StopExternal IdleShutdown` | `run_external_worker_service` |
| `Retire ClearBeat` | `clear_worker_heartbeat`: the heartbeat is read, and the file is unlinked if it was the worker's own, whatever is in it by then |
| `Create Get Cancel Retry` and the steps after them | the handlers of `routes_jobs.py`; each file they write and each call to ComfyUI is a step |
| `OpsSummary StartEmbedded StartExternal RequestStop` | the endpoints under `/ops` |
| `ComfyEnds DelayElapses HeartbeatExpires ProcessCrash ApiCrash ApiBoot` | the environment; `ApiBoot` is `lifespan()` without a checkpoint |

A record's field `request` is a history variable: it numbers a user's demands for a run, so that a
second submission for the same demand can be told from a submission for the next. A step is what
happens between two points where somebody else may get in between with an effect. A check and the
write that follows it at once are one step where nothing but local computation lies between (the
stop and heartbeat checks of `start_queue_worker` before it takes the registry lock; the interval in
which those two could become stale is therefore left out). External workers do have the gap, because
a process has to start in between: `LaunchExternal`, `Boot`, and the first `Look` are three steps.

`QueuePromise` says what all this is for: a job is *demanded*, is *given* to ComfyUI only while it
has no outcome and only for a demand there was, *concludes* with an outcome (`done` only if it was
given at all), and keeps the outcome until it is demanded anew. `StudioPromise` maps the queue to
it: the demands are `asked`, what was given is the demands of the prompts in `comfy`, and a job's
life is its record's status once nobody is at work on an older copy (`QuietlyEnded`), and `open`
before. `KeepsPromise` is the abstract specification under that mapping, without any exception for
crashes or impatient users.

### Provider, raw preparation

`ProviderLifecycle` adds to the queue the checkpoint, a pause in steps (checkpoint, stop
request, drain or its timeout, end of the pod), and the resume of a boot or of the operator, which
reads, resets and writes one job's record at a time. It may fail in the middle: at a record that
cannot be read (`LoadFails`), or because no process can be spawned (`SpawnFails`), which at boot
`resume_known_queues` makes up for with a thread. The end of the pod ends the API, the workers and ComfyUI with every prompt. The checkpoint's `trigger` is
`last_resume_trigger`, by which a checkpoint that a boot has resumed can be told from one resumed on
request: only the boot has the pod to itself.

`RawprepQueue` has the steps of `save_job_record` one by one - the record, the reading of the shared
index, the truncation of the file, the writing of the text - for every party that saves. A job is a
list of brackets, each with a TriRaw report on file: creating or retrying a job writes new
foundations, running it fuses bracket after bracket, is blocked by the first that has a frame
nobody can look at (`TriRaw!Fused`), and fails by whatever raises. A cancellation loads and checks
the record (`Cancel`) and saves it (`SaveCancel`); in between the worker may have finished the job.

### Release chain, handoff and pod

In `ReleaseChain` and `SmokeHandoff` a request is the list of files it has still to write (`rest`)
and what it holds in memory between two of them. Requests of several handlers overlap file by file;
somebody edits the library, sources or samples; a crash loses every request and may leave a
measurement or a stub half written. A scaffold puts its manifest together from the one on file
(`Scaffold`) and writes it later (`WriteManifest`). The pod's evidence changes under the requests file
by file too: `BeginBoot CheckRawprep CheckDecoder Summarize` are the bootstrap from
`bootstrap_core.sh` and `setup.sh`, which may end after any of them, and `SmokeSample` is the check of
the decoder with a sample. `solo` notes that nobody else was at work, and nothing changed, since the
request began: some properties are promises to such a request only, because without it the code
promises nothing. `stood` notes which evidence stood at some time while requests were at work.

`PodBootstrap` is one operator's trip: upload the zip, unpack it over what is there, bootstrap
(forced to reseed or not) through the health check and the contracts of storage, models and nodes to
the summary, with a failure possible after every step, decode the sample, write the smoke, and bring
contracts and summary back file by file, maybe from two runs.

### Sessions

One session's files, and requests that overlap on them in the same style. `kinds` is chosen at the
beginning of a behaviour: the kinds of requests that meet in it. Files are `torn` between the
opening that empties them and the write of their text.

A dead letter is a failed file of the queue's history (`Letter`): a job that failed twice has two, is
listed twice and may be reset twice by one request. `JobMoves` is how far the queue, its worker and
its users may have brought a job between two looks of the session's requests at it (`Onward`); the
worker's own refresh of a finished job is `BeginRefresh` where the linkage it writes is looked at. A
package's zip is on disk from `OpenZip` on and has its files after `FillZip`; `LoseRoom` is the export
whose directory another one removes meanwhile, and which leaves what it has written. A recovery without
a package of its own takes the zip that was written to last (`newest`), closed or not.

`QualityVerdict` has the pure part of the quality automation: a picture is what its metrics show
(clipping in three classes, detail in three, tone in two), the judge's answer a verdict, a
confidence and how two axes stand. `SessionQuality` is the request around it, which reads picture
and golden seed again at each step.

Definitions commented *Seeded fault* are no part of the models. Each is a plausible mistake in the
definition that follows it; exchanging the two must violate the property named for it in
`PROJECT.json`, which shows that the property depends on that piece of code.

## 3. What the runs check

| Run | Instance | Properties | What it shows |
|---|---|---|---|
| `studio_embedded` | 1 job, 1 embedded worker, 2 handlers, the job endpoints and the board, 2 requests for a run, 1 attempt, 1 crash | `TypeOK`, `ResubmissionsNeedCrashes`, `UnsubmittedJobIsTracked`, `KeepsPromise` | polls, cancellations and retries that overlap beside the worker submit nothing twice and lose no entry but one a cancellation takes from a retry it overlaps, when users retry only jobs nobody is at work on; what exactly one crash costs; and that the queue implements `QueuePromise` |
| `studio_mixed` | 1 embedded and 1 external worker, slow entries, 1 crash of either process | `NoHeartbeatOutlivesItsWorker`, `QuietEndIsFinal` | two workers at once on the same entry, with heartbeats that lapse, never change what has ended |
| `studio_polled` | 1 embedded worker, 2 handlers, a board somebody may look at, `PolledSpec` | `ActiveJobFinishes` | the session's poll makes up for the pass that overlooked the job |
| `studio_board` | 2 embedded workers, 1 handler, 2 attempts, the board open, 1 crash, `BoardSpec` | `OneEmbeddedPass`, `AttemptsWithinBudget`, `EntryLeavesQueue`, `OrphanIsRecovered` | one thread at a time serves the queue however often it is started, requests served one at a time keep the retry budget, entries are archived in the end, and one that a crash left running is recovered by the pass the board starts |
| `studio_drain` | both kinds of worker, `FairSpec` | `StopDrains` | a stop request that is not withdrawn ends every worker |
| `pod_pause` | the queue with 1 job and 1 worker, a board, 1 pause, 1 crash, `ProviderFairSpec` | `CheckpointedJobsOutliveThePod`, `ResubmissionsNeedResumes`, `AcceptedJobIsKnown`, `CheckpointedJobFinishes` | the checkpoint's jobs are run again and end, an active job has an entry or had one unless something crashed, and a resume costs at most one more submission |
| `rawprep_jobs` | a job of 2 brackets that is run, retried and cancelled, another that is created and cancelled, 1 worker, 1 handler, 2 demands, 1 crash, `FairSpec` | `RawTypeOK`, `QueuedRawJobIsTracked`, `RunsAreDemanded`, `RawQuietEndIsFinal`, `DoneJobIsFused`, `QueuedRawJobEnds` | although the index may be lost or unreadable, nothing queued is forgotten, nothing ended is run again, and a job that becomes done has fused all its brackets |
| `release` | 1 SingleRaw sample, 1 bucket, 2 handlers, 2 requests, 1 change | `ReleaseTypeOK`, `MeasuredReadyMeansMeasured`, `DecisionIsBacked`, `SoloDecisionIsCalledFor` | a decision for the default engine had complete evidence and a passing pod, however requests overlap |
| `pod_smoke` | 2 samples at the desk, 2 handlers, 2 requests, 1 change; trips of 2 uploads and 2 runs | `PodTypeOK`, `BootBringsTheSample`, `ReadinessSaysWhatTheRunFound`, `SoloHandoffIsTrue`, `PassedSmokeIsOfThisCode` | neither handoff nor smoke nor readiness says more than is true |
| `sessions` | 2 sessions, 1 job with up to 2 dead letters, 2 masks, 2 package rooms, 2 handlers, 2 requests, 1 change, 1 assessment | `SessionTypeOK`, `ApprovalsAsPromised`, `UndisturbedEditsAreLocal`, `LinkageFollowsSelection`, `LoneRetryTakesFailures`, `LonePackageIsComplete`, `PauseHadAPackage`, `LonePlanIsOfItsPhotos`, `AcceptedPassIsClean` | what nothing overlapped is right, the pod is paused only upon a package, and what is accepted without a person is clean |

Two runs show a disagreement between the code and what its own text says of it:

| Run | Property | What happens |
|---|---|---|
| `studio_cancel_window` | `CancelledJobIsNotSubmitted` | a job cancelled while its input is prepared is submitted all the same, and its record says so |
| `studio_retry_no_run` | `RetryRunsTheJob` | the retry scheduled with backoff finds the record in status `error` and fails again without running |

### Behaviour worth knowing

The properties describe much of it by what they exclude.

*The queue.* A crash between saving the record and writing the entry leaves a queued job that no
worker runs and that cannot be retried. A poll that overlaps a cancellation writes the job back as
running. A prompt that ComfyUI ended without image or error, or has lost, is waited for without
limit (`Barren`). In embedded mode the entry of a submitted job stays pending until somebody polls a
queued job or opens the board. Two external workers launched before either has written a heartbeat
serve the root together. A retry between the saving of a failure and the archiving of its entry
loses the new entry (the reason for `PatientUsers`; TLC violates `UnsubmittedJobIsTracked` without
it). Two workers that have the same entry in hand, one of which recovered it from the other, may both
give its job to ComfyUI: `ResubmissionsNeedCrashes` is of the embedded worker alone. An external
worker makes a pass only for queued entries, so a lone entry left running is not recovered while its
heartbeat keeps others away: `OrphanIsRecovered` is of the embedded worker, which the board starts.
A worker that ends may remove the heartbeat another one has written between its look at the file and
its unlink; until that one's next beat a second worker may start beside it.

Where two requests of one job overlap, a cancellation that read the record before a retry's start
may discard the entry the start has written, and leave a queued record that no worker runs: the
exception in `UnsubmittedJobIsTracked`. Of two polls in flight, one may turn the error the other has
saved back into running, before a worker loads the record, so that an attempt counted is no attempt
made, again and again; a cancellation beside a poll can do the same. `AttemptsWithinBudget` is
therefore checked of requests served one at a time, which a browser that waits for each answer before
it polls again produces (`src/app/frontend/src/AppShell.tsx`) and a second browser does not. When
ComfyUI's answer to a submission names no prompt, or the prompt's id cannot be saved, the job ends in
`error` although ComfyUI has it.

*The pod.* A job created after the checkpoint is in no checkpoint and waits for its prompt after the
pod is gone. A resume puts back records and writes no entry. So a job whose entry is gone while its
record is active stays queued for ever: a cancellation discarded the entry and the answer of a poll
or the worker's last save brought the record back, or the job had ended, its entry was archived, and
a late answer did the same. This takes a pass that archives, before the pause or beside it, and
`UnsubmittedJobIsTracked`, true of the embedded queue by itself, is therefore false with the pod
around it; what remains true is `AcceptedJobIsKnown`. A resume on request goes on beside polls, one
of which may write a prompt that is lost back into a record the resume has reset. A pause during a
resume takes a checkpoint that the resume, which writes its own copy back, loses: with `PatientUsers`
operators do not overlap the two.

*Raw preparation.* A cancellation may overwrite a job that was done since it looked, and a run that
goes on overwrites a cancellation. A retry of a job that is being worked on resets the reports under
the worker, whose `done` then stands over foundations, lets the old entry run it once more, or loses
its new entry to the archiving of the old (again `PatientUsers`: `DoneJobIsFused`, `RunsAreDemanded`
and `QueuedRawJobIsTracked` are of users who wait, and TLC violates them without); a crash between a retry's
foundations and its record leaves a `done` record over them as well, until it is retried again.

*Release chain.* An invalid measurement file raises before `_validate_measurement_reference` could
call it `measurement_invalid`. The scaffold of a report takes pending stubs for measurements. An
entry of nine sources is run but blocks the foundation. A stub is written over a measurement that
came between its check and its write, and a manifest over an edit made since it was read. The smoke
looks for a health check that is there and says a sample did not decode; the script that writes it
makes such a check a bad one, so that case does not occur. A bootstrap that ends at a bad check leaves
the summary of an earlier one.

*Handoff and pod.* `--force-reseed` removes the sample it has just extracted. The preflight writes
`Product/DreamCatcher.zip` while the handoff looks at the repository's root. The handoff on file is
served for a request about another sample. A rebuild drops the embedded sample, unpacking over an
older tree keeps the old one, and the rebuild's temporary file may put an older zip back. Evidence
recovered from two runs may read ready, and a second bootstrap that fails leaves the first one's
evidence. The model contract is `ok`, and its scope accepted, for whatever models can be asked
for. A bootstrap that the storage contract ended may be followed by a refresh of the evidence, whose
summary calls ComfyUI and the backend ready.

*Sessions.* A catalog, linkage or investigation file that is half written is read as the defaults,
and the next save wipes the rest. A batch update stops at the first session that is missing, after
those before it. The end of a job sets the current source back to its own and may write an old
selection back over a new one; a sync without a source forgets it; a history that is deduplicated
shifts its index. A crash between a dead letter's reset and its requeue leaves the job without
entry and without dead letter, naming a dead letter explicitly may reset a job that has finished, and a
retry of all dead letters may reset a job twice that has failed twice, the second time when the first
has brought it to a good end.
Exports of one second and label share their directory. `master_archive` holds only the outputs of
the job whose record was saved last. A recovery without a package of its own takes the newest zip of
any age, and one that another export has only opened, or that a crash left half written. Uploads of one second share `_uploads`, and a DreamISP change writes the copy of the plan
it read back over a newer one; asked after a second intake has replaced the files of the first, the
change develops those files for a plan that names the others. Raw preparation sessions are named by the second too
(`default_session_id` in `core/rawprep_contract.py`), so that two jobs of one second share plan and
record; the model gives each job its own.

*Quality.* Without golden seed, judge and signals the verdict is `pass` without approval. A client's
evidence packet decides by its tool which profile applies and what evidence is missing. An axis that
fails but that the profile does not guard leaves its tags on a pass that needs nobody. A result made
anew during an assessment is judged by two pictures. An assessment given twice to a proposal counts
twice. A judge that fails ends the request.

### Bounds

*Queue.* `studio_embedded` has two handlers, so that a request of every kind meets a request of every
other in mid-course, and pays for it with one attempt and one thread; the second attempt and the second
thread, where a start may go wrong, are in `studio_board`. One job suffices for the properties stated, because each speaks of one job's record, entry
and prompts, and the jobs of one root meet only in the order of a pass and in the heartbeat, which
one job in several states already drives. `MaxRequests` = 2 lets a retry follow a run. `MaxAttempts`
= 2 is the least that lets a scheduled retry happen, 1 where retries do not matter. `MaxPrompts` and
`AttemptBound` cap two counters; in `studio_board` `AttemptBound` is too high to be reached within one
crash; in `studio_embedded` an entry spends two attempts at most, a failure's and one that the crash
or the late end of a poll adds, and a third prompt is the one the crash costs. In `studio_mixed` they are 1, which leaves out a second submission by the second worker; what
is left is the interleaving of old copies, and `QuietEndIsFinal` is proved without the bound. One
crash may fall between any two steps. `CHECK_DEADLOCK FALSE`, here and in the other runs: a system
in which every request has been served and the bounds are used up has nothing left to do.

*Pod.* `MaxPauses`, `MaxResumes`: one of each, and the resume of a boot besides; a second pause
starts from the same states. The board wakes the worker, so that a second pass may archive an entry
before the pause: without it (one pass, one pause) the states in which a resume queues a job without
an entry are not reached. `AttemptBound` = 2 lets an entry be taken up in both passes. *Raw preparation.* `Shown` is the job that is executed and watched; the
other one is there to disturb the index. `Groups` = 2 is the least that lets a run stop between two
brackets; `MaxRequests` = 2 lets a retry follow a run that was done, blocked, failed or cancelled.

*Release chain.* `Kind` and `Part` select the requests of the instance: synchronising the library,
running the samples of both engines, packet and decision, the packet with a review or alone; the
measurement, bridge and scaffold requests consist of steps these contain. One sample of each engine
is enough for an entry to declare another's result. *Handoff and pod.* `Carried`: where the zip
travels, requests are about one sample; the desk works only until the last upload, and crashes at
the desk are not combined with a trip.

*Sessions.* `MaxLetters` = 2 is the least that lists a job twice. `Kinds` lists the sets of kinds that meet because they share a file; kinds that share
none commute. A recovery packs by the preset `master_archive` and takes the intake plan to be
there. `Look` has four pictures: fine, soft, of another tone, clipped and soft. A judge that passes
nothing is sure of it and faults no axis, as only a pass depends on those. Proposals follow the one
assessment, which is all they read.

Constants of all modules are small enough for TLC to exhaust; no run is cut off by a state constraint.

### Fairness

`Progress` is weak fairness of each worker's pass, of ending a thread, of the external worker's
loop, of requests already accepted, of ComfyUI, of the retry delay and of the expiry of a dead
worker's heartbeat, and of restarting the API. Threads and processes are scheduled, the clock goes
on, and the pod's supervisor restarts the backend; nothing else is taken for granted: `Submit` may
always fail, `Refreshed` may always report an error, nobody has to create, cancel, retry, start or
stop anything. `PolledSpec` adds that an active job is polled again and again, which
`src/app/frontend/src/AppShell.tsx` does while it shows the job (the effect on `studioJobBusy`);
strong fairness, since a handler that is busy disables the request for a moment. `BoardSpec` adds
the summary poll of the open operations board. Idle shutdown and the operator have no fairness.

`ProviderFairSpec` states the same of the queue's steps beside a provider that stands still
(`Beside`), and adds that a pause that has begun stops the workers, that the boot of a pod begins
its resume, and that the steps of a boot's resume go on; the operator's own resume may stop anywhere. `RawprepQueue!FairSpec` is the worker, accepted requests, the delay, and strong
fairness of the poll of the job that is shown. The release chain, the handoff and the sessions have
no liveness properties: a request either goes on or is lost with the process, and nobody repeats it.

## 4. What is proved

For every set of jobs, threads, processes, handlers and endpoints, every `MaxAttempts`, every bound,
and both values of `SlowEntries` and `PatientUsers`, `StudioQueue_proofs` proves

* `TypeCorrect`: `Spec => []TypeOK`. `TypeOK` alone is not inductive: what a worker in the middle
  of an entry writes is indexed by the job in its hand, so the invariant is
  `Typed == TypeOK /\ CarriesJob`, where `CarriesJob` says that a worker at such a step has a job in
  hand. A request's steps need nothing of the kind: writing at an index outside a function's
  domain changes nothing.
* `OneEmbeddedPassHolds`: `Spec => []OneEmbeddedPass`, inductive together with `Typed`.
* `HeartbeatHolds`: `Spec => []NoHeartbeatOutlivesItsWorker`, inductive together with `Typed`. The
  argument is that a worker reaches `down` or `unregister` only by a step that clears its own beat,
  and that a worker only starts from `down`, where no beat names it.
* `QuietEndHolds`: `Spec => QuietEndIsFinal`. No invariant beyond `Typed` is needed: every writer of
  a record is at a step that `QuietlyEnded` rules out, or has loaded the record after the job ended
  and finds it terminal, or is a user's retry.

and `StudioPromise_proofs` proves

* `GroundedHolds`: `Spec => []Grounded`. Nothing is on file (`RecordsGrounded`, `EntriesGrounded`),
  listed or in a worker's hand (`HandsGrounded`), or in a request's (`CallsGrounded`), that no user
  demanded; and every copy of a record that may yet be written is *sound*: it is done, or names a
  prompt, only if ComfyUI was given the job. This is the strengthening the refinement rests on: an
  old copy may be saved at any time, so that each copy has to be sound, not only the file.
* `PromiseKept`: `Spec => KeepsPromise`, the queue implements `QueuePromise`. Initial states map to
  initial states; of the steps, a submission maps to `Give` (`SubmitGives`: whoever submits holds a
  job that is not quietly ended, and answers a demand there was), an endpoint that demands a run to
  `Demand` (`DemandDemands`), and every other step to `Conclude` or a stutter (`Concludes`,
  `EndIsEarned`: whatever becomes quietly ended was open and, if done, was given; `EndsAreKept`: what
  was quietly ended keeps its outcome).

One lemma per group of actions carries each invariant through a step; the lemmas at the head of the
modules say what the operators on entries, records and prompts return.

### The embedded mode

The remaining invariants of the queue hold in the mode the job endpoints start by themselves: the
embedded worker, and users who retry only a job nobody is at work on (`Alone == Process = {} /\
PatientUsers`).

* `SettlingHolds`: `Spec => []Settling`, for any number of requests that overlap. `Settling` is the
  conjunction of seven parts, which need one another: a worker with
  nothing to do holds nothing (`EmptyHanded`), a file that is not there has no contents, nor has a
  copy of it (`Tidy`), the entry in hand is the one on file unless a cancellation took that away
  (`HandIsFile`), prompts answer demands (`GivenAsked`), a copy that has heard of ComfyUI names a
  prompt (`Prompted`), and a request that is to enqueue a job meets nobody but cancellations
  (`Patience`, `Called`). It builds on `OneEmbeddedPass`: one worker at a time is up.
* `NothingToRunHolds`: `Spec => []NothingToRun`, inductive beside `Settling`: what a worker polls,
  settles or puts away is not to be run. It is apart from `Settling` because the pod breaks it: a
  resume puts a record back to queued beside a worker that polls it.
* `ResubmissionsHold`: `Spec => []ResubmissionsNeedCrashes`, for any number
  of overlapping requests. `ResubmissionsNeedCrashes` is not inductive: what a crash costs is paid
  later, when the record it left is submitted anew. The invariant `Exposure` counts the debt: the
  resubmissions made, and one more if there is a record, on file or in hand, that may yet be
  submitted although its demand was answered (`Again`), are no more than the crashes.
* `TrackedHolds`: `Spec => []UnsubmittedJobIsTracked`, for any number of overlapping requests.
  `Tracked` is kept by every step because whoever takes an entry away, a worker that settles it or a
  cancellation, has seen a record that is not to be run (`Spared`) - or because a retry has come in
  between, which leaves the trace `CancelledLate` names: the job was demanded before, and its entry is
  archived as cancelled.

`Minds` is what these proofs see of a request's step: its effect on one job. The hypotheses are
needed, and TLC shows it: with external workers or impatient users the invariants fail.
`AttemptsWithinBudget` is only model-checked: it holds of requests served one at a time, which is a
bound of its run and nothing the code guarantees.

### The provider

`ProviderLifecycle_proofs` proves of `ProviderSpec`, for any number of pauses and resumes, in every
mode and for impatient users too:

* `ProviderTypeCorrect`, with `PodTyped == Typed /\ ProviderShapes`.
* `ProviderOneEmbeddedPass`, `ProviderHeartbeat` and `ProviderQuietEnd`: these three hold with the pod
  around the queue as they do without it.
* `ProviderPromiseKept`: `ProviderSpec => KeepsPromise`. The pod's steps map to stutters of
  `QueuePromise`, or to an outcome that was due: a resume passes over a job that has ended, and a
  record that is put back still answers the demand it answered.
* `ProviderAccepted`: `ProviderSpec => []AcceptedJobIsKnown`. A resume may make any record active
  that names a prompt (`Live`), a worker or a poll any of which it has a copy; `Accounted` is that
  every such job is known, and that whoever is to remove an entry has archived it. A request
  `Attends` to its own job and leaves the others'.

and for the embedded worker and patient users (`Alone`; patient operators do not resume while a pause
is under way, nor the reverse):

* `ProviderSettlingHolds`: `Settling` survives the pod, which takes the hands of worker and requests
  together.
* `ProviderResubmissions`: `ProviderSpec => []ResubmissionsNeedResumes`. `Exposures` extends the
  debt of the embedded mode by the resume that has begun: until it has put a job back, it owes it
  one submission (`Due`). A stop of a pod that is not drained is one more crash (`StopExposed`); the
  stop of a drained one exposes nothing.
* `ProviderOutlived`: `ProviderSpec => []CheckpointedJobsOutliveThePod`, whatever crashes cut the
  pause, the boot or an earlier resume short. `Apart` says that a boot which resumes has the pod to
  itself, goes by the checkpoint that is on file, and has no pause beside it. `Fresh` says of a job
  that neither its record nor any copy that may yet be written to it names a lost prompt, and
  `Renewed` that the jobs the boot has put back so far are fresh, and all of them once it is over.
  Only the stop of the pod loses prompts, and it finds the checkpoint pending.

### Raw preparation

`RawprepQueue_proofs`, for any jobs, brackets, handlers and bounds:

* `RawTypesHold`, with `Formed == RawTypeOK /\ Busy`: whoever is at work has a job for it.
* `RawQuietEndHolds`: `Spec => RawQuietEndIsFinal`, for impatient users too. What has ended stays so
  unless a worker or a cancellation that has passed its check is about to write the record.
* `DoneIsFusedHolds`: `Spec => DoneJobIsFused` under `PatientUsers`. `Orderly` says that one at a
  time has to do with a job, the worker or a request, and what a worker that has come to a bracket
  knows: those before it are fused, and the record is running or cancelled.
* `RunsDemandedHold`: `Spec => []RunsAreDemanded` under `PatientUsers`. As with resubmissions, the
  invariant `Demanded` counts a run that may yet begin with those that have begun.
* `QueuedTrackedHolds`: `Spec => []QueuedRawJobIsTracked` under `PatientUsers`. `TriedFor` says that
  a queued job spent an attempt only where its record could not be loaded, so that its entry cannot
  have been given up while that happened fewer times than there are attempts.

`Means(j)` is what every step is for one job, worker and requests included; the last three proofs
split on it. Without `PatientUsers` TLC violates these three.

### Desk, pod and release

`PodBootstrap_proofs` proves of the desk alone (`HandoffSpec`) `HandoffTypesHold` and
`SoloHandoffHolds`. A request is a program, the list of steps it has still to take, and the proof
knows of a program only which step may follow which (`Chained`, within `Sorted`); `Alone(h)` says
what a request that nobody interfered with has achieved by the step it is at.

Of both together it proves `PodTypesHold`, `SampleIsBrought`, `ReadinessHolds` and
`PassedSmokeHolds`. `Booting` says how far a bootstrap has come and what a completed one left,
`Evidence` that a summary agrees with the nodes' contract of its run wherever either of them is,
`Numbered` that what a run has not written yet is of an earlier one. `DeskIsKept` is a refinement:
`Spec => HandoffSpec`, every step of desk and pod is a step of the desk or leaves the desk alone;
`PodSoloHandoffHolds` follows from it.

`ReleaseChain_proofs` proves, for any library, requests, edits, bootstraps and crashes,
`ReleaseTypesHold`, `MeasuredReadyHolds`, `BackedDecisionsHold` and `SoloDecisionHolds`, from

* `Formed`: files and programs are well formed, and a record is counted before it is written;
* `Backed` for every request: what it relies on stood at some time since nobody was at work, and so
  did what packet and review say, or the request's own program writes them before it weighs them
  (`Guarded`). This is why a decision is backed although everything it reads may be another
  request's;
* `Loneness` for the undisturbed: with n of its fourteen steps left, a request and the artifacts say
  what the evidence on file says (`Follows`, `Knows`); nothing is said of what is still to be
  rewritten, so that artifacts of earlier releases cannot matter.

### Sessions

`SessionQuality_proofs` proves every property of the run `sessions`, for any number of sessions, jobs,
masks, rooms and requests, and whichever requests may meet:

* the invariants `SessionTypesHold` and `ApprovalsHold`;
* the action properties `EditsAreLocal`, `LinkageIsOfSelection`, `RetriesAreOfFailures`,
  `PackagesAreComplete`, `PausesHavePackages`, `PlansAreOfTheirPhotos` and `PassesAreClean`.

The action properties speak of a step that writes a file; what it writes was read many steps
before. What is needed is therefore what a request knows at each of its steps, and that is the
inductive invariant `SessionInv`:

* `Orderly`: each request is a program of its kind, and what is left of it is a chain of steps each of
  which may follow the one before (`StepsOf`, `Follows`, `Ends`);
* `JobInv`: jobs, failures and the result shown belong together;
* one invariant per group of requests: `CatalogInv`, `EditInv`, `LettersInv`, `CompareInv`,
  `DeliveryInv`, `IntakeInv` and `QualityInv`. Each says what is in the files of the group, and what a
  request `Knows`: as long as nobody overlapped it (`solo`), its copies are what is on file
  (`CatalogKnows`, `EditKnows`, `LettersKnow`), its directory holds what it has put there so far
  (`Informed`), the photos it staged are those it is about to name (`Staged`), and the picture the
  judge saw is the one that was measured (`Assesses`).

Every step is the `Turn` of one request, or of none. A turn keeps the invariant of its own group (one
lemma per group of steps, `CatalogStep` to `JudgeStep`); a request of another group is spared by it: it
knows what it knew, since the files of its group are not touched (the `Frame` lemmas), or it was
overlapped and is no longer `solo`. Some of it holds however requests overlap, and needs no `solo`:
`PausesHavePackages` rests on packages being added only, `ApprovalsHold` and most of `PassesAreClean`
on the verdict's own operators (`WorstIsWorse`, `AdjustedIsNoPass`, `ApprovalPromised`,
`PassedIsClean`). That a lone retry resets a job that is not failing only for another letter of one it
has reset itself needs that nothing but a retry makes a failure anything else (`FailuresStay`), and that
a job the list names twice has two letters (`Due`).

### Assumptions, and what is only checked

The assumptions are those on the constants: `ConstantsAssumption` (threads and processes are
disjoint, `Nobody` is none of them, bounds are numbers), `MaxAttemptsAssumption`,
`RawprepAssumption` (the worker is no handler, there is a bracket), `HandoffAssumption`,
`PodAssumption`, `LibraryAssumption` (samples of the engines are disjoint, there is a bracket, no
sample is the path of none), `ReleaseAssumption` (requests are of the kinds there are),
`PausesAssumption` (counters have bounds),
`SessionAssumption` (among others, sessions and jobs are finitely many: a batch or a retry goes through
them one by one), `DeliveryAssumption` (a directory that is not there differs from any contents of one)
and `QualityAssumption` (the looks of the instance are pictures the metrics can tell apart). The
hypotheses `Alone` and `Patient` are named in the theorems that need them.

Two definitions turned out ambiguous when a proof had to take them apart: the status a new job gets
(`Create`) and a dead letter's advice (`Advice` in `SessionFiles`) were CASE expressions whose
guards overlapped; both are IF chains now, in the code's order.

One invariant turned out false when its proof was tried: `UnsubmittedJobIsTracked` had been checked
of the provider too, on an instance in which a job's entry could not be archived before a pause. On
a larger one TLC shows the behaviour described under *The pod*; the run has that instance now, and
`AcceptedJobIsKnown` takes the invariant's place. `CheckpointedJobFinishes` speaks of jobs with an entry
in the queue for the same reason, and `CheckpointedJobsOutliveThePod` of the resume of a boot, because
a poll beside a resume on request refutes it.

Only model-checked are the liveness properties, as the prover does not treat fairness, and
`AttemptsWithinBudget`. Every other invariant and action property that a passing run checks is a
theorem.

## 5. What is not modelled, and why

* Torn reads of pending entries, records and the Studio job index: the torn reads modelled are those
  of the raw preparation index (the same code in `studio_job_service.py`) and of the session files.
* Several output roots per worker, `--once`, and the inline mode used by tests. One worker's roots
  share only its stop check and its idle shutdown.
* An external worker for raw preparation entries; it would run the same pass as in `StudioQueue`.
* The arithmetic of the retry delay: whether it has passed is one bit.
* Exceptions while a Studio record is loaded (a corrupt file), which `process_pending_queue` turns
  into a retryable failure; the order in which a pass visits entries (any order is allowed, which
  includes the code's); the clock of idle shutdown (it may happen whenever the queue is empty).
* A session stops polling when one poll's request fails; the fair specifications describe a session
  that goes on.
* Steps that are coarser than the code's: `_recover_stale_entries` goes from entry to entry, a resume
  loads one record and saves it, a raw preparation retry writes one foundation after the other, and
  record, foundation and gate scan the library's files one by one; each of these is one step. The rawprep
  branch of the retry of dead letters, the file `dreamisp_plan.json` (the model reads the plan that
  holds the same), a bucket's further samples and half-written manifests are left out. What an export
  whose directory went has in its zip is the files of one of the two exports, not any part of them.
* Writes that fail (a full disk), except where a crash leaves them half done.
* What the RAW engines compute: alignment, fusion, noise, colour, scores and their thresholds are
  numerical image processing. `SingleRaw` and `TriRaw` keep the stage that is reached and by which
  source; which of TriRaw's candidates is recommended changes no state another part reads.
* Recipes, templates and workflow materialisation: table lookups and JSON rewriting, represented by
  whether a job is ready. Telemetry: an append-only log no decision reads.
* Read-only assemblies: the operations summary's reports, the list of recent sessions, runbooks and
  commands as text, benchmark reports in Markdown, provider and storage summaries, readiness reports
  of other engines. They change nothing, and an error in them is visible to a unit test.
* Previews, mask arithmetic, sliders, the compare advisor, the fast-readiness and consistency
  metrics: functions of images without shared state.
* The frontend, but for its polling.

## 6. Plan

Done: the queue, its promise and its proofs; the embedded mode; the provider, raw preparation, the
release chain, the handoff and the pod, the sessions with delivery, intake and quality, each with its
proofs.

What a further step would take up, in this order: several roots per external worker; the backoff
arithmetic against a reference; `Settling` for external workers, where an entry in hand need not be
the one on file.
