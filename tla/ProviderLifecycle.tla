-------------------------- MODULE ProviderLifecycle --------------------------
(***************************************************************************)
(* The pod around the Studio queue: runpod_provider.py.  A pause writes a  *)
(* checkpoint of the active jobs, asks the workers to stop, waits for them *)
(* for a while and stops the pod, which ends the API, every worker and     *)
(* ComfyUI with all it was given.  A resume, by the boot of the API or by  *)
(* the operator, puts the checkpointed jobs back and starts workers.       *)
(*                                                                         *)
(* The queue is StudioQueue as it is: its steps are steps of this system.  *)
(***************************************************************************)
EXTENDS StudioQueue

CONSTANT
  MaxPauses,         \* bound: pauses the operator requests
  MaxResumes,        \* bound: resumes begun, beyond which the operator requests none
  Requested          \* worker modes that a pause may ask for by name

Mode == {"embedded", "external"}

ASSUME PausesAssumption == MaxPauses \in Nat /\ MaxResumes \in Nat /\ Requested \subseteq Mode

VARIABLES
  checkpoint,        \* the checkpoint file
  pausing,           \* what a pause request does next
  resuming,          \* what a resume does next, and its copy of the checkpoint
  pauses,            \* how many pauses were requested
  resumes            \* how many resumes of a checkpoint were begun

provider     == <<checkpoint, pausing, resuming, pauses, resumes>>
providerVars == <<vars, provider>>

\* trigger is last_resume_trigger, what the checkpoint was last resumed by.
Checkpoint == [pending : BOOLEAN, jobs : SUBSET Job, mode : Mode,
               trigger : {"none", "boot", "manual"}]
Resuming   == [at : {"idle", "jobs", "roots", "clear"}, boot : BOOLEAN,
               copy : Checkpoint, todo : SUBSET Job]

NoCheckpoint == [pending |-> FALSE, jobs |-> {}, mode |-> "embedded", trigger |-> "none"]
NotResuming  == [at |-> "idle", boot |-> FALSE, copy |-> NoCheckpoint, todo |-> {}]

ProviderInit ==
  /\ Init
  /\ checkpoint = NoCheckpoint
  /\ pausing = "idle"
  /\ resuming = NotResuming
  /\ pauses = 0
  /\ resumes = 0

-----------------------------------------------------------------------------
\* Pause.

\* _collect_checkpoint_active_jobs: the queue's entries whose record is active,
\* and the job the session shows, whatever its status.
CollectActiveJobs(shown) ==
  {j \in Job : pending[j] # Absent /\ record[j].status \in Active} \cup shown

\* _guess_checkpoint_worker_mode, where the request names none: the kind of worker that
\* was heard of lately or is registered, else an external one.
GuessedMode ==
  IF heartbeat.fresh /\ heartbeat.mode \in Mode THEN heartbeat.mode
  ELSE IF registry # Nobody THEN "embedded" ELSE "external"

\* Operators who are patient do not pause and resume at the same time.
PauseProvider ==
  /\ apiUp /\ pausing = "idle" /\ pauses < MaxPauses
  /\ PatientUsers => resuming.at = "idle"
  /\ \E shown \in SUBSET {j \in Job : record[j] # NoRecord}, mode \in Requested \cup {GuessedMode} :
       checkpoint' = [pending |-> TRUE, jobs |-> CollectActiveJobs(shown), mode |-> mode,
                      trigger |-> "none"]
  /\ pausing' = "stop"
  /\ pauses' = pauses + 1
  /\ UNCHANGED <<vars, resuming, resumes>>

PauseStopsWorkers ==
  /\ pausing = "stop"
  /\ stop' = TRUE
  /\ pausing' = "drain"
  /\ UNCHANGED <<files, jobs, heartbeat, workers, api, crashes, checkpoint, resuming, pauses, resumes>>

\* A drained pod has nothing in flight.
Drained ==
  /\ \A w \in Worker : pc[w] = "down"
  /\ \A h \in Handler : call[h] = Idle

\* _wait_for_worker_stop gives up after a while, and nobody waits for requests:
\* a stop of a pod that is not drained is a crash of everything in it.
PodStops ==
  /\ pausing = "drain"
  /\ ~Drained => crashes < MaxCrashes
  /\ crashes' = IF Drained THEN crashes ELSE crashes + 1
  /\ apiUp' = FALSE
  /\ pc' = [w \in Worker |-> "down"]
  /\ todo' = [w \in Worker |-> NoTodo]
  /\ hand' = [w \in Worker |-> NoHand]
  /\ call' = [h \in Handler |-> Idle]
  /\ registry' = Nobody
  /\ heartbeat' = [heartbeat EXCEPT !.writer = Nobody]
  /\ comfy' = [j \in Job |-> [n \in DOMAIN comfy[j] |->
                 [comfy[j][n] EXCEPT !.state = IF @ = "gone" THEN @ ELSE "lost"]]]
  /\ pausing' = "idle"
  /\ resuming' = NotResuming
  /\ UNCHANGED <<files, record, asked, stop, checkpoint, pauses, resumes>>

\* The pause was asked not to stop the pod, or the provider refused: the stop
\* request and the checkpoint stay.
PodStays ==
  /\ pausing = "drain"
  /\ pausing' = "idle"
  /\ UNCHANGED <<vars, checkpoint, resuming, pauses, resumes>>

-----------------------------------------------------------------------------
\* Resume of a pending checkpoint; without one, a boot is StudioQueue's ApiBoot
\* and a request of the operator is its StartEmbedded or StartExternal.

BeginResume(boot) ==
  /\ checkpoint.pending /\ resuming.at = "idle"
  /\ resuming' = [at |-> "jobs", boot |-> boot, copy |-> checkpoint, todo |-> checkpoint.jobs]
  /\ resumes' = resumes + 1
  /\ UNCHANGED <<vars, checkpoint, pausing, pauses>>

ResumeOnBoot    == ~apiUp /\ BeginResume(TRUE)

ResumeOnRequest ==
  /\ apiUp /\ resumes < MaxResumes
  /\ PatientUsers => pausing = "idle"
  /\ BeginResume(FALSE)


\* Seeded fault: a job that has ended is put back too.
NormalizedEvenEnded(rec) ==
  IF rec.status # "absent" THEN [rec EXCEPT !.status = "queued", !.prompt = 0] ELSE rec

\* _normalize_checkpointed_studio_job; a job without a record is passed over.
Normalized(rec) ==
  IF rec.status \notin Terminal /\ (rec.status \in {"submitted", "running"} \/ rec.prompt > 0)
    THEN [rec EXCEPT !.status = "queued", !.prompt = 0]
    ELSE rec

ResumeJob ==
  /\ resuming.at = "jobs"
  /\ \E j \in resuming.todo :
       /\ record' = [record EXCEPT ![j] = Normalized(@)]
       /\ resuming' = [resuming EXCEPT !.todo = @ \ {j}]
  /\ UNCHANGED <<files, asked, comfy, control, workers, api, crashes,
                 checkpoint, pausing, pauses, resumes>>

JobsResumed ==
  /\ resuming.at = "jobs" /\ resuming.todo = {}
  /\ resuming' = [resuming EXCEPT !.at = "roots"]
  /\ UNCHANGED <<vars, checkpoint, pausing, pauses, resumes>>

\* _resume_roots: the stop requests are withdrawn; launch_external_worker_processes
\* spawns where no worker is active.
ResumeRoots ==
  /\ resuming.at = "roots"
  /\ stop' = FALSE
  /\ IF resuming.copy.mode = "embedded"
       THEN StartQueueWorker(FALSE)
       ELSE /\ UNCHANGED registry
            /\ IF HealthyExternal \/ registry # Nobody
                 THEN UNCHANGED pc
                 ELSE \E p \in Process : pc[p] = "down" /\ Goto(p, "boot")
  /\ resuming' = [resuming EXCEPT !.at = "clear"]
  /\ UNCHANGED <<files, jobs, heartbeat, todo, hand, api, crashes,
                 checkpoint, pausing, pauses, resumes>>

Resumed(copy) == [copy EXCEPT !.pending = FALSE,
                              !.trigger = IF resuming.boot THEN "boot" ELSE "manual"]

\* Seeded fault: the checkpoint is done with as soon as the resume begins.
ClearFirst ==
  /\ resuming.at = "jobs"
  /\ checkpoint' = Resumed(resuming.copy)
  /\ apiUp' = TRUE
  /\ resuming' = NotResuming
  /\ UNCHANGED <<files, jobs, control, workers, call, crashes, pausing, pauses, resumes>>

\* The copy is written back, whatever is in the file by now.
ClearCheckpoint ==
  /\ resuming.at = "clear"
  /\ checkpoint' = Resumed(resuming.copy)
  /\ apiUp' = TRUE
  /\ resuming' = NotResuming
  /\ UNCHANGED <<files, jobs, control, workers, call, crashes, pausing, pauses, resumes>>

\* An exception ends the resume.  At boot it is swallowed, and resume_known_queues
\* starts a thread if there are entries and no stop request.
Abandon(stopped) ==
  /\ apiUp' = TRUE
  /\ resuming' = NotResuming
  /\ IF resuming.boot /\ pending # NoTodo THEN StartQueueWorker(stopped) ELSE UNCHANGED <<registry, pc>>
  /\ UNCHANGED <<files, jobs, heartbeat, todo, hand, call, crashes, checkpoint, pausing, pauses, resumes>>

\* A record cannot be read, torn by a crash or by somebody who is writing it.
LoadFails ==
  /\ resuming.at = "jobs"
  /\ resuming.boot => crashes > 0
  /\ stop' = stop
  /\ Abandon(stop)

\* The process cannot be spawned; the stop requests were withdrawn before that.
SpawnFails ==
  /\ resuming.at = "roots" /\ resuming.copy.mode = "external"
  /\ ~HealthyExternal /\ registry = Nobody
  /\ stop' = FALSE
  /\ Abandon(FALSE)

ResumeFails == LoadFails \/ SpawnFails

\* The API dies while it boots, and with it the thread that was started.
BootCrashes ==
  /\ resuming.boot
  /\ Kill(Thread)
  /\ registry' = Nobody
  /\ resuming' = NotResuming
  /\ UNCHANGED <<api, checkpoint, pausing, pauses, resumes>>

Resume == ResumeOnRequest \/ ResumeJob \/ JobsResumed \/ ResumeRoots \/ ClearCheckpoint

Provider ==
  \/ PauseProvider \/ PauseStopsWorkers \/ PodStops \/ PodStays
  \/ Resume \/ ResumeOnBoot \/ ResumeFails \/ BootCrashes

\* A step of the queue.  A boot with a pending checkpoint resumes it first, and
\* a crash of the API ends its requests to the provider.
QueueStep ==
  /\ Next
  /\ ~apiUp /\ apiUp' => ~checkpoint.pending /\ resuming = NotResuming
  /\ pausing' = IF apiUp /\ ~apiUp' THEN "idle" ELSE pausing
  /\ resuming' = IF apiUp /\ ~apiUp' THEN NotResuming ELSE resuming
  /\ UNCHANGED <<checkpoint, pauses, resumes>>

ProviderNext == QueueStep \/ Provider

ProviderSpec == ProviderInit /\ [][ProviderNext]_providerVars

\* A step of the queue that leaves the API up, or boots it, as QueueStep does.
Beside(Step) == Step /\ UNCHANGED provider

\* The pod is started again once it was stopped, and what was begun goes on.
ProviderFairSpec ==
  /\ ProviderSpec
  /\ \A w \in Worker : WF_providerVars(Beside(Pass(w)))
  /\ \A t \in Thread : WF_providerVars(Beside(EndThread(t) \/ ClearBeat(t) \/ Unregister(t)))
  /\ \A p \in Process : WF_providerVars(Beside(Boot(p) \/ Look(p) \/ StopExternal(p) \/ ClearBeat(p)))
  /\ \A h \in Handler : WF_providerVars(Beside(Proceed(h)))
  /\ \A j \in Job : WF_providerVars(Beside(DelayElapses(j)))
  /\ WF_providerVars(Beside(ComfyEnds))
  /\ WF_providerVars(~checkpoint.pending /\ resuming = NotResuming /\ Beside(ApiBoot))
  /\ WF_providerVars(heartbeat.writer = Nobody /\ Beside(HeartbeatExpires))
  /\ \A j \in Job : SF_providerVars(\E h \in Handler : Beside(Get(h, j)))
  /\ WF_providerVars(PauseStopsWorkers)
  /\ WF_providerVars(ResumeOnBoot)
  /\ WF_providerVars(resuming.boot /\ (ResumeJob \/ JobsResumed \/ ResumeRoots \/ SpawnFails \/ ClearCheckpoint))

-----------------------------------------------------------------------------
\* The checkpoint and what a request to the provider has in hand are well formed.
ProviderTypeOK ==
  /\ TypeOK
  /\ checkpoint \in Checkpoint
  /\ pausing \in {"idle", "stop", "drain"}
  /\ resuming \in Resuming
  /\ pauses \in 0..MaxPauses
  /\ resumes \in Nat

AwaitsLost(j) == AwaitsComfy(record[j]) /\ comfy[j][record[j].prompt].state = "lost"

\* Once the boot of a pod, drained or not when it was stopped, has resumed a
\* checkpoint, no job of it waits for a prompt that went with a pod: its history is
\* empty, and the job would be polled for ever.  A resume on request gives no such
\* guarantee: a poll that is under way writes the record back.
CheckpointedJobsOutliveThePod ==
  ~checkpoint.pending /\ checkpoint.trigger = "boot" => \A j \in checkpoint.jobs : ~AwaitsLost(j)

\* "The queue goes on by itself": no job at all is left waiting for such a prompt.
NoJobAwaitsLostPrompt == apiUp /\ ~checkpoint.pending => \A j \in Job : ~AwaitsLost(j)

\* A resume resubmits a job at most once; a job that neither a crash nor a resume
\* touched is submitted once for every demand of a user.
ResubmissionsNeedResumes == \A j \in Job : Resubmissions(j) <= crashes + resumes

\* j has an entry, is about to get one, or had one that was archived.
Known(j) ==
  \/ pending[j] # Absent \/ archived[j] # "none"
  \/ \E h \in Handler : call[h].at = "enqueue" /\ call[h].job = j

\* A resume queues records, and writes no entry.  As long as nothing crashed, a record
\* on file as active has an entry all the same, or is about to get one, unless an entry
\* of the job was archived: the record was ended, and brought back by the late answer
\* of a poll, or by a worker whose entry a cancellation took away.
AcceptedJobIsKnown ==
  crashes = 0 => \A j \in Job : record[j].status \in Active => Known(j)

\* A job of the checkpoint that was active when the pod was stopped, and whose entry is
\* in the queue, ends after the pod is started again, unless a crash cut the pause or
\* the resume short.
CheckpointedJobFinishes ==
  \A j \in Job :
    /\ checkpoint.pending /\ j \in checkpoint.jobs /\ ~apiUp
    /\ record[j].status \in Active /\ pending[j] # Absent
    ~> record[j].status \in Terminal \/ Barren(j) \/ crashes > 0
=============================================================================
