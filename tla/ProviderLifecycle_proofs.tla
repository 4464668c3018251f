----------------------- MODULE ProviderLifecycle_proofs -----------------------
(***************************************************************************)
(* What holds of the queue with the pod around it, for every set of jobs,  *)
(* workers and requests and however often the pod is paused and resumed:   *)
(* its types, that one embedded worker runs at a time, that no heartbeat   *)
(* outlives its worker, that what ended quietly stays ended, that the      *)
(* queue still keeps QueuePromise, how often a job is resubmitted,         *)
(* that no job of a resumed checkpoint waits for a prompt that was lost,   *)
(* and that, short of a crash, an active job has an entry or had one.      *)
(***************************************************************************)
EXTENDS ProviderLifecycle, StudioEmbedded_proofs

-----------------------------------------------------------------------------
\* A worker is started, or none, and nobody else is touched.
Starts ==
  \/ UNCHANGED <<registry, pc>>
  \/ StartQueueWorker(stop) \/ StartQueueWorker(FALSE)
  \/ registry' = registry /\ \E p \in Process : pc[p] = "down" /\ Goto(p, "boot")

\* The switches of the pod: the stop request, the API, a worker.
Switches ==
  /\ UNCHANGED <<files, jobs, heartbeat, todo, hand, call, crashes>>
  /\ stop' \in BOOLEAN /\ apiUp' \in BOOLEAN
  /\ Starts

\* The record of a job of the checkpoint is put back.
PutsBack(j) ==
  /\ record' = [record EXCEPT ![j] = Normalized(record[j])]
  /\ resuming.at = "jobs" /\ resuming' = [resuming EXCEPT !.todo = resuming.todo \ {j}]
  /\ UNCHANGED <<files, asked, comfy, control, workers, api, crashes, checkpoint, resumes>>

\* What the provider does to the queue.
LEMMA ProviderEffect ==
  ASSUME Typed, Provider
  PROVE  \/ UNCHANGED vars \/ Switches \/ PodStops \/ BootCrashes
         \/ \E j \in resuming.todo : PutsBack(j)
<1>0. stop \in BOOLEAN /\ apiUp \in BOOLEAN
  BY DEF Typed, TypeOK, ControlOK, ApiOK
<1>1. CASE PauseProvider \/ PodStays \/ ResumeOnBoot \/ ResumeOnRequest \/ JobsResumed
  BY <1>1 DEF PauseProvider, PodStays, ResumeOnBoot, ResumeOnRequest, BeginResume, JobsResumed
<1>2. CASE PauseStopsWorkers
  BY <1>0, <1>2 DEF PauseStopsWorkers, Switches, Starts, workers, api
<1>3. CASE ResumeRoots
  BY <1>0, <1>3 DEF ResumeRoots, Switches, Starts, api
<1>4. CASE ResumeFails
  BY <1>0, <1>4 DEF ResumeFails, LoadFails, SpawnFails, Abandon, Switches, Starts, control
<1>5. CASE ClearCheckpoint
  BY <1>0, <1>5 DEF ClearCheckpoint, Switches, Starts, control, workers
<1>6. CASE ResumeJob
  BY <1>6 DEF ResumeJob, PutsBack
<1> QED
  BY <1>1, <1>2, <1>3, <1>4, <1>5, <1>6 DEF Provider, Resume

\* A record that is put back is a record.
LEMMA NormalizedTypes == \A rec \in Record : Normalized(rec) \in Record
<1> SUFFICES ASSUME NEW rec \in Record PROVE Normalized(rec) \in Record
  OBVIOUS
<1>1. "queued" \in Status
  BY DEF Status, Active
<1> QED
  BY <1>1 DEF Normalized, Record

\* Started workers are workers.
LEMMA StartsTypes ==
  ASSUME Typed, Starts, UNCHANGED <<todo, hand>>
  PROVE  WorkersOK' /\ CarriesJob'
<1>1. CASE UNCHANGED <<registry, pc>>
  BY <1>1 DEF Typed, TypeOK, WorkersOK, CarriesJob
<1> QED
  BY <1>1, StartTypes, LaunchTypes DEF Starts

\* A prompt that is lost is a prompt still, and answers the demand it answered.
Lose(prompts) == [n \in DOMAIN prompts |->
  [prompts[n] EXCEPT !.state = IF prompts[n].state = "gone" THEN prompts[n].state ELSE "lost"]]

\* A prompt that is lost is a prompt still.
LEMMA LoseTypes ==
  ASSUME NEW prompts \in Seq(Prompt)
  PROVE  /\ Lose(prompts) \in Seq(Prompt)
         /\ DOMAIN Lose(prompts) = DOMAIN prompts /\ Len(Lose(prompts)) = Len(prompts)
         /\ \A n \in DOMAIN prompts : Lose(prompts)[n].request = prompts[n].request
<1>1. prompts \in [1..Len(prompts) -> Prompt] /\ Len(prompts) \in Nat
  BY LenProperties
<1>2. Lose(prompts) \in [1..Len(prompts) -> Prompt]
  BY <1>1 DEF Lose, Prompt, PromptState
<1>3. Lose(prompts) \in Seq(Prompt)
  BY <1>1, <1>2, SeqDef
<1>4. Len(Lose(prompts)) = Len(prompts)
  BY <1>1, <1>2, <1>3, LenProperties
<1>5. \A n \in DOMAIN prompts : Lose(prompts)[n].request = prompts[n].request
  BY <1>1 DEF Lose, Prompt
<1> QED
  BY <1>1, <1>2, <1>3, <1>4, <1>5

\* What a stop of the pod leaves behind.
LEMMA StopEffect ==
  ASSUME Typed, PodStops
  PROVE  /\ UNCHANGED <<pending, archived, record, asked, stop>>
         /\ pc' = [w \in Worker |-> "down"] /\ todo' = [w \in Worker |-> NoTodo]
         /\ hand' = [w \in Worker |-> NoHand] /\ call' = [h \in Handler |-> Idle]
         /\ registry' = Nobody /\ heartbeat' = [heartbeat EXCEPT !.writer = Nobody] /\ apiUp' = FALSE
         /\ comfy' = [j \in Job |-> Lose(comfy[j])]
         /\ crashes' \in 0..MaxCrashes
         /\ crashes' = IF Drained THEN crashes ELSE crashes + 1
<1>1. crashes \in 0..MaxCrashes /\ MaxCrashes \in Nat
  BY ConstantsAssumption DEF Typed, TypeOK
<1>2. comfy' = [j \in Job |-> Lose(comfy[j])]
  BY DEF PodStops, Lose
<1>3. crashes' \in 0..MaxCrashes
  BY <1>1 DEF PodStops
<1> QED
  BY <1>2, <1>3 DEF PodStops, files

\* The pod that stops leaves everything well formed.
LEMMA StopTyped ==
  ASSUME Typed, PodStops
  PROVE  Typed'
<1>1. FilesOK'
  BY StopEffect DEF Typed, TypeOK, FilesOK
<1>2. JobsOK'
  <2>1. \A j \in Job : Lose(comfy[j]) \in Seq(Prompt)
    BY LoseTypes DEF Typed, TypeOK, JobsOK
  <2>2. comfy' = [j \in Job |-> Lose(comfy[j])] /\ UNCHANGED <<record, asked>>
    BY StopEffect
  <2> QED
    BY <2>1, <2>2 DEF Typed, TypeOK, JobsOK
<1>3. ControlOK'
  BY StopEffect DEF Typed, TypeOK, ControlOK, HeartbeatFile
<1>4. WorkersOK' /\ CarriesJob'
  BY StopEffect, EmptyTypes DEF WorkersOK, WorkerSteps, CarriesJob, Carrying
<1>5. ApiOK'
  BY StopEffect, EmptyTypes DEF ApiOK
<1> QED
  BY <1>1, <1>2, <1>3, <1>4, <1>5, StopEffect DEF Typed, TypeOK

\* Whatever the provider does, the queue keeps its types.
LEMMA ProviderTyped ==
  ASSUME Typed, Provider, resuming \in Resuming
  PROVE  Typed'
<1>1. CASE UNCHANGED vars
  BY <1>1, StepTyped
<1>2. CASE Switches
  BY <1>2, StartsTypes DEF Switches, Typed, TypeOK, FilesOK, JobsOK, ControlOK, ApiOK, files, jobs
<1>3. CASE BootCrashes
  <2>1. Thread \in SUBSET Worker
    BY DEF Worker
  <2> QED
    BY <1>3, <2>1, KillTyped DEF BootCrashes, Typed, TypeOK, WorkersOK, ApiOK, api
<1>4. ASSUME NEW j \in resuming.todo, PutsBack(j) PROVE Typed'
  <2>1. record' \in [Job -> Record]
    BY <1>4, NormalizedTypes DEF PutsBack, Resuming, Typed, TypeOK, JobsOK
  <2> QED
    BY <1>4, <2>1
       DEF PutsBack, Typed, TypeOK, FilesOK, JobsOK, ControlOK, WorkersOK, ApiOK, CarriesJob, files, control, workers, api
<1> QED
  BY <1>1, <1>2, <1>3, <1>4, StopTyped, ProviderEffect

\* The checkpoint, its copies and the counters.
ProviderShapes ==
  /\ checkpoint \in Checkpoint
  /\ pausing \in {"idle", "stop", "drain"}
  /\ resuming \in Resuming
  /\ pauses \in 0..MaxPauses
  /\ resumes \in Nat

\* What the provider writes into the checkpoint is a checkpoint.
LEMMA CheckpointTypes ==
  /\ NoCheckpoint \in Checkpoint
  /\ NotResuming \in Resuming
  /\ \A copy \in Checkpoint : Resumed(copy) \in Checkpoint
<1>1. NoCheckpoint \in Checkpoint
  BY DEF NoCheckpoint, Checkpoint, Mode
<1>2. NotResuming \in Resuming
  BY <1>1 DEF NotResuming, Resuming
<1>3. \A copy \in Checkpoint : Resumed(copy) \in Checkpoint
  BY DEF Resumed, Checkpoint
<1> QED
  BY <1>1, <1>2, <1>3

\* The provider leaves its own state well formed.
LEMMA ProviderShaped ==
  ASSUME ProviderShapes, [ProviderNext]_providerVars
  PROVE  ProviderShapes'
<1> USE DEF ProviderShapes
<1>0. MaxPauses \in Nat
  BY PausesAssumption
<1>1. CASE UNCHANGED providerVars
  BY <1>1 DEF providerVars, provider
<1>2. CASE QueueStep
  BY <1>2, CheckpointTypes DEF QueueStep
<1>3. CASE PauseProvider
  <2>1. PICK shown \in SUBSET {j \in Job : record[j] # NoRecord}, mode \in Requested \cup {GuessedMode} :
          checkpoint' = [pending |-> TRUE, jobs |-> CollectActiveJobs(shown), mode |-> mode, trigger |-> "none"]
    BY <1>3 DEF PauseProvider
  <2>2. CollectActiveJobs(shown) \in SUBSET Job
    BY DEF CollectActiveJobs
  <2>3. checkpoint' \in Checkpoint
    <3>1. GuessedMode \in Mode
      BY DEF GuessedMode, Mode
    <3>2. mode \in Mode
      BY <2>1, <3>1, PausesAssumption
    <3> QED
      BY <2>1, <2>2, <3>2 DEF Checkpoint
  <2>4. pauses' \in 0..MaxPauses
    BY <1>0, <1>3 DEF PauseProvider
  <2> QED
    BY <1>3, <2>3, <2>4 DEF PauseProvider
<1>4. CASE PauseStopsWorkers \/ PodStays
  BY <1>4 DEF PauseStopsWorkers, PodStays
<1>5. CASE PodStops \/ ResumeFails \/ BootCrashes
  BY <1>5, CheckpointTypes DEF PodStops, ResumeFails, LoadFails, SpawnFails, Abandon, BootCrashes
<1>6. CASE ResumeOnBoot \/ ResumeOnRequest
  <2>1. \E boot \in BOOLEAN : BeginResume(boot)
    BY <1>6 DEF ResumeOnBoot, ResumeOnRequest
  <2>2. UNCHANGED <<checkpoint, pausing, pauses>> /\ resumes' \in Nat
    BY <2>1 DEF BeginResume
  <2>3. resuming' \in Resuming
    BY <2>1 DEF BeginResume, Resuming, Checkpoint
  <2> QED
    BY <2>2, <2>3
<1>7. CASE ResumeJob \/ JobsResumed \/ ResumeRoots
  <2>1. resuming' \in Resuming
    BY <1>7 DEF ResumeJob, JobsResumed, ResumeRoots, Resuming
  <2> QED
    BY <1>7, <2>1 DEF ResumeJob, JobsResumed, ResumeRoots
<1>8. CASE ClearCheckpoint
  BY <1>8, CheckpointTypes DEF ClearCheckpoint, Resuming
<1> QED
  BY <1>1, <1>2, <1>3, <1>4, <1>5, <1>6, <1>7, <1>8 DEF ProviderNext, Provider, Resume

PodTyped == Typed /\ ProviderShapes

\* The types hold at first,
LEMMA InitPod == ProviderInit => PodTyped
BY InitTyped, CheckpointTypes, PausesAssumption DEF ProviderInit, PodTyped, ProviderShapes

\* A step of the system is a step of the queue, of the provider, or none.
LEMMA PodStep ==
  ASSUME [ProviderNext]_providerVars
  PROVE  [Next]_vars \/ Provider
BY DEF ProviderNext, QueueStep, providerVars

\* and every step keeps them.
LEMMA StepPod == PodTyped /\ [ProviderNext]_providerVars => PodTyped'
<1> SUFFICES ASSUME PodTyped, [ProviderNext]_providerVars PROVE PodTyped'
  OBVIOUS
<1>1. Typed'
  BY PodStep, StepTyped, ProviderTyped DEF PodTyped, ProviderShapes
<1>2. ProviderShapes'
  BY ProviderShaped DEF PodTyped
<1> QED
  BY <1>1, <1>2 DEF PodTyped

\* The queue's files and copies, the checkpoint and the copies of it are well formed
\* whatever pauses, resumes, crashes and requests come together.
THEOREM ProviderTypeCorrect == ProviderSpec => []ProviderTypeOK
<1>1. PodTyped => ProviderTypeOK
  BY DEF PodTyped, Typed, ProviderShapes, ProviderTypeOK
<1> QED
  BY InitPod, StepPod, <1>1, PTL DEF ProviderSpec

-----------------------------------------------------------------------------
\* Everybody stays who is not ended by a stop of the pod, or by a crash of the boot.
LEMMA SwitchesStay == Typed /\ Switches => WorkersStay
BY StartStays DEF Switches, Starts

\* A stop of the pod ends every worker and clears the registry; a boot that crashes, the
\* thread; the other steps start a worker as the queue's own do.
LEMMA ProviderRegisters ==
  ASSUME Typed, OneEmbeddedPass, Provider
  PROVE  OneEmbeddedPass'
<1>1. CASE UNCHANGED vars
  BY <1>1, OneEmbeddedPassStep
<1>2. CASE Switches
  BY <1>2, StartRegisters, ProcessLeavesThreads DEF Switches, Starts, OneEmbeddedPass
<1>3. CASE PodStops
  BY <1>3, StopEffect, ConstantsAssumption DEF OneEmbeddedPass, Worker
<1>4. CASE BootCrashes
  BY <1>4, ConstantsAssumption DEF BootCrashes, Kill, OneEmbeddedPass, Worker
<1>5. ASSUME NEW j, PutsBack(j) PROVE OneEmbeddedPass'
  BY <1>5 DEF PutsBack, workers, OneEmbeddedPass
<1> QED
  BY <1>1, <1>2, <1>3, <1>4, <1>5, ProviderEffect

\* However often the pod is stopped and booted, one thread at a time serves the queue.
THEOREM ProviderOneEmbeddedPass == ProviderSpec => []OneEmbeddedPass
<1>1. ProviderInit => OneEmbeddedPass
  BY ConstantsAssumption DEF ProviderInit, Init, OneEmbeddedPass, Worker
<1>2. PodTyped /\ OneEmbeddedPass /\ [ProviderNext]_providerVars => OneEmbeddedPass'
  BY PodStep, OneEmbeddedPassStep, ProviderRegisters DEF PodTyped
<1> QED
  BY InitPod, StepPod, <1>1, <1>2, PTL DEF ProviderSpec

\* A heartbeat whose writer went with the pod is nobody's.
LEMMA ProviderBeats ==
  ASSUME Typed, NoHeartbeatOutlivesItsWorker, Provider
  PROVE  NoHeartbeatOutlivesItsWorker'
<1>0. heartbeat \in HeartbeatFile
  BY DEF Typed, TypeOK, ControlOK
<1>1. CASE UNCHANGED vars
  BY <1>1, HeartbeatStep
<1>2. CASE Switches
  BY <1>2, StartKeepsBeats, LaunchKeepsBeats, BeatStays DEF Switches, Starts
<1>3. CASE PodStops
  BY <1>0, <1>3, StopEffect DEF NoHeartbeatOutlivesItsWorker, HeartbeatFile
<1>4. CASE BootCrashes
  BY <1>0, <1>4, ConstantsAssumption DEF BootCrashes, Kill, NoHeartbeatOutlivesItsWorker, HeartbeatFile
<1>5. ASSUME NEW j, PutsBack(j) PROVE NoHeartbeatOutlivesItsWorker'
  BY <1>5 DEF PutsBack, workers, control, NoHeartbeatOutlivesItsWorker
<1> QED
  BY <1>1, <1>2, <1>3, <1>4, <1>5, ProviderEffect

\* Neither a stop of the pod nor a boot that crashes leaves a heartbeat that would keep
\* the next boot from starting a worker for longer than it takes to expire.
THEOREM ProviderHeartbeat == ProviderSpec => []NoHeartbeatOutlivesItsWorker
<1>1. ProviderInit => NoHeartbeatOutlivesItsWorker
  BY DEF ProviderInit, Init, NoBeat, NoHeartbeatOutlivesItsWorker
<1>2. PodTyped /\ NoHeartbeatOutlivesItsWorker /\ [ProviderNext]_providerVars => NoHeartbeatOutlivesItsWorker'
  BY PodStep, HeartbeatStep, ProviderBeats DEF PodTyped
<1> QED
  BY InitPod, StepPod, <1>1, <1>2, PTL DEF ProviderSpec

-----------------------------------------------------------------------------
\* A resume passes over a job that has ended, and a stop of the pod leaves nobody at
\* work on an older copy of its record.
LEMMA ProviderKeepsEnds ==
  ASSUME Typed, Provider, NEW j \in Job, QuietlyEnded(j)
  PROVE  record'[j] = record[j] /\ QuietlyEnded(j)'
<1>0. NoHand.job # j /\ Idle.job # j
  BY EmptyTypes, ConstantsAssumption
<1>1. CASE UNCHANGED vars
  BY <1>1 DEF vars, QuietlyEnded
<1>2. CASE Switches
  <2>1. UNCHANGED <<record, hand, call>>
    BY <1>2 DEF Switches, jobs
  <2>2. \A w \in Worker : pc'[w] = pc[w] \/ pc[w] = "down"
    BY <1>2 DEF Switches, Starts, StartQueueWorker, Goto, Typed, TypeOK, WorkersOK, Worker
  <2> QED
    BY <2>1, <2>2 DEF QuietlyEnded
<1>3. CASE PodStops
  BY <1>0, <1>3, StopEffect DEF QuietlyEnded
<1>4. CASE BootCrashes
  BY <1>0, <1>4 DEF BootCrashes, Kill, QuietlyEnded, jobs, api
<1>5. ASSUME NEW k, PutsBack(k) PROVE record'[j] = record[j] /\ QuietlyEnded(j)'
  <2>1. record'[j] = record[j]
    BY <1>5 DEF PutsBack, Normalized, QuietlyEnded, Typed, TypeOK, JobsOK
  <2> QED
    BY <1>5, <2>1 DEF PutsBack, QuietlyEnded, workers, api
<1> QED
  BY <1>1, <1>2, <1>3, <1>4, <1>5, ProviderEffect

\* What ended with nobody at work on it keeps its outcome through every pause and resume
\* of the pod, until a user retries it.
THEOREM ProviderQuietEnd == ProviderSpec => QuietEndIsFinal
<1> DEFINE Kept == \A j \in Job : QuietlyEnded(j) =>
                      \/ record'[j] = record[j] /\ QuietlyEnded(j)'
                      \/ \E h \in Handler : call'[h].at = "assess" /\ call'[h].job = j
<1>1. PodTyped /\ [ProviderNext]_providerVars => [Kept]_vars
  BY QuietPass, QuietClient, QuietOthers, ProviderKeepsEnds
     DEF PodTyped, ProviderNext, QueueStep, Next, providerVars
<1> QED
  BY InitPod, StepPod, <1>1, PTL DEF ProviderSpec, QuietEndIsFinal

-----------------------------------------------------------------------------
\* A record that is put back answers the demand it answered.
LEMMA PutsBackSound ==
  ASSUME NEW rec \in Record, NEW n, NEW prompts, Sound(rec, n, prompts)
  PROVE  Sound(Normalized(rec), n, prompts)
BY DEF Sound, Normalized, Record, Terminal

\* Nothing the provider writes back is without a demand.
LEMMA ProviderGrounded ==
  ASSUME Typed, Grounded, Provider
  PROVE  Grounded'
<1>1. CASE UNCHANGED vars
  BY <1>1, StepGrounded
<1>2. CASE Switches
  <2>1. UNCHANGED <<pending, record, asked, comfy, call, todo, hand>>
    BY <1>2 DEF Switches, files, jobs
  <2>2. HandsGrounded'
    BY <1>2, <2>1, SwitchesStay, StayGrounded
  <2> QED
    BY <2>1, <2>2 DEF Grounded, RecordsGrounded, EntriesGrounded, CallsGrounded
<1>3. CASE PodStops
  <2>1. \A k \in Job : comfy[k] # <<>> => comfy'[k] # <<>>
    <3>1. ASSUME NEW k \in Job PROVE comfy'[k] = Lose(comfy[k]) /\ comfy[k] \in Seq(Prompt)
      BY <1>3, StopEffect DEF Typed, TypeOK, JobsOK
    <3> QED
      BY <3>1, LoseTypes, EmptySeq, LenProperties
  <2>2. \A k \in Job : \A rec : Sound(rec, asked[k], comfy[k]) => Sound(rec, asked[k], comfy'[k])
    BY <2>1 DEF Sound
  <2>3. RecordsGrounded' /\ EntriesGrounded'
    <3>1. UNCHANGED <<pending, record, asked>> /\ todo' = [w \in Worker |-> NoTodo]
      BY <1>3, StopEffect
    <3> QED
      BY <2>2, <3>1 DEF Grounded, RecordsGrounded, EntriesGrounded, NoTodo, Absent
  <2>4. HandsGrounded'
    BY <1>3, StopEffect DEF HandsGrounded, Carrying, Working
  <2>5. CallsGrounded'
    BY <1>3, StopEffect DEF CallsGrounded, Idle, Writing
  <2> QED
    BY <2>3, <2>4, <2>5 DEF Grounded
<1>4. CASE BootCrashes
  <2>1. UNCHANGED <<pending, record, asked, comfy, call>>
    BY <1>4 DEF BootCrashes, Kill, files, jobs, api
  <2>2. RecordsGrounded' /\ EntriesGrounded'
    BY <1>4, <2>1 DEF Grounded, RecordsGrounded, EntriesGrounded, BootCrashes, Kill, NoTodo, Absent
  <2>3. HandsGrounded'
    BY <1>4, <2>1 DEF Grounded, HandsGrounded, BootCrashes, Kill, Carrying, Working
  <2> QED
    BY <2>1, <2>2, <2>3 DEF Grounded, CallsGrounded
<1>5. ASSUME NEW j, PutsBack(j) PROVE Grounded'
  <2>1. UNCHANGED <<pending, asked, comfy, pc, todo, hand, call>>
    BY <1>5 DEF PutsBack, files, workers, api
  <2>2. record \in [Job -> Record]
    BY DEF Typed, TypeOK, JobsOK
  <2>3. Normalized(NoRecord) = NoRecord
    BY DEF Normalized, NoRecord
  <2>4. RecordsGrounded'
    BY <1>5, <2>1, <2>2, <2>3, PutsBackSound DEF PutsBack, Grounded, RecordsGrounded
  <2> QED
    BY <2>1, <2>4 DEF Grounded, EntriesGrounded, HandsGrounded, CallsGrounded
<1> QED
  BY <1>1, <1>2, <1>3, <1>4, <1>5, ProviderEffect

\* A request that the stop of the pod ends is about no job.
LEMMA ProviderOver ==
  ASSUME Typed, CallsOver, Provider
  PROVE  CallsOver'
<1>1. call' = call \/ call' = [h \in Handler |-> Idle]
  BY ProviderEffect, StopEffect DEF Switches, BootCrashes, PutsBack, vars, api
<1> QED
  BY <1>1 DEF CallsOver, Idle

\* Losing a prompt gives nothing and takes back no demand that was answered.
LEMMA ProviderGives ==
  ASSUME Typed, Provider
  PROVE  asked' = asked /\ Given' = Given
<1>0. comfy \in [Job -> Seq(Prompt)]
  BY DEF Typed, TypeOK, JobsOK
<1>1. CASE PodStops
  <2>1. ASSUME NEW k \in Job PROVE Requests(comfy'[k]) = Requests(comfy[k])
    <3>1. comfy'[k] = Lose(comfy[k]) /\ comfy[k] \in Seq(Prompt)
      BY <1>0, <1>1, StopEffect
    <3> QED
      BY <3>1, LoseTypes DEF Requests
  <2>2. Given' = Given
    BY <2>1 DEF Given
  <2> QED
    BY <1>1, <2>2, StopEffect
<1>2. CASE UNCHANGED <<asked, comfy>>
  BY <1>2 DEF Given
<1> QED
  BY <1>1, <1>2, ProviderEffect DEF Switches, BootCrashes, Kill, PutsBack, vars, jobs

\* Seen from outside, the provider's steps are conclusions of the queue.
LEMMA ProviderKeepsPromise ==
  Typed /\ Grounded /\ Earned' /\ Provider => [Promise!Next]_Promise!promise
<1> SUFFICES ASSUME Typed, Grounded, Earned', Provider PROVE Promise!Next
  OBVIOUS
<1>1. ASSUME NEW j \in Job, Lives[j] # "open" PROVE Lives'[j] = Lives[j]
  <2>1. QuietlyEnded(j) /\ record'[j] = record[j] /\ QuietlyEnded(j)'
    BY <1>1, OpenMeans, ProviderKeepsEnds
  <2>2. Life(j)' = Life(j)
    BY <2>1 DEF Life
  <2> QED
    BY <2>2 DEF Lives
<1>2. Promise!Conclude
  BY <1>1, ProviderGives, Concludes
<1> QED
  BY <1>2 DEF Promise!Next

\* With the pod paused, stopped, booted and resumed around it however often, the queue
\* keeps what it promises its users.
THEOREM ProviderPromiseKept == ProviderSpec => KeepsPromise
<1>1. ProviderInit => Init
  BY DEF ProviderInit
<1>2. PodTyped /\ Grounded /\ [ProviderNext]_providerVars => Grounded'
  BY PodStep, StepGrounded, ProviderGrounded DEF PodTyped
<1>3. PodTyped /\ CallsOver /\ [ProviderNext]_providerVars => CallsOver'
  BY PodStep, StepOver, ProviderOver DEF PodTyped
<1>4. PodTyped /\ Grounded => Earned
  BY EndIsEarned DEF PodTyped
<1>5. PodTyped /\ Grounded /\ CallsOver /\ Earned' /\ [ProviderNext]_providerVars => [Promise!Next]_Promise!promise
  BY PodStep, StepKeepsPromise, ProviderKeepsPromise DEF PodTyped
<1>6. Promise!Spec <=> Promise!Init /\ [][Promise!Next]_Promise!promise
  BY DEF Promise!Spec
<1> QED
  BY InitPod, InitGrounded, InitOver, InitKeepsPromise, StepPod, <1>1, <1>2, <1>3, <1>4, <1>5, <1>6, PTL
     DEF ProviderSpec, KeepsPromise

-----------------------------------------------------------------------------
\* With the embedded worker alone and patient users.  Nothing the provider does changes
\* who asked for a prompt, and the workers that stay keep what they have.
LEMMA LoseSame ==
  ASSUME Typed, PodStops
  PROVE  SamePrompts
<1>1. ASSUME NEW j \in Job
      PROVE  DOMAIN comfy'[j] = DOMAIN comfy[j] /\ \A n \in DOMAIN comfy[j] : comfy'[j][n].request = comfy[j][n].request
  <2>1. comfy'[j] = Lose(comfy[j]) /\ comfy[j] \in Seq(Prompt)
    BY StopEffect DEF Typed, TypeOK, JobsOK
  <2> QED
    BY <2>1, LoseTypes
<1> QED
  BY <1>1 DEF SamePrompts

\* The switches of the pod leave what a job waits for alone.
LEMMA SwitchesWait ==
  ASSUME Alone, Typed, Switches
  PROVE  Waits
<1>1. UNCHANGED <<todo, hand>> /\ Process = {}
  BY DEF Alone, Switches
<1>2. CASE UNCHANGED <<registry, pc>>
  BY <1>1, <1>2 DEF Waits
<1> QED
  BY <1>1, <1>2, StartWaits DEF Switches, Starts

\* Workers and requests that are gone have nothing in hand and ask for nothing.
LEMMA DownSettled ==
  ASSUME Settling, UNCHANGED <<pending, record, asked>>, SamePrompts,
         \A w \in Worker : pc'[w] = "down" /\ hand'[w] = NoHand /\ todo'[w] = NoTodo,
         \A h \in Handler : call'[h] = call[h] \/ call'[h] = Idle
  PROVE  Settling'
<1>0. NoHand.job = Nobody /\ Idle.job = Nobody /\ Idle.at = "idle" /\ \A j \in Job : NoTodo[j] = Absent
  BY DEF NoHand, Idle, NoTodo
<1>1. EmptyHanded' /\ HandIsFile'
  BY <1>0 DEF EmptyHanded, HandIsFile, Carrying
<1>2. Tidy'
  BY <1>0 DEF Settling, Tidy, Absent
<1>3. GivenAsked'
  BY DEF Settling, GivenAsked, SamePrompts
<1>4. Prompted'
  BY <1>0 DEF Settling, Prompted
<1>5. Patience'
  <2>1. ASSUME NEW h \in Handler, call'[h].at \in Entering
        PROVE  call'[h] = call[h] /\ call[h].at \in Entering /\ call[h].job \in Job
    <3>1. call'[h] = call[h]
      BY <1>0, <2>1 DEF Entering
    <3> QED
      BY <2>1, <3>1 DEF Settling, Called, Entering
  <2>2. \A j \in Job, w \in Worker : hand'[w].job # j /\ todo'[w][j] = Absent
    BY <1>0, ConstantsAssumption
  <2>3. \A j \in Job : \A n \in DOMAIN comfy'[j] : n \in DOMAIN comfy[j] /\ comfy'[j][n].request = comfy[j][n].request
    BY DEF SamePrompts
  <2>4. \A g \in Handler : call'[g].job \in Job => call'[g] = call[g]
    BY <1>0, ConstantsAssumption
  <2>5. ASSUME NEW h \in Handler, call'[h].at \in Entering
        PROVE  /\ pending'[call'[h].job] = Absent
               /\ \A w \in Worker : hand'[w].job # call'[h].job /\ todo'[w][call'[h].job] = Absent
               /\ \A g \in Handler \ {h} : call'[g].job = call'[h].job => call'[g].at = "unqueue"
               /\ record'[call'[h].job].status \in {"planned", "queued"} \cup Terminal
               /\ call'[h].at # "enqueue" =>
                    /\ call'[h].rec.status = "planned" /\ call'[h].rec.prompt = 0
                    /\ call'[h].rec.request = asked'[call'[h].job] /\ asked'[call'[h].job] > 1
                    /\ \A n \in DOMAIN comfy'[call'[h].job] : comfy'[call'[h].job][n].request < asked'[call'[h].job]
    <3>1. PICK k \in Job : k = call[h].job
      BY <2>1, <2>5
    <3>2. /\ pending[k] = Absent
          /\ \A g \in Handler \ {h} : call[g].job = k => call[g].at = "unqueue"
          /\ record[k].status \in {"planned", "queued"} \cup Terminal
          /\ call[h].at # "enqueue" =>
               /\ call[h].rec.status = "planned" /\ call[h].rec.prompt = 0 /\ call[h].rec.request = asked[k]
               /\ asked[k] > 1 /\ \A n \in DOMAIN comfy[k] : comfy[k][n].request < asked[k]
      BY <2>1, <2>5, <3>1 DEF Settling, Patience
    <3>3. call'[h] = call[h] /\ call'[h].job = k
      BY <2>1, <2>5, <3>1
    <3>4. \A g \in Handler \ {h} : call'[g].job = k => call'[g].at = "unqueue"
      BY <2>4, <3>2
    <3>5. \A n \in DOMAIN comfy'[k] : n \in DOMAIN comfy[k] /\ comfy'[k][n].request = comfy[k][n].request
      BY <2>3
    <3> QED
      BY <2>2, <3>2, <3>3, <3>4, <3>5
  <2> QED
    BY <2>5 DEF Patience, InHand
<1>6. Called'
  BY <1>0 DEF Settling, Called
<1> QED
  BY <1>1, <1>2, <1>3, <1>4, <1>5, <1>6 DEF Settling

\* A record that is put back was not one to be put in by a request, unless it is now.
LEMMA PutsBackSettled ==
  ASSUME Typed, Settling, NEW j \in Job, PutsBack(j)
  PROVE  Settling'
<1>0. UNCHANGED <<pending, asked, comfy, pc, todo, hand, call>> /\ record \in [Job -> Record]
  BY DEF PutsBack, files, workers, api, Typed, TypeOK, JobsOK
<1>1. \A k \in Job : record[k].status \in {"planned", "queued"} \cup Terminal =>
                     record'[k].status \in {"planned", "queued"} \cup Terminal
  <2>1. ASSUME NEW rec \in Record, rec.status \in {"planned", "queued"} \cup Terminal
        PROVE  Normalized(rec).status \in {"planned", "queued"} \cup Terminal
    BY <2>1 DEF Normalized, Record
  <2> QED
    BY <1>0, <2>1 DEF PutsBack
<1>2. Patience'
  <2>1. \A h \in Handler : call[h].at \in Entering => call[h].job \in Job
    BY DEF Settling, Called, Entering
  <2> QED
    BY <1>0, <1>1, <2>1 DEF Settling, Patience, InHand
<1> QED
  BY <1>0, <1>2 DEF Settling, EmptyHanded, Tidy, HandIsFile, GivenAsked, Prompted, Called

\* No step of the provider undoes what the queue has settled.
LEMMA ProviderSettled ==
  ASSUME Alone, Typed, Typed', Grounded, Solo, Settling, Provider, resuming \in Resuming
  PROVE  Settling'
<1>1. CASE UNCHANGED vars
  BY <1>1, StepSettled
<1>2. CASE Switches
  <2>1. Waits /\ SamePrompts /\ UNCHANGED <<record, asked, call, pending>>
    BY <1>2, SwitchesWait DEF Switches, SamePrompts, files, jobs
  <2> QED
    BY <2>1, WaitSettled
<1>3. CASE PodStops
  BY <1>3, StopEffect, LoseSame, DownSettled
<1>4. CASE BootCrashes
  <2>1. /\ UNCHANGED <<pending, record, asked, comfy, call>> /\ Worker = Thread
        /\ \A w \in Worker : pc'[w] = "down" /\ hand'[w] = NoHand /\ todo'[w] = NoTodo
    BY <1>4 DEF Alone, Worker, BootCrashes, Kill, files, jobs, api
  <2>2. SamePrompts
    BY <2>1 DEF SamePrompts
  <2> QED
    BY <2>1, <2>2, DownSettled
<1>5. ASSUME NEW j \in resuming.todo, PutsBack(j) PROVE Settling'
  BY <1>5, PutsBackSettled DEF Resuming
<1> QED
  BY <1>1, <1>2, <1>3, <1>4, <1>5, ProviderEffect

\* With the pod around it too, an entry in hand is the one on file, and no request
\* enqueues a job that somebody is at work on.
THEOREM ProviderSettlingHolds ==
  ASSUME Alone
  PROVE  ProviderSpec => []Settling
<1>1. ProviderInit => Init /\ OneEmbeddedPass
  BY ConstantsAssumption DEF ProviderInit, Init, OneEmbeddedPass, Worker
<1>2. PodTyped /\ OneEmbeddedPass /\ [ProviderNext]_providerVars => OneEmbeddedPass'
  BY PodStep, OneEmbeddedPassStep, ProviderRegisters DEF PodTyped
<1>3. PodTyped /\ Grounded /\ [ProviderNext]_providerVars => Grounded'
  BY PodStep, StepGrounded, ProviderGrounded DEF PodTyped
<1>4. PodTyped /\ PodTyped' /\ Grounded /\ OneEmbeddedPass /\ Settling /\ [ProviderNext]_providerVars => Settling'
  BY PodStep, OneIsUp, StepSettled, ProviderSettled DEF PodTyped, ProviderShapes
<1> QED
  BY InitPod, InitGrounded, InitSettled, StepPod, <1>1, <1>2, <1>3, <1>4, PTL DEF ProviderSpec

-----------------------------------------------------------------------------
\* How often a job may be submitted for one demand.  A resume that has begun owes every
\* job of its copy one more submission until it has put the job back.
Due(j) == IF resuming.at = "jobs" /\ j \in resuming.todo THEN 1 ELSE 0

Exposures == \A j \in Job : Exposed(j) + Due(j) <= crashes + resumes

\* A stop of a pod that was not drained may expose every job once more, and counts as a
\* crash; one of a drained pod exposes none.
LEMMA StopExposed ==
  ASSUME Typed, Typed', Settling, PodStops, NEW j \in Job, Exposed(j)' \in Int
  PROVE  Exposed(j)' + crashes <= Exposed(j) + crashes'
<1>0. Exposed(j) \in Int /\ crashes \in Nat /\ crashes' \in Nat /\ SamePrompts
  BY ExposedCount, CrashesCount, LoseSame, ConstantsAssumption DEF Typed, TypeOK
<1>1. CASE Drained
  <2>1. record' = record /\ crashes' = crashes /\ \A w \in Worker : pc[w] = "down" /\ pc'[w] = "down"
    BY <1>1, StopEffect DEF Drained
  <2>2. SameSubmitters
    BY <2>1 DEF SameSubmitters, Submitting
  <2> QED
    BY <1>0, <2>1, <2>2, QuietExposed DEF NoMoreExposed
<1>2. CASE ~Drained
  <2>1. crashes' = crashes + 1
    BY <1>2, StopEffect
  <2> QED
    BY <1>0, <2>1, OnceMoreExposed
<1> QED
  BY <1>1, <1>2

\* What is put back may be submitted once more; no other job is exposed.
LEMMA PutsBackExposed ==
  ASSUME Typed, Typed', Settling, NEW j \in Job, PutsBack(j), NEW k \in Job, Exposed(k)' \in Int
  PROVE  IF k = j THEN Exposed(k)' <= Exposed(k) + 1 ELSE Exposed(k)' <= Exposed(k)
<1>0. SamePrompts /\ UNCHANGED <<pc, hand, comfy>> /\ Exposed(k) \in Int
  BY ExposedCount DEF PutsBack, workers, SamePrompts
<1>1. CASE k = j
  BY <1>0, <1>1, OnceMoreExposed
<1>2. CASE k # j
  <2>1. record'[k] = record[k]
    BY <1>2 DEF PutsBack, Typed, TypeOK, JobsOK
  <2>2. Resubmissions(k)' = Resubmissions(k)
    BY <1>0, SameGiven
  <2>3. Again(k)' <=> Again(k)
    BY <1>0, <2>1 DEF Again, Gave
  <2>4. Exposed(k)' = Exposed(k)
    BY <2>2, <2>3 DEF Exposed
  <2> QED
    BY <1>0, <1>2, <2>4
<1> QED
  BY <1>1, <1>2

\* A step of the provider exposes a job once more only if it is a crash or puts it back.
LEMMA ProviderExposed ==
  ASSUME Alone, Typed, Typed', Settling, Provider, resuming \in Resuming, NEW j \in Job, Exposed(j)' \in Int
  PROVE  \/ Exposed(j)' + crashes <= Exposed(j) + crashes'
         \/ \E k \in resuming.todo : PutsBack(k)
<1>0. Exposed(j) \in Int /\ crashes \in Nat /\ crashes' \in Nat
  BY ExposedCount, CrashesCount, ConstantsAssumption DEF Typed, TypeOK
<1>1. CASE UNCHANGED vars \/ Switches
  <2>1. Waits /\ SamePrompts /\ record' = record /\ crashes' = crashes
    BY <1>1, SwitchesWait DEF Switches, SamePrompts, files, jobs, vars, workers, Waits
  <2>2. NoMoreExposed
    BY <2>1, WaitsSubmitters, QuietExposed
  <2> QED
    BY <1>0, <2>1, <2>2 DEF NoMoreExposed
<1>2. CASE PodStops
  BY <1>2, StopExposed
<1>3. CASE BootCrashes
  <2>1. comfy' = comfy /\ crashes' = crashes + 1
    BY <1>3 DEF BootCrashes, Kill, jobs
  <2>2. SamePrompts
    BY <2>1 DEF SamePrompts
  <2> QED
    BY <1>0, <2>1, <2>2, OnceMoreExposed
<1> QED
  BY <1>1, <1>2, <1>3, ProviderEffect

\* Where nothing is put back, a job that is owed a submission was owed it before, unless
\* a resume begins.
LEMMA DueKept ==
  ASSUME ProviderShapes, [ProviderNext]_providerVars, NEW j \in Job
  PROVE  \/ Due(j)' + resumes <= Due(j) + resumes'
         \/ Provider /\ \E k \in resuming.todo : PutsBack(k)
<1>0. resumes \in Nat
  BY DEF ProviderShapes
<1>1. resumes' = resumes /\ (Due(j)' = 1 => Due(j) = 1) => Due(j)' + resumes <= Due(j) + resumes'
  BY <1>0 DEF Due
<1>2. CASE QueueStep \/ UNCHANGED providerVars
  <2>1. resumes' = resumes /\ (resuming' = resuming \/ resuming' = NotResuming)
    BY <1>2 DEF QueueStep, providerVars, provider
  <2> QED
    BY <1>1, <2>1 DEF Due, NotResuming
<1>3. CASE PauseProvider \/ PauseStopsWorkers \/ PodStays
  BY <1>1, <1>3 DEF PauseProvider, PauseStopsWorkers, PodStays, Due
<1>4. CASE PodStops \/ ClearCheckpoint \/ ResumeFails \/ BootCrashes
  <2>1. resumes' = resumes /\ resuming' = NotResuming
    BY <1>4 DEF PodStops, ClearCheckpoint, ResumeFails, LoadFails, SpawnFails, Abandon, BootCrashes
  <2> QED
    BY <1>1, <2>1 DEF Due, NotResuming
<1>5. CASE ResumeOnRequest \/ ResumeOnBoot
  <2>1. resumes' = resumes + 1
    BY <1>5 DEF ResumeOnRequest, ResumeOnBoot, BeginResume
  <2> QED
    BY <1>0, <2>1 DEF Due
<1>6. CASE ResumeJob
  BY <1>6 DEF ResumeJob, PutsBack, Provider, Resume
<1>7. CASE JobsResumed \/ ResumeRoots
  <2>1. resumes' = resumes /\ resuming'.at \in {"roots", "clear"}
    BY <1>7 DEF JobsResumed, ResumeRoots, ProviderShapes, Resuming
  <2> QED
    BY <1>1, <2>1 DEF Due
<1> QED
  BY <1>2, <1>3, <1>4, <1>5, <1>6, <1>7 DEF ProviderNext, Provider, Resume

\* Nothing was submitted at first,
LEMMA InitExposures == ProviderInit => Exposures
<1> SUFFICES ASSUME ProviderInit, NEW j \in Job PROVE Exposed(j) + Due(j) <= crashes + resumes
  BY DEF Exposures
<1>1. Exposed(j) <= crashes /\ crashes = 0 /\ resumes = 0 /\ Due(j) = 0
  BY InitExposed DEF ProviderInit, Exposure, Init, NotResuming, Due
<1>2. Exposed(j) \in Int
  BY InitTyped, InitSettled, ExposedCount DEF ProviderInit
<1> QED
  BY <1>1, <1>2

\* and every step accounts for what it submits again.
LEMMA StepExposures ==
  ASSUME Alone, PodTyped, PodTyped', Grounded, Solo, Settling, Countable', Exposures, [ProviderNext]_providerVars
  PROVE  Exposures'
<1> SUFFICES ASSUME NEW j \in Job PROVE Exposed(j)' + Due(j)' <= crashes' + resumes'
  BY DEF Exposures
<1>0. /\ Exposed(j) \in Int /\ Exposed(j)' \in Int /\ Due(j) \in 0..1 /\ Due(j)' \in 0..1
      /\ crashes \in Nat /\ crashes' \in Nat /\ resumes \in Nat /\ resumes' \in Nat
  BY ExposedCount, CrashesCount, ConstantsAssumption DEF PodTyped, Typed, TypeOK, ProviderShapes, Countable, Due
<1>1. Exposed(j) + Due(j) <= crashes + resumes
  BY DEF Exposures
<1>2. CASE \E k \in resuming.todo : PutsBack(k)
  <2>1. PICK k \in resuming.todo : PutsBack(k)
    BY <1>2
  <2>2. k \in Job /\ crashes' = crashes /\ resumes' = resumes /\ resuming.at = "jobs" /\ resuming \in Resuming
    BY <2>1 DEF PutsBack, PodTyped, ProviderShapes, Resuming
  <2>3. IF j = k THEN Exposed(j)' <= Exposed(j) + 1 ELSE Exposed(j)' <= Exposed(j)
    BY <1>0, <2>1, <2>2, PutsBackExposed DEF PodTyped
  <2>4. IF j = k THEN Due(j) = 1 /\ Due(j)' = 0 ELSE Due(j)' = Due(j)
    BY <2>1, <2>2 DEF PutsBack, Due, Resuming
  <2> QED
    BY <1>0, <1>1, <2>2, <2>3, <2>4
<1>3. CASE ~\E k \in resuming.todo : PutsBack(k)
  <2>1. Due(j)' + resumes <= Due(j) + resumes'
    BY <1>3, DueKept DEF PodTyped
  <2>2. Exposed(j)' + crashes <= Exposed(j) + crashes'
    BY <1>0, <1>3, PodStep, StepExposed, ProviderExposed DEF PodTyped, ProviderShapes
  <2> QED
    BY <1>0, <1>1, <2>1, <2>2
<1> QED
  BY <1>2, <1>3

\* With the embedded worker alone and patient users, ComfyUI is given a job once for
\* every demand, and once more for each crash and each resume at most.
THEOREM ProviderResubmissions ==
  ASSUME Alone
  PROVE  ProviderSpec => []ResubmissionsNeedResumes
<1>1. ProviderInit => Init /\ OneEmbeddedPass
  BY ConstantsAssumption DEF ProviderInit, Init, OneEmbeddedPass, Worker
<1>2. ProviderSpec => []Settling
  BY ProviderSettlingHolds
<1>3. Typed /\ Settling => Countable
  BY ExposedCount DEF Countable
<1>4. PodTyped /\ PodTyped' /\ Grounded /\ OneEmbeddedPass /\ Settling /\ Countable' /\ Exposures /\ [ProviderNext]_providerVars
      => Exposures'
  BY OneIsUp, StepExposures DEF PodTyped
<1>5. PodTyped /\ Settling /\ Exposures => ResubmissionsNeedResumes
  <2> SUFFICES ASSUME PodTyped, Settling, Exposures, NEW j \in Job PROVE Resubmissions(j) <= crashes + resumes
    BY DEF ResubmissionsNeedResumes
  <2>1. Resubmissions(j) \in Int /\ crashes \in Nat /\ resumes \in Nat
    BY DemandsGiven, CrashesCount DEF Settling, PodTyped, ProviderShapes
  <2>2. Resubmissions(j) + (IF Again(j) THEN 1 ELSE 0) + Due(j) <= crashes + resumes
    BY DEF Exposures, Exposed
  <2>3. Due(j) \in 0..1
    BY DEF Due
  <2> QED
    BY <2>1, <2>2, <2>3
<1>6. PodTyped => Typed
  BY DEF PodTyped
<1>7. PodTyped /\ OneEmbeddedPass /\ [ProviderNext]_providerVars => OneEmbeddedPass'
  BY PodStep, OneEmbeddedPassStep, ProviderRegisters DEF PodTyped
<1>8. PodTyped /\ Grounded /\ [ProviderNext]_providerVars => Grounded'
  BY PodStep, StepGrounded, ProviderGrounded DEF PodTyped
<1> QED
  BY InitPod, InitGrounded, InitExposures, StepPod, <1>1, <1>2, <1>3, <1>4, <1>5, <1>6, <1>7, <1>8, PTL DEF ProviderSpec

-----------------------------------------------------------------------------
\* What a resume at boot is for.  A prompt that is held is none, or one ComfyUI has not
\* forgotten; a copy of a record is fit if the job has ended or its prompt is held.
Held(n, prompts) == n = 0 \/ (n \in DOMAIN prompts /\ prompts[n].state # "lost")

Fit(rec, prompts) == rec.status \notin Terminal => Held(rec.prompt, prompts)

\* A job is fresh when its record is fit and so is every copy that may be written to it.
FreshHand(j, w) == hand[w].job = j =>
  /\ Fit(hand[w].rec, comfy[j])
  /\ pc[w] = "poll" => Held(hand[w].rec.prompt, comfy[j])

FreshCall(j, h) == call[h].job = j =>
  /\ call[h].at = "answer" => Fit(call[h].rec, comfy[j])
  /\ call[h].at = "ask" => Held(call[h].rec.prompt, comfy[j])

Fresh(j) ==
  /\ Fit(record[j], comfy[j])
  /\ \A w \in Worker : FreshHand(j, w)
  /\ \A h \in Handler : FreshCall(j, h)

NoneLost == \A j \in Job : \A n : Held(n, comfy[j]) => Held(n, comfy'[j])

\* A prompt that moves to another state than "lost" is held as before.
LEMMA MovesHeld ==
  ASSUME NEW prompts \in Seq(Prompt), NEW n, NEW state, state # "lost", NEW m,
         Held(m, prompts)
  PROVE  Held(m, [prompts EXCEPT ![n].state = state])
<1>1. prompts \in [1..Len(prompts) -> Prompt] /\ Len(prompts) \in Nat
  BY LenProperties
<1> QED
  BY <1>1 DEF Held, Prompt

\* A prompt that is added is held, and so is what was held before.
LEMMA AppendHeld ==
  ASSUME NEW prompts \in Seq(Prompt), NEW p, p \in Prompt, p.state = "active"
  PROVE  /\ Held(Len(prompts) + 1, Append(prompts, p))
         /\ \A m : Held(m, prompts) => Held(m, Append(prompts, p))
<1>1. prompts \in [1..Len(prompts) -> Prompt] /\ Len(prompts) \in Nat
  BY LenProperties
<1>2. /\ DOMAIN Append(prompts, p) = 1..(Len(prompts) + 1)
      /\ Append(prompts, p)[Len(prompts) + 1] = p
      /\ \A m \in 1..Len(prompts) : Append(prompts, p)[m] = prompts[m]
  BY <1>1, AppendProperties
<1> QED
  BY <1>1, <1>2 DEF Held

\* A worker with an entry in hand loses nothing, writes a fit copy and keeps a fit one.
LEMMA WorksFresh ==
  ASSUME Typed, NEW j \in Job, Fresh(j), NEW w \in Worker, Works(w)
  PROVE  NoneLost /\ Fresh(j)'
<1> DEFINE k == hand[w].job
           rec == hand[w].rec
<1>0. /\ pc \in [Worker -> WorkerSteps] /\ hand \in [Worker -> Hand] /\ record \in [Job -> Record]
      /\ comfy \in [Job -> Seq(Prompt)] /\ k \in Job /\ rec \in Record /\ call' = call
      /\ record[k] \in Record
  BY DEF Typed, TypeOK, JobsOK, WorkersOK, Works, Hand
<1>1. NoneLost /\ (comfy' = comfy \/ /\ pc[w] = "submit" /\ Held(Len(comfy[k]) + 1, comfy'[k]))
  <2>1. CASE comfy' = comfy
    BY <2>1 DEF NoneLost
  <2>2. CASE /\ pc[w] = "submit"
             /\ comfy' = [comfy EXCEPT ![k] = Append(@, [state |-> "active", request |-> rec.request])]
    <3> DEFINE p == [state |-> "active", request |-> rec.request]
    <3>1. p \in Prompt /\ p.state = "active"
      BY <1>0 DEF Prompt, PromptState, Record
    <3>2. comfy' = [comfy EXCEPT ![k] = Append(comfy[k], p)]
      BY <2>2
    <3> HIDE DEF p
    <3>3. /\ Held(Len(comfy[k]) + 1, Append(comfy[k], p))
          /\ \A m : Held(m, comfy[k]) => Held(m, Append(comfy[k], p))
      BY <1>0, <3>1, AppendHeld
    <3> QED
      BY <1>0, <2>2, <3>2, <3>3 DEF NoneLost
  <2> QED
    BY <2>1, <2>2 DEF Works, Loads, Submits, Finishes, Saves, SavesNothing
<1> SUFFICES Fresh(j)'
  BY <1>1
<1>2. ASSUME NEW step, NEW r, NEW result, Keeps(w, step, r, result),
             record'[j] = record[j] \/ (k = j /\ Fit(record'[j], comfy'[j])),
             k = j => Fit(r, comfy'[j]) /\ (step = "poll" => Held(r.prompt, comfy'[j]))
      PROVE  Fresh(j)'
  <2>1. \A n : Held(n, comfy[j]) => Held(n, comfy'[j])
    BY <1>1 DEF NoneLost
  <2>2. \A v \in Worker : /\ v # w => hand'[v] = hand[v] /\ pc'[v] = pc[v]
                          /\ v = w => hand'[v].job = k /\ hand'[v].rec = r /\ pc'[v] = step
    BY <1>0, <1>2 DEF Keeps
  <2>3. Fit(record'[j], comfy'[j])
    BY <1>2, <2>1 DEF Fresh, Fit
  <2>4. ASSUME NEW v \in Worker PROVE FreshHand(j, v)'
    <3>1. CASE v # w
      BY <2>1, <2>2, <3>1 DEF Fresh, FreshHand, Fit
    <3>2. CASE v = w
      BY <1>2, <2>2, <3>2 DEF FreshHand
    <3> QED
      BY <3>1, <3>2
  <2>5. ASSUME NEW h \in Handler PROVE FreshCall(j, h)'
    BY <1>0, <2>1 DEF Fresh, FreshCall, Fit
  <2> QED
    BY <2>3, <2>4, <2>5 DEF Fresh
<1>3. \A r \in Record : \A status \in Terminal : \A prompts : Fit(WithStatus(r, status), prompts)
  BY DEF Fit, WithStatus, Record
<1>4. \A r \in Record : \A prompts, status : r.status \notin Terminal /\ Fit(r, prompts) => Fit(WithStatus(r, status), prompts)
  BY DEF Fit, WithStatus, Record
<1>5. k = j => Fit(record[j], comfy[j]) /\ Fit(rec, comfy[j]) /\ (pc[w] = "poll" => Held(rec.prompt, comfy[j]))
  BY DEF Fresh, FreshHand
<1>6. \A r : Saves(k, r) => record'[j] = record[j] \/ (k = j /\ record'[j] = r)
  BY <1>0 DEF Saves
<1>7. CASE Loads(w)
  <2> DEFINE old == record[k]
  <2>0. comfy' = comfy
    BY <1>7 DEF Loads, Saves, SavesNothing
  <2>1. CASE Keeps(w, "settle", old, ResultOf(old.status)) /\ SavesNothing
    BY <1>2, <1>5, <2>0, <2>1 DEF SavesNothing
  <2>2. CASE AwaitsComfy(old) /\ Keeps(w, "poll", old, hand[w].result) /\ SavesNothing
    <3>1. k = j => Held(old.prompt, comfy[j])
      BY <1>5, <2>2 DEF AwaitsComfy, Terminal, Fit
    <3> QED
      BY <1>2, <1>5, <2>0, <2>2, <3>1 DEF SavesNothing
  <2>3. CASE Keeps(w, "settle", old, "failed") /\ Saves(k, WithStatus(old, "blocked"))
    <3>1. Fit(WithStatus(old, "blocked"), comfy[j])
      BY <1>0, <1>3 DEF Terminal
    <3> QED
      BY <1>2, <1>5, <1>6, <2>0, <2>3, <3>1
  <2>4. CASE /\ Runnable(old) /\ Keeps(w, "prepare", WithStatus(old, "running"), hand[w].result)
             /\ Saves(k, WithStatus(old, "running"))
    <3>1. k = j => Fit(WithStatus(old, "running"), comfy[j])
      BY <1>0, <1>4, <1>5, <2>4 DEF Runnable
    <3> QED
      BY <1>2, <1>6, <2>0, <2>4, <3>1
  <2> QED
    BY <1>7, <2>1, <2>2, <2>3, <2>4 DEF Loads
<1>8. CASE Submits(w)
  <2>1. CASE Keeps(w, "submit", rec, hand[w].result) /\ Saves(k, rec)
    BY <1>2, <1>5, <1>6, <2>1 DEF Saves
  <2>2. ASSUME NEW prompt, Keeps(w, "settle", rec, "retryable"), Saves(k, [rec EXCEPT !.status = "error", !.prompt = prompt])
        PROVE  Fresh(j)'
    <3>1. Fit([rec EXCEPT !.status = "error", !.prompt = prompt], comfy[j])
      BY <1>0 DEF Fit, Record, Terminal
    <3> QED
      BY <1>2, <1>5, <1>6, <2>2, <3>1 DEF Saves
  <2>3. CASE /\ pc[w] = "submit"
             /\ Keeps(w, "submitted", [rec EXCEPT !.status = "submitted", !.prompt = Len(comfy[k]) + 1], hand[w].result)
             /\ comfy' = [comfy EXCEPT ![k] = Append(@, [state |-> "active", request |-> rec.request])]
             /\ record' = record
    <3> DEFINE r == [rec EXCEPT !.status = "submitted", !.prompt = Len(comfy[k]) + 1]
    <3>1. r.prompt = Len(comfy[k]) + 1
      BY <1>0 DEF Record
    <3>2. Held(Len(comfy[k]) + 1, comfy'[k])
      <4>1. comfy'[k] = Append(comfy[k], [state |-> "active", request |-> rec.request])
        BY <1>0, <2>3
      <4>2. [state |-> "active", request |-> rec.request] \in Prompt
        BY <1>0 DEF Prompt, PromptState, Record
      <4> QED
        BY <1>0, <4>1, <4>2, AppendHeld
    <3>3. k = j => Fit(r, comfy'[j])
      BY <3>1, <3>2 DEF Fit
    <3> HIDE DEF r
    <3> QED
      BY <1>2, <2>3, <3>3 DEF r
  <2>4. CASE Keeps(w, "settle", rec, "queued") /\ Saves(k, rec)
    BY <1>2, <1>5, <1>6, <2>4 DEF Saves
  <2> QED
    BY <1>8, <2>1, <2>2, <2>3, <2>4 DEF Submits
<1>9. CASE Finishes(w)
  <2>0. comfy' = comfy
    BY <1>9 DEF Finishes, Saves, SavesNothing
  <2>1. CASE pc[w] = "poll" /\ SavesNothing
             /\ \E r \in Record : /\ r.prompt = rec.prompt /\ r.status \in Polled
                                  /\ Keeps(w, "answer", r, hand[w].result)
    <3>1. PICK r \in Record : r.prompt = rec.prompt /\ Keeps(w, "answer", r, hand[w].result)
      BY <2>1
    <3>2. k = j => Fit(r, comfy'[j])
      BY <1>5, <2>0, <2>1, <3>1 DEF Fit
    <3> QED
      BY <1>2, <2>1, <3>1, <3>2 DEF SavesNothing
  <2>2. CASE Keeps(w, "settle", rec, ResultOf(rec.status)) /\ Saves(k, rec)
    BY <1>2, <1>5, <1>6, <2>0, <2>2
  <2>3. CASE Keeps(w, "unlink", rec, hand[w].result) /\ SavesNothing
    BY <1>2, <1>5, <2>0, <2>3 DEF SavesNothing
  <2> QED
    BY <1>9, <2>1, <2>2, <2>3 DEF Finishes
<1> QED
  BY <1>7, <1>8, <1>9 DEF Works

\* A pass leaves a fresh job fresh: it loses no prompt.
LEMMA PassFresh ==
  ASSUME Typed, NEW j \in Job, Fresh(j), NEW w \in Worker, Pass(w)
  PROVE  Fresh(j)'
<1>0. pc \in [Worker -> WorkerSteps] /\ hand \in [Worker -> Hand] /\ NoHand.job # j /\ NoRecord.prompt = 0
  BY ConstantsAssumption DEF Typed, TypeOK, WorkersOK, NoHand, NoRecord
<1>1. CASE Works(w)
  BY <1>1, WorksFresh
<1>2. CASE Lists(w)
  <2>1. UNCHANGED <<record, comfy, hand, call>> /\ \A v \in Worker : pc'[v] = pc[v] \/ pc'[v] # "poll"
    BY <1>2 DEF Lists
  <2> QED
    BY <2>1 DEF Fresh, FreshHand, FreshCall
<1>3. ASSUME NEW k \in Job, NEW e, Takes(w, k, e) PROVE Fresh(j)'
  <2>1. UNCHANGED <<record, comfy, call>> /\ \A v \in Worker \ {w} : hand'[v] = hand[v] /\ pc'[v] = pc[v]
    BY <1>3 DEF Takes
  <2>2. hand'[w].rec = NoRecord
    BY <1>0, <1>3 DEF Takes
  <2>3. FreshHand(j, w)'
    BY <1>0, <2>2 DEF FreshHand, Fit, Held
  <2> QED
    BY <2>1, <2>3 DEF Fresh, FreshHand, FreshCall
<1>4. ASSUME NEW e, PutsDown(w, e) PROVE Fresh(j)'
  <2>1. UNCHANGED <<record, comfy, call>> /\ hand'[w] = NoHand /\ \A v \in Worker \ {w} : hand'[v] = hand[v] /\ pc'[v] = pc[v]
    BY <1>0, <1>4 DEF PutsDown
  <2> QED
    BY <1>0, <2>1 DEF Fresh, FreshHand, FreshCall
<1> QED
  BY <1>1, <1>2, <1>3, <1>4, PassEffect

\* A request that writes a fit record, and goes on with a fit copy, leaves the job fresh.
LEMMA RequestFresh ==
  ASSUME NEW j \in Job, Fresh(j), NoneLost, Waits, NEW h \in Handler,
         \A g \in Handler \ {h} : call'[g] = call[g],
         record'[j] = record[j] \/ Fit(record'[j], comfy'[j]),
         call'[h].job = j => /\ call'[h].at = "answer" => Fit(call'[h].rec, comfy'[j])
                             /\ call'[h].at = "ask" => Held(call'[h].rec.prompt, comfy'[j])
  PROVE  Fresh(j)'
<1>1. \A n : Held(n, comfy[j]) => Held(n, comfy'[j])
  BY DEF NoneLost
<1>2. \A w \in Worker : hand'[w] = hand[w] /\ (pc'[w] = "poll" => pc[w] = "poll")
  BY DEF Waits, Parked, Carrying
<1>3. Fit(record'[j], comfy'[j])
  BY <1>1 DEF Fresh, Fit
<1>4. \A w \in Worker : FreshHand(j, w)'
  BY <1>1, <1>2 DEF Fresh, FreshHand, Fit
<1>5. \A g \in Handler : FreshCall(j, g)'
  BY <1>1 DEF Fresh, FreshCall, Fit
<1> QED
  BY <1>3, <1>4, <1>5 DEF Fresh

\* What follows only hears ComfyUI, or ends or cancels the job, or plans it anew.
LEMMA ClientFresh ==
  ASSUME Typed, Settling, NEW j \in Job, Fresh(j), NEW h \in Handler, Client(h)
  PROVE  Fresh(j)'
<1> USE DEF Set, Hang
<1>0. /\ call \in [Handler -> Call] /\ record \in [Job -> Record] /\ comfy \in [Job -> Seq(Prompt)]
      /\ Idle.at = "idle" /\ Idle.job = Nobody /\ Waits
  BY ClientWaits DEF Typed, TypeOK, JobsOK, ApiOK, Idle
<1>1. \A r \in Record : \A status \in Terminal : \A prompts : Fit(WithStatus(r, status), prompts)
  BY DEF Fit, WithStatus, Record
<1>2. \A r : \A prompts : r.prompt = 0 => Fit(r, prompts)
  BY DEF Fit, Held
<1>3. comfy' = comfy => NoneLost
  BY DEF NoneLost
<1>4. call[h].at # "idle" => call[h].job \in Job /\ call[h].rec \in Record
  BY <1>0 DEF Settling, Called, Call
<1>5. ASSUME NEW k \in Job, Create(h, k) PROVE Fresh(j)'
  <2>1. \E r : record' = [record EXCEPT ![k] = r] /\ r.prompt = 0 /\ (Set(h, "enqueue", k, r) \/ UNCHANGED call)
    <3>1. PICK status, ready, execute :
            /\ record' = [record EXCEPT ![k] = NewRecord(status, ready, 1)]
            /\ IF ready /\ execute THEN Set(h, "enqueue", k, NewRecord(status, ready, 1)) ELSE UNCHANGED call
      BY <1>5 DEF Create
    <3>2. NewRecord(status, ready, 1).prompt = 0
      BY DEF NewRecord
    <3> QED
      BY <3>1, <3>2
  <2> PICK r : record' = [record EXCEPT ![k] = r] /\ r.prompt = 0 /\ (Set(h, "enqueue", k, r) \/ UNCHANGED call)
    BY <2>1
  <2>2. record'[j] = record[j] \/ Fit(record'[j], comfy'[j])
    BY <1>0, <1>2
  <2>3. call'[h].at \in {"enqueue", "idle"} /\ \A g \in Handler \ {h} : call'[g] = call[g]
    BY <1>0, <1>5 DEF Create, Free
  <2> QED
    BY <1>0, <1>3, <1>5, <2>2, <2>3, RequestFresh DEF Create
<1>6. ASSUME NEW k \in Job, Get(h, k) PROVE Fresh(j)'
  <2>1. UNCHANGED <<record, comfy>> /\ call[h].at = "idle"
    BY <1>6 DEF Get, Free, jobs
  <2>2. \A g \in Handler \ {h} : call'[g] = call[g]
    BY <1>0, <1>6 DEF Get
  <2>3. UNCHANGED call \/ /\ AwaitsComfy(record[k])
                          /\ call'[h].at = "ask" /\ call'[h].job = k /\ call'[h].rec = record[k]
    BY <1>0, <1>6 DEF Get
  <2>4. AwaitsComfy(record[j]) => Held(record[j].prompt, comfy[j])
    BY DEF Fresh, Fit, AwaitsComfy, Terminal
  <2> QED
    BY <1>0, <1>3, <2>1, <2>2, <2>3, <2>4, RequestFresh
<1>7. ASSUME NEW k \in Job, Cancel(h, k) PROVE Fresh(j)'
  <2>1. comfy' = comfy
    BY <1>7 DEF Cancel
  <2>2. record' = record \/ record' = [record EXCEPT ![k] = WithStatus(record[k], "cancelled")]
    BY <1>7 DEF Cancel
  <2>3. record'[j] = record[j] \/ Fit(record'[j], comfy'[j])
    BY <1>0, <1>1, <2>2 DEF Terminal
  <2>4. call'[h].at \in {"unqueue", "interrupt"} /\ \A g \in Handler \ {h} : call'[g] = call[g]
    BY <1>0, <1>7 DEF Cancel
  <2> QED
    BY <1>0, <1>3, <2>1, <2>3, <2>4, RequestFresh
<1>8. ASSUME NEW k \in Job, Retry(h, k) PROVE Fresh(j)'
  <2>1. UNCHANGED <<record, comfy>> /\ call'[h].at = "assess" /\ \A g \in Handler \ {h} : call'[g] = call[g]
    BY <1>0, <1>8 DEF Retry
  <2> QED
    BY <1>0, <1>3, <2>1, RequestFresh
<1>9. CASE Ask(h)
  <2>1. PICK r \in Refreshed(call[h].rec, comfy[call[h].job][call[h].rec.prompt].state) : Set(h, "answer", call[h].job, r)
    BY <1>9 DEF Ask
  <2>2. r.prompt = call[h].rec.prompt /\ call[h].at = "ask" /\ UNCHANGED <<record, comfy>>
    BY <1>4, <1>9, <2>1, RefreshedHeard DEF Ask, jobs
  <2>3. call'[h] = [at |-> "answer", job |-> call[h].job, rec |-> r] /\ \A g \in Handler \ {h} : call'[g] = call[g]
    BY <1>0, <2>1
  <2>4. call[h].job = j => Fit(r, comfy[j])
    BY <2>2 DEF Fresh, FreshCall, Fit
  <2> QED
    BY <1>0, <1>3, <2>2, <2>3, <2>4, RequestFresh
<1>10. CASE SaveAnswer(h) \/ SaveCancelled(h)
  <2>1. /\ comfy' = comfy /\ record' = [record EXCEPT ![call[h].job] = call[h].rec]
        /\ call[h].at = "answer" \/ (call[h].at = "interrupted" /\ call[h].rec.status = "cancelled")
    BY <1>10 DEF SaveAnswer, SaveCancelled, Settling, Prompted, Heard
  <2>2. call[h].job = j => Fit(call[h].rec, comfy[j])
    BY <2>1 DEF Fresh, FreshCall, Fit, Terminal
  <2>3. record'[j] = record[j] \/ Fit(record'[j], comfy'[j])
    BY <1>0, <1>4, <2>1, <2>2
  <2>4. call'[h].at = "idle" /\ \A g \in Handler \ {h} : call'[g] = call[g]
    BY <1>0, <1>10 DEF SaveAnswer, SaveCancelled
  <2> QED
    BY <1>0, <1>3, <2>1, <2>3, <2>4, RequestFresh
<1>11. CASE Unqueue(h) \/ Discard(h) \/ EnqueueJob(h) \/ Wake(h)
  <2>1. UNCHANGED <<record, comfy>>
    BY <1>11 DEF Unqueue, Discard, EnqueueJob, Wake, jobs
  <2>2. call'[h].at \in {"idle", "discard", "wake"} /\ \A g \in Handler \ {h} : call'[g] = call[g]
    <3>1. Hang(h) \/ Set(h, "discard", call[h].job, NoRecord) \/ Set(h, "wake", call[h].job, NoRecord)
      BY <1>11 DEF Unqueue, Discard, EnqueueJob, Wake
    <3> QED
      BY <1>0, <3>1
  <2> QED
    BY <1>0, <1>3, <2>1, <2>2, RequestFresh
<1>12. CASE Interrupt(h)
  <2>1. record' = record /\ call[h].at = "interrupt"
    BY <1>12 DEF Interrupt
  <2>2. call'[h].at \in {"idle", "interrupted"} /\ \A g \in Handler \ {h} : call'[g] = call[g]
    BY <1>0, <1>12 DEF Interrupt
  <2>3. NoneLost
    <3>1. CASE comfy' = comfy
      BY <1>3, <3>1
    <3>2. CASE comfy' = [comfy EXCEPT ![call[h].job][call[h].rec.prompt].state = IF @ = "active" THEN "gone" ELSE @]
      <4> DEFINE k == call[h].job
                 n == call[h].rec.prompt
                 state == IF comfy[k][n].state = "active" THEN "gone" ELSE comfy[k][n].state
      <4>1. comfy' = [comfy EXCEPT ![k] = [comfy[k] EXCEPT ![n].state = state]]
        BY <3>2
      <4>2. \A m : Held(m, comfy[k]) => Held(m, [comfy[k] EXCEPT ![n].state = state])
        <5>1. k \in Job /\ comfy[k] \in [1..Len(comfy[k]) -> Prompt] /\ Len(comfy[k]) \in Nat
          BY <1>0, <1>4, <2>1, LenProperties
        <5> QED
          BY <5>1 DEF Held, Prompt
      <4> HIDE DEF k, n, state
      <4> QED
        BY <1>0, <4>1, <4>2 DEF NoneLost
    <3> QED
      BY <1>12, <3>1, <3>2 DEF Interrupt
  <2> QED
    BY <1>0, <2>1, <2>2, <2>3, RequestFresh
<1>13. CASE Assess(h) \/ Requeue(h)
  <2>1. call[h].rec.prompt = 0 /\ call[h].job \in Job /\ call[h].rec \in Record /\ comfy' = comfy
    BY <1>4, <1>13 DEF Assess, Requeue, Settling, Patience, Entering
  <2>2. PICK r : record' = [record EXCEPT ![call[h].job] = r] /\ r.prompt = 0
    <3>1. CASE Assess(h)
      <4>1. PICK ready \in BOOLEAN : record' = [record EXCEPT ![call[h].job] = [call[h].rec EXCEPT !.ready = ready]]
        BY <3>1 DEF Assess
      <4>2. [call[h].rec EXCEPT !.ready = ready].prompt = 0
        BY <2>1 DEF Record
      <4> QED
        BY <4>1, <4>2
    <3>2. CASE Requeue(h)
      <4>1. \/ record' = [record EXCEPT ![call[h].job] = WithStatus(call[h].rec, "queued")]
            \/ record' = [record EXCEPT ![call[h].job] = WithStatus(call[h].rec, "blocked")]
        BY <3>2 DEF Requeue
      <4>2. \A status : WithStatus(call[h].rec, status).prompt = 0
        BY <2>1 DEF WithStatus, Record
      <4> QED
        BY <4>1, <4>2
    <3> QED
      BY <1>13, <3>1, <3>2
  <2>3. record'[j] = record[j] \/ Fit(record'[j], comfy'[j])
    BY <1>0, <1>2, <2>2
  <2>4. call'[h].at \in {"requeue", "enqueue", "idle"} /\ \A g \in Handler \ {h} : call'[g] = call[g]
    <3>1. \/ \E rec : Set(h, "requeue", call[h].job, rec)
          \/ Set(h, "enqueue", call[h].job, call[h].rec) \/ Hang(h)
      BY <1>13 DEF Assess, Requeue
    <3> QED
      BY <1>0, <3>1
  <2> QED
    BY <1>0, <1>3, <2>1, <2>3, <2>4, RequestFresh
<1> QED
  BY <1>5, <1>6, <1>7, <1>8, <1>9, <1>10, <1>11, <1>12, <1>13 DEF Client, Proceed

\* No step of the queue loses a prompt.
LEMMA OthersLoseNone ==
  ASSUME Typed,
         \/ \E t \in Thread : EndThread(t) \/ ClearBeat(t) \/ Unregister(t)
         \/ \E p \in Process : Boot(p) \/ Look(p) \/ StopExternal(p) \/ IdleShutdown(p) \/ ClearBeat(p)
         \/ Operator \/ Environment
  PROVE  NoneLost
<1>1. CASE ComfyEnds
  <2>1. PICK k \in Job : \E n \in DOMAIN comfy[k], s \in {"done", "failed", "barren"} :
          comfy' = [comfy EXCEPT ![k][n].state = s]
    BY <1>1 DEF ComfyEnds
  <2>2. PICK n \in DOMAIN comfy[k], s \in {"done", "failed", "barren"} :
          comfy' = [comfy EXCEPT ![k] = [comfy[k] EXCEPT ![n].state = s]]
    BY <2>1
  <2>3. comfy \in [Job -> Seq(Prompt)]
    BY DEF Typed, TypeOK, JobsOK
  <2>4. \A m : Held(m, comfy[k]) => Held(m, [comfy[k] EXCEPT ![n].state = s])
    BY <2>3, MovesHeld
  <2> QED
    BY <2>2, <2>3, <2>4 DEF NoneLost
<1>2. CASE ~ComfyEnds
  <2>1. comfy' = comfy
    BY <1>2 DEF EndThread, Unregister, Boot, Look, StopExternal, IdleShutdown, Retire, ClearBeat, Operator, OpsSummary,
                StartEmbedded, StartExternal, RequestStop, Environment, HeartbeatExpires, ApiCrash, ApiBoot,
                DelayElapses, ProcessCrash, Kill, jobs
  <2> QED
    BY <2>1 DEF NoneLost
<1> QED
  BY <1>1, <1>2

\* Workers and requests that are gone have no copies left.
LEMMA DownFresh ==
  ASSUME NEW j \in Job, Fit(record[j], comfy[j]), record'[j] = record[j], comfy' = comfy,
         \A w \in Worker : hand'[w].job # j, \A h \in Handler : call'[h].job # j \/ call'[h] = call[h],
         \A h \in Handler : FreshCall(j, h)
  PROVE  Fresh(j)'
BY DEF Fresh, FreshHand, FreshCall

\* Where workers wait and records stay, a job stays fresh.
LEMMA WaitFresh ==
  ASSUME NEW j \in Job, Fresh(j), Waits, NoneLost, record' = record, call' = call
  PROVE  Fresh(j)'
<1>1. \A n : Held(n, comfy[j]) => Held(n, comfy'[j])
  BY DEF NoneLost
<1>2. \A w \in Worker : hand'[w] = hand[w] /\ (pc'[w] = "poll" => pc[w] = "poll")
  BY DEF Waits, Parked, Carrying
<1> QED
  BY <1>1, <1>2 DEF Fresh, FreshHand, FreshCall, Fit

\* What is fresh stays fresh in every step of the queue.
LEMMA StepFresh ==
  ASSUME Alone, Typed, Settling, NEW j \in Job, Fresh(j), [Next]_vars
  PROVE  Fresh(j)'
<1>1. CASE \E w \in Worker : Pass(w)
  BY <1>1, PassFresh
<1>2. CASE \E h \in Handler : Client(h)
  BY <1>2, ClientFresh
<1>3. CASE ApiCrash
  <2>1. /\ record' = record /\ comfy' = comfy /\ Worker = Thread
        /\ \A w \in Worker : hand'[w] = NoHand
        /\ \A h \in Handler : call'[h] = Idle
    BY <1>3 DEF ApiCrash, Kill, jobs, Alone, Worker
  <2>2. NoHand.job # j /\ Idle.job # j
    BY EmptyTypes, ConstantsAssumption
  <2> QED
    BY <2>1, <2>2, DownFresh DEF Fresh
<1>4. ASSUME \/ \E t \in Thread : EndThread(t) \/ ClearBeat(t) \/ Unregister(t)
             \/ \E p \in Process : Boot(p) \/ Look(p) \/ StopExternal(p) \/ IdleShutdown(p) \/ ClearBeat(p)
             \/ Operator \/ ComfyEnds \/ HeartbeatExpires \/ ApiBoot \/ \E k \in Job : DelayElapses(k)
      PROVE  Fresh(j)'
  <2>1. Waits /\ UNCHANGED <<record, asked, call, crashes>>
    BY <1>4, OthersWait
  <2>2. NoneLost
    BY <1>4, OthersLoseNone DEF Environment
  <2> QED
    BY <2>1, <2>2, WaitFresh
<1>5. CASE UNCHANGED vars
  <2>1. Waits /\ NoneLost /\ record' = record /\ call' = call
    BY <1>5 DEF vars, Waits, NoneLost
  <2> QED
    BY <2>1, WaitFresh
<1> QED
  BY <1>1, <1>2, <1>3, <1>4, <1>5 DEF Next, Environment, Alone

-----------------------------------------------------------------------------
\* A resume at boot has the pod to itself until it starts a worker, and goes by the
\* checkpoint on file; a pause and a resume do not overlap.
Apart ==
  /\ resuming.at = "idle" => ~resuming.boot
  /\ resuming.at # "idle" => (resuming.boot <=> ~apiUp)
  /\ resuming.at \in {"roots", "clear"} => resuming.todo = {}
  /\ ~apiUp => pausing = "idle" /\ \A h \in Handler : call[h] = Idle
  /\ ~apiUp /\ resuming.at # "clear" => \A w \in Worker : pc[w] = "down"
  /\ resuming.boot => checkpoint = resuming.copy /\ checkpoint.pending
  /\ pausing # "idle" => checkpoint.pending /\ resuming.at = "idle"

\* A pass leaves the requests alone, and a request the API.
LEMMA PassLeavesApi ==
  ASSUME NEW w \in Worker, Pass(w)
  PROVE  call' = call /\ apiUp' = apiUp
<1>1. CASE Recover(w) \/ List(w) \/ EndPass(w) \/ SkipDelayed(w)
  <2>1. Recover(w) => UNCHANGED api
    BY DEF Recover
  <2>2. List(w) \/ EndPass(w) \/ SkipDelayed(w) => UNCHANGED api
    BY DEF List, EndPass, SkipDelayed
  <2> QED
    BY <1>1, <2>1, <2>2 DEF api
<1>2. CASE Take(w) \/ Load(w)
  <2>1. Load(w) => UNCHANGED api
    BY DEF Load
  <2>2. Take(w) => UNCHANGED api
    BY DEF Take
  <2> QED
    BY <1>2, <2>1, <2>2 DEF api
<1>3. CASE Prepare(w) \/ Submit(w) \/ FailToSubmit(w) \/ SaveSubmitted(w)
  BY <1>3 DEF Prepare, Submit, FailToSubmit, SaveSubmitted, api
<1>4. CASE Poll(w) \/ SavePolled(w) \/ Postpone(w) \/ Archive(w) \/ Unlink(w)
  BY <1>4 DEF Poll, SavePolled, Postpone, Archive, Unlink, api
<1> QED
  BY <1>1, <1>2, <1>3, <1>4 DEF Pass

\* A request neither starts nor stops the API, and a new one finds it up.
LEMMA ClientLeavesApi ==
  ASSUME NEW h \in Handler, Client(h)
  PROVE  apiUp' = apiUp /\ (call[h].at = "idle" => apiUp)
<1>1. ASSUME NEW j \in Job, Create(h, j) \/ Cancel(h, j) PROVE apiUp' = apiUp /\ apiUp
  BY <1>1 DEF Create, Cancel, Free
<1>2. ASSUME NEW j \in Job, Get(h, j) \/ Retry(h, j) PROVE apiUp' = apiUp /\ apiUp
  BY <1>2 DEF Get, Retry, Free
<1>3. CASE Ask(h) \/ SaveAnswer(h) \/ Unqueue(h) \/ Discard(h) \/ EnqueueJob(h) \/ Wake(h)
  BY <1>3 DEF Ask, SaveAnswer, Unqueue, Discard, EnqueueJob, Wake
<1>4. CASE Interrupt(h) \/ SaveCancelled(h) \/ Assess(h) \/ Requeue(h)
  BY <1>4 DEF Interrupt, SaveCancelled, Assess, Requeue
<1> QED
  BY <1>1, <1>2, <1>3, <1>4 DEF Client, Proceed

\* While the API is down nobody asks for anything, and who is down stays down.
LEMMA DownRests ==
  ASSUME Alone, Typed, ~apiUp, ~apiUp', \A h \in Handler : call[h] = Idle, [Next]_vars
  PROVE  call' = call /\ \A w \in Worker : pc[w] = "down" => pc'[w] = "down"
<1>0. pc \in [Worker -> WorkerSteps] /\ Idle.at = "idle"
  BY DEF Typed, TypeOK, WorkersOK, Idle
<1>1. ASSUME NEW w \in Worker, Pass(w) PROVE call' = call /\ \A v \in Worker : pc[v] = "down" => pc'[v] = "down"
  <2>1. call' = call
    BY <1>1, PassLeavesApi
  <2> QED
    BY <1>0, <1>1, <2>1, PassMoves
<1>2. ASSUME NEW h \in Handler, Client(h) PROVE FALSE
  BY <1>0, <1>2, ClientLeavesApi
<1>3. CASE \E t \in Thread : EndThread(t) \/ ClearBeat(t) \/ Unregister(t)
  BY <1>0, <1>3 DEF EndThread, Retire, ClearBeat, Unregister, Goto, api, Worker
<1>4. CASE ComfyEnds \/ HeartbeatExpires \/ (\E k \in Job : DelayElapses(k)) \/ UNCHANGED vars
  BY <1>4 DEF ComfyEnds, HeartbeatExpires, DelayElapses, workers, api, vars
<1>5. ~(Operator \/ ApiCrash \/ ApiBoot)
  BY DEF Operator, OpsSummary, StartEmbedded, StartExternal, RequestStop, ApiCrash, ApiBoot
<1> QED
  BY <1>1, <1>2, <1>3, <1>4, <1>5 DEF Next, Environment, Alone

\* The API comes up and goes down with the queue's boots and crashes alone.
LEMMA UpDown ==
  ASSUME Alone, [Next]_vars
  PROVE  \/ apiUp' = apiUp
         \/ ~apiUp /\ apiUp' = TRUE
         \/ apiUp /\ ~apiUp' /\ (\A w \in Worker : pc'[w] = "down") /\ \A h \in Handler : call'[h] = Idle
<1>1. CASE ApiCrash
  BY <1>1 DEF ApiCrash, Kill, Alone, Worker
<1>2. CASE ApiBoot
  BY <1>2 DEF ApiBoot
<1>3. CASE UNCHANGED vars
  BY <1>3 DEF vars
<1>4. CASE (\E w \in Worker : Pass(w)) \/ \E h \in Handler : Client(h)
  BY <1>4, PassLeavesApi, ClientLeavesApi
<1>5. CASE \E t \in Thread : EndThread(t) \/ ClearBeat(t) \/ Unregister(t)
  BY <1>5 DEF EndThread, Retire, ClearBeat, Unregister, api
<1>6. CASE Operator \/ ComfyEnds \/ HeartbeatExpires \/ \E k \in Job : DelayElapses(k)
  BY <1>6 DEF Operator, OpsSummary, StartEmbedded, StartExternal, RequestStop, ComfyEnds, HeartbeatExpires,
              DelayElapses, api, vars
<1> QED
  BY <1>1, <1>2, <1>3, <1>4, <1>5, <1>6 DEF Next, Environment, Alone

\* A step of the queue keeps the provider's requests apart,
LEMMA QueueApart ==
  ASSUME Alone, PodTyped, PodTyped', Apart, QueueStep
  PROVE  Apart'
<1>0. /\ checkpoint' = checkpoint /\ apiUp \in BOOLEAN /\ apiUp' \in BOOLEAN /\ [Next]_vars
      /\ pausing' = IF apiUp /\ ~apiUp' THEN "idle" ELSE pausing
      /\ resuming' = IF apiUp /\ ~apiUp' THEN NotResuming ELSE resuming
      /\ NotResuming.at = "idle" /\ ~NotResuming.boot
  BY DEF QueueStep, PodTyped, Typed, TypeOK, ApiOK, NotResuming
<1>1. CASE apiUp' = apiUp
  <2>1. pausing' = pausing /\ resuming' = resuming
    BY <1>0, <1>1
  <2>2. ~apiUp => call' = call /\ \A w \in Worker : pc[w] = "down" => pc'[w] = "down"
    BY <1>0, <1>1, DownRests DEF Apart, PodTyped
  <2> QED
    BY <1>0, <1>1, <2>1, <2>2 DEF Apart
<1>2. CASE ~apiUp /\ apiUp' = TRUE
  <2>1. resuming = NotResuming /\ resuming' = resuming /\ pausing' = pausing /\ pausing = "idle"
    BY <1>0, <1>2 DEF QueueStep, Apart
  <2> QED
    BY <1>0, <1>2, <2>1 DEF Apart
<1>3. CASE apiUp /\ ~apiUp' /\ (\A w \in Worker : pc'[w] = "down") /\ \A h \in Handler : call'[h] = Idle
  <2>1. resuming' = NotResuming /\ pausing' = "idle"
    BY <1>0, <1>3
  <2> QED
    BY <1>0, <1>3, <2>1 DEF Apart
<1> QED
  BY <1>0, <1>1, <1>2, <1>3, UpDown

\* and so does a step of the provider.
LEMMA ProviderApart ==
  ASSUME Alone, PodTyped, PodTyped', Apart, Provider
  PROVE  Apart'
<1>0. /\ apiUp \in BOOLEAN /\ PatientUsers /\ Worker = Thread /\ resuming \in Resuming
      /\ NotResuming.at = "idle" /\ ~NotResuming.boot
  BY DEF PodTyped, ProviderShapes, Typed, TypeOK, ApiOK, NotResuming, Alone, Worker
<1>1. CASE PauseProvider
  <2>1. /\ apiUp /\ resuming.at = "idle" /\ pausing' = "stop" /\ checkpoint'.pending /\ resuming' = resuming /\ apiUp' = apiUp
    BY <1>0, <1>1 DEF PauseProvider, vars
  <2> QED
    BY <1>0, <2>1 DEF Apart
<1>2. CASE PauseStopsWorkers
  <2>1. /\ pausing = "stop" /\ pausing' = "drain" /\ UNCHANGED <<checkpoint, resuming, apiUp, call, pc>>
    BY <1>2 DEF PauseStopsWorkers, workers, api
  <2> QED
    BY <2>1 DEF Apart
<1>3. CASE PodStops
  <2>1. /\ pausing' = "idle" /\ resuming' = NotResuming /\ apiUp' = FALSE /\ checkpoint' = checkpoint
        /\ (\A w \in Worker : pc'[w] = "down") /\ \A h \in Handler : call'[h] = Idle
    BY <1>3 DEF PodStops
  <2> QED
    BY <1>0, <2>1 DEF Apart
<1>4. CASE PodStays
  <2>1. pausing' = "idle" /\ UNCHANGED <<checkpoint, resuming, apiUp, call, pc>>
    BY <1>4 DEF PodStays, vars
  <2> QED
    BY <2>1 DEF Apart
<1>5. CASE ResumeOnBoot \/ ResumeOnRequest
  <2>1. /\ checkpoint.pending /\ resuming.at = "idle" /\ UNCHANGED <<checkpoint, pausing, apiUp, call, pc>>
        /\ pausing = "idle"
        /\ \E boot \in BOOLEAN : /\ boot <=> ~apiUp
                                 /\ resuming' = [at |-> "jobs", boot |-> boot, copy |-> checkpoint, todo |-> checkpoint.jobs]
    BY <1>0, <1>5 DEF ResumeOnBoot, ResumeOnRequest, BeginResume, Apart, vars
  <2> QED
    BY <2>1 DEF Apart
<1>6. CASE ResumeJob \/ JobsResumed \/ ResumeRoots
  <2>1. /\ resuming.at \in {"jobs", "roots"} /\ UNCHANGED <<checkpoint, pausing, apiUp, call>>
        /\ pc' = pc \/ resuming'.at = "clear"
    BY <1>0, <1>6 DEF ResumeJob, JobsResumed, ResumeRoots, vars, workers, api, Resuming
  <2>2. /\ resuming'.at \in {"jobs", "roots", "clear"} /\ resuming'.boot = resuming.boot /\ resuming'.copy = resuming.copy
        /\ resuming'.at # "jobs" => resuming'.todo = {}
    BY <1>0, <1>6 DEF ResumeJob, JobsResumed, ResumeRoots, Resuming, Apart
  <2> QED
    BY <2>1, <2>2 DEF Apart
<1>7. CASE ClearCheckpoint \/ ResumeFails
  <2>1. resuming.at # "idle" /\ apiUp' = TRUE /\ resuming' = NotResuming /\ pausing' = pausing
    BY <1>7 DEF ClearCheckpoint, ResumeFails, LoadFails, SpawnFails, Abandon
  <2> QED
    BY <1>0, <2>1 DEF Apart
<1>8. CASE BootCrashes
  <2>1. /\ resuming.boot /\ resuming' = NotResuming /\ UNCHANGED <<checkpoint, pausing, apiUp, call>>
        /\ \A w \in Worker : pc'[w] = "down"
    BY <1>0, <1>8 DEF BootCrashes, Kill, api
  <2> QED
    BY <1>0, <2>1 DEF Apart
<1> QED
  BY <1>1, <1>2, <1>3, <1>4, <1>5, <1>6, <1>7, <1>8 DEF Provider, Resume

\* Every step keeps them apart.
LEMMA StepApart ==
  ASSUME Alone, PodTyped, PodTyped', Apart, [ProviderNext]_providerVars
  PROVE  Apart'
<1>1. CASE UNCHANGED providerVars
  BY <1>1 DEF providerVars, provider, vars, Apart
<1> QED
  BY <1>1, QueueApart, ProviderApart DEF ProviderNext

-----------------------------------------------------------------------------
\* What the boot has put back so far, and all of a checkpoint a boot has resumed, is fresh.
Renewed == \A j \in checkpoint.jobs :
  \/ resuming.boot /\ j \notin resuming.todo
  \/ ~checkpoint.pending /\ checkpoint.trigger = "boot"
  => Fresh(j)

\* A record that is put back is fit, whatever became of its prompt.
LEMMA NormalizedFit == \A rec \in Record : \A prompts : Fit(Normalized(rec), prompts)
<1> SUFFICES ASSUME NEW rec \in Record, NEW prompts PROVE Fit(Normalized(rec), prompts)
  OBVIOUS
<1>1. CASE rec.status \in Terminal
  BY <1>1 DEF Normalized, Fit
<1>2. CASE rec.status \notin Terminal /\ rec.prompt > 0
  BY <1>2 DEF Normalized, Fit, Held, Record
<1>3. CASE rec.prompt = 0
  BY <1>3 DEF Normalized, Fit, Held, Record
<1> QED
  BY <1>1, <1>2, <1>3 DEF Record

\* A job whose record is put back is fresh if it was, or if nobody has a copy of it.
LEMMA PutsBackFresh ==
  ASSUME Typed, NEW k \in Job, PutsBack(k), NEW j \in Job,
         \/ Fresh(j)
         \/ j = k /\ (\A w \in Worker : hand[w].job # j) /\ \A h \in Handler : call[h].job # j
  PROVE  Fresh(j)'
<1>1. UNCHANGED <<comfy, hand, pc, call>> /\ record \in [Job -> Record]
  BY DEF PutsBack, workers, api, Typed, TypeOK, JobsOK
<1>2. IF j = k THEN record'[j] = Normalized(record[j]) ELSE record'[j] = record[j]
  BY <1>1 DEF PutsBack
<1>3. Fit(record'[j], comfy'[j])
  BY <1>1, <1>2, NormalizedFit DEF Fresh
<1> QED
  BY <1>1, <1>3 DEF Fresh, FreshHand, FreshCall

\* Unless it stops the pod, nothing the provider does loses a prompt or touches a copy.
LEMMA ProviderFresh ==
  ASSUME Alone, Typed, Provider, ~PodStops, resuming \in Resuming, NEW j \in Job, Fresh(j)
  PROVE  Fresh(j)'
<1>1. CASE UNCHANGED vars \/ Switches
  <2>1. Waits /\ NoneLost /\ record' = record /\ call' = call
    BY <1>1, SwitchesWait DEF Switches, NoneLost, files, jobs, vars, workers, Waits
  <2> QED
    BY <2>1, WaitFresh
<1>2. CASE BootCrashes
  <2>1. /\ record' = record /\ comfy' = comfy /\ Worker = Thread /\ call' = call
        /\ \A w \in Worker : hand'[w] = NoHand
    BY <1>2 DEF BootCrashes, Kill, jobs, api, Alone, Worker
  <2>2. NoHand.job # j
    BY EmptyTypes, ConstantsAssumption
  <2> QED
    BY <2>1, <2>2, DownFresh DEF Fresh
<1>3. ASSUME NEW k \in resuming.todo, PutsBack(k) PROVE Fresh(j)'
  BY <1>3, PutsBackFresh DEF Resuming
<1> QED
  BY <1>1, <1>2, <1>3, ProviderEffect

\* Every step keeps the jobs of a resumed checkpoint fresh.
LEMMA StepRenewed ==
  ASSUME Alone, PodTyped, Settling, Apart, Renewed, [ProviderNext]_providerVars
  PROVE  Renewed'
<1> SUFFICES ASSUME NEW j \in checkpoint'.jobs,
                    \/ resuming'.boot /\ j \notin resuming'.todo
                    \/ ~checkpoint'.pending /\ checkpoint'.trigger = "boot"
             PROVE  Fresh(j)'
  BY DEF Renewed
<1>0. Typed /\ checkpoint \in Checkpoint /\ resuming \in Resuming /\ ~NotResuming.boot
  BY DEF PodTyped, ProviderShapes, NotResuming
<1>1. CASE QueueStep \/ UNCHANGED providerVars
  <2>1. checkpoint' = checkpoint /\ (resuming' = resuming \/ resuming' = NotResuming) /\ [Next]_vars
    BY <1>1 DEF QueueStep, providerVars, provider
  <2>2. j \in Job /\ Fresh(j)
    BY <1>0, <2>1 DEF Renewed, Checkpoint
  <2> QED
    BY <1>0, <2>1, <2>2, StepFresh
<1>2. CASE PauseProvider \/ PodStops
  <2>1. checkpoint'.pending /\ ~resuming'.boot
    BY <1>0, <1>2 DEF PauseProvider, PodStops, Apart, Alone
  <2> QED
    BY <2>1
<1>3. CASE PauseStopsWorkers \/ PodStays \/ ResumeFails \/ BootCrashes
  <2>1. checkpoint' = checkpoint /\ (resuming' = resuming \/ resuming' = NotResuming)
    BY <1>3 DEF PauseStopsWorkers, PodStays, ResumeFails, LoadFails, SpawnFails, Abandon, BootCrashes
  <2>2. j \in Job /\ Fresh(j)
    BY <1>0, <2>1 DEF Renewed, Checkpoint
  <2>3. ~PodStops
    <3>1. PauseStopsWorkers => ~PodStops
      BY DEF PauseStopsWorkers, PodStops
    <3>2. PodStays => ~PodStops
      BY <1>0 DEF PodStays, PodStops, vars, api, Apart, Typed, TypeOK, ApiOK
    <3>3. ResumeFails => ~PodStops
      BY DEF ResumeFails, LoadFails, SpawnFails, Abandon, PodStops
    <3>4. BootCrashes => ~PodStops
      BY <1>0 DEF BootCrashes, PodStops, Apart, NotResuming
    <3> QED
      BY <1>3, <3>1, <3>2, <3>3, <3>4
  <2> QED
    BY <1>0, <1>3, <2>1, <2>2, <2>3, ProviderFresh DEF Provider
<1>4. CASE ResumeOnBoot \/ ResumeOnRequest
  <2>1. checkpoint' = checkpoint /\ checkpoint.pending /\ resuming'.todo = checkpoint.jobs
    BY <1>4 DEF ResumeOnBoot, ResumeOnRequest, BeginResume
  <2> QED
    BY <2>1
<1>5. CASE ResumeJob
  <2>1. PICK k \in resuming.todo : PutsBack(k)
    BY <1>5 DEF ResumeJob, PutsBack
  <2>2. /\ checkpoint' = checkpoint /\ k \in Job /\ j \in Job /\ resuming.at = "jobs"
        /\ resuming'.boot = resuming.boot /\ resuming'.todo = resuming.todo \ {k}
    BY <1>0, <2>1 DEF PutsBack, Resuming, Checkpoint
  <2>3. CASE Fresh(j)
    BY <1>0, <2>1, <2>2, <2>3, PutsBackFresh
  <2>4. CASE ~Fresh(j)
    <3>1. j = k /\ resuming.boot
      BY <2>2, <2>4 DEF Renewed
    <3>2. /\ \A w \in Worker : hand[w].job = Nobody
          /\ \A h \in Handler : call[h] = Idle
      BY <2>2, <3>1 DEF Apart, Settling, EmptyHanded, Carrying
    <3>3. Idle.job # j /\ Nobody # j
      BY <2>2, EmptyTypes, ConstantsAssumption
    <3> QED
      BY <1>0, <2>1, <2>2, <3>1, <3>2, <3>3, PutsBackFresh
  <2> QED
    BY <2>3, <2>4
<1>6. CASE JobsResumed \/ ResumeRoots
  <2>1. /\ checkpoint' = checkpoint /\ resuming'.boot = resuming.boot /\ resuming'.todo = resuming.todo
        /\ resuming.at # "clear" /\ resuming'.at # resuming.at /\ j \in Job
    BY <1>0, <1>6 DEF JobsResumed, ResumeRoots, Resuming, Checkpoint
  <2>2. Fresh(j)
    BY <2>1 DEF Renewed
  <2>3. ~PodStops
    BY <2>1 DEF PodStops, NotResuming, Apart
  <2> QED
    BY <1>0, <1>6, <2>1, <2>2, <2>3, ProviderFresh DEF Provider, Resume
<1>7. CASE ClearCheckpoint
  <2>1. /\ resuming.at = "clear" /\ checkpoint' = Resumed(resuming.copy) /\ resuming' = NotResuming
        /\ resuming.copy \in Checkpoint /\ apiUp' = TRUE
    BY <1>0, <1>7 DEF ClearCheckpoint, Resuming
  <2>2. /\ checkpoint'.jobs = resuming.copy.jobs /\ ~checkpoint'.pending
        /\ checkpoint'.trigger = IF resuming.boot THEN "boot" ELSE "manual"
    BY <2>1 DEF Resumed, Checkpoint
  <2>3. resuming.boot /\ resuming.todo = {} /\ checkpoint = resuming.copy
    BY <1>0, <2>1, <2>2 DEF Apart
  <2>4. j \in Job /\ Fresh(j)
    BY <1>0, <2>2, <2>3 DEF Renewed, Checkpoint
  <2>5. ~PodStops
    BY <2>1 DEF PodStops
  <2> QED
    BY <1>0, <1>7, <2>4, <2>5, ProviderFresh DEF Provider, Resume
<1> QED
  BY <1>1, <1>2, <1>3, <1>4, <1>5, <1>6, <1>7 DEF ProviderNext, Provider, Resume

\* There is no checkpoint at first.
LEMMA InitRenewed == ProviderInit => Apart /\ Renewed
BY DEF ProviderInit, Init, Apart, Renewed, NotResuming, NoCheckpoint

\* With the embedded worker alone, and users and operators who are patient: whatever
\* crashes cut the pause, the boot or an earlier resume short, once a boot has resumed a
\* checkpoint no job of it waits for a prompt that went with a pod.
THEOREM ProviderOutlived ==
  ASSUME Alone
  PROVE  ProviderSpec => []CheckpointedJobsOutliveThePod
<1>1. ProviderSpec => []Settling
  BY ProviderSettlingHolds
<1>2. PodTyped /\ PodTyped' /\ Apart /\ [ProviderNext]_providerVars => Apart'
  BY StepApart
<1>3. PodTyped /\ Settling /\ Apart /\ Renewed /\ [ProviderNext]_providerVars => Renewed'
  BY StepRenewed
<1>4. PodTyped /\ Renewed => CheckpointedJobsOutliveThePod
  <2> SUFFICES ASSUME PodTyped, Renewed, ~checkpoint.pending, checkpoint.trigger = "boot",
                      NEW j \in checkpoint.jobs, AwaitsLost(j)
               PROVE  FALSE
    BY DEF CheckpointedJobsOutliveThePod
  <2>1. Fit(record[j], comfy[j])
    BY DEF Renewed, Fresh
  <2>2. record[j].status \notin Terminal /\ record[j].prompt > 0 /\ comfy[j][record[j].prompt].state = "lost"
    BY DEF AwaitsLost, AwaitsComfy, Terminal
  <2> QED
    BY <2>1, <2>2 DEF Fit, Held
<1> QED
  BY InitPod, InitRenewed, StepPod, <1>1, <1>2, <1>3, <1>4, PTL DEF ProviderSpec

-----------------------------------------------------------------------------
\* The record is active, or may become so again when a checkpoint puts it back.
Live(rec) == rec.status \in Active \/ rec.prompt > 0

\* Every job is known that is live on file, or of which somebody has a copy that he may
\* save as live; and an entry is removed only after it was archived.
Accounted ==
  /\ \A j \in Job : Live(record[j]) => Known(j)
  /\ \A w \in Worker : \A j \in Job : InHand(w, j) => Known(j)
  /\ \A h \in Handler : \A j \in Job :
       call[h].job = j /\ (call[h].at \in {"ask", "answer"} \/ Live(call[h].rec)) => Known(j)
  /\ \A w \in Worker : \A j \in Job : pc[w] = "unlink" /\ hand[w].job = j => archived[j] # "none"
  /\ \A h \in Handler : \A j \in Job :
       call[h].at = "discard" /\ call[h].job = j => archived[j] # "none"

\* What the operations write into an entry is an entry.
LEMMA EntriesStay ==
  /\ \A e \in Entry : Enqueued(e) # Absent /\ Postponed(e) # Absent
  /\ \A e \in Entry : e # Absent => Recovered(e) # Absent
  /\ \A e \in Entry, counted \in BOOLEAN : MarkedRunning(e, counted) # Absent
  /\ Absent \in Entry
BY EntryTypes DEF Enqueued, Postponed, Recovered, MarkedRunning, Absent, Entry

\* An outcome is archived under a name.
LEMMA ArchivedNamed == \A result \in Result : ArchivedAs(result) # "none"
BY DEF ArchivedAs, Result

\* A pass takes an entry away only after it was archived.
LEMMA PassKeepsKnown ==
  ASSUME Typed, Accounted, NEW w \in Worker, Pass(w), NEW j \in Job, Known(j)
  PROVE  Known(j)' /\ (archived[j] # "none" => archived'[j] # "none")
<1>0. /\ pending \in [Job -> Entry] /\ archived \in [Job -> Outcome \cup {"none"}] /\ call' = call
      /\ hand \in [Worker -> Hand] /\ todo \in [Worker -> [Job -> Entry]]
  BY PassLeavesApi DEF Typed, TypeOK, FilesOK, WorkersOK
<1>1. CASE Recover(w)
  BY <1>0, <1>1, EntriesStay DEF Recover, Known
<1>2. CASE List(w) \/ EndPass(w) \/ SkipDelayed(w) \/ Load(w) \/ Prepare(w)
  BY <1>0, <1>2 DEF List, EndPass, SkipDelayed, Load, Prepare, Known, files
<1>3. CASE Take(w)
  <2>1. PICK k \in Job : pending' = [pending EXCEPT ![k] = MarkedRunning(todo[w][k], ~AwaitsComfy(record[k]))]
    BY <1>3 DEF Take
  <2>2. MarkedRunning(todo[w][k], ~AwaitsComfy(record[k])) # Absent
    BY <1>0, EntriesStay DEF AwaitsComfy
  <2>3. archived' = archived
    BY <1>3 DEF Take
  <2> QED
    BY <1>0, <2>1, <2>2, <2>3 DEF Known
<1>4. CASE Submit(w) \/ FailToSubmit(w) \/ SaveSubmitted(w) \/ Poll(w) \/ SavePolled(w)
  BY <1>0, <1>4 DEF Submit, FailToSubmit, SaveSubmitted, Poll, SavePolled, Known, files
<1>5. CASE Postpone(w)
  <2>1. /\ pending' = [pending EXCEPT ![hand[w].job] = Postponed(hand[w].entry)]
        /\ archived' = archived /\ hand[w].entry \in Entry
    BY <1>0, <1>5 DEF Postpone, Hand
  <2> QED
    BY <1>0, <2>1, EntriesStay DEF Known
<1>6. CASE Archive(w)
  <2>1. /\ archived' = [archived EXCEPT ![hand[w].job] = ArchivedAs(hand[w].result)]
        /\ pending' = pending /\ hand[w].result \in Result
    BY <1>0, <1>6 DEF Archive, Hand
  <2> QED
    BY <1>0, <2>1, ArchivedNamed DEF Known
<1>7. CASE Unlink(w)
  <2>1. /\ pending' = [pending EXCEPT ![hand[w].job] = Absent] /\ archived' = archived
        /\ hand[w].job = j => archived[j] # "none"
    BY <1>7 DEF Unlink, Accounted
  <2> QED
    BY <1>0, <2>1 DEF Known
<1> QED
  BY <1>1, <1>2, <1>3, <1>4, <1>5, <1>6, <1>7 DEF Pass

\* An entry that is about to be removed was archived.
LEMMA PassArchives ==
  ASSUME Typed, NEW w \in Worker, Pass(w), pc'[w] = "unlink"
  PROVE  hand'[w].job = hand[w].job /\ (hand[w].job \in Job => archived'[hand[w].job] # "none")
<1>0. hand \in [Worker -> Hand] /\ pc \in [Worker -> WorkerSteps] /\ archived \in [Job -> Outcome \cup {"none"}]
  BY DEF Typed, TypeOK, FilesOK, WorkersOK
<1>1. Works(w)
  <2>1. ~Lists(w)
    BY DEF Lists
  <2>2. \A j : \A e : ~Takes(w, j, e)
    BY <1>0 DEF Takes
  <2>3. \A e : ~PutsDown(w, e)
    BY <1>0 DEF PutsDown
  <2> QED
    BY <2>1, <2>2, <2>3, PassEffect
<1>2. pc[w] = "settle" /\ hand'[w].job = hand[w].job
  BY <1>0, <1>1 DEF Works, Loads, Submits, Finishes, Keeps
<1>3. CASE Archive(w)
  BY <1>0, <1>2, <1>3, ArchivedNamed DEF Archive, Hand
<1>4. ~Postpone(w)
  BY <1>0 DEF Postpone, Goto
<1>5. Postpone(w) \/ Archive(w)
  BY <1>2 DEF Pass, Recover, List, EndPass, SkipDelayed, Take, Load, Prepare, Submit, FailToSubmit,
              SaveSubmitted, Poll, SavePolled, Unlink
<1> QED
  BY <1>2, <1>3, <1>4, <1>5

\* A pass writes the record of the job in its hand, and takes jobs that were listed.
LEMMA PassTakesKnown ==
  ASSUME Typed, NEW w \in Worker, Pass(w), NEW j \in Job
  PROVE  /\ record'[j] = record[j] \/ InHand(w, j)
         /\ \A v \in Worker : InHand(v, j)' => InHand(v, j) \/ pending[j] # Absent
         /\ \A v \in Worker : v # w => pc'[v] = pc[v] /\ hand'[v] = hand[v]
<1>0. /\ hand \in [Worker -> Hand] /\ todo \in [Worker -> [Job -> Entry]] /\ pc \in [Worker -> WorkerSteps]
      /\ record \in [Job -> Record] /\ NoTodo[j] = Absent /\ NoHand.job # j
  BY EmptyTypes, ConstantsAssumption DEF Typed, TypeOK, JobsOK, WorkersOK, NoTodo
<1>1. CASE Works(w)
  <2>1. /\ hand'[w].job = hand[w].job /\ todo' = todo
        /\ \A v \in Worker : v # w => pc'[v] = pc[v] /\ hand'[v] = hand[v]
    BY <1>0, <1>1 DEF Works, Loads, Submits, Finishes, Keeps
  <2>2. record'[j] = record[j] \/ hand[w].job = j
    BY <1>0, <1>1 DEF Works, Loads, Submits, Finishes, Saves, SavesNothing
  <2> QED
    BY <2>1, <2>2 DEF InHand
<1>2. CASE Lists(w)
  <2>1. todo'[w][j] # Absent => todo[w][j] # Absent \/ pending[j] # Absent
    BY <1>2 DEF Lists, Absent
  <2> QED
    BY <1>2, <2>1, PassMoves DEF Lists, InHand
<1>3. ASSUME NEW k \in Job, NEW e, Takes(w, k, e) PROVE
         /\ record' = record
         /\ \A v \in Worker : v # w => pc'[v] = pc[v] /\ hand'[v] = hand[v] /\ todo'[v] = todo[v]
         /\ hand'[w].job = j \/ todo'[w][j] # Absent => todo[w][j] # Absent
  BY <1>0, <1>3 DEF Takes, Absent
<1>4. ASSUME NEW e, PutsDown(w, e) PROVE
         /\ record' = record /\ todo' = todo /\ hand'[w].job # j
         /\ \A v \in Worker : v # w => pc'[v] = pc[v] /\ hand'[v] = hand[v]
  BY <1>0, <1>4 DEF PutsDown
<1> QED
  BY <1>1, <1>2, <1>3, <1>4, PassEffect DEF InHand

\* A pass keeps the account,
LEMMA PassAccounted ==
  ASSUME Typed, Accounted, NEW w \in Worker, Pass(w)
  PROVE  Accounted'
<1>0. call' = call
  BY PassLeavesApi
<1>1. \A j \in Job : Known(j) => Known(j)' /\ (archived[j] # "none" => archived'[j] # "none")
  BY PassKeepsKnown
<1>2. \A j \in Job : archived[j] # "none" => Known(j)
  BY DEF Known
<1>3. \A j \in Job : pending[j] # Absent => Known(j)
  BY DEF Known
<1>4. \A j \in Job : Live(record'[j]) => Known(j)'
  BY <1>1, PassTakesKnown DEF Accounted
<1>5. \A v \in Worker : \A j \in Job : InHand(v, j)' => Known(j)'
  BY <1>1, <1>3, PassTakesKnown DEF Accounted
<1>6. \A v \in Worker : \A j \in Job : pc'[v] = "unlink" /\ hand'[v].job = j => archived'[j] # "none"
  <2> SUFFICES ASSUME NEW v \in Worker, NEW j \in Job, pc'[v] = "unlink", hand'[v].job = j
               PROVE  archived'[j] # "none"
    OBVIOUS
  <2>1. CASE v = w
    BY <2>1, PassArchives
  <2>2. CASE v # w
    <3>1. pc'[v] = pc[v] /\ hand'[v] = hand[v]
      BY <2>2, PassTakesKnown
    <3> QED
      BY <1>1, <1>2, <3>1 DEF Accounted
  <2> QED
    BY <2>1, <2>2
<1> QED
  BY <1>0, <1>1, <1>2, <1>4, <1>5, <1>6 DEF Accounted, Live

\* A request leaves alone who is at work, and goes on, or is over, about one job; it
\* writes the record of that job and nobody else's, and removes an entry only after it
\* was archived.
Attends(h, j) ==
  /\ UNCHANGED <<todo, hand>>
  /\ \A w \in Worker : pc'[w] = "unlink" => pc[w] = "unlink"
  /\ \A k \in Job : k # j =>
       record'[k] = record[k] /\ pending'[k] = pending[k] /\ archived'[k] = archived[k]
  /\ \A g \in Handler : g # h => call'[g] = call[g]
  /\ call[h].at = "enqueue" => call[h].job = j
  /\ j \in Job => /\ archived[j] # "none" => archived'[j] # "none"
                  /\ Known(j) => Known(j)'
                  /\ Live(record'[j]) => Known(j) \/ Known(j)'
  /\ \/ call'[h] = call[h]
     \/ /\ call'[h].job \in {j, Nobody}
        /\ j \in Job =>
             /\ call'[h].at \in {"ask", "answer"} \/ Live(call'[h].rec) => Known(j) \/ Known(j)'
             /\ call'[h].at = "discard" => archived'[j] # "none"

\* and so does a request that attends to its own job.
LEMMA AttendsAccounted ==
  ASSUME Accounted, NEW h \in Handler, NEW j \in Job \cup {Nobody}, Attends(h, j)
  PROVE  Accounted'
<1>0. \A k \in Job : k # Nobody
  BY ConstantsAssumption
<1>1. \A k \in Job : Known(k) => Known(k)'
  <2> SUFFICES ASSUME NEW k \in Job, k # j, Known(k) PROVE Known(k)'
    BY DEF Attends
  <2>1. CASE pending[k] # Absent \/ archived[k] # "none"
    BY <2>1 DEF Attends, Known
  <2>2. ASSUME NEW g \in Handler, call[g].at = "enqueue", call[g].job = k PROVE Known(k)'
    BY <2>2 DEF Attends, Known
  <2> QED
    BY <2>1, <2>2 DEF Known
<1> QED
  BY <1>0, <1>1 DEF Attends, Accounted, InHand, Live

\* Each request attends to its own job: a creation,
LEMMA CreateAttends ==
  ASSUME Typed, NEW h \in Handler, NEW j \in Job, Create(h, j)
  PROVE  Attends(h, j)
<1>0. /\ call \in [Handler -> Call] /\ record \in [Job -> Record] /\ call[h].at = "idle"
  BY DEF Typed, TypeOK, ApiOK, JobsOK, Create, Free
<1>1. /\ UNCHANGED <<pending, archived, todo, hand, pc>>
      /\ \A k \in Job : k # j => record'[k] = record[k]
      /\ \A g \in Handler : g # h => call'[g] = call[g]
  BY <1>0 DEF Create, files, workers, Set
<1>2. PICK ready, execute \in BOOLEAN :
        LET rec == NewRecord(IF ~ready THEN "blocked" ELSE IF execute THEN "queued" ELSE "planned", ready, 1)
        IN  /\ record' = [record EXCEPT ![j] = rec]
            /\ IF ready /\ execute THEN Set(h, "enqueue", j, rec) ELSE UNCHANGED call
  BY DEF Create
<1>3. CASE ready /\ execute
  <2>1. call'[h].at = "enqueue" /\ call'[h].job = j
    BY <1>0, <1>2, <1>3 DEF Set
  <2>2. Known(j)'
    BY <2>1 DEF Known
  <2> QED
    BY <1>0, <1>1, <2>1, <2>2 DEF Attends
<1>4. CASE ~(ready /\ execute)
  <2>1. call' = call /\ ~Live(record'[j])
    BY <1>0, <1>2, <1>4 DEF Live, NewRecord, Active
  <2> QED
    BY <1>0, <1>1, <2>1 DEF Attends, Known
<1> QED
  BY <1>3, <1>4

\* a poll,
LEMMA GetAttends ==
  ASSUME Typed, Accounted, NEW h \in Handler, NEW j \in Job, Get(h, j)
  PROVE  Attends(h, j)
<1>0. call \in [Handler -> Call] /\ pc \in [Worker -> WorkerSteps] /\ Worker = Thread \cup Process
  BY DEF Typed, TypeOK, ApiOK, WorkersOK, Worker
<1>1. UNCHANGED <<pending, archived, record, todo, hand>> /\ call[h].at = "idle"
  BY DEF Get, Free, files, jobs
<1>2. \A w \in Worker : pc'[w] = "unlink" => pc[w] = "unlink"
  BY <1>0 DEF Get, StartQueueWorker, Goto
<1>3. \/ call' = call
      \/ /\ AwaitsComfy(record[j]) /\ call'[h].job = j /\ call'[h].at = "ask"
         /\ \A g \in Handler : g # h => call'[g] = call[g]
  BY <1>0 DEF Get, Set
<1>4. AwaitsComfy(record[j]) => Known(j)
  BY DEF AwaitsComfy, Accounted, Live
<1>5. Known(j) => Known(j)'
  BY <1>1, <1>3 DEF Known
<1>6. Live(record'[j]) => Known(j)
  BY <1>1 DEF Accounted
<1> QED
  BY <1>0, <1>1, <1>2, <1>3, <1>4, <1>5, <1>6 DEF Attends

\* a cancellation,
LEMMA CancelAttends ==
  ASSUME Typed, Accounted, NEW h \in Handler, NEW j \in Job, Cancel(h, j)
  PROVE  Attends(h, j)
<1>0. call \in [Handler -> Call] /\ record \in [Job -> Record]
  BY DEF Typed, TypeOK, ApiOK, JobsOK
<1>1. UNCHANGED <<pending, archived, pc, todo, hand>> /\ call[h].at = "idle"
  BY DEF Cancel, Free, files, workers
<1>2. /\ \A k \in Job : k # j => record'[k] = record[k]
      /\ Live(record'[j]) => Live(record[j])
  BY <1>0 DEF Cancel, WithStatus, Live, Record, Active
<1>3. /\ call'[h].job = j /\ call'[h].at \in {"unqueue", "interrupt"} /\ call'[h].rec = record[j]
      /\ \A g \in Handler : g # h => call'[g] = call[g]
  BY <1>0 DEF Cancel, Set
<1>4. Live(record[j]) => Known(j)
  BY DEF Accounted
<1>5. Known(j) => Known(j)'
  BY <1>1, <1>3 DEF Known
<1> QED
  BY <1>1, <1>2, <1>3, <1>4, <1>5 DEF Attends

\* and a retry.
LEMMA RetryAttends ==
  ASSUME Typed, Accounted, NEW h \in Handler, NEW j \in Job, Retry(h, j)
  PROVE  Attends(h, j)
<1>0. call \in [Handler -> Call]
  BY DEF Typed, TypeOK, ApiOK
<1>1. UNCHANGED <<pending, archived, record, pc, todo, hand>> /\ call[h].at = "idle"
  BY DEF Retry, Free, files, workers
<1>2. /\ call'[h].job = j /\ call'[h].at = "assess" /\ ~Live(call'[h].rec)
      /\ \A g \in Handler : g # h => call'[g] = call[g]
  BY <1>0 DEF Retry, Set, NewRecord, Live, Active
<1>3. Known(j) => Known(j)'
  BY <1>1, <1>2 DEF Known
<1>4. Live(record[j]) => Known(j)
  BY DEF Accounted
<1> QED
  BY <1>1, <1>2, <1>3, <1>4 DEF Attends

\* The steps of a request that leave the files alone: what it saves as live it had a
\* copy of, or an answer about.
LEMMA ProceedAttends ==
  ASSUME Typed, Accounted, NEW h \in Handler, NEW j \in Job \cup {Nobody}, call[h].job = j,
         Ask(h) \/ SaveAnswer(h) \/ Interrupt(h) \/ SaveCancelled(h) \/ Assess(h)
  PROVE  Attends(h, j)
<1> DEFINE rec == call[h].rec
<1>0. call \in [Handler -> Call] /\ record \in [Job -> Record] /\ rec \in Record /\ Idle.job = Nobody
  BY EmptyTypes DEF Typed, TypeOK, ApiOK, JobsOK, Call
<1>1. /\ UNCHANGED <<pending, archived, pc, todo, hand>> /\ call[h].at # "enqueue"
      /\ \A g \in Handler : g # h => call'[g] = call[g]
  <2>1. CASE Ask(h) \/ Assess(h)
    BY <1>0, <2>1 DEF Ask, Assess, Set, files, workers
  <2>2. CASE SaveAnswer(h) \/ SaveCancelled(h)
    BY <1>0, <2>2 DEF SaveAnswer, SaveCancelled, Hang, files, workers
  <2>3. CASE Interrupt(h)
    BY <1>0, <2>3 DEF Interrupt, Set, Hang, files, workers
  <2> QED
    BY <2>1, <2>2, <2>3
<1>2. Known(j) => Known(j)'
  BY <1>1 DEF Known
<1>3. \A k \in Job : k # j => record'[k] = record[k]
  BY <1>0 DEF Ask, SaveAnswer, Interrupt, SaveCancelled, Assess, jobs
<1>4. j \in Job /\ (call[h].at \in {"ask", "answer"} \/ Live(rec)) => Known(j)
  BY DEF Accounted
<1>5. j \in Job => (Live(record[j]) => Known(j))
  BY DEF Accounted
<1>6. ~Live(NoRecord)
  BY DEF Live, NoRecord, Active
<1>7. CASE Ask(h)
  <2>1. call[h].at = "ask" /\ call'[h].job = j /\ call'[h].at = "answer" /\ record' = record
    BY <1>0, <1>7 DEF Ask, Set, jobs
  <2> QED
    BY <1>1, <1>2, <1>4, <1>5, <2>1 DEF Attends
<1>8. CASE SaveAnswer(h) \/ SaveCancelled(h)
  <2>1. /\ call'[h] = Idle /\ record' = [record EXCEPT ![j] = rec]
        /\ Idle.at = "idle" /\ ~Live(Idle.rec)
    BY <1>0, <1>6, <1>8 DEF SaveAnswer, SaveCancelled, Hang, Idle
  <2> QED
    BY <1>0, <1>1, <1>2, <1>3, <1>4, <2>1 DEF Attends
<1>9. CASE Interrupt(h)
  <2>1. record' = record /\ call'[h].at \in {"idle", "interrupted"} /\ call'[h].job \in {j, Nobody}
    BY <1>0, <1>9 DEF Interrupt, Set, Hang, Idle
  <2>2. Live(call'[h].rec) => Live(rec)
    BY <1>0, <1>6, <1>9 DEF Interrupt, Set, Hang, Idle, WithStatus, Live, Record, Active
  <2> QED
    BY <1>1, <1>2, <1>4, <1>5, <2>1, <2>2 DEF Attends
<1>10. CASE Assess(h)
  <2>1. PICK ready \in BOOLEAN : /\ record' = [record EXCEPT ![j] = [rec EXCEPT !.ready = ready]]
                                 /\ Set(h, "requeue", j, [rec EXCEPT !.ready = ready])
    BY <1>10 DEF Assess
  <2>2. [rec EXCEPT !.ready = ready].status = rec.status /\ [rec EXCEPT !.ready = ready].prompt = rec.prompt
    BY <1>0 DEF Record
  <2>3. call'[h] = [at |-> "requeue", job |-> j, rec |-> [rec EXCEPT !.ready = ready]]
    BY <1>0, <2>1 DEF Set
  <2>4. Live(call'[h].rec) => Live(rec)
    <3>1. call'[h].rec = [rec EXCEPT !.ready = ready]
      BY <2>3
    <3>2. call'[h].rec.status = rec.status /\ call'[h].rec.prompt = rec.prompt
      BY <2>2, <3>1
    <3> QED
      BY <3>2 DEF Live
  <2>5. j \in Job => (Live(record'[j]) => Live(rec))
    BY <1>0, <2>1, <2>2 DEF Live
  <2>6. call'[h].at = "requeue" /\ call'[h].job = j
    BY <2>3
  <2> QED
    BY <1>1, <1>2, <1>3, <1>4, <2>4, <2>5, <2>6 DEF Attends
<1> QED
  BY <1>7, <1>8, <1>9, <1>10

\* The steps of a request that change files: an entry is written, or is archived and then
\* removed, or the record is queued and the entry is next.
LEMMA QueueAttends ==
  ASSUME Typed, Accounted, NEW h \in Handler, NEW j \in Job \cup {Nobody}, call[h].job = j,
         Unqueue(h) \/ Discard(h) \/ Requeue(h) \/ EnqueueJob(h) \/ Wake(h)
  PROVE  Attends(h, j)
<1>0. /\ call \in [Handler -> Call] /\ record \in [Job -> Record] /\ call[h].rec \in Record /\ Idle.job = Nobody
      /\ pending \in [Job -> Entry] /\ archived \in [Job -> Outcome \cup {"none"}]
      /\ pc \in [Worker -> WorkerSteps] /\ Worker = Thread \cup Process
  BY EmptyTypes DEF Typed, TypeOK, FilesOK, ApiOK, JobsOK, WorkersOK, Call, Worker
<1>1. ~Live(NoRecord) /\ Idle.at = "idle" /\ Idle.rec = NoRecord
  BY DEF Live, NoRecord, Active, Idle
<1>2. j \in Job => (Live(record[j]) => Known(j))
  BY DEF Accounted
<1>3. CASE Unqueue(h)
  <2>1. UNCHANGED <<pending, record, pc, todo, hand>> /\ call[h].at = "unqueue"
    BY <1>3 DEF Unqueue, jobs, workers
  <2>2. /\ \A g \in Handler : g # h => call'[g] = call[g]
        /\ \A k \in Job : k # j => archived'[k] = archived[k]
        /\ call'[h].job \in {j, Nobody} /\ call'[h].at \in {"idle", "discard"} /\ call'[h].rec = NoRecord
        /\ j \in Job /\ call'[h].at = "discard" => archived'[j] # "none"
        /\ j \in Job /\ archived[j] # "none" => archived'[j] # "none"
    BY <1>0, <1>1, <1>3 DEF Unqueue, Set, Hang
  <2>3. j \in Job /\ Known(j) => Known(j)'
    BY <2>1, <2>2 DEF Known
  <2> QED
    BY <1>1, <1>2, <2>1, <2>2, <2>3 DEF Attends
<1>4. CASE Discard(h)
  <2>1. UNCHANGED <<archived, record, pc, todo, hand>> /\ call[h].at = "discard" /\ call'[h] = Idle
    BY <1>0, <1>4 DEF Discard, Hang, jobs, workers
  <2>2. /\ \A g \in Handler : g # h => call'[g] = call[g]
        /\ \A k \in Job : k # j => pending'[k] = pending[k]
    BY <1>0, <1>4 DEF Discard, Hang
  <2>3. j \in Job => archived[j] # "none"
    BY <2>1 DEF Accounted
  <2> QED
    BY <1>0, <1>1, <1>2, <2>1, <2>2, <2>3 DEF Attends, Known
<1>5. CASE Requeue(h)
  <2>1. /\ UNCHANGED <<pending, archived, pc, todo, hand>> /\ call[h].at = "requeue"
        /\ \A g \in Handler : g # h => call'[g] = call[g]
        /\ \A k \in Job : k # j => record'[k] = record[k]
    BY <1>0, <1>5 DEF Requeue, Set, Hang, files, workers
  <2>2. Known(j) => Known(j)'
    BY <2>1 DEF Known
  <2>3. CASE call'[h].at = "enqueue" /\ call'[h].job = j
    <3>1. Known(j)'
      BY <2>3 DEF Known
    <3> QED
      BY <2>1, <2>3, <3>1 DEF Attends
  <2>4. CASE call'[h] = Idle /\ (j \in Job => record'[j] = WithStatus(call[h].rec, "blocked"))
    <3>1. j \in Job => (Live(record'[j]) => Known(j))
      BY <1>0, <2>4 DEF WithStatus, Live, Record, Active, Accounted
    <3> QED
      BY <1>0, <1>1, <2>1, <2>2, <2>4, <3>1 DEF Attends
  <2> QED
    BY <1>0, <1>5, <2>3, <2>4 DEF Requeue, Set, Hang
<1>6. CASE EnqueueJob(h)
  <2>1. /\ UNCHANGED <<archived, record, pc, todo, hand>> /\ call[h].at = "enqueue"
        /\ call'[h].at = "wake" /\ call'[h].job = j /\ call'[h].rec = NoRecord
        /\ \A g \in Handler : g # h => call'[g] = call[g]
        /\ pending' = [pending EXCEPT ![j] = Enqueued(pending[j])]
    BY <1>0, <1>6 DEF EnqueueJob, Set, jobs, workers
  <2>2. j \in Job => pending'[j] # Absent
    BY <1>0, <2>1, EntriesStay
  <2>3. \A k \in Job : k # j => pending'[k] = pending[k]
    BY <1>0, <2>1
  <2>4. j \in Job => Known(j)'
    BY <2>2 DEF Known
  <2> QED
    BY <1>1, <2>1, <2>3, <2>4 DEF Attends
<1>7. CASE Wake(h)
  <2>1. /\ UNCHANGED <<pending, archived, record, todo, hand>> /\ call[h].at = "wake" /\ call'[h] = Idle
        /\ \A g \in Handler : g # h => call'[g] = call[g]
    BY <1>0, <1>7 DEF Wake, Hang, files, jobs
  <2>2. \A w \in Worker : pc'[w] = "unlink" => pc[w] = "unlink"
    BY <1>0, <1>7 DEF Wake, StartQueueWorker, Goto
  <2>3. Known(j) => Known(j)'
    BY <2>1 DEF Known
  <2> QED
    BY <1>0, <1>1, <1>2, <2>1, <2>2, <2>3 DEF Attends
<1> QED
  BY <1>3, <1>4, <1>5, <1>6, <1>7

\* A request keeps the account.
LEMMA ClientAccounted ==
  ASSUME Typed, Accounted, NEW h \in Handler, Client(h)
  PROVE  Accounted'
<1>1. CASE \E j \in Job : Create(h, j) \/ Get(h, j) \/ Cancel(h, j) \/ Retry(h, j)
  BY <1>1, AttendsAccounted, CreateAttends, GetAttends, CancelAttends, RetryAttends
<1>2. CASE Proceed(h)
  <2>1. call[h].job \in Job \cup {Nobody}
    BY DEF Typed, TypeOK, ApiOK, Call
  <2> QED
    BY <1>2, <2>1, AttendsAccounted, ProceedAttends, QueueAttends DEF Proceed
<1> QED
  BY <1>1, <1>2 DEF Client

\* Where files, copies and requests stay, and nobody comes to remove an entry.
Unmoved ==
  /\ UNCHANGED <<archived, record, todo, hand, call>>
  /\ \A j \in Job : pending[j] # Absent => pending'[j] # Absent
  /\ \A w \in Worker : pc'[w] = "unlink" => pc[w] = "unlink"

\* What moves no job keeps it.
LEMMA UnmovedAccounted ==
  ASSUME Accounted, Unmoved
  PROVE  Accounted'
<1>1. \A j \in Job : Known(j) => Known(j)'
  BY DEF Unmoved, Known
<1> QED
  BY <1>1 DEF Unmoved, Accounted, InHand, Live

\* A worker that is started or stopped is not about to remove an entry.
LEMMA StartsUnmoved ==
  ASSUME Typed, UNCHANGED <<pending, archived, record, todo, hand, call>>,
         \/ UNCHANGED pc
         \/ \E stopped : StartQueueWorker(stopped)
         \/ \E w \in Worker : \E step \in {"down", "boot", "look", "recover", "unregister", "clear"} : Goto(w, step)
  PROVE  Unmoved
BY DEF Typed, TypeOK, WorkersOK, Unmoved, StartQueueWorker, Goto

\* Threads, processes, the operator and the environment touch no copy, unless they crash.
LEMMA OthersUnmoved ==
  ASSUME Typed, crashes' = 0,
         \/ \E t \in Thread : EndThread(t) \/ ClearBeat(t) \/ Unregister(t)
         \/ \E p \in Process : Boot(p) \/ Look(p) \/ StopExternal(p) \/ IdleShutdown(p) \/ ClearBeat(p)
         \/ Operator \/ Environment
  PROVE  Unmoved
<1>0. Worker = Thread \cup Process /\ pending \in [Job -> Entry] /\ crashes \in Nat
  BY ConstantsAssumption DEF Typed, TypeOK, FilesOK, Worker
<1>1. CASE \E t \in Thread : EndThread(t) \/ ClearBeat(t) \/ Unregister(t)
  BY <1>0, <1>1, StartsUnmoved DEF EndThread, Retire, ClearBeat, Unregister, files, jobs, api
<1>2. CASE \E p \in Process : Boot(p) \/ Look(p) \/ StopExternal(p) \/ IdleShutdown(p) \/ ClearBeat(p)
  <2>1. PICK p \in Process : \E step \in {"down", "look", "recover", "clear"} : Goto(p, step)
    BY <1>2 DEF Boot, Look, StopExternal, IdleShutdown, Retire, ClearBeat
  <2>2. UNCHANGED <<pending, archived, record, todo, hand, call>>
    BY <1>2 DEF Boot, Look, StopExternal, IdleShutdown, Retire, ClearBeat, files, jobs, api
  <2> QED
    BY <1>0, <2>1, <2>2, StartsUnmoved
<1>3. CASE Operator
  <2>1. UNCHANGED <<pending, archived, record, todo, hand, call>>
    BY <1>3 DEF Operator, OpsSummary, StartEmbedded, StartExternal, RequestStop, files, jobs, workers, api
  <2>2. \/ UNCHANGED pc
        \/ \E stopped : StartQueueWorker(stopped)
        \/ \E p \in Process : Goto(p, "boot")
    BY <1>3 DEF Operator, OpsSummary, StartEmbedded, StartExternal, RequestStop, LaunchExternal, workers
  <2> QED
    BY <1>0, <2>1, <2>2, StartsUnmoved
<1>4. CASE ApiBoot
  <2>1. UNCHANGED <<pending, archived, record, todo, hand, call>>
    BY <1>4 DEF ApiBoot, files, jobs
  <2>2. \/ UNCHANGED pc
        \/ \E stopped : StartQueueWorker(stopped)
        \/ \E p \in Process : Goto(p, "boot")
    BY <1>4 DEF ApiBoot
  <2> QED
    BY <1>0, <2>1, <2>2, StartsUnmoved
<1>5. CASE ComfyEnds \/ HeartbeatExpires
  BY <1>5 DEF ComfyEnds, HeartbeatExpires, Unmoved, files, jobs, workers, api
<1>6. ASSUME NEW k \in Job, DelayElapses(k) PROVE Unmoved
  <2>1. /\ UNCHANGED <<archived, record, todo, hand, pc, call>>
        /\ pending' = [pending EXCEPT ![k].due = TRUE] /\ pending[k].status = "queued"
    BY <1>6 DEF DelayElapses, jobs, workers, api
  <2>2. [pending[k] EXCEPT !.due = TRUE] # Absent
    BY <1>0, <2>1 DEF Entry, Absent
  <2> QED
    BY <1>0, <2>1, <2>2 DEF Unmoved
<1>7. ~ApiCrash /\ \A p \in Process : ~ProcessCrash(p)
  BY <1>0 DEF ApiCrash, ProcessCrash, Kill
<1> QED
  BY <1>1, <1>2, <1>3, <1>4, <1>5, <1>6, <1>7 DEF Environment

\* A stop of a pod that was drained leaves nothing but the files.
LEMMA StopAccounted ==
  ASSUME Typed, Accounted, PodStops, crashes' = 0
  PROVE  Accounted'
<1>0. crashes \in Nat /\ \A j \in Job : NoHand.job # j /\ Idle.job # j /\ NoTodo[j] = Absent
  BY EmptyTypes, ConstantsAssumption DEF Typed, TypeOK, NoTodo
<1>1. /\ UNCHANGED <<pending, archived, record>> /\ Drained
      /\ \A w \in Worker : pc'[w] = "down" /\ hand'[w] = NoHand /\ todo'[w] = NoTodo
      /\ \A h \in Handler : call'[h] = Idle
  BY <1>0, StopEffect
<1>2. \A j \in Job : Known(j) => Known(j)'
  BY <1>1 DEF Drained, Known, Idle
<1> QED
  BY <1>0, <1>1, <1>2 DEF Accounted, InHand, Live

\* A record that is put back is live only if it was.
LEMMA PutsBackAccounted ==
  ASSUME Typed, Accounted, NEW k \in Job, PutsBack(k)
  PROVE  Accounted'
<1>1. UNCHANGED <<pending, archived, pc, todo, hand, call>> /\ record \in [Job -> Record]
  BY DEF PutsBack, files, workers, api, Typed, TypeOK, JobsOK
<1>2. \A j \in Job : record'[j] = IF j = k THEN Normalized(record[j]) ELSE record[j]
  BY <1>1 DEF PutsBack
<1>3. \A rec \in Record : Live(Normalized(rec)) => Live(rec)
  BY DEF Normalized, Live, Active
<1>4. \A j \in Job : Live(record'[j]) => Live(record[j])
  BY <1>1, <1>2, <1>3
<1>5. \A j \in Job : Known(j)' <=> Known(j)
  BY <1>1 DEF Known
<1> QED
  BY <1>1, <1>4, <1>5 DEF Accounted, InHand, Live

\* The provider keeps it: what it puts back was known.
LEMMA ProviderAccounted ==
  ASSUME Typed, Accounted, Provider, resuming \in Resuming, crashes' = 0
  PROVE  Accounted'
<1>1. CASE UNCHANGED vars
  BY <1>1, UnmovedAccounted DEF vars, Unmoved
<1>2. CASE Switches
  <2>1. UNCHANGED <<pending, archived, record, todo, hand, call>> /\ Starts
    BY <1>2 DEF Switches, files, jobs
  <2>2. \/ UNCHANGED pc
        \/ \E stopped : StartQueueWorker(stopped)
        \/ \E p \in Process : Goto(p, "boot")
    BY <2>1 DEF Starts
  <2> QED
    BY <2>1, <2>2, StartsUnmoved, UnmovedAccounted DEF Worker
<1>3. CASE PodStops
  BY <1>3, StopAccounted
<1>4. ~BootCrashes
  <2>1. crashes \in Nat
    BY ConstantsAssumption DEF Typed, TypeOK
  <2> QED
    BY <2>1 DEF BootCrashes, Kill
<1>5. ASSUME NEW k \in resuming.todo, PutsBack(k) PROVE Accounted'
  BY <1>5, PutsBackAccounted DEF Resuming
<1> QED
  BY <1>1, <1>2, <1>3, <1>4, <1>5, ProviderEffect

\* No step takes a crash back.
LEMMA CrashesGrow ==
  ASSUME Typed, [Next]_vars \/ Provider, resuming \in Resuming, crashes' = 0
  PROVE  crashes = 0
<1>0. crashes \in Nat
  BY ConstantsAssumption DEF Typed, TypeOK
<1>1. CASE \E w \in Worker : Pass(w)
  BY <1>1, PassEffect DEF Works, Lists, Takes, PutsDown
<1>2. ASSUME NEW h \in Handler, Client(h) PROVE crashes = 0
  <2>1. ASSUME NEW j \in Job, Create(h, j) \/ Cancel(h, j) PROVE crashes' = crashes
    BY <2>1 DEF Create, Cancel
  <2>2. ASSUME NEW j \in Job, Get(h, j) \/ Retry(h, j) PROVE crashes' = crashes
    BY <2>2 DEF Get, Retry
  <2>3. CASE Ask(h) \/ SaveAnswer(h) \/ Unqueue(h) \/ Discard(h) \/ EnqueueJob(h) \/ Wake(h)
    BY <2>3 DEF Ask, SaveAnswer, Unqueue, Discard, EnqueueJob, Wake
  <2>4. CASE Interrupt(h) \/ SaveCancelled(h) \/ Assess(h) \/ Requeue(h)
    BY <2>4 DEF Interrupt, SaveCancelled, Assess, Requeue
  <2> QED
    BY <1>2, <2>1, <2>2, <2>3, <2>4 DEF Client, Proceed
<1>3. CASE (\E t \in Thread : EndThread(t) \/ ClearBeat(t) \/ Unregister(t))
           \/ \E p \in Process : Boot(p) \/ Look(p) \/ StopExternal(p) \/ IdleShutdown(p) \/ ClearBeat(p)
  BY <1>3 DEF EndThread, Unregister, Boot, Look, StopExternal, IdleShutdown, Retire, ClearBeat
<1>4. CASE Operator
  BY <1>4 DEF Operator, OpsSummary, StartEmbedded, StartExternal, RequestStop
<1>5. CASE Environment
  <2>1. CASE ComfyEnds \/ HeartbeatExpires \/ \E j \in Job : DelayElapses(j)
    BY <2>1 DEF ComfyEnds, HeartbeatExpires, DelayElapses
  <2>2. CASE ApiBoot
    BY <2>2 DEF ApiBoot
  <2>3. ~(ApiCrash \/ \E p \in Process : ProcessCrash(p))
    BY <1>0 DEF ApiCrash, ProcessCrash, Kill
  <2> QED
    BY <1>5, <2>1, <2>2, <2>3 DEF Environment
<1>6. CASE UNCHANGED vars
  BY <1>6 DEF vars
<1>7. CASE Provider
  <2>1. PodStops => crashes = 0
    BY <1>0, StopEffect
  <2>2. BootCrashes => crashes = 0
    BY <1>0 DEF BootCrashes, Kill
  <2> QED
    BY <1>7, <2>1, <2>2, ProviderEffect DEF Switches, PutsBack, vars
<1> QED
  BY <1>1, <1>2, <1>3, <1>4, <1>5, <1>6, <1>7 DEF Next

\* Every step keeps the account until something crashes.
LEMMA StepAccounted ==
  ASSUME PodTyped, crashes = 0 => Accounted, [ProviderNext]_providerVars
  PROVE  crashes' = 0 => Accounted'
<1> SUFFICES ASSUME crashes' = 0 PROVE Accounted'
  OBVIOUS
<1>1. Typed /\ resuming \in Resuming /\ ([Next]_vars \/ Provider)
  BY PodStep DEF PodTyped, ProviderShapes
<1>2. Accounted
  BY <1>1, CrashesGrow
<1>3. CASE UNCHANGED vars
  BY <1>2, <1>3, UnmovedAccounted DEF vars, Unmoved
<1>4. CASE Next
  BY <1>1, <1>2, <1>4, PassAccounted, ClientAccounted, OthersUnmoved, UnmovedAccounted DEF Next
<1> QED
  BY <1>1, <1>2, <1>3, <1>4, ProviderAccounted

\* Whatever workers, users and operators do, and however often the pod is stopped and
\* started again, as long as nothing crashed every active job has an entry, is about to
\* get one, or had one that was archived.
THEOREM ProviderAccepted == ProviderSpec => []AcceptedJobIsKnown
<1> DEFINE Inv == crashes = 0 => Accounted
<1>1. ProviderInit => Inv
  <2>1. ~Live(NoRecord) /\ Nobody \notin Job
    BY ConstantsAssumption DEF Live, NoRecord, Active
  <2> QED
    BY <2>1 DEF ProviderInit, Init, Accounted, InHand, NoHand, NoTodo, Idle
<1>2. PodTyped /\ Inv /\ [ProviderNext]_providerVars => Inv'
  BY StepAccounted
<1>3. Inv => AcceptedJobIsKnown
  BY DEF Accounted, Live, AcceptedJobIsKnown
<1> QED
  BY InitPod, StepPod, <1>1, <1>2, <1>3, PTL DEF ProviderSpec
=============================================================================
