---------------------------- MODULE StudioQueue ----------------------------
(***************************************************************************)
(* The Studio job queue of one output root: the HTTP handlers that create, *)
(* poll, cancel and retry jobs, the worker that runs as a thread of the    *)
(* API, the worker that runs as a process of its own, and the files they   *)
(* share without a lock: pending entries, history, job records, heartbeat  *)
(* and stop request.  ComfyUI is an external service.                      *)
(*                                                                         *)
(* A step is what happens between two points where another thread or       *)
(* process may get in between with an effect: one file written, or one     *)
(* call answered.                                                          *)
(***************************************************************************)
EXTENDS QueueEntries, StudioRecords, Sequences, FiniteSets

CONSTANTS
  Job,               \* Studio jobs
  Thread,            \* embedded workers: threads of the API process
  Process,           \* external workers: python -m app.queue_worker
  Handler,           \* HTTP requests the API serves at the same time
  Nobody,            \* neither a job nor a worker
  Endpoints,         \* the endpoints clients use, see Client and Operator
  MaxRequests,       \* bound: creation and retries of one job
  MaxPrompts,        \* bound: prompts submitted to ComfyUI for one job
  AttemptBound,      \* bound: attempts counted for one entry
  MaxCrashes,        \* bound: crashes of the API or of a worker process
  SlowEntries,       \* may one entry take longer than the heartbeat's TTL?
  PatientUsers       \* do users retry a job only when nobody is at work on it?

Worker == Thread \cup Process

ASSUME ConstantsAssumption ==
  /\ Thread \cap Process = {}
  /\ Nobody \notin Job \cup Worker
  /\ MaxRequests \in Nat
  /\ MaxPrompts \in Nat
  /\ AttemptBound \in Nat
  /\ MaxCrashes \in Nat
  /\ SlowEntries \in BOOLEAN
  /\ PatientUsers \in BOOLEAN

VARIABLES
  pending,           \* the job's file in _queue/pending
  archived,          \* the outcome of the job's latest file in _queue/history
  record,            \* the job's studio_job.json
  asked,             \* how often a run of the job was demanded
  comfy,             \* the prompts ComfyUI was given for the job
  heartbeat,         \* worker_heartbeat.json
  stop,              \* is there a worker_stop.json?
  registry,          \* _active_workers: the thread at work in the API
  pc,                \* what a worker does next
  todo,              \* the entries a worker's pass listed and has yet to visit
  hand,              \* the entry a worker has in hand
  call,              \* what an HTTP request does next
  apiUp,             \* is the API process up?
  crashes            \* how many crashes there were

files   == <<pending, archived>>
jobs    == <<record, asked, comfy>>
control == <<heartbeat, stop>>
workers == <<registry, pc, todo, hand>>
api     == <<call, apiUp>>
vars    == <<pending, archived, record, asked, comfy, heartbeat, stop,
             registry, pc, todo, hand, call, apiUp, crashes>>

-----------------------------------------------------------------------------
NoBeat   == [mode |-> "none", writer |-> Nobody, fresh |-> FALSE]
NoHand   == [job |-> Nobody, entry |-> Absent, rec |-> NoRecord, result |-> "queued"]
NoTodo   == [j \in Job |-> Absent]
Idle     == [at |-> "idle", job |-> Nobody, rec |-> NoRecord]
Prompt   == [state : PromptState, request : Nat]

WorkerSteps == {"down", "boot", "look", "recover", "list", "pick", "load", "prepare",
                "submit", "submitted", "poll", "answer", "settle", "unlink", "end", "clear",
                "unregister"}

CallSteps == {"idle", "ask", "answer", "interrupt", "interrupted", "unqueue", "discard",
              "assess", "requeue", "enqueue", "wake"}

Init ==
  /\ pending = [j \in Job |-> Absent]
  /\ archived = [j \in Job |-> "none"]
  /\ record = [j \in Job |-> NoRecord]
  /\ asked = [j \in Job |-> 0]
  /\ comfy = [j \in Job |-> <<>>]
  /\ heartbeat = NoBeat
  /\ stop = FALSE
  /\ registry = Nobody
  /\ pc = [w \in Worker |-> "down"]
  /\ todo = [w \in Worker |-> NoTodo]
  /\ hand = [w \in Worker |-> NoHand]
  /\ call = [h \in Handler |-> Idle]
  /\ apiUp = TRUE
  /\ crashes = 0

-----------------------------------------------------------------------------
\* Heartbeats.  A writer that has died is Nobody: its successor has another pid.

Beat(w) == heartbeat' = [mode   |-> IF w \in Process THEN "external" ELSE "embedded",
                         writer |-> w,
                         fresh  |-> TRUE]

HealthyExternal == heartbeat.mode = "external" /\ heartbeat.fresh

Goto(w, step) == pc' = [pc EXCEPT ![w] = step]

\* Seeded fault: the registry is not consulted.
StartUnregistered(stopped) ==
  IF ~stopped /\ ~HealthyExternal
    THEN \E t \in Thread : pc[t] = "down" /\ registry' = t /\ Goto(t, "recover")
    ELSE UNCHANGED <<registry, pc>>

\* start_queue_worker: at most one thread at a time, and none beside a stop
\* request or an external worker that was heard of lately.
StartQueueWorker(stopped) ==
  IF ~stopped /\ ~HealthyExternal /\ registry = Nobody
    THEN \E t \in Thread : /\ pc[t] = "down"
                           /\ registry' = t
                           /\ Goto(t, "recover")
    ELSE UNCHANGED <<registry, pc>>

\* launch_external_worker_processes: the stop request is cleared, and a process
\* spawned, only where no worker is active; spawning may fail.
LaunchExternal ==
  IF HealthyExternal \/ registry # Nobody
    THEN UNCHANGED <<stop, pc>>
    ELSE /\ stop' = FALSE
         /\ \/ \E p \in Process : pc[p] = "down" /\ Goto(p, "boot")
            \/ UNCHANGED pc

-----------------------------------------------------------------------------
\* A worker's pass over the queue, process_pending_queue.

Leave(w) == IF w \in Process THEN "look" ELSE "end"

Recover(w) ==
  /\ pc[w] = "recover"
  /\ pending' = [j \in Job |-> Recovered(pending[j])]
  /\ IF stop THEN Goto(w, Leave(w)) /\ UNCHANGED heartbeat
             ELSE Goto(w, "list") /\ Beat(w)
  /\ UNCHANGED <<archived, jobs, stop, registry, todo, hand, api, crashes>>

\* Entries are visited in any order; the code visits them oldest due time first.
List(w) ==
  /\ pc[w] = "list"
  /\ todo' = [todo EXCEPT ![w] =
                [j \in Job |-> IF pending[j].status = "queued" THEN pending[j] ELSE Absent]]
  /\ Goto(w, "pick")
  /\ UNCHANGED <<files, jobs, control, registry, hand, api, crashes>>

\* Seeded fault: a stop request does not end the pass.
EndPassIgnoringStop(w) ==
  /\ pc[w] = "pick" /\ todo[w] = NoTodo
  /\ Goto(w, Leave(w))
  /\ UNCHANGED <<files, jobs, control, registry, todo, hand, api, crashes>>

EndPass(w) ==
  /\ pc[w] = "pick"
  /\ stop \/ todo[w] = NoTodo
  /\ todo' = [todo EXCEPT ![w] = NoTodo]
  /\ Goto(w, Leave(w))
  /\ UNCHANGED <<files, jobs, control, registry, hand, api, crashes>>

SkipDelayed(w) ==
  /\ pc[w] = "pick" /\ ~stop
  /\ \E j \in Job : /\ todo[w][j].status = "queued" /\ ~todo[w][j].due
                    /\ todo' = [todo EXCEPT ![w][j] = Absent]
  /\ UNCHANGED <<files, jobs, control, registry, pc, hand, api, crashes>>

\* The entry is written from the copy the pass listed, whatever has become of
\* the file since; a copy that was delayed may have become due meanwhile.  A
\* poll of a submitted prompt is not counted as an attempt.
Take(w) ==
  /\ pc[w] = "pick" /\ ~stop
  /\ \E j \in Job :
       /\ todo[w][j].status = "queued" /\ todo[w][j].attempts < AttemptBound
       /\ LET entry == MarkedRunning(todo[w][j], ~AwaitsComfy(record[j]))
          IN  /\ pending' = [pending EXCEPT ![j] = entry]
              /\ hand' = [hand EXCEPT ![w] = [NoHand EXCEPT !.job = j, !.entry = entry]]
       /\ todo' = [todo EXCEPT ![w][j] = Absent]
  /\ Beat(w)
  /\ Goto(w, "load")
  /\ UNCHANGED <<archived, jobs, stop, registry, api, crashes>>

\* _process_studio_entry: from here on the worker goes by the copy of the
\* record it loads here and never looks at the file again.
Load(w) ==
  /\ pc[w] = "load"
  /\ LET j == hand[w].job
         rec == record[j]
     IN  \/ /\ rec.status \in Terminal
            /\ hand' = [hand EXCEPT ![w].rec = rec, ![w].result = ResultOf(rec.status)]
            /\ Goto(w, "settle")
            /\ UNCHANGED record
         \/ /\ AwaitsComfy(rec)
            /\ hand' = [hand EXCEPT ![w].rec = rec]
            /\ Goto(w, "poll")
            /\ UNCHANGED record
         \/ /\ Runnable(rec) /\ ~rec.ready
            /\ record' = [record EXCEPT ![j] = WithStatus(rec, "blocked")]
            /\ hand' = [hand EXCEPT ![w].rec = rec, ![w].result = "failed"]
            /\ Goto(w, "settle")
         \/ /\ Runnable(rec) /\ rec.ready
            /\ record' = [record EXCEPT ![j] = WithStatus(rec, "running")]
            /\ hand' = [hand EXCEPT ![w].rec = WithStatus(rec, "running")]
            /\ Goto(w, "prepare")
  /\ UNCHANGED <<files, asked, comfy, control, registry, todo, api, crashes>>

\* The input is prepared; the record is saved once more, as it was loaded.
Prepare(w) ==
  /\ pc[w] = "prepare"
  /\ record' = [record EXCEPT ![hand[w].job] = hand[w].rec]
  /\ Goto(w, "submit")
  /\ UNCHANGED <<files, asked, comfy, control, registry, todo, hand, api, crashes>>

\* ComfyUI accepts the workflow; the prompt's id is not on file yet.
Submit(w) ==
  /\ pc[w] = "submit"
  /\ LET j == hand[w].job
         rec == hand[w].rec
     IN  /\ Len(comfy[j]) < MaxPrompts
         /\ comfy' = [comfy EXCEPT ![j] = Append(@, [state |-> "active", request |-> rec.request])]
         /\ hand' = [hand EXCEPT ![w].rec = [rec EXCEPT !.status = "submitted",
                                                        !.prompt = Len(comfy[j]) + 1]]
  /\ Goto(w, "submitted")
  /\ UNCHANGED <<files, record, asked, control, registry, todo, api, crashes>>

\* Preparing the input or submitting the workflow failed, or ComfyUI accepted it and
\* its answer names no prompt, or the prompt's id could not be saved: mark_job_error.
FailToSubmit(w) ==
  /\ pc[w] \in {"prepare", "submit", "submitted"}
  /\ \E prompt \in {0, hand[w].rec.prompt} :
       record' = [record EXCEPT ![hand[w].job] =
                    [hand[w].rec EXCEPT !.status = "error", !.prompt = prompt]]
  /\ hand' = [hand EXCEPT ![w].result = "retryable"]
  /\ Goto(w, "settle")
  /\ UNCHANGED <<files, asked, comfy, control, registry, todo, api, crashes>>

SaveSubmitted(w) ==
  /\ pc[w] = "submitted"
  /\ record' = [record EXCEPT ![hand[w].job] = hand[w].rec]
  /\ hand' = [hand EXCEPT ![w].result = "queued"]
  /\ Goto(w, "settle")
  /\ UNCHANGED <<files, asked, comfy, control, registry, todo, api, crashes>>

Poll(w) ==
  /\ pc[w] = "poll"
  /\ LET rec == hand[w].rec
     IN  \E r \in Refreshed(rec, comfy[hand[w].job][rec.prompt].state) :
           hand' = [hand EXCEPT ![w].rec = r]
  /\ Goto(w, "answer")
  /\ UNCHANGED <<files, jobs, control, registry, todo, api, crashes>>

SavePolled(w) ==
  /\ pc[w] = "answer"
  /\ record' = [record EXCEPT ![hand[w].job] = hand[w].rec]
  /\ hand' = [hand EXCEPT ![w].result = ResultOf(hand[w].rec.status)]
  /\ Goto(w, "settle")
  /\ UNCHANGED <<files, asked, comfy, control, registry, todo, api, crashes>>

\* _requeue_for_poll and _schedule_retry.
Postpone(w) ==
  /\ pc[w] = "settle"
  /\ StaysPending(hand[w].entry, hand[w].result)
  /\ pending' = [pending EXCEPT ![hand[w].job] = Postponed(hand[w].entry)]
  /\ hand' = [hand EXCEPT ![w] = NoHand]
  /\ Beat(w)
  /\ Goto(w, "pick")
  /\ UNCHANGED <<archived, jobs, stop, registry, todo, api, crashes>>

\* _archive_entry writes the history file, then removes the pending one.
Archive(w) ==
  /\ pc[w] = "settle"
  /\ ~StaysPending(hand[w].entry, hand[w].result)
  /\ archived' = [archived EXCEPT ![hand[w].job] = ArchivedAs(hand[w].result)]
  /\ Goto(w, "unlink")
  /\ UNCHANGED <<pending, jobs, control, registry, todo, hand, api, crashes>>

Unlink(w) ==
  /\ pc[w] = "unlink"
  /\ pending' = [pending EXCEPT ![hand[w].job] = Absent]
  /\ hand' = [hand EXCEPT ![w] = NoHand]
  /\ Beat(w)
  /\ Goto(w, "pick")
  /\ UNCHANGED <<archived, jobs, stop, registry, todo, api, crashes>>

Pass(w) ==
  \/ Recover(w) \/ List(w) \/ EndPass(w) \/ SkipDelayed(w) \/ Take(w)
  \/ Load(w) \/ Prepare(w) \/ Submit(w) \/ FailToSubmit(w) \/ SaveSubmitted(w)
  \/ Poll(w) \/ SavePolled(w) \/ Postpone(w) \/ Archive(w) \/ Unlink(w)

-----------------------------------------------------------------------------
\* The embedded worker makes one pass; run()'s finally block ends it.

\* clear_worker_heartbeat: a worker that finds its own heartbeat removes the file,
\* whoever's heartbeat is in it by then.
Retire(w, next) ==
  /\ Goto(w, IF heartbeat.writer = w THEN "clear" ELSE next)
  /\ UNCHANGED <<files, jobs, control, registry, todo, hand, api, crashes>>

ClearBeat(w) ==
  /\ pc[w] = "clear"
  /\ heartbeat' = NoBeat
  /\ Goto(w, IF w \in Process THEN "down" ELSE "unregister")
  /\ UNCHANGED <<files, jobs, stop, registry, todo, hand, api, crashes>>

\* Seeded fault: the heartbeat stays.
EndThreadKeepingBeat(t) ==
  /\ pc[t] = "end"
  /\ Goto(t, "unregister")
  /\ UNCHANGED <<files, jobs, control, registry, todo, hand, api, crashes>>

EndThread(t) == pc[t] = "end" /\ Retire(t, "unregister")

Unregister(t) ==
  /\ pc[t] = "unregister"
  /\ registry' = Nobody
  /\ Goto(t, "down")
  /\ UNCHANGED <<files, jobs, control, todo, hand, api, crashes>>

\* The external worker, run_external_worker_service.

Boot(p) ==
  /\ pc[p] = "boot"
  /\ Goto(p, IF HealthyExternal THEN "down" ELSE "look")
  /\ UNCHANGED <<files, jobs, control, registry, todo, hand, api, crashes>>

\* A pass is worth making only for an entry that is queued and due.
Look(p) ==
  /\ pc[p] = "look" /\ ~stop
  /\ Beat(p)
  /\ Goto(p, IF \E j \in Job : ReadyForAttempt(pending[j]) THEN "recover" ELSE "look")
  /\ UNCHANGED <<files, jobs, stop, registry, todo, hand, api, crashes>>

StopExternal(p) == pc[p] = "look" /\ stop /\ Retire(p, "down")

\* Ten minutes without an entry; the clock itself is left out.
IdleShutdown(p) == pc[p] = "look" /\ ~stop /\ pending = NoTodo /\ Retire(p, "down")

-----------------------------------------------------------------------------
\* The handlers of routes_jobs.py.

Set(h, at, j, rec) == call' = [call EXCEPT ![h] = [at |-> at, job |-> j, rec |-> rec]]

Hang(h) == call' = [call EXCEPT ![h] = Idle]

Free(h, endpoint) == endpoint \in Endpoints /\ apiUp /\ call[h].at = "idle"

Create(h, j) ==
  /\ Free(h, "create") /\ record[j] = NoRecord /\ MaxRequests > 0
  /\ asked' = [asked EXCEPT ![j] = 1]
  /\ \E ready, execute \in BOOLEAN :
       LET rec == NewRecord(IF ~ready THEN "blocked" ELSE IF execute THEN "queued" ELSE "planned",
                            ready, 1)
       IN  /\ record' = [record EXCEPT ![j] = rec]
           /\ IF ready /\ execute THEN Set(h, "enqueue", j, rec) ELSE UNCHANGED call
  /\ UNCHANGED <<files, comfy, control, workers, apiUp, crashes>>

\* Seeded fault: polling a queued job starts no worker.
GetWithoutStart(h, j) ==
  /\ Free(h, "get") /\ AwaitsComfy(record[j])
  /\ Set(h, "ask", j, record[j])
  /\ UNCHANGED <<files, jobs, control, workers, apiUp, crashes>>

Get(h, j) ==
  /\ Free(h, "get")
  /\ \/ /\ record[j].status = "queued"
        /\ StartQueueWorker(stop)
        /\ UNCHANGED call
     \/ /\ AwaitsComfy(record[j])
        /\ Set(h, "ask", j, record[j])
        /\ UNCHANGED <<registry, pc>>
  /\ UNCHANGED <<files, jobs, control, todo, hand, apiUp, crashes>>

\* refresh_studio_job on the handler's own copy of the record.
Ask(h) ==
  /\ call[h].at = "ask"
  /\ LET rec == call[h].rec
     IN  \E r \in Refreshed(rec, comfy[call[h].job][rec.prompt].state) :
           Set(h, "answer", call[h].job, r)
  /\ UNCHANGED <<files, jobs, control, workers, apiUp, crashes>>

SaveAnswer(h) ==
  /\ call[h].at = "answer"
  /\ record' = [record EXCEPT ![call[h].job] = call[h].rec]
  /\ Hang(h)
  /\ UNCHANGED <<files, asked, comfy, control, workers, apiUp, crashes>>

\* cancel_studio_job: a job without a prompt is cancelled on file, then its
\* entry is archived; one with a prompt is first deleted from ComfyUI.
Cancel(h, j) ==
  /\ Free(h, "cancel") /\ record[j].status \notin Terminal \cup {"absent"}
  /\ LET rec == record[j]
     IN  IF rec.prompt = 0 \/ rec.status \in {"planned", "queued"}
           THEN /\ record' = [record EXCEPT ![j] = WithStatus(rec, "cancelled")]
                /\ Set(h, "unqueue", j, rec)
           ELSE /\ Set(h, "interrupt", j, rec)
                /\ UNCHANGED record
  /\ UNCHANGED <<files, asked, comfy, control, workers, apiUp, crashes>>

Unqueue(h) ==
  /\ call[h].at = "unqueue"
  /\ LET j == call[h].job
     IN  IF pending[j] = Absent
           THEN Hang(h) /\ UNCHANGED archived
           ELSE /\ archived' = [archived EXCEPT ![j] = "cancelled"]
                /\ Set(h, "discard", j, NoRecord)
  /\ UNCHANGED <<pending, jobs, control, workers, apiUp, crashes>>

Discard(h) ==
  /\ call[h].at = "discard"
  /\ pending' = [pending EXCEPT ![call[h].job] = Absent]
  /\ Hang(h)
  /\ UNCHANGED <<archived, jobs, control, workers, apiUp, crashes>>

\* Neither deletion nor interruption may get through; then the call fails.
Interrupt(h) ==
  /\ call[h].at = "interrupt"
  /\ LET j == call[h].job
         rec == call[h].rec
     IN  \/ /\ comfy' = [comfy EXCEPT ![j][rec.prompt].state = IF @ = "active" THEN "gone" ELSE @]
            /\ Set(h, "interrupted", j, WithStatus(rec, "cancelled"))
         \/ Hang(h) /\ UNCHANGED comfy
  /\ UNCHANGED <<files, record, asked, control, workers, apiUp, crashes>>

SaveCancelled(h) ==
  /\ call[h].at = "interrupted"
  /\ record' = [record EXCEPT ![call[h].job] = call[h].rec]
  /\ Hang(h)
  /\ UNCHANGED <<files, asked, comfy, control, workers, apiUp, crashes>>

InHand(w, j) == hand[w].job = j \/ todo[w][j] # Absent

Settled(j) ==
  /\ pending[j] = Absent
  /\ \A w \in Worker : ~InHand(w, j)
  /\ \A h \in Handler : call[h].job # j

\* retry_studio_job and retry_job: planned on file, then queued, then enqueued.
Retry(h, j) ==
  /\ Free(h, "retry") /\ record[j].status \in {"planned"} \cup Terminal
  /\ asked[j] < MaxRequests
  /\ PatientUsers => Settled(j)
  /\ asked' = [asked EXCEPT ![j] = @ + 1]
  /\ Set(h, "assess", j, NewRecord("planned", TRUE, asked[j] + 1))
  /\ UNCHANGED <<files, record, comfy, control, workers, apiUp, crashes>>

Assess(h) ==
  /\ call[h].at = "assess"
  /\ \E ready \in BOOLEAN :
       LET rec == [call[h].rec EXCEPT !.ready = ready]
       IN  /\ record' = [record EXCEPT ![call[h].job] = rec]
           /\ Set(h, "requeue", call[h].job, rec)
  /\ UNCHANGED <<files, asked, comfy, control, workers, apiUp, crashes>>

\* Seeded fault: the record is queued, the entry is not.
RequeueOnRecordOnly(h) ==
  /\ call[h].at = "requeue"
  /\ record' = [record EXCEPT ![call[h].job] =
                  WithStatus(call[h].rec, IF call[h].rec.ready THEN "queued" ELSE "blocked")]
  /\ Hang(h)
  /\ UNCHANGED <<files, asked, comfy, control, workers, apiUp, crashes>>

Requeue(h) ==
  /\ call[h].at = "requeue"
  /\ LET j == call[h].job
         rec == call[h].rec
     IN  IF rec.ready
           THEN /\ record' = [record EXCEPT ![j] = WithStatus(rec, "queued")]
                /\ Set(h, "enqueue", j, rec)
           ELSE /\ record' = [record EXCEPT ![j] = WithStatus(rec, "blocked")]
                /\ Hang(h)
  /\ UNCHANGED <<files, asked, comfy, control, workers, apiUp, crashes>>

EnqueueJob(h) ==
  /\ call[h].at = "enqueue"
  /\ pending' = [pending EXCEPT ![call[h].job] = Enqueued(@)]
  /\ Set(h, "wake", call[h].job, NoRecord)
  /\ UNCHANGED <<archived, jobs, control, workers, apiUp, crashes>>

Wake(h) ==
  /\ call[h].at = "wake"
  /\ stop' = FALSE
  /\ StartQueueWorker(FALSE)
  /\ Hang(h)
  /\ UNCHANGED <<files, jobs, heartbeat, todo, hand, apiUp, crashes>>

Proceed(h) ==
  \/ Ask(h) \/ SaveAnswer(h) \/ Unqueue(h) \/ Discard(h) \/ Interrupt(h)
  \/ SaveCancelled(h) \/ Assess(h) \/ Requeue(h) \/ EnqueueJob(h) \/ Wake(h)

Client(h) ==
  \/ \E j \in Job : Create(h, j) \/ Get(h, j) \/ Cancel(h, j) \/ Retry(h, j)
  \/ Proceed(h)

-----------------------------------------------------------------------------
\* The operations board, routes_studio.py under /ops.

\* Seeded fault: the summary is only read.
SummaryOnly ==
  /\ "ops" \in Endpoints /\ apiUp
  /\ UNCHANGED vars

OpsSummary ==
  /\ "ops" \in Endpoints /\ apiUp
  /\ StartQueueWorker(stop)
  /\ UNCHANGED <<files, jobs, control, todo, hand, api, crashes>>

StartEmbedded ==
  /\ "start" \in Endpoints /\ apiUp
  /\ stop' = FALSE
  /\ StartQueueWorker(FALSE)
  /\ UNCHANGED <<files, jobs, heartbeat, todo, hand, api, crashes>>

StartExternal ==
  /\ "start" \in Endpoints /\ apiUp
  /\ LaunchExternal
  /\ UNCHANGED <<files, jobs, heartbeat, registry, todo, hand, api, crashes>>

RequestStop ==
  /\ "stop" \in Endpoints /\ apiUp
  /\ stop' = TRUE
  /\ UNCHANGED <<files, jobs, heartbeat, workers, api, crashes>>

Operator == OpsSummary \/ StartEmbedded \/ StartExternal \/ RequestStop

-----------------------------------------------------------------------------
\* The environment.

ComfyEnds ==
  /\ \E j \in Job : \E n \in DOMAIN comfy[j], s \in {"done", "failed", "barren"} :
       /\ comfy[j][n].state = "active"
       /\ comfy' = [comfy EXCEPT ![j][n].state = s]
  /\ UNCHANGED <<files, record, asked, control, workers, api, crashes>>

DelayElapses(j) ==
  /\ pending[j].status = "queued" /\ ~pending[j].due
  /\ pending' = [pending EXCEPT ![j].due = TRUE]
  /\ UNCHANGED <<archived, jobs, control, workers, api, crashes>>

\* A heartbeat grows old when its writer is dead or, since none is written
\* while an entry is processed, when an entry takes longer than the TTL.
HeartbeatExpires ==
  /\ heartbeat.fresh
  /\ \/ heartbeat.writer = Nobody
     \/ SlowEntries /\ \E w \in Worker : heartbeat.writer = w /\ hand[w].job # Nobody
  /\ heartbeat' = [heartbeat EXCEPT !.fresh = FALSE]
  /\ UNCHANGED <<files, jobs, stop, workers, api, crashes>>

\* Workers that die leave the files as they are.
Kill(dead) ==
  /\ pc' = [w \in Worker |-> IF w \in dead THEN "down" ELSE pc[w]]
  /\ todo' = [w \in Worker |-> IF w \in dead THEN NoTodo ELSE todo[w]]
  /\ hand' = [w \in Worker |-> IF w \in dead THEN NoHand ELSE hand[w]]
  /\ heartbeat' = IF heartbeat.writer \in dead THEN [heartbeat EXCEPT !.writer = Nobody]
                                               ELSE heartbeat
  /\ crashes < MaxCrashes
  /\ crashes' = crashes + 1
  /\ UNCHANGED <<files, jobs, stop>>

ProcessCrash(p) == pc[p] # "down" /\ Kill({p}) /\ UNCHANGED <<registry, api>>

ApiCrash ==
  /\ apiUp
  /\ apiUp' = FALSE
  /\ Kill(Thread)
  /\ registry' = Nobody
  /\ call' = [h \in Handler |-> Idle]

\* lifespan() without a provider checkpoint: resume_provider_lifecycle clears
\* the stop request and starts the kind of worker last heard of, by default an
\* external one; when spawning it fails, resume_known_queues starts a thread.
ApiBoot ==
  /\ ~apiUp
  /\ apiUp' = TRUE
  /\ stop' = FALSE
  /\ \/ /\ heartbeat.fresh /\ heartbeat.mode = "embedded"
        /\ StartQueueWorker(FALSE)
     \/ /\ ~(heartbeat.fresh /\ heartbeat.mode = "embedded")
        /\ \/ HealthyExternal /\ UNCHANGED pc
           \/ ~HealthyExternal /\ \E p \in Process : pc[p] = "down" /\ Goto(p, "boot")
        /\ UNCHANGED registry
     \/ /\ ~heartbeat.fresh
        /\ IF pending = NoTodo THEN UNCHANGED <<registry, pc>> ELSE StartQueueWorker(FALSE)
  /\ UNCHANGED <<files, jobs, heartbeat, todo, hand, call, crashes>>

Environment ==
  \/ ComfyEnds \/ HeartbeatExpires \/ ApiCrash \/ ApiBoot
  \/ \E j \in Job : DelayElapses(j)
  \/ \E p \in Process : ProcessCrash(p)

-----------------------------------------------------------------------------
Next ==
  \/ \E w \in Worker : Pass(w)
  \/ \E t \in Thread : EndThread(t) \/ ClearBeat(t) \/ Unregister(t)
  \/ \E p \in Process : Boot(p) \/ Look(p) \/ StopExternal(p) \/ IdleShutdown(p) \/ ClearBeat(p)
  \/ \E h \in Handler : Client(h)
  \/ Operator
  \/ Environment

Spec == Init /\ [][Next]_vars

\* Workers, requests already accepted, ComfyUI and the clock make progress; a
\* supervisor restarts the API.  Nobody has to use an endpoint.
Progress ==
  /\ \A w \in Worker : WF_vars(Pass(w))
  /\ \A t \in Thread : WF_vars(EndThread(t) \/ ClearBeat(t) \/ Unregister(t))
  /\ \A p \in Process : WF_vars(Boot(p) \/ Look(p) \/ StopExternal(p) \/ ClearBeat(p))
  /\ \A h \in Handler : WF_vars(Proceed(h))
  /\ \A j \in Job : WF_vars(DelayElapses(j))
  /\ WF_vars(ComfyEnds)
  /\ WF_vars(ApiBoot)
  /\ WF_vars(heartbeat.writer = Nobody /\ HeartbeatExpires)

\* The session that shows a job polls it (AppShell.tsx), and the operations
\* board, while open, polls the summary.
JobPolled == \A j \in Job : SF_vars(\E h \in Handler : Get(h, j))
BoardOpen == SF_vars(OpsSummary)

FairSpec   == Spec /\ Progress
PolledSpec == FairSpec /\ JobPolled
BoardSpec  == PolledSpec /\ BoardOpen

-----------------------------------------------------------------------------
(***************************************************************************)
(* Safety.                                                                 *)
(***************************************************************************)

Hand == [job : Job \cup {Nobody}, entry : Entry, rec : Record, result : Result]
Call == [at : CallSteps, job : Job \cup {Nobody}, rec : Record]
HeartbeatFile == [mode : {"none", "embedded", "external"},
                  writer : Worker \cup {Nobody}, fresh : BOOLEAN]

FilesOK   == pending \in [Job -> Entry] /\ archived \in [Job -> Outcome \cup {"none"}]
JobsOK    == /\ record \in [Job -> Record]
             /\ asked \in [Job -> 0..MaxRequests]
             /\ comfy \in [Job -> Seq(Prompt)]
ControlOK == heartbeat \in HeartbeatFile /\ stop \in BOOLEAN
WorkersOK == /\ registry \in Thread \cup {Nobody}
             /\ pc \in [Worker -> WorkerSteps]
             /\ todo \in [Worker -> [Job -> Entry]]
             /\ hand \in [Worker -> Hand]
ApiOK     == call \in [Handler -> Call] /\ apiUp \in BOOLEAN

\* Every file, every worker's copy and every handler's copy has the shape the
\* code gives it; in particular only _process_entry's statuses are settled.
TypeOK == FilesOK /\ JobsOK /\ ControlOK /\ WorkersOK /\ ApiOK /\ crashes \in 0..MaxCrashes

\* The registry names the one embedded worker there is: start_queue_worker never
\* starts a second one, although run() removes whatever thread is registered.
OneEmbeddedPass == \A t \in Thread : pc[t] # "down" <=> registry = t

\* A worker that ends takes its heartbeat with it: one that is left behind would keep
\* start_queue_worker from starting.  (The file may hold another worker's heartbeat by
\* the time it is removed; nothing is promised of that one.)
NoHeartbeatOutlivesItsWorker ==
  heartbeat.writer # Nobody => pc[heartbeat.writer] \notin {"down", "boot", "unregister"}

Resubmissions(j) == Len(comfy[j]) - Cardinality({comfy[j][n].request : n \in DOMAIN comfy[j]})

\* With the embedded worker alone and patient users, ComfyUI is given a job once for
\* every time a user asks for it, although worker, polls and cancellations write the
\* record from copies of their own.  Only a crash before the prompt's id is on file
\* costs one more submission.
ResubmissionsNeedCrashes == \A j \in Job : Resubmissions(j) <= crashes

\* The entry is on file, in a worker's hand, or about to be written.
HasEntry(j) ==
  \/ pending[j] # Absent
  \/ \E w \in Worker : hand[w].job = j
  \/ \E h \in Handler : call[h].at = "enqueue" /\ call[h].job = j

\* A job accepted for background execution and not given to ComfyUI yet has an entry
\* somebody will run, as long as nothing crashes and users are patient (PatientUsers): a
\* retry of a job that is still in a worker's hand, or not archived yet, writes its new
\* entry where the worker unlinks the old one.  Of requests that overlap, a cancellation
\* alone may take a new entry away, one that a retry wrote in between.
UnsubmittedJobIsTracked ==
  crashes = 0 =>
    \A j \in Job : record[j].status \in {"queued", "running"} /\ record[j].prompt = 0 =>
      HasEntry(j) \/ (asked[j] > 1 /\ archived[j] = "cancelled")

\* Served one request at a time, the retry budget is overrun by one attempt at most (a
\* poll that was not counted ends in an error that is), and by one for each crash.  Of
\* two polls that overlap the one may turn back the error the other has saved.
AttemptsWithinBudget ==
  \A j \in Job : pending[j].attempts <= MaxAttempts + 1 + crashes

-----------------------------------------------------------------------------
(***************************************************************************)
(* What a step may never do.                                               *)
(***************************************************************************)

\* The job has ended and nobody is still at work on an older copy of its record.
QuietlyEnded(j) ==
  /\ record[j].status \in Terminal
  /\ \A w \in Worker : hand[w].job = j => pc[w] \in {"load", "settle", "unlink"}
  /\ \A h \in Handler : call[h].job = j => call[h].at \in {"unqueue", "discard", "enqueue", "wake"}

\* A job that ended (done, failed, blocked or cancelled) with nobody at work on
\* it keeps its outcome until a user retries it, whatever entry of it is still
\* queued, listed, recovered after a crash or written back from an old copy.
QuietEndIsFinal ==
  [][\A j \in Job : QuietlyEnded(j) =>
        \/ record'[j] = record[j] /\ QuietlyEnded(j)'
        \/ \E h \in Handler : call'[h].at = "assess" /\ call'[h].job = j]_vars

\* "Studio job was cancelled before ComfyUI execution started": a job cancelled
\* without a prompt is not given to ComfyUI afterwards.
CancelledJobIsNotSubmitted ==
  [][\A j \in Job : record[j].status = "cancelled" /\ record[j].prompt = 0
                       => comfy'[j] = comfy[j]]_vars

\* A retry the queue scheduled after a retryable failure runs the job again.
RetryRunsTheJob ==
  [][\A w \in Worker : pc[w] = "load" /\ hand[w].entry.attempts > 1
                          /\ record[hand[w].job].status = "error" => pc'[w] # "settle"]_vars

-----------------------------------------------------------------------------
(***************************************************************************)
(* Liveness.                                                               *)
(***************************************************************************)

\* ComfyUI has ended the job's prompt without an image and without an error.
Barren(j) == AwaitsComfy(record[j]) /\ comfy[j][record[j].prompt].state = "barren"

\* An active job ends, although the embedded worker overlooks what was enqueued
\* after it listed the queue: the session's poll restarts it.  refresh_studio_job
\* waits for the outputs of a barren prompt for ever.
ActiveJobFinishes ==
  \A j \in Job : record[j].status \in Active ~> record[j].status \in Terminal \/ Barren(j)

\* The queue keeps an entry pending until its job has ended, and no longer:
\* what was enqueued is archived in the end, unless its prompt is barren.
EntryLeavesQueue ==
  \A j \in Job : pending[j] # Absent ~> pending[j] = Absent \/ Barren(j)

\* After a stop request every worker finishes the entry in hand and goes, unless
\* the request is withdrawn.
StopDrains == stop ~> ~stop \/ \A w \in Worker : pc[w] = "down"

Orphaned(j) == pending[j].status = "running" /\ \A w \in Worker : hand[w].job # j

\* An entry that a crash of the API left running is put back into the queue by the
\* next embedded pass, which the operations board starts when it polls the summary.
OrphanIsRecovered == \A j \in Job : Orphaned(j) ~> ~Orphaned(j)
=============================================================================
