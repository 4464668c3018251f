---------------------------- MODULE RawprepQueue ----------------------------
(***************************************************************************)
(* Raw preparation jobs of one output root: the handlers of                *)
(* routes_rawprep.py, the embedded worker that runs their entries, and the *)
(* job index that every save of a record reads, changes and writes back.   *)
(*                                                                         *)
(* The index is rewritten in place without a lock.  Between the opening of *)
(* the file, which empties it, and the writing of its text a reader finds  *)
(* half a file; and of two texts written at once the longer one may stick  *)
(* out behind the shorter.  Records are taken to be read whole.            *)
(*                                                                         *)
(* A job is a list of brackets.  Each has a report in the session, which   *)
(* creating and retrying the job writes anew and running it completes.     *)
(***************************************************************************)
EXTENDS QueueEntries, TriRaw, FiniteSets

CONSTANTS
  Job,               \* rawprep jobs
  Shown,             \* jobs that are executed and watched; the others are only created and cancelled
  Groups,            \* brackets of a job
  Handler,           \* HTTP requests the API serves at the same time
  Worker,            \* the embedded worker
  Nobody,            \* no job
  MaxRequests,       \* bound: creation and retries of one job
  MaxCrashes,        \* bound: crashes of the API
  AttemptBound,      \* bound: attempts counted for one entry
  PatientUsers       \* do users retry a job only when nobody is at work on it?

ASSUME RawprepAssumption ==
  /\ Worker \notin Handler
  /\ Nobody \notin Job /\ Shown \subseteq Job
  /\ Groups \in Nat \ {0}
  /\ MaxRequests \in Nat /\ MaxCrashes \in Nat /\ AttemptBound \in Nat
  /\ PatientUsers \in BOOLEAN

Actor == Handler \cup {Worker}

VARIABLES
  pending,           \* the job's file in _queue/pending
  report,            \* the status in each bracket's TriRaw report
  record,            \* the status in the job's rawprep_job.json
  index,             \* rawprep_job_index.json: the jobs in it; can it be parsed?
  saving,            \* how far an actor's save of a record has come
  pc,                \* what the worker does next
  todo,              \* the entries the worker's pass listed
  hand,              \* the entry the worker has in hand
  call,              \* what a request does next
  asked,             \* how often a run of the job was demanded
  runs,              \* how often the job was run
  misread,           \* how often the worker could not load a record
  crashes            \* how many crashes there were

worker == <<pc, todo, hand>>
counts == <<asked, runs, misread, crashes>>
rvars  == <<pending, report, record, index, saving, pc, todo, hand, call, asked, runs, misread, crashes>>

Ended   == {"done", "failed", "blocked", "cancelled"}
Waiting == {"ready", "queued", "running"}

NotSaving == [at |-> "no", job |-> Nobody, copy |-> {}]
NoTodo    == [j \in Job |-> Absent]
NoHand    == [job |-> Nobody, entry |-> Absent, group |-> 1, result |-> "done"]
Outlined  == [g \in 1..Groups |-> Foundation]
Idle      == [at |-> "idle", job |-> Nobody]

Init ==
  /\ pending = [j \in Job |-> Absent]
  /\ report = [j \in Job |-> Outlined]
  /\ record = [j \in Job |-> "absent"]
  /\ index = [whole |-> TRUE, jobs |-> {}]
  /\ saving = [a \in Actor |-> NotSaving]
  /\ pc = "down"
  /\ todo = NoTodo
  /\ hand = NoHand
  /\ call = [h \in Handler |-> Idle]
  /\ asked = [j \in Job |-> 0]
  /\ runs = [j \in Job |-> 0]
  /\ misread = 0
  /\ crashes = 0

-----------------------------------------------------------------------------
\* save_job_record: the record, then the index.

Save(a, j, status) ==
  /\ record' = [record EXCEPT ![j] = status]
  /\ saving' = [saving EXCEPT ![a] = [at |-> "read", job |-> j, copy |-> {}]]

Saved(a) == saving[a].at = "no"

\* An index that cannot be parsed counts as empty.
ReadIndex(a) ==
  /\ saving[a].at = "read"
  /\ saving' = [saving EXCEPT ![a] =
       [@ EXCEPT !.at = "open", !.copy = IF index.whole THEN index.jobs ELSE {}]]
  /\ UNCHANGED <<report, pending, record, index, worker, call, counts>>

OpenIndex(a) ==
  /\ saving[a].at = "open"
  /\ saving' = [saving EXCEPT ![a].at = "write"]
  /\ index' = [whole |-> FALSE, jobs |-> {}]
  /\ UNCHANGED <<report, pending, record, worker, call, counts>>

WriteIndex(a) ==
  /\ saving[a].at = "write"
  /\ saving' = [saving EXCEPT ![a] = NotSaving]
  /\ \E whole \in IF index.whole THEN BOOLEAN ELSE {TRUE} :
       index' = [whole |-> whole, jobs |-> saving[a].copy \cup {saving[a].job}]
  /\ UNCHANGED <<report, pending, record, worker, call, counts>>

\* load_job_record finds a record that the index does not name by looking into
\* every session; an index that cannot be parsed is an error.
Loadable(j) == index.whole /\ record[j] # "absent"

-----------------------------------------------------------------------------
\* The worker.

StartQueueWorker == pc' = IF pc = "down" THEN "list" ELSE pc

List ==
  /\ pc = "list"
  /\ pending' = [j \in Job |-> Recovered(pending[j])]
  /\ todo' = [j \in Job |-> IF pending'[j].status = "queued" THEN pending'[j] ELSE Absent]
  /\ pc' = "pick"
  /\ UNCHANGED <<report, record, index, saving, hand, call, counts>>

EndPass ==
  /\ pc = "pick" /\ todo = NoTodo
  /\ pc' = "down"
  /\ UNCHANGED <<report, pending, record, index, saving, todo, hand, call, counts>>

SkipDelayed ==
  /\ pc = "pick"
  /\ \E j \in Job : todo[j].status = "queued" /\ ~todo[j].due /\ todo' = [todo EXCEPT ![j] = Absent]
  /\ UNCHANGED <<report, pending, record, index, saving, pc, hand, call, counts>>

\* Every visit of a rawprep entry counts as an attempt.
Take ==
  /\ pc = "pick"
  /\ \E j \in Job :
       /\ todo[j].status = "queued" /\ todo[j].attempts < AttemptBound
       /\ pending' = [pending EXCEPT ![j] = MarkedRunning(todo[j], TRUE)]
       /\ hand' = [NoHand EXCEPT !.job = j, !.entry = MarkedRunning(todo[j], TRUE)]
       /\ todo' = [todo EXCEPT ![j] = Absent]
  /\ pc' = "load"
  /\ UNCHANGED <<report, record, index, saving, call, counts>>

Settle(result) == hand' = [hand EXCEPT !.result = result] /\ pc' = "settle"

\* Loading raised: for the queue, a failure it may retry.
FailToLoad ==
  /\ pc \in {"load", "begin"} /\ ~Loadable(hand.job)
  /\ Settle("retryable")
  /\ misread' = misread + 1
  /\ UNCHANGED <<report, pending, record, index, saving, todo, call, asked, runs, crashes>>

\* Seeded fault: a job that was cancelled or has failed is run again.
LoadForAnyRun ==
  /\ pc = "load" /\ Loadable(hand.job)
  /\ IF record[hand.job] = "done" THEN Settle("done") ELSE pc' = "begin" /\ UNCHANGED hand
  /\ UNCHANGED <<report, pending, record, index, saving, todo, call, counts>>

\* _process_rawprep_entry up to execute_rawprep_job.
Load ==
  /\ pc = "load" /\ Loadable(hand.job)
  /\ LET status == record[hand.job]
     IN  \/ status \in {"done", "cancelled"} /\ Settle(status)
         \/ status = "blocked" /\ Settle("failed")
         \/ status = "failed" /\ Settle("retryable")
         \/ status \in Waiting /\ pc' = "begin" /\ UNCHANGED hand
  /\ UNCHANGED <<report, pending, record, index, saving, todo, call, counts>>

\* execute_rawprep_job loads the record once more, and works on this copy to its end.
Begin ==
  /\ pc = "begin" /\ Loadable(hand.job)
  /\ Save(Worker, hand.job, "running")
  /\ runs' = [runs EXCEPT ![hand.job] = @ + 1]
  /\ pc' = "run"
  /\ UNCHANGED <<report, pending, index, todo, hand, call, asked, misread, crashes>>

EndRun(status, result) == Save(Worker, hand.job, status) /\ Settle(result)

\* Seeded fault: a bracket with nothing to fuse is passed over.
FuseOrPass ==
  /\ pc = "run" /\ Saved(Worker) /\ hand.group <= Groups
  /\ \E bracket \in Brackets :
       report' = IF Fused(bracket) = "nothing" THEN report
                 ELSE [report EXCEPT ![hand.job][hand.group] = Fused(bracket)]
  /\ hand' = [hand EXCEPT !.group = @ + 1]
  /\ UNCHANGED <<pending, record, index, saving, pc, todo, call, counts>>

\* execute_rawprep_job fuses the brackets in turn, and is blocked by the first
\* that it cannot look at.
Fuse ==
  /\ pc = "run" /\ Saved(Worker) /\ hand.group <= Groups
  /\ \E bracket \in Brackets :
       IF Fused(bracket) = "nothing"
         THEN EndRun("blocked", "failed") /\ UNCHANGED report
         ELSE /\ report' = [report EXCEPT ![hand.job][hand.group] = Fused(bracket)]
              /\ hand' = [hand EXCEPT !.group = @ + 1]
              /\ UNCHANGED <<record, saving, pc>>
  /\ UNCHANGED <<pending, index, todo, call, counts>>

\* Whatever raises on the way fails the job.
Fail ==
  /\ pc = "run" /\ Saved(Worker) /\ hand.group <= Groups
  /\ EndRun("failed", "retryable")
  /\ UNCHANGED <<pending, report, index, todo, call, counts>>

\* Seeded fault: the status is reported by a name the queue does not know.
CompleteByOwnName ==
  /\ pc = "run" /\ Saved(Worker) /\ hand.group > Groups
  /\ EndRun("done", "preview_fused")
  /\ UNCHANGED <<pending, report, index, todo, call, counts>>

\* The copy is saved with the outcome, whatever is on file by now.
Complete ==
  /\ pc = "run" /\ Saved(Worker) /\ hand.group > Groups
  /\ EndRun("done", "done")
  /\ UNCHANGED <<pending, report, index, todo, call, counts>>

Postpone ==
  /\ pc = "settle" /\ Saved(Worker)
  /\ StaysPending(hand.entry, hand.result)
  /\ pending' = [pending EXCEPT ![hand.job] = Postponed(hand.entry)]
  /\ hand' = NoHand /\ pc' = "pick"
  /\ UNCHANGED <<report, record, index, saving, todo, call, counts>>

\* _archive_entry; the history file is left to StudioQueue.
Archive ==
  /\ pc = "settle" /\ Saved(Worker)
  /\ ~StaysPending(hand.entry, hand.result)
  /\ pending' = [pending EXCEPT ![hand.job] = Absent]
  /\ hand' = NoHand /\ pc' = "pick"
  /\ UNCHANGED <<report, record, index, saving, todo, call, counts>>

Work ==
  \/ List \/ EndPass \/ SkipDelayed \/ Take \/ FailToLoad \/ Load \/ Begin
  \/ Fuse \/ Fail \/ Complete \/ Postpone \/ Archive
  \/ ReadIndex(Worker) \/ OpenIndex(Worker) \/ WriteIndex(Worker)

-----------------------------------------------------------------------------
\* The handlers.

Set(h, at, j) == call' = [call EXCEPT ![h] = [at |-> at, job |-> j]]
Hang(h)       == call' = [call EXCEPT ![h] = Idle]
Free(h)       == call[h].at = "idle" /\ Saved(h)

\* create_rawprep_job: initialize_rawprep_job saves a record that is ready, no
\* tool being required; then, if asked to execute, the job is queued.
Create(h, j) ==
  /\ Free(h) /\ record[j] = "absent"
  /\ Save(h, j, "ready")
  /\ \E execute \in BOOLEAN :
       IF execute /\ j \in Shown THEN Set(h, "queue", j) /\ asked' = [asked EXCEPT ![j] = 1]
                  ELSE UNCHANGED <<call, asked>>
  /\ UNCHANGED <<report, pending, index, worker, runs, misread, crashes>>

Settled(j) ==
  /\ pending[j] = Absent /\ hand.job # j /\ todo[j] = Absent
  /\ \A h \in Handler : call[h].job # j

\* retry_rawprep_job asks for no status and begins all over: every bracket gets a
\* new foundation, and then the job a new record.
Retry(h, j) ==
  /\ Free(h) /\ Loadable(j) /\ j \in Shown /\ asked[j] < MaxRequests
  /\ PatientUsers => Settled(j)
  /\ report' = [report EXCEPT ![j] = Outlined]
  /\ Set(h, "initialize", j)
  /\ asked' = [asked EXCEPT ![j] = @ + 1]
  /\ UNCHANGED <<pending, record, index, saving, worker, runs, misread, crashes>>

Initialize(h) ==
  /\ call[h].at = "initialize"
  /\ Save(h, call[h].job, "ready")
  /\ Set(h, "queue", call[h].job)
  /\ UNCHANGED <<pending, report, index, worker, counts>>

Queue(h) ==
  /\ call[h].at = "queue" /\ Saved(h)
  /\ Save(h, call[h].job, "queued")
  /\ Set(h, "enqueue", call[h].job)
  /\ UNCHANGED <<report, pending, index, worker, counts>>

\* Seeded fault: only an entry that is there already is put back.
EnqueueKnownOnly(h) ==
  /\ call[h].at = "enqueue" /\ Saved(h)
  /\ pending' = [pending EXCEPT ![call[h].job] = IF @ = Absent THEN @ ELSE Enqueued(@)]
  /\ Set(h, "wake", call[h].job)
  /\ UNCHANGED <<report, record, index, saving, worker, counts>>

Enqueue(h) ==
  /\ call[h].at = "enqueue" /\ Saved(h)
  /\ pending' = [pending EXCEPT ![call[h].job] = Enqueued(@)]
  /\ Set(h, "wake", call[h].job)
  /\ UNCHANGED <<report, record, index, saving, worker, counts>>

Wake(h) ==
  /\ call[h].at = "wake"
  /\ StartQueueWorker
  /\ Hang(h)
  /\ UNCHANGED <<report, pending, record, index, saving, todo, hand, counts>>

\* Seeded fault: polling a queued job starts no worker.
GetOnly(h, j) ==
  /\ Free(h) /\ Loadable(j) /\ j \in Shown /\ record[j] = "queued"
  /\ UNCHANGED rvars

\* get_rawprep_job.
Get(h, j) ==
  /\ Free(h) /\ Loadable(j) /\ j \in Shown /\ record[j] = "queued"
  /\ StartQueueWorker
  /\ UNCHANGED <<report, pending, record, index, saving, todo, hand, call, counts>>

\* request_rawprep_cancel loads the record, and turns back if the job has ended.
Cancel(h, j) ==
  /\ Free(h) /\ Loadable(j) /\ record[j] \in Waiting
  /\ Set(h, "cancel", j)
  /\ UNCHANGED <<report, pending, record, index, saving, worker, counts>>

\* It saves what it has loaded, whatever is on file by now, and leaves the entry in
\* the queue.
SaveCancel(h) ==
  /\ call[h].at = "cancel"
  /\ Save(h, call[h].job, "cancelled")
  /\ Hang(h)
  /\ UNCHANGED <<report, pending, index, worker, counts>>

Proceed(h) ==
  \/ Initialize(h) \/ Queue(h) \/ Enqueue(h) \/ Wake(h) \/ SaveCancel(h)
  \/ ReadIndex(h) \/ OpenIndex(h) \/ WriteIndex(h)

Serve(h) ==
  \/ \E j \in Job : Create(h, j) \/ Retry(h, j) \/ Get(h, j) \/ Cancel(h, j)
  \/ Proceed(h)

-----------------------------------------------------------------------------
DelayElapses(j) ==
  /\ pending[j].status = "queued" /\ ~pending[j].due
  /\ pending' = [pending EXCEPT ![j].due = TRUE]
  /\ UNCHANGED <<report, record, index, saving, worker, call, counts>>

\* The API dies and is started again; resume_known_queues starts a worker when
\* there are entries.
Crash ==
  /\ crashes < MaxCrashes
  /\ crashes' = crashes + 1
  /\ saving' = [a \in Actor |-> NotSaving]
  /\ pc' = IF pending = NoTodo THEN "down" ELSE "list"
  /\ todo' = NoTodo
  /\ hand' = NoHand
  /\ call' = [h \in Handler |-> Idle]
  /\ UNCHANGED <<report, pending, record, index, asked, runs, misread>>

\* Whoever looks at the operations board starts a worker; one that finds an empty
\* queue ends at once.
LookAtBoard ==
  /\ pc = "down" /\ pending # NoTodo
  /\ StartQueueWorker
  /\ UNCHANGED <<report, pending, record, index, saving, todo, hand, call, counts>>

Next ==
  \/ Work
  \/ LookAtBoard
  \/ \E h \in Handler : Serve(h)
  \/ \E j \in Job : DelayElapses(j)
  \/ Crash

Spec == Init /\ [][Next]_rvars

\* The worker, accepted requests and the clock go on, and the session polls the
\* job it shows.
FairSpec ==
  /\ Spec
  /\ WF_rvars(Work)
  /\ \A h \in Handler : WF_rvars(Proceed(h))
  /\ \A j \in Job : WF_rvars(DelayElapses(j))
  /\ \A j \in Shown : SF_rvars(\E h \in Handler : Get(h, j))

-----------------------------------------------------------------------------
\* Statuses, entries, the index and every actor's place in it are well formed.
RawTypeOK ==
  /\ pending \in [Job -> Entry]
  /\ report \in [Job -> [1..Groups -> {Foundation, "preview_fused"}]]
  /\ record \in [Job -> {"absent"} \cup Waiting \cup Ended]
  /\ index \in [whole : BOOLEAN, jobs : SUBSET Job]
  /\ saving \in [Actor -> [at : {"no", "read", "open", "write"}, job : Job \cup {Nobody}, copy : SUBSET Job]]
  /\ pc \in {"down", "list", "pick", "load", "begin", "run", "settle"}
  /\ todo \in [Job -> Entry]
  /\ hand \in [job : Job \cup {Nobody}, entry : Entry, group : 1..(Groups + 1), result : Result]
  /\ call \in [Handler -> [at : {"idle", "initialize", "queue", "enqueue", "wake", "cancel"}, job : Job \cup {Nobody}]]
  /\ asked \in [Job -> Nat] /\ runs \in [Job -> Nat]
  /\ misread \in Nat /\ crashes \in 0..MaxCrashes

\* As long as jobs are retried only when nobody is at work on them, a job that is
\* queued on file is in the queue, in the worker's hand, or about to be enqueued,
\* although a cancellation leaves its entry behind.  Only a crash between two writes,
\* or an index that could not be read for every attempt there is, leaves it without
\* a worker.  (retry_rawprep_job asks for no status: retried at work, a job may lose
\* its new entry to the archiving of the old.)
QueuedRawJobIsTracked ==
  crashes = 0 /\ misread < MaxAttempts =>
    \A j \in Job : record[j] = "queued" =>
      \/ pending[j] # Absent
      \/ hand.job = j
      \/ \E h \in Handler : call[h].at = "enqueue" /\ call[h].job = j

\* As long as jobs are retried only when nobody is at work on them, a job is run once
\* for every demand: neither the scheduled retry of a failed job, nor a poll, nor a
\* cancellation that was overtaken runs it again, and a crash does so once.  (Retried
\* in the worker's hand, one is run a second time by the old entry.)
RunsAreDemanded == \A j \in Job : runs[j] <= asked[j] + crashes

\* The job has ended and neither worker nor request is about to write its record.
QuietlyEnded(j) ==
  /\ record[j] \in Ended
  /\ hand.job = j => pc \notin {"begin", "run"}
  /\ \A h \in Handler : call[h].job = j => call[h].at \notin {"initialize", "queue", "cancel"}

\* What has ended with nobody about to write its record, a cancellation above all,
\* keeps its outcome until a user retries it: whatever entry is left of it is
\* archived without a run.  (A run that goes on and a cancellation that has passed
\* its check do overwrite what they find.)
RawQuietEndIsFinal ==
  [][\A j \in Job : QuietlyEnded(j) =>
       \/ record'[j] = record[j] /\ QuietlyEnded(j)'
       \/ asked'[j] > asked[j]]_rvars

\* As long as jobs are retried only when nobody is at work on them, a job that becomes
\* done has fused every one of its brackets at that moment, and the reports of a done
\* job change in no other way than by a retry: that a run was interrupted by a crash or
\* met by a cancellation passes over no bracket.  (A retry writes its foundations before
\* its record: while it is at work, or after a crash in it, the record still says done.)
DoneJobIsFused ==
  [][\A j \in Job :
       /\ record'[j] = "done" /\ record[j] # "done" => \A g \in 1..Groups : report'[j][g] = "preview_fused"
       /\ record[j] = "done" /\ report'[j] # report[j] => asked'[j] > asked[j]]_rvars

\* A job that was queued ends, unless the index was unreadable for all its attempts
\* or stays so (then even polling fails), or a crash came between record and entry.
QueuedRawJobEnds ==
  \A j \in Job : [](record[j] = "queued" =>
    <>(record[j] \in Ended \/ misread >= MaxAttempts \/ crashes > 0 \/ []~index.whole))
=============================================================================
