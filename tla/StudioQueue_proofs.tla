------------------------- MODULE StudioQueue_proofs -------------------------
(***************************************************************************)
(* What holds of StudioQueue for every set of jobs, threads, processes and *)
(* handlers and for every bound: its types, that one embedded worker runs  *)
(* at a time, that no heartbeat outlives its worker, and that a job which  *)
(* ended quietly keeps its outcome.                                        *)
(***************************************************************************)
EXTENDS StudioQueue, SequenceTheorems, TLAPS

-----------------------------------------------------------------------------
\* What the operators on entries and records return.

LEMMA EntryTypes ==
  /\ Absent \in Entry
  /\ \A e \in Entry : /\ Enqueued(e) \in Entry
                      /\ Recovered(e) \in Entry
                      /\ Postponed(e) \in Entry
                      /\ \A counted : MarkedRunning(e, counted) \in Entry
BY DEF Absent, Entry, Enqueued, Recovered, Postponed, MarkedRunning

\* An entry that does not stay pending is archived under one of history's outcomes.
LEMMA SettledTypes ==
  ASSUME NEW e \in Entry, NEW result \in Result, ~StaysPending(e, result)
  PROVE  ArchivedAs(result) \in Outcome
BY DEF StaysPending, ArchivedAs, Outcome, Result

\* A record with another of the known statuses is a record.
LEMMA RecordTypes ==
  /\ NoRecord \in Record
  /\ \A status \in Status, ready \in BOOLEAN, n \in Nat : NewRecord(status, ready, n) \in Record
  /\ \A rec \in Record, status \in Status : WithStatus(rec, status) \in Record
  /\ {"planned", "queued", "running", "error", "blocked", "cancelled"} \subseteq Status
BY DEF Record, NoRecord, NewRecord, WithStatus, Status, Active, Terminal

\* What a poll makes of a record is a record.
LEMMA RefreshedTypes ==
  \A rec \in Record : \A promptState : \A r \in Refreshed(rec, promptState) : r \in Record
<1>1. SUFFICES ASSUME NEW rec \in Record, NEW promptState, NEW r \in Refreshed(rec, promptState)
               PROVE  r \in Record
  OBVIOUS
<1>2. \E status \in {"done", "error", "running"} : r = WithStatus(rec, status)
  BY DEF Refreshed
<1> QED
  BY <1>2, RecordTypes DEF Status, Active, Terminal

\* Whatever a record's status, _process_studio_entry reports one of its results.
LEMMA ResultTypes == \A status : ResultOf(status) \in Result
BY DEF ResultOf, Result

\* A submission adds a prompt, and the record in hand then names it.
LEMMA SubmittedTypes ==
  \A rec \in Record, n \in Nat :
    [rec EXCEPT !.status = "submitted", !.prompt = n + 1] \in Record
<1> SUFFICES ASSUME NEW rec \in Record, NEW n \in Nat
             PROVE  [rec EXCEPT !.status = "submitted", !.prompt = n + 1] \in Record
  OBVIOUS
<1>1. "submitted" \in Status /\ n + 1 \in Nat
  BY DEF Status, Active
<1> QED
  BY <1>1 DEF Record

\* Whatever a worker writes into its hand, the job in it stays.
LEMMA HandUpdates ==
  \A hd \in Hand, rec \in Record, result \in Result :
    /\ [hd EXCEPT !.rec = rec] \in Hand /\ [hd EXCEPT !.rec = rec].job = hd.job
    /\ [hd EXCEPT !.result = result] \in Hand /\ [hd EXCEPT !.result = result].job = hd.job
BY DEF Hand

\* The empty hand, list, call and heartbeat are well formed.
LEMMA EmptyTypes ==
  /\ NoHand \in Hand /\ NoHand.job = Nobody
  /\ NoTodo \in [Job -> Entry]
  /\ Idle \in Call /\ Idle.job = Nobody
  /\ NoBeat \in HeartbeatFile
BY EntryTypes, RecordTypes
   DEF NoHand, NoTodo, Idle, NoBeat, Hand, Call, HeartbeatFile, Result, CallSteps


\* A prompt changes its state, the sequence of prompts its length never.
LEMMA PromptMoves ==
  ASSUME NEW prompts \in Seq(Prompt), NEW n, NEW state \in PromptState
  PROVE  [prompts EXCEPT ![n].state = state] \in Seq(Prompt)
<1>1. prompts \in [1..Len(prompts) -> Prompt] /\ Len(prompts) \in Nat
  BY LenProperties
<1>2. [prompts EXCEPT ![n].state = state] \in [1..Len(prompts) -> Prompt]
  BY <1>1 DEF Prompt
<1> QED
  BY <1>1, <1>2, SeqDef

\* Deletion takes an active prompt away and leaves one that has ended.
LEMMA PromptSettles ==
  ASSUME comfy \in [Job -> Seq(Prompt)], NEW j, NEW n,
         comfy' = [comfy EXCEPT ![j][n].state = IF @ = "active" THEN "gone" ELSE @]
  PROVE  comfy' \in [Job -> Seq(Prompt)]
<1> DEFINE state == IF comfy[j][n].state = "active" THEN "gone" ELSE comfy[j][n].state
           settled == [comfy[j] EXCEPT ![n].state = state]
<1>1. comfy' = [comfy EXCEPT ![j] = settled]
  OBVIOUS
<1>2. ASSUME j \in Job PROVE settled \in Seq(Prompt)
  <2>1. comfy[j] \in [1..Len(comfy[j]) -> Prompt] /\ Len(comfy[j]) \in Nat
    BY <1>2, LenProperties
  <2>2. settled \in [1..Len(comfy[j]) -> Prompt]
    BY <2>1 DEF Prompt, PromptState
  <2> QED
    BY <2>1, <2>2, SeqDef
<1> HIDE DEF settled
<1> QED
  BY <1>1, <1>2
-----------------------------------------------------------------------------
\* The steps at which a worker has an entry in hand.
Carrying == {"load", "prepare", "submit", "submitted", "poll", "answer", "settle", "unlink"}

CarriesJob == \A w \in Worker : pc[w] \in Carrying => hand[w].job \in Job

Typed == TypeOK /\ CarriesJob

\* Nothing is on file and nobody at work in the beginning.
LEMMA InitTyped == Init => Typed
<1> SUFFICES ASSUME Init PROVE Typed
  OBVIOUS
<1>1. FilesOK
  BY EntryTypes DEF Init, FilesOK
<1>2. JobsOK
  BY RecordTypes, EmptySeq, ConstantsAssumption DEF Init, JobsOK
<1>3. ControlOK
  BY EmptyTypes DEF Init, ControlOK
<1>4. WorkersOK
  BY EmptyTypes DEF Init, WorkersOK, WorkerSteps
<1>5. ApiOK
  BY EmptyTypes DEF Init, ApiOK
<1>6. crashes \in 0..MaxCrashes
  BY ConstantsAssumption DEF Init
<1>7. CarriesJob
  BY DEF Init, CarriesJob, Carrying
<1> QED
  BY <1>1, <1>2, <1>3, <1>4, <1>5, <1>6, <1>7 DEF Typed, TypeOK

\* Every worker writes a well formed heartbeat.
LEMMA BeatTypes == \A w \in Worker : Beat(w) => heartbeat' \in HeartbeatFile
BY DEF Beat, HeartbeatFile

\* A worker that goes on with the same job in hand keeps the workers' types.
LEMMA CarryOn ==
  ASSUME Typed, NEW w \in Worker, pc[w] \in Carrying,
         NEW hd \in Hand, hd.job = hand[w].job, hand' = [hand EXCEPT ![w] = hd],
         NEW step \in WorkerSteps, Goto(w, step), UNCHANGED <<registry, todo>>
  PROVE  WorkersOK' /\ CarriesJob'
BY DEF Typed, TypeOK, WorkersOK, CarriesJob, Goto

\* A worker's step changes the files its action names; what it writes there is
\* an entry, a record or a prompt again.
LEMMA PassTyped ==
  ASSUME Typed, NEW w \in Worker, Pass(w)
  PROVE  Typed'
<1> USE DEF Typed, TypeOK, FilesOK, JobsOK, ControlOK, ApiOK, files, jobs, control, api
<1>1. CASE Recover(w)
  <2>1. pending' \in [Job -> Entry]
    BY <1>1, EntryTypes DEF Recover
  <2>2. heartbeat' \in HeartbeatFile
    BY <1>1, BeatTypes DEF Recover
  <2>3. WorkersOK' /\ CarriesJob'
    BY <1>1 DEF Recover, Leave, WorkersOK, CarriesJob, Carrying, Goto, WorkerSteps
  <2> QED
    BY <1>1, <2>1, <2>2, <2>3 DEF Recover
<1>2. CASE List(w)
  BY <1>2, EntryTypes DEF List, WorkersOK, CarriesJob, Carrying, Goto, WorkerSteps
<1>3. CASE EndPass(w)
  BY <1>3, EmptyTypes DEF EndPass, Leave, WorkersOK, CarriesJob, Carrying, Goto, WorkerSteps
<1>4. CASE SkipDelayed(w)
  BY <1>4, EntryTypes DEF SkipDelayed, WorkersOK, CarriesJob
<1>5. CASE Take(w)
  <2>1. PICK j \in Job :
          /\ pending' = [pending EXCEPT ![j] = MarkedRunning(todo[w][j], ~AwaitsComfy(record[j]))]
          /\ hand' = [hand EXCEPT ![w] = [NoHand EXCEPT !.job = j,
                        !.entry = MarkedRunning(todo[w][j], ~AwaitsComfy(record[j]))]]
          /\ todo' = [todo EXCEPT ![w][j] = Absent]
    BY <1>5 DEF Take
  <2>2. MarkedRunning(todo[w][j], ~AwaitsComfy(record[j])) \in Entry
    BY EntryTypes DEF WorkersOK
  <2>3. hand' \in [Worker -> Hand] /\ hand'[w].job = j /\ \A v \in Worker \ {w} : hand'[v] = hand[v]
    BY <2>1, <2>2, EmptyTypes DEF Hand, WorkersOK
  <2>4. WorkersOK' /\ CarriesJob'
    BY <1>5, <2>1, <2>3, EntryTypes DEF Take, WorkersOK, CarriesJob, Carrying, Goto, WorkerSteps
  <2> QED
    BY <1>5, <2>1, <2>2, <2>4, BeatTypes DEF Take
<1>6. CASE Load(w)
  <2> DEFINE j == hand[w].job
             rec == record[j]
  <2>0. pc[w] \in Carrying /\ j \in Job /\ hand[w] \in Hand /\ rec \in Record
    BY <1>6 DEF Load, Carrying, CarriesJob, WorkersOK
  <2>1. \A saved \in Record, hd \in Hand, step \in {"settle", "poll", "prepare"} :
          /\ record' = record \/ record' = [record EXCEPT ![j] = saved]
          /\ hd.job = j /\ hand' = [hand EXCEPT ![w] = hd]
          /\ Goto(w, step)
          => record' \in [Job -> Record] /\ WorkersOK' /\ CarriesJob'
    BY <1>6, <2>0, CarryOn DEF Load, WorkerSteps
  <2>2. CASE /\ hand' = [hand EXCEPT ![w].rec = rec, ![w].result = ResultOf(rec.status)]
             /\ Goto(w, "settle") /\ UNCHANGED record
    <3> DEFINE hd == [hand[w] EXCEPT !.rec = rec, !.result = ResultOf(rec.status)]
    <3>1. hand' = [hand EXCEPT ![w] = hd]
      BY <2>2
    <3>2. hd \in Hand /\ hd.job = j
      BY <2>0, ResultTypes DEF Hand
    <3> HIDE DEF hd
    <3> QED
      BY <1>6, <2>0, <2>1, <2>2, <3>1, <3>2 DEF Load
  <2>3. CASE /\ hand' = [hand EXCEPT ![w].rec = rec]
             /\ Goto(w, "poll") /\ UNCHANGED record
    <3>1. hand' = [hand EXCEPT ![w] = [hand[w] EXCEPT !.rec = rec]]
      BY <2>3
    <3> QED
      BY <1>6, <2>0, <2>1, <2>3, <3>1, HandUpdates, ResultTypes DEF Load
  <2>4. CASE /\ record' = [record EXCEPT ![j] = WithStatus(rec, "blocked")]
             /\ hand' = [hand EXCEPT ![w].rec = rec, ![w].result = "failed"]
             /\ Goto(w, "settle")
    <3> DEFINE hd == [hand[w] EXCEPT !.rec = rec, !.result = "failed"]
    <3>1. hand' = [hand EXCEPT ![w] = hd]
      BY <2>4
    <3>2. "failed" \in Result /\ WithStatus(rec, "blocked") \in Record
      BY <2>0, RecordTypes DEF Result
    <3>3. hd \in Hand /\ hd.job = j
      BY <2>0, <3>2 DEF Hand
    <3> HIDE DEF hd
    <3> QED
      BY <1>6, <2>0, <2>1, <2>4, <3>1, <3>2, <3>3 DEF Load
  <2>5. CASE /\ record' = [record EXCEPT ![j] = WithStatus(rec, "running")]
             /\ hand' = [hand EXCEPT ![w].rec = WithStatus(rec, "running")]
             /\ Goto(w, "prepare")
    <3>1. hand' = [hand EXCEPT ![w] = [hand[w] EXCEPT !.rec = WithStatus(rec, "running")]]
      BY <2>5
    <3>2. WithStatus(rec, "running") \in Record
      BY <2>0, RecordTypes
    <3> QED
      BY <1>6, <2>0, <2>1, <2>5, <3>1, <3>2, HandUpdates, ResultTypes DEF Load
  <2> QED
    BY <1>6, <2>2, <2>3, <2>4, <2>5 DEF Load
<1>7. CASE Prepare(w)
  BY <1>7 DEF Prepare, Hand, WorkersOK, CarriesJob, Carrying, Goto, WorkerSteps
<1>8. CASE Submit(w)
  <2> DEFINE j == hand[w].job
             rec == hand[w].rec
             prompt == [state |-> "active", request |-> rec.request]
             saved == [rec EXCEPT !.status = "submitted", !.prompt = Len(comfy[j]) + 1]
  <2>1. pc[w] \in Carrying /\ j \in Job /\ hand[w] \in Hand /\ rec \in Record
    BY <1>8 DEF Submit, Hand, Carrying, CarriesJob, WorkersOK
  <2>2. prompt \in Prompt
    BY <2>1 DEF Prompt, PromptState, Record
  <2>3. Len(comfy[j]) \in Nat /\ Append(comfy[j], prompt) \in Seq(Prompt)
    BY <2>1, <2>2, AppendProperties, LenProperties
  <2>4. comfy' \in [Job -> Seq(Prompt)]
    BY <1>8, <2>1, <2>3 DEF Submit
  <2>5. saved \in Record
    BY <2>1, <2>3, SubmittedTypes
  <2>6. hand' = [hand EXCEPT ![w] = [hand[w] EXCEPT !.rec = saved]]
    BY <1>8 DEF Submit
  <2>7. WorkersOK' /\ CarriesJob'
    <3> HIDE DEF saved
    <3>1. [hand[w] EXCEPT !.rec = saved] \in Hand /\ [hand[w] EXCEPT !.rec = saved].job = j
      BY <2>1, <2>5, HandUpdates DEF Result
    <3>2. "submitted" \in WorkerSteps /\ Goto(w, "submitted") /\ UNCHANGED <<registry, todo>>
      BY <1>8 DEF Submit, WorkerSteps
    <3> QED
      BY <2>1, <2>6, <3>1, <3>2, CarryOn
  <2> QED
    BY <1>8, <2>4, <2>7 DEF Submit
<1>9. CASE FailToSubmit(w)
  <2>1. pc[w] \in Carrying /\ hand[w] \in Hand /\ hand[w].rec \in Record
    BY <1>9 DEF FailToSubmit, Hand, Carrying, WorkersOK
  <2>2. record' \in [Job -> Record]
    <3>1. PICK prompt \in {0, hand[w].rec.prompt} :
            record' = [record EXCEPT ![hand[w].job] =
                         [hand[w].rec EXCEPT !.status = "error", !.prompt = prompt]]
      BY <1>9 DEF FailToSubmit
    <3>2. prompt \in Nat
      BY <2>1 DEF Record
    <3>3. [hand[w].rec EXCEPT !.status = "error", !.prompt = prompt] \in Record
      BY <2>1, <3>2 DEF Record, Status, Terminal, Active
    <3> QED
      BY <3>1, <3>3
  <2>3. WorkersOK' /\ CarriesJob'
    BY <1>9, <2>1, CarryOn, HandUpdates DEF FailToSubmit, WorkerSteps, Result
  <2> QED
    BY <1>9, <2>2, <2>3 DEF FailToSubmit
<1>10. CASE SaveSubmitted(w)
  <2>1. pc[w] \in Carrying /\ hand[w] \in Hand /\ hand[w].rec \in Record
    BY <1>10 DEF SaveSubmitted, Hand, Carrying, WorkersOK
  <2>2. WorkersOK' /\ CarriesJob'
    BY <1>10, <2>1, CarryOn, HandUpdates DEF SaveSubmitted, WorkerSteps, Result
  <2> QED
    BY <1>10, <2>1, <2>2 DEF SaveSubmitted
<1>11. CASE Poll(w)
  <2>1. pc[w] \in Carrying /\ hand[w] \in Hand /\ hand[w].rec \in Record
    BY <1>11 DEF Poll, Hand, Carrying, WorkersOK
  <2>2. PICK r \in Record : hand' = [hand EXCEPT ![w].rec = r]
    BY <1>11, <2>1, RefreshedTypes DEF Poll
  <2>3. [hand[w] EXCEPT !.rec = r] \in Hand /\ [hand[w] EXCEPT !.rec = r].job = hand[w].job
    BY <2>1, HandUpdates DEF Result
  <2>4. WorkersOK' /\ CarriesJob'
    BY <1>11, <2>1, <2>2, <2>3, CarryOn DEF Poll, WorkerSteps
  <2> QED
    BY <1>11, <2>4 DEF Poll
<1>12. CASE SavePolled(w)
  <2>1. pc[w] \in Carrying /\ hand[w] \in Hand /\ hand[w].rec \in Record
    BY <1>12 DEF SavePolled, Hand, Carrying, WorkersOK
  <2>2. WorkersOK' /\ CarriesJob'
    BY <1>12, <2>1, CarryOn, HandUpdates, ResultTypes DEF SavePolled, WorkerSteps
  <2> QED
    BY <1>12, <2>1, <2>2 DEF SavePolled
<1>13. CASE Postpone(w)
  <2>1. pending' \in [Job -> Entry]
    BY <1>13, EntryTypes DEF Postpone, Hand, WorkersOK
  <2>2. WorkersOK' /\ CarriesJob'
    BY <1>13, EmptyTypes DEF Postpone, WorkersOK, CarriesJob, Carrying, Goto, WorkerSteps
  <2> QED
    BY <1>13, <2>1, <2>2, BeatTypes DEF Postpone
<1>14. CASE Archive(w)
  BY <1>14, SettledTypes DEF Archive, Hand, WorkersOK, CarriesJob, Carrying, Goto, WorkerSteps
<1>15. CASE Unlink(w)
  BY <1>15, EntryTypes, EmptyTypes, BeatTypes
     DEF Unlink, WorkersOK, CarriesJob, Carrying, Goto, WorkerSteps
<1> QED
  BY <1>1, <1>2, <1>3, <1>4, <1>5, <1>6, <1>7, <1>8, <1>9, <1>10, <1>11, <1>12,
     <1>13, <1>14, <1>15 DEF Pass

\* Starting a worker of either kind moves one that is down.
LEMMA StartTypes ==
  ASSUME Typed, NEW stopped, StartQueueWorker(stopped), UNCHANGED <<todo, hand>>
  PROVE  WorkersOK' /\ CarriesJob'
BY DEF Typed, TypeOK, WorkersOK, CarriesJob, Carrying, StartQueueWorker, Goto, WorkerSteps, Worker

\* The same for a process that is launched, or not.
LEMMA LaunchTypes ==
  ASSUME Typed, NEW p \in Process, Goto(p, "boot"), UNCHANGED <<registry, todo, hand>>
  PROVE  WorkersOK' /\ CarriesJob'
BY DEF Typed, TypeOK, WorkersOK, CarriesJob, Carrying, Goto, WorkerSteps, Worker

\* Ending a thread writes nothing but the heartbeat, the registry and its step.
LEMMA ThreadTyped ==
  ASSUME Typed, NEW t \in Thread, EndThread(t) \/ ClearBeat(t) \/ Unregister(t)
  PROVE  Typed'
<1> USE EmptyTypes DEF Typed, TypeOK, FilesOK, JobsOK, ControlOK, WorkersOK, ApiOK, files, jobs,
        control, api, CarriesJob, Carrying, Goto, WorkerSteps, Worker
<1>1. CASE EndThread(t)
  BY <1>1 DEF EndThread, Retire
<1>2. CASE Unregister(t)
  BY <1>2 DEF Unregister
<1>3. CASE ClearBeat(t)
  BY <1>3 DEF ClearBeat
<1> QED
  BY <1>1, <1>2, <1>3

\* The external worker's own loop writes its heartbeat and its step.
LEMMA ProcessTyped ==
  ASSUME Typed, NEW p \in Process, Boot(p) \/ Look(p) \/ StopExternal(p) \/ IdleShutdown(p) \/ ClearBeat(p)
  PROVE  Typed'
<1> USE EmptyTypes DEF Typed, TypeOK, FilesOK, JobsOK, ControlOK, WorkersOK, ApiOK, files, jobs,
        control, api, CarriesJob, Carrying, Goto, WorkerSteps
<1>0. p \in Worker
  BY DEF Worker
<1>1. CASE Boot(p)
  BY <1>0, <1>1 DEF Boot
<1>2. CASE Look(p)
  BY <1>0, <1>2, BeatTypes DEF Look
<1>3. CASE StopExternal(p) \/ IdleShutdown(p)
  BY <1>0, <1>3 DEF StopExternal, IdleShutdown, Retire
<1>4. CASE ClearBeat(p)
  BY <1>0, <1>4 DEF ClearBeat
<1> QED
  BY <1>1, <1>2, <1>3, <1>4

\* Where a handler goes next is one of its steps, with a record it may save.
LEMMA SetTypes ==
  ASSUME ApiOK, NEW h \in Handler,
         \/ \E at \in CallSteps, j \in Job \cup {Nobody}, rec \in Record : Set(h, at, j, rec)
         \/ Hang(h)
  PROVE  call' \in [Handler -> Call]
BY EmptyTypes DEF ApiOK, Set, Hang, Call

\* Every handler saves a record and an entry that are well formed.
LEMMA ClientTyped ==
  ASSUME Typed, NEW h \in Handler, Client(h)
  PROVE  Typed'
<1> USE DEF Typed, TypeOK, FilesOK, JobsOK, ControlOK, files, jobs, control, workers
<1>0. ASSUME UNCHANGED workers PROVE WorkersOK' /\ CarriesJob'
  BY <1>0 DEF WorkersOK, CarriesJob
<1>1. ASSUME NEW j \in Job, Create(h, j) PROVE Typed'
  <2>1. PICK ready \in BOOLEAN, execute \in BOOLEAN, status \in {"blocked", "queued", "planned"} :
          /\ record' = [record EXCEPT ![j] = NewRecord(status, ready, 1)]
          /\ IF ready /\ execute THEN Set(h, "enqueue", j, NewRecord(status, ready, 1))
                               ELSE UNCHANGED call
    BY <1>1 DEF Create
  <2>2. NewRecord(status, ready, 1) \in Record
    BY RecordTypes
  <2>3. call' \in [Handler -> Call]
    BY <2>1, <2>2, SetTypes DEF CallSteps, ApiOK
  <2>4. asked' \in [Job -> 0..MaxRequests]
    BY <1>1, ConstantsAssumption DEF Create
  <2> QED
    BY <1>0, <1>1, <2>1, <2>2, <2>3, <2>4 DEF Create, ApiOK
<1>2. ASSUME NEW j \in Job, Get(h, j) PROVE Typed'
  <2>1. WorkersOK' /\ CarriesJob'
    BY <1>2, StartTypes DEF Get, WorkersOK, CarriesJob
  <2>2. call' \in [Handler -> Call]
    BY <1>2, SetTypes DEF Get, CallSteps, ApiOK
  <2> QED
    BY <1>2, <2>1, <2>2 DEF Get, ApiOK
<1>3. ASSUME NEW j \in Job, Cancel(h, j) PROVE Typed'
  <2>0. WithStatus(record[j], "cancelled") \in Record
    BY RecordTypes
  <2>1. record' \in [Job -> Record]
    BY <1>3, <2>0 DEF Cancel
  <2>2. call' \in [Handler -> Call]
    BY <1>3, SetTypes DEF Cancel, CallSteps
  <2> QED
    BY <1>0, <1>3, <2>1, <2>2 DEF Cancel, ApiOK
<1>4. ASSUME NEW j \in Job, Retry(h, j) PROVE Typed'
  <2>1. asked[j] + 1 \in 0..MaxRequests /\ asked[j] + 1 \in Nat
    BY <1>4, ConstantsAssumption DEF Retry
  <2>2. NewRecord("planned", TRUE, asked[j] + 1) \in Record
    BY <2>1, RecordTypes
  <2>3. call' \in [Handler -> Call]
    BY <1>4, <2>2, SetTypes DEF Retry, CallSteps
  <2> QED
    BY <1>0, <1>4, <2>1, <2>3 DEF Retry, ApiOK
<1>5. ASSUME Proceed(h) PROVE Typed'
  <2> DEFINE j == call[h].job
             rec == call[h].rec
  <2>0. j \in Job \cup {Nobody} /\ rec \in Record
    BY DEF ApiOK, Call
  <2>1. CASE Ask(h)
    <3>1. PICK r \in Record : Set(h, "answer", j, r)
      BY <2>0, <2>1, RefreshedTypes DEF Ask
    <3>2. call' \in [Handler -> Call]
      BY <2>0, <3>1, SetTypes DEF CallSteps
    <3> QED
      BY <1>0, <2>1, <3>2 DEF Ask, ApiOK
  <2>2. CASE SaveAnswer(h) \/ SaveCancelled(h)
    BY <1>0, <2>0, <2>2, SetTypes DEF SaveAnswer, SaveCancelled, ApiOK
  <2>3. CASE Unqueue(h)
    <3>1. call' \in [Handler -> Call]
      BY <2>0, <2>3, RecordTypes, SetTypes DEF Unqueue, CallSteps
    <3> QED
      BY <1>0, <2>3, <3>1 DEF Unqueue, ApiOK, Outcome
  <2>4. CASE Discard(h)
    BY <1>0, <2>4, EntryTypes, SetTypes DEF Discard, ApiOK
  <2>5. CASE Interrupt(h)
    <3>1. call' \in [Handler -> Call]
      BY <2>0, <2>5, RecordTypes, SetTypes DEF Interrupt, CallSteps
    <3>2. comfy' \in [Job -> Seq(Prompt)]
      <4> DEFINE n == rec.prompt
      <4>1. CASE comfy' = [comfy EXCEPT ![j][n].state = IF @ = "active" THEN "gone" ELSE @]
        BY <4>1, PromptSettles
      <4> QED
        BY <2>5, <4>1 DEF Interrupt
    <3> QED
      BY <1>0, <2>5, <3>1, <3>2 DEF Interrupt, ApiOK
  <2>6. CASE Assess(h)
    <3>1. PICK ready \in BOOLEAN :
            /\ record' = [record EXCEPT ![j] = [rec EXCEPT !.ready = ready]]
            /\ Set(h, "requeue", j, [rec EXCEPT !.ready = ready])
      BY <2>6 DEF Assess
    <3>2. [rec EXCEPT !.ready = ready] \in Record
      BY <2>0 DEF Record
    <3>3. call' \in [Handler -> Call]
      BY <2>0, <3>1, <3>2, SetTypes DEF CallSteps
    <3> QED
      BY <1>0, <2>6, <3>1, <3>2, <3>3 DEF Assess, ApiOK
  <2>7. CASE Requeue(h)
    <3>1. call' \in [Handler -> Call]
      BY <2>0, <2>7, SetTypes DEF Requeue, CallSteps
    <3>0. WithStatus(rec, "queued") \in Record /\ WithStatus(rec, "blocked") \in Record
      BY <2>0, RecordTypes
    <3>2. record' \in [Job -> Record]
      BY <2>7, <3>0 DEF Requeue
    <3> QED
      BY <1>0, <2>7, <3>1, <3>2 DEF Requeue, ApiOK
  <2>8. CASE EnqueueJob(h)
    <3>1. call' \in [Handler -> Call]
      BY <2>0, <2>8, RecordTypes, SetTypes DEF EnqueueJob, CallSteps
    <3>2. pending' \in [Job -> Entry]
      BY <2>8, EntryTypes DEF EnqueueJob
    <3> QED
      BY <1>0, <2>8, <3>1, <3>2 DEF EnqueueJob, ApiOK
  <2>9. CASE Wake(h)
    <3>1. WorkersOK' /\ CarriesJob'
      BY <2>9, StartTypes DEF Wake
    <3>2. call' \in [Handler -> Call]
      BY <2>9, SetTypes DEF Wake
    <3> QED
      BY <2>9, <3>1, <3>2 DEF Wake, ApiOK
  <2> QED
    BY <1>5, <2>1, <2>2, <2>3, <2>4, <2>5, <2>6, <2>7, <2>8, <2>9 DEF Proceed
<1> QED
  BY <1>1, <1>2, <1>3, <1>4, <1>5 DEF Client

\* The board's endpoints write the stop request and start workers.
LEMMA OperatorTyped ==
  ASSUME Typed, Operator
  PROVE  Typed'
<1> USE DEF Typed, TypeOK, FilesOK, JobsOK, ControlOK, ApiOK, files, jobs, control, api
<1>1. CASE OpsSummary
  BY <1>1, StartTypes DEF OpsSummary
<1>2. CASE StartEmbedded
  BY <1>2, StartTypes DEF StartEmbedded
<1>3. CASE StartExternal
  <2>1. WorkersOK' /\ CarriesJob'
    BY <1>3, LaunchTypes DEF StartExternal, LaunchExternal, WorkersOK, CarriesJob
  <2>2. stop' \in BOOLEAN
    BY <1>3 DEF StartExternal, LaunchExternal
  <2> QED
    BY <1>3, <2>1, <2>2 DEF StartExternal
<1>4. CASE RequestStop
  BY <1>4 DEF RequestStop, workers, WorkersOK, CarriesJob
<1> QED
  BY <1>1, <1>2, <1>3, <1>4 DEF Operator

\* Workers that die leave empty hands and the files they wrote.
LEMMA KillTyped ==
  ASSUME Typed, NEW dead \in SUBSET Worker, Kill(dead)
  PROVE  /\ FilesOK' /\ JobsOK' /\ ControlOK' /\ CarriesJob'
         /\ pc' \in [Worker -> WorkerSteps]
         /\ todo' \in [Worker -> [Job -> Entry]]
         /\ hand' \in [Worker -> Hand]
         /\ crashes' \in 0..MaxCrashes
<1> USE DEF Typed, TypeOK, Kill
<1>1. FilesOK' /\ JobsOK'
  BY DEF FilesOK, JobsOK, files, jobs
<1>2. ControlOK'
  BY DEF ControlOK, HeartbeatFile
<1>3. pc' \in [Worker -> WorkerSteps] /\ todo' \in [Worker -> [Job -> Entry]] /\ hand' \in [Worker -> Hand]
  BY EmptyTypes DEF WorkersOK, WorkerSteps
<1>4. CarriesJob'
  BY DEF CarriesJob, Carrying
<1>5. crashes' \in 0..MaxCrashes
  BY ConstantsAssumption
<1> QED
  BY <1>1, <1>2, <1>3, <1>4, <1>5

\* ComfyUI, the clock, crashes and boots keep the types.
LEMMA EnvironmentTyped ==
  ASSUME Typed, Environment
  PROVE  Typed'
<1> USE DEF Typed, TypeOK
<1>1. CASE ComfyEnds
  <2>0. PICK j \in Job : \E n \in DOMAIN comfy[j], s \in {"done", "failed", "barren"} :
          comfy' = [comfy EXCEPT ![j][n].state = s]
    BY <1>1 DEF ComfyEnds
  <2>1. PICK n \in DOMAIN comfy[j], s \in {"done", "failed", "barren"} :
          comfy' = [comfy EXCEPT ![j][n].state = s]
    BY <2>0
  <2>2. comfy[j] \in Seq(Prompt) /\ [comfy[j] EXCEPT ![n].state = s] \in Seq(Prompt)
    BY PromptMoves DEF JobsOK, PromptState
  <2>3. comfy' = [comfy EXCEPT ![j] = [comfy[j] EXCEPT ![n].state = s]]
    BY <2>1
  <2>4. comfy' \in [Job -> Seq(Prompt)]
    BY <2>2, <2>3 DEF JobsOK
  <2> QED
    BY <1>1, <2>4 DEF ComfyEnds, FilesOK, JobsOK, ControlOK, WorkersOK, ApiOK, CarriesJob,
                      files, control, workers, api
<1>2. CASE HeartbeatExpires
  <2>1. heartbeat' \in HeartbeatFile
    BY <1>2 DEF HeartbeatExpires, ControlOK, HeartbeatFile
  <2> QED
    BY <1>2, <2>1 DEF HeartbeatExpires, FilesOK, JobsOK, ControlOK, WorkersOK, ApiOK, CarriesJob,
                      files, jobs, workers, api
<1>3. CASE ApiCrash
  <2>1. Thread \in SUBSET Worker
    BY DEF Worker
  <2>2. ApiOK'
    BY <1>3, EmptyTypes DEF ApiCrash, ApiOK
  <2> QED
    BY <1>3, <2>1, <2>2, KillTyped DEF ApiCrash, WorkersOK
<1>4. CASE ApiBoot
  <2>1. WorkersOK' /\ CarriesJob'
    BY <1>4, StartTypes, LaunchTypes DEF ApiBoot, WorkersOK, CarriesJob
  <2> QED
    BY <1>4, <2>1 DEF ApiBoot, FilesOK, JobsOK, ControlOK, ApiOK, files, jobs
<1>5. ASSUME NEW j \in Job, DelayElapses(j) PROVE Typed'
  <2>1. pending' \in [Job -> Entry]
    BY <1>5 DEF DelayElapses, FilesOK, Entry
  <2> QED
    BY <1>5, <2>1 DEF DelayElapses, FilesOK, JobsOK, ControlOK, WorkersOK, ApiOK, CarriesJob,
                      jobs, control, workers, api
<1>6. ASSUME NEW p \in Process, ProcessCrash(p) PROVE Typed'
  <2>1. {p} \in SUBSET Worker
    BY DEF Worker
  <2> QED
    BY <1>6, <2>1, KillTyped DEF ProcessCrash, WorkersOK, ApiOK, api
<1> QED
  BY <1>1, <1>2, <1>3, <1>4, <1>5, <1>6 DEF Environment

\* The inductive step: every action keeps the types and the jobs in hand.
LEMMA StepTyped ==
  ASSUME Typed, [Next]_vars
  PROVE  Typed'
<1>1. CASE Next
  BY <1>1, PassTyped, ThreadTyped, ProcessTyped, ClientTyped, OperatorTyped, EnvironmentTyped DEF Next
<1>2. CASE UNCHANGED vars
  BY <1>2 DEF vars, Typed, TypeOK, FilesOK, JobsOK, ControlOK, WorkersOK, ApiOK, CarriesJob
<1> QED
  BY <1>1, <1>2

\* Every file and every copy of one has the shape the code gives it, for every
\* number of jobs, workers and requests.
THEOREM TypeCorrect == Spec => []TypeOK
<1>1. Typed /\ [Next]_vars => Typed'
  BY StepTyped
<1>2. Typed => TypeOK
  BY DEF Typed
<1> QED
  BY InitTyped, <1>1, <1>2, PTL DEF Spec

-----------------------------------------------------------------------------
\* A step of a pass takes its worker from one step to another, and writes its
\* own heartbeat or none.
LEMMA PassMoves ==
  ASSUME Typed, NEW w \in Worker, Pass(w)
  PROVE  /\ pc[w] \notin {"down", "boot", "look", "end", "unregister"}
         /\ \E step \in WorkerSteps \ {"down", "boot", "unregister"} : pc' = [pc EXCEPT ![w] = step]
         /\ registry' = registry
         /\ heartbeat' = heartbeat \/ heartbeat'.writer = w
<1> USE DEF Goto, Beat, WorkerSteps, Typed, TypeOK, WorkersOK, control
<1>1. CASE Recover(w) \/ EndPass(w)
  BY <1>1 DEF Recover, EndPass, Leave
<1>5. CASE List(w)
  <2>1. pc' = [pc EXCEPT ![w] = "pick"]
    BY <1>5 DEF List
  <2> QED
    BY <1>5, <2>1 DEF List
<1>7. CASE Take(w)
  <2>1. pc' = [pc EXCEPT ![w] = "load"] /\ heartbeat'.writer = w
    BY <1>7 DEF Take
  <2> QED
    BY <1>7, <2>1 DEF Take
<1>6. CASE SkipDelayed(w)
  <2>1. pc' = [pc EXCEPT ![w] = "pick"]
    BY <1>6 DEF SkipDelayed
  <2> QED
    BY <1>6, <2>1 DEF SkipDelayed
<1>2. CASE Load(w)
  BY <1>2 DEF Load
<1>3. CASE Prepare(w) \/ Submit(w) \/ FailToSubmit(w) \/ SaveSubmitted(w)
  BY <1>3 DEF Prepare, Submit, FailToSubmit, SaveSubmitted
<1>4. CASE Poll(w) \/ SavePolled(w) \/ Postpone(w) \/ Archive(w) \/ Unlink(w)
  BY <1>4 DEF Poll, SavePolled, Postpone, Archive, Unlink
<1> QED
  BY <1>1, <1>2, <1>3, <1>4, <1>5, <1>6, <1>7 DEF Pass

\* A request moves no worker, unless it starts a thread.
LEMMA ClientMoves ==
  ASSUME NEW h \in Handler, Client(h)
  PROVE  /\ heartbeat' = heartbeat
         /\ \/ UNCHANGED <<registry, pc>>
            \/ StartQueueWorker(stop) \/ StartQueueWorker(FALSE)
<1> USE DEF control, workers
<1>1. CASE \E j \in Job : Create(h, j) \/ Get(h, j) \/ Cancel(h, j) \/ Retry(h, j)
  BY <1>1 DEF Create, Get, Cancel, Retry
<1>2. CASE Proceed(h)
  BY <1>2 DEF Proceed, Ask, SaveAnswer, Unqueue, Discard, Interrupt, SaveCancelled, Assess,
              Requeue, EnqueueJob, Wake
<1> QED
  BY <1>1, <1>2 DEF Client

\* Neither does the operator's, unless it starts a thread or a process.
LEMMA OperatorMoves ==
  ASSUME Operator
  PROVE  /\ heartbeat' = heartbeat
         /\ \/ UNCHANGED <<registry, pc>>
            \/ StartQueueWorker(stop) \/ StartQueueWorker(FALSE)
            \/ registry' = registry /\ \E p \in Process : pc[p] = "down" /\ Goto(p, "boot")
BY DEF Operator, OpsSummary, StartEmbedded, StartExternal, LaunchExternal, RequestStop, control,
       workers

\* Boot moves no worker, unless it starts a thread or a process.
LEMMA BootMoves ==
  ASSUME ApiBoot
  PROVE  /\ heartbeat' = heartbeat
         /\ \/ UNCHANGED <<registry, pc>>
            \/ StartQueueWorker(FALSE)
            \/ registry' = registry /\ \E p \in Process : pc[p] = "down" /\ Goto(p, "boot")
BY DEF ApiBoot

-----------------------------------------------------------------------------
\* Starting a thread keeps the registry to the one thread that is up.
LEMMA StartRegisters ==
  ASSUME Typed, OneEmbeddedPass, NEW stopped, StartQueueWorker(stopped)
  PROVE  OneEmbeddedPass'
BY ConstantsAssumption
   DEF Typed, TypeOK, WorkersOK, OneEmbeddedPass, StartQueueWorker, Goto, Worker

\* What moves a process only leaves the registry and its thread alone.
LEMMA ProcessLeavesThreads ==
  ASSUME Typed, OneEmbeddedPass, NEW p \in Process, NEW step, Goto(p, step), registry' = registry
  PROVE  OneEmbeddedPass'
BY ConstantsAssumption DEF Typed, TypeOK, WorkersOK, OneEmbeddedPass, Goto, Worker

\* The inductive step: whoever starts or ends a thread keeps the registry right.
LEMMA OneEmbeddedPassStep ==
  ASSUME Typed, OneEmbeddedPass, [Next]_vars
  PROVE  OneEmbeddedPass'
<1>1. ASSUME NEW w \in Worker, Pass(w) PROVE OneEmbeddedPass'
  BY <1>1, PassMoves DEF OneEmbeddedPass, Typed, TypeOK, WorkersOK, Worker
<1>2. ASSUME NEW t \in Thread, EndThread(t) \/ ClearBeat(t) PROVE OneEmbeddedPass'
  BY <1>2, ConstantsAssumption DEF EndThread, Retire, ClearBeat, control, OneEmbeddedPass, Goto, Typed, TypeOK, WorkersOK, Worker
<1>3. ASSUME NEW t \in Thread, Unregister(t) PROVE OneEmbeddedPass'
  BY <1>3, ConstantsAssumption
     DEF Unregister, OneEmbeddedPass, Goto, Typed, TypeOK, WorkersOK, Worker
<1>4. ASSUME NEW p \in Process, Boot(p) \/ Look(p) \/ StopExternal(p) \/ IdleShutdown(p) \/ ClearBeat(p)
      PROVE  OneEmbeddedPass'
  BY <1>4, ProcessLeavesThreads DEF Boot, Look, StopExternal, IdleShutdown, Retire, ClearBeat, control
<1>5. ASSUME NEW h \in Handler, Client(h) PROVE OneEmbeddedPass'
  BY <1>5, ClientMoves, StartRegisters DEF OneEmbeddedPass
<1>6. CASE Operator
  BY <1>6, OperatorMoves, StartRegisters, ProcessLeavesThreads DEF OneEmbeddedPass
<1>7. CASE Environment
  <2>1. CASE ComfyEnds \/ HeartbeatExpires \/ \E j \in Job : DelayElapses(j)
    BY <2>1 DEF ComfyEnds, HeartbeatExpires, DelayElapses, workers, OneEmbeddedPass
  <2>2. CASE ApiCrash
    BY <2>2, ConstantsAssumption DEF ApiCrash, Kill, OneEmbeddedPass, Worker
  <2>3. CASE ApiBoot
    BY <2>3, BootMoves, StartRegisters, ProcessLeavesThreads DEF OneEmbeddedPass
  <2>4. ASSUME NEW p \in Process, ProcessCrash(p) PROVE OneEmbeddedPass'
    BY <2>4, ConstantsAssumption
       DEF ProcessCrash, Kill, OneEmbeddedPass, Worker, Typed, TypeOK, WorkersOK
  <2> QED
    BY <1>7, <2>1, <2>2, <2>3, <2>4 DEF Environment
<1>8. CASE UNCHANGED vars
  BY <1>8 DEF vars, OneEmbeddedPass
<1> QED
  BY <1>1, <1>2, <1>3, <1>4, <1>5, <1>6, <1>7, <1>8 DEF Next

\* However many requests start the embedded worker, and however often the API
\* crashes, one thread at a time serves the output root: the registry names it.
THEOREM OneEmbeddedPassHolds == Spec => []OneEmbeddedPass
<1>1. Init => OneEmbeddedPass
  BY ConstantsAssumption DEF Init, OneEmbeddedPass, Worker
<1>2. Typed /\ OneEmbeddedPass /\ [Next]_vars => Typed' /\ OneEmbeddedPass'
  BY StepTyped, OneEmbeddedPassStep
<1> QED
  BY InitTyped, <1>1, <1>2, PTL DEF Spec

-----------------------------------------------------------------------------
\* A heartbeat whose writer stays where it is or moves on within its service.
LEMMA BeatStays ==
  ASSUME Typed, NoHeartbeatOutlivesItsWorker, heartbeat' = heartbeat,
         \A w \in Worker : pc'[w] \in {"down", "boot", "unregister"}
                              => pc[w] \in {"down", "boot", "unregister"}
  PROVE  NoHeartbeatOutlivesItsWorker'
BY DEF NoHeartbeatOutlivesItsWorker, Typed, TypeOK, ControlOK, HeartbeatFile

\* A thread is started from "down", where no heartbeat names it.
LEMMA StartKeepsBeats ==
  ASSUME Typed, NEW stopped, StartQueueWorker(stopped), NEW w \in Worker,
         pc'[w] \in {"down", "boot", "unregister"}
  PROVE  pc[w] \in {"down", "boot", "unregister"}
BY DEF Typed, TypeOK, WorkersOK, StartQueueWorker, Goto, Worker

\* So is a process.
LEMMA LaunchKeepsBeats ==
  ASSUME Typed, NEW p \in Process, pc[p] = "down", Goto(p, "boot"), NEW w \in Worker,
         pc'[w] \in {"down", "boot", "unregister"}
  PROVE  pc[w] \in {"down", "boot", "unregister"}
BY DEF Typed, TypeOK, WorkersOK, Goto, Worker

\* The inductive step: a worker that ends has taken its heartbeat along.
LEMMA HeartbeatStep ==
  ASSUME Typed, NoHeartbeatOutlivesItsWorker, [Next]_vars
  PROVE  NoHeartbeatOutlivesItsWorker'
<1> USE DEF Typed, TypeOK, WorkersOK, ControlOK, HeartbeatFile
<1>1. ASSUME NEW w \in Worker, Pass(w) PROVE NoHeartbeatOutlivesItsWorker'
  BY <1>1, PassMoves DEF NoHeartbeatOutlivesItsWorker
<1>2. ASSUME NEW t \in Thread, EndThread(t) \/ ClearBeat(t) PROVE NoHeartbeatOutlivesItsWorker'
  BY <1>2, ConstantsAssumption
     DEF EndThread, Retire, ClearBeat, control, NoBeat, Goto, NoHeartbeatOutlivesItsWorker, Worker
<1>3. ASSUME NEW t \in Thread, Unregister(t) PROVE NoHeartbeatOutlivesItsWorker'
  BY <1>3 DEF Unregister, control, Goto, NoHeartbeatOutlivesItsWorker, Worker
<1>4. ASSUME NEW p \in Process, Boot(p) \/ Look(p) PROVE NoHeartbeatOutlivesItsWorker'
  BY <1>4 DEF Boot, Look, Beat, control, Goto, NoHeartbeatOutlivesItsWorker, Worker
<1>5. ASSUME NEW p \in Process, StopExternal(p) \/ IdleShutdown(p) \/ ClearBeat(p)
      PROVE  NoHeartbeatOutlivesItsWorker'
  BY <1>5, ConstantsAssumption
     DEF StopExternal, IdleShutdown, Retire, ClearBeat, control, NoBeat, Goto, NoHeartbeatOutlivesItsWorker,
         Worker
<1>6. ASSUME NEW h \in Handler, Client(h) PROVE NoHeartbeatOutlivesItsWorker'
  BY <1>6, ClientMoves, StartKeepsBeats, BeatStays
<1>7. CASE Operator
  BY <1>7, OperatorMoves, StartKeepsBeats, LaunchKeepsBeats, BeatStays
<1>8. CASE Environment
  <2>1. CASE ComfyEnds \/ \E j \in Job : DelayElapses(j)
    BY <2>1, BeatStays DEF ComfyEnds, DelayElapses, workers, control
  <2>2. CASE HeartbeatExpires
    BY <2>2 DEF HeartbeatExpires, workers, NoHeartbeatOutlivesItsWorker
  <2>3. CASE ApiCrash
    BY <2>3, ConstantsAssumption DEF ApiCrash, Kill, NoHeartbeatOutlivesItsWorker
  <2>4. CASE ApiBoot
    BY <2>4, BootMoves, StartKeepsBeats, LaunchKeepsBeats, BeatStays
  <2>5. ASSUME NEW p \in Process, ProcessCrash(p) PROVE NoHeartbeatOutlivesItsWorker'
    BY <2>5, ConstantsAssumption DEF ProcessCrash, Kill, NoHeartbeatOutlivesItsWorker
  <2> QED
    BY <1>8, <2>1, <2>2, <2>3, <2>4, <2>5 DEF Environment
<1>9. CASE UNCHANGED vars
  BY <1>9 DEF vars, NoHeartbeatOutlivesItsWorker
<1> QED
  BY <1>1, <1>2, <1>3, <1>4, <1>5, <1>6, <1>7, <1>8, <1>9 DEF Next

\* However workers of both kinds overwrite each other's heartbeat, the one on
\* file is never that of a worker that has ended of its own accord.
THEOREM HeartbeatHolds == Spec => []NoHeartbeatOutlivesItsWorker
<1>1. Init => NoHeartbeatOutlivesItsWorker
  BY DEF Init, NoBeat, NoHeartbeatOutlivesItsWorker
<1>2. Typed /\ NoHeartbeatOutlivesItsWorker /\ [Next]_vars
        => Typed' /\ NoHeartbeatOutlivesItsWorker'
  BY StepTyped, HeartbeatStep
<1> QED
  BY InitTyped, <1>1, <1>2, PTL DEF Spec

-----------------------------------------------------------------------------
QuietSteps == {"load", "settle", "unlink"}
QuietCalls == {"unqueue", "discard", "enqueue", "wake"}

\* Any worker's step that leaves the job's record alone, and its own hand away
\* from the job or at a quiet step, leaves the job quietly ended.
LEMMA QuietWorker ==
  ASSUME Typed, NEW j \in Job, QuietlyEnded(j), NEW w \in Worker, call' = call,
         record'[j] = record[j],
         NEW step, Goto(w, step), NEW hd, hand' = [hand EXCEPT ![w] = hd],
         hd.job = j => step \in QuietSteps
  PROVE  QuietlyEnded(j)'
BY DEF QuietlyEnded, QuietSteps, Goto, Typed, TypeOK, WorkersOK

\* Loading the record does not change the job in hand.
LEMMA LoadKeepsJob ==
  ASSUME Typed, NEW w \in Worker, Load(w)
  PROVE  \A v \in Worker : hand'[v].job = hand[v].job
<1>1. hand \in [Worker -> Hand]
  BY DEF Typed, TypeOK, WorkersOK
<1>2. \/ \E rec, result : hand' = [hand EXCEPT ![w].rec = rec, ![w].result = result]
      \/ \E rec : hand' = [hand EXCEPT ![w].rec = rec]
  BY DEF Load
<1>3. ASSUME NEW rec, NEW result, hand' = [hand EXCEPT ![w].rec = rec, ![w].result = result]
      PROVE  \A v \in Worker : hand'[v].job = hand[v].job
  <2>1. hand' = [hand EXCEPT ![w] = [[@ EXCEPT !.rec = rec] EXCEPT !.result = result]]
    BY <1>3
  <2> QED
    BY <1>1, <2>1 DEF Hand
<1>4. ASSUME NEW rec, hand' = [hand EXCEPT ![w].rec = rec]
      PROVE  \A v \in Worker : hand'[v].job = hand[v].job
  BY <1>1, <1>4 DEF Hand
<1> QED
  BY <1>2, <1>3, <1>4

\* A worker's pass leaves the record of a quietly ended job as it is.
LEMMA QuietPass ==
  ASSUME Typed, NEW j \in Job, QuietlyEnded(j), NEW w \in Worker, Pass(w)
  PROVE  record'[j] = record[j] /\ QuietlyEnded(j)'
<1> USE DEF Typed, TypeOK, JobsOK, WorkersOK, jobs, api, QuietSteps
<1>0. hand[w].job = j => pc[w] \in QuietSteps
  BY DEF QuietlyEnded
<1>1. NoHand.job # j
  BY EmptyTypes, ConstantsAssumption
<1>2. CASE Recover(w) \/ List(w) \/ EndPass(w) \/ SkipDelayed(w)
  <2>1. hand[w].job # j /\ UNCHANGED <<record, call, hand>> /\ \E step : pc' = [pc EXCEPT ![w] = step]
    <3>1. CASE Recover(w)
      BY <1>0, <3>1 DEF Recover, Goto
    <3>2. CASE List(w)
      BY <1>0, <3>2 DEF List, Goto
    <3>3. CASE EndPass(w)
      BY <1>0, <3>3 DEF EndPass, Goto
    <3>4. CASE SkipDelayed(w)
      <4>1. pc' = [pc EXCEPT ![w] = pc[w]]
        BY <3>4 DEF SkipDelayed
      <4> QED
        BY <1>0, <3>4, <4>1 DEF SkipDelayed
    <3> QED
      BY <1>2, <3>1, <3>2, <3>3, <3>4
  <2> QED
    BY <2>1 DEF QuietlyEnded
<1>3. CASE Take(w)
  <2>1. \E hd : hand' = [hand EXCEPT ![w] = hd]
    BY <1>3 DEF Take
  <2> QED
    BY <1>3, <2>1, QuietWorker DEF Take
<1>4. CASE Load(w)
  <2>1. CASE hand[w].job = j
    <3>1. record[j].status \in Terminal
      BY DEF QuietlyEnded
    <3>2. /\ hand' = [hand EXCEPT ![w].rec = record[j], ![w].result = ResultOf(record[j].status)]
          /\ Goto(w, "settle") /\ UNCHANGED <<record, call>>
      BY <1>4, <2>1, <3>1 DEF Load, Runnable, AwaitsComfy, Terminal
    <3> QED
      BY <3>2 DEF QuietlyEnded, Goto
  <2>2. CASE hand[w].job # j
    <3>1. record'[j] = record[j] /\ call' = call
      BY <1>4, <2>2 DEF Load
    <3>2. \A v \in Worker : hand'[v].job = hand[v].job
      BY <1>4, LoadKeepsJob
    <3>3. \A v \in Worker \ {w} : pc'[v] = pc[v]
      BY <1>4 DEF Load, Goto
    <3> QED
      BY <2>2, <3>1, <3>2, <3>3 DEF QuietlyEnded
  <2> QED
    BY <2>1, <2>2
<1>5. CASE Prepare(w) \/ Submit(w) \/ FailToSubmit(w) \/ SaveSubmitted(w) \/ Poll(w) \/ SavePolled(w)
  <2>1. hand[w].job # j
    BY <1>0, <1>5 DEF Prepare, Submit, FailToSubmit, SaveSubmitted, Poll, SavePolled
  <2>2. record'[j] = record[j] /\ call' = call
    BY <1>5, <2>1 DEF Prepare, Submit, FailToSubmit, SaveSubmitted, Poll, SavePolled
  <2>3. \A v \in Worker : hand'[v].job = hand[v].job
    <3>1. CASE Prepare(w)
      BY <3>1 DEF Prepare
    <3>2. CASE Submit(w)
      BY <3>2 DEF Submit, Hand
    <3>3. CASE FailToSubmit(w) \/ SaveSubmitted(w)
      <4>1. \E result : hand' = [hand EXCEPT ![w].result = result]
        BY <3>3 DEF FailToSubmit, SaveSubmitted
      <4> QED
        BY <4>1 DEF Hand
    <3>4. CASE Poll(w)
      BY <3>4 DEF Poll, Hand
    <3>5. CASE SavePolled(w)
      BY <3>5 DEF SavePolled, Hand
    <3> QED
      BY <1>5, <3>1, <3>2, <3>3, <3>4, <3>5
  <2>4. \A v \in Worker \ {w} : pc'[v] = pc[v]
    BY <1>5 DEF Prepare, Submit, FailToSubmit, SaveSubmitted, Poll, SavePolled, Goto
  <2> QED
    BY <2>1, <2>2, <2>3, <2>4 DEF QuietlyEnded
<1>6. CASE Postpone(w) \/ Unlink(w)
  BY <1>1, <1>6, QuietWorker DEF Postpone, Unlink
<1>7. CASE Archive(w)
  BY <1>7 DEF Archive, QuietlyEnded, Goto
<1> QED
  BY <1>2, <1>3, <1>4, <1>5, <1>6, <1>7 DEF Pass

\* A handler's step that leaves the job's record alone and takes the handler to
\* another job, or to a quiet step, leaves the job quietly ended.
LEMMA QuietHandler ==
  ASSUME Typed, NEW j \in Job, QuietlyEnded(j), NEW h \in Handler, UNCHANGED hand,
         \A w \in Worker : pc'[w] = pc[w] \/ hand[w].job # j,
         record'[j] = record[j],
         NEW c, call' = [call EXCEPT ![h] = c], c.job = j => c.at \in QuietCalls
  PROVE  QuietlyEnded(j)'
BY DEF QuietlyEnded, QuietCalls, Typed, TypeOK, ApiOK

\* So does a request, unless a user's retry demands another run.
LEMMA QuietClient ==
  ASSUME Typed, NEW j \in Job, QuietlyEnded(j), NEW h \in Handler, Client(h)
  PROVE  \/ record'[j] = record[j] /\ QuietlyEnded(j)'
         \/ call'[h].at = "assess" /\ call'[h].job = j
<1> USE DEF Typed, TypeOK, JobsOK, ApiOK, jobs, workers, QuietCalls, Set, Hang
<1>0. record[j].status \in Terminal /\ (call[h].job = j => call[h].at \in QuietCalls)
  BY DEF QuietlyEnded
<1>1. Idle.job # j
  BY EmptyTypes, ConstantsAssumption
<1>2. ASSUME NEW stopped, StartQueueWorker(stopped), NEW w \in Worker
      PROVE  pc'[w] = pc[w] \/ hand[w].job # j
  BY <1>2 DEF StartQueueWorker, Goto, QuietlyEnded, Worker, WorkersOK
<1>3. ASSUME NEW k \in Job, Create(h, k) PROVE record'[j] = record[j] /\ QuietlyEnded(j)'
  <2>1. k # j
    BY <1>0, <1>3 DEF Create, NoRecord, Terminal
  <2>2. \E c : call' = [call EXCEPT ![h] = c] /\ (c.job = j => c.at \in QuietCalls)
    <3>1. call' = [call EXCEPT ![h] = call[h]] \/ \E rec : Set(h, "enqueue", k, rec)
      BY <1>3 DEF Create
    <3> QED
      BY <1>0, <3>1
  <2> QED
    BY <1>3, <2>1, <2>2, QuietHandler DEF Create
<1>4. ASSUME NEW k \in Job, Get(h, k) PROVE record'[j] = record[j] /\ QuietlyEnded(j)'
  <2>1. CASE StartQueueWorker(stop) /\ UNCHANGED call
    <3>1. call' = [call EXCEPT ![h] = call[h]]
      BY <2>1
    <3> QED
      BY <1>0, <1>2, <1>4, <2>1, <3>1, QuietHandler DEF Get
  <2>2. CASE AwaitsComfy(record[k]) /\ Set(h, "ask", k, record[k]) /\ UNCHANGED pc
    <3>1. k # j
      BY <1>0, <2>2 DEF AwaitsComfy, Terminal
    <3> QED
      BY <1>4, <2>2, <3>1, QuietHandler DEF Get
  <2> QED
    BY <1>4, <2>1, <2>2 DEF Get
<1>5. ASSUME NEW k \in Job, Cancel(h, k) PROVE record'[j] = record[j] /\ QuietlyEnded(j)'
  <2>1. k # j
    BY <1>0, <1>5 DEF Cancel
  <2>2. record'[j] = record[j] /\ \E at, rec : Set(h, at, k, rec)
    BY <1>5, <2>1 DEF Cancel
  <2> QED
    BY <1>5, <2>1, <2>2, QuietHandler DEF Cancel
<1>6. ASSUME NEW k \in Job, Retry(h, k)
      PROVE  \/ record'[j] = record[j] /\ QuietlyEnded(j)'
             \/ call'[h].at = "assess" /\ call'[h].job = j
  BY <1>6, QuietHandler DEF Retry
<1>7. CASE Ask(h) \/ SaveAnswer(h) \/ Interrupt(h) \/ SaveCancelled(h) \/ Assess(h) \/ Requeue(h)
  <2>1. call[h].job # j
    BY <1>0, <1>7 DEF Ask, SaveAnswer, Interrupt, SaveCancelled, Assess, Requeue
  <2>2. record'[j] = record[j] /\ UNCHANGED <<pc, hand>>
    BY <1>7, <2>1 DEF Ask, SaveAnswer, Interrupt, SaveCancelled, Assess, Requeue
  <2>3. \E c : call' = [call EXCEPT ![h] = c] /\ c.job # j
    <3>1. CASE Ask(h)
      BY <2>1, <3>1 DEF Ask
    <3>2. CASE SaveAnswer(h) \/ SaveCancelled(h)
      BY <1>1, <3>2 DEF SaveAnswer, SaveCancelled
    <3>3. CASE Interrupt(h)
      BY <1>1, <2>1, <3>3 DEF Interrupt
    <3>4. CASE Assess(h)
      BY <2>1, <3>4 DEF Assess
    <3>5. CASE Requeue(h)
      BY <1>1, <2>1, <3>5 DEF Requeue
    <3> QED
      BY <1>7, <3>1, <3>2, <3>3, <3>4, <3>5
  <2> QED
    BY <2>2, <2>3, QuietHandler
<1>8. CASE Unqueue(h) \/ Discard(h) \/ EnqueueJob(h)
  <2>1. UNCHANGED <<record, pc, hand>>
    BY <1>8 DEF Unqueue, Discard, EnqueueJob
  <2>2. \E c : call' = [call EXCEPT ![h] = c] /\ (c.job = j => c.at \in QuietCalls)
    BY <1>1, <1>8 DEF Unqueue, Discard, EnqueueJob
  <2> QED
    BY <2>1, <2>2, QuietHandler
<1>9. CASE Wake(h)
  <2>1. call' = [call EXCEPT ![h] = Idle] /\ UNCHANGED <<record, hand>>
    BY <1>9 DEF Wake
  <2> QED
    BY <1>1, <1>2, <1>9, <2>1, QuietHandler DEF Wake
<1> QED
  BY <1>3, <1>4, <1>5, <1>6, <1>7, <1>8, <1>9 DEF Client, Proceed

\* Everyone else leaves records, hands and calls alone, or clears them.
LEMMA QuietOthers ==
  ASSUME Typed, NEW j \in Job, QuietlyEnded(j),
         \/ \E t \in Thread : EndThread(t) \/ ClearBeat(t) \/ Unregister(t)
         \/ \E p \in Process : Boot(p) \/ Look(p) \/ StopExternal(p) \/ IdleShutdown(p) \/ ClearBeat(p)
         \/ Operator \/ Environment
  PROVE  record'[j] = record[j] /\ QuietlyEnded(j)'
<1> USE DEF Typed, TypeOK, JobsOK, WorkersOK, ApiOK, jobs, workers, api
<1>0. ASSUME record' = record, hand' = hand, call' = call,
             NEW w \in Worker, pc[w] \notin QuietSteps, NEW step, Goto(w, step)
      PROVE  record'[j] = record[j] /\ QuietlyEnded(j)'
  BY <1>0 DEF QuietlyEnded, QuietSteps, Goto
<1>1. ASSUME NEW t \in Thread, EndThread(t) \/ ClearBeat(t) \/ Unregister(t)
      PROVE  record'[j] = record[j] /\ QuietlyEnded(j)'
  BY <1>0, <1>1 DEF EndThread, Retire, ClearBeat, Unregister, QuietSteps, Worker
<1>2. ASSUME NEW p \in Process, Boot(p) \/ Look(p) \/ StopExternal(p) \/ IdleShutdown(p) \/ ClearBeat(p)
      PROVE  record'[j] = record[j] /\ QuietlyEnded(j)'
  BY <1>0, <1>2 DEF Boot, Look, StopExternal, IdleShutdown, Retire, ClearBeat, QuietSteps, Worker
<1>3. ASSUME UNCHANGED <<record, hand, call>>,
             \/ UNCHANGED <<registry, pc>>
             \/ StartQueueWorker(stop) \/ StartQueueWorker(FALSE)
             \/ registry' = registry /\ \E p \in Process : pc[p] = "down" /\ Goto(p, "boot")
      PROVE  record'[j] = record[j] /\ QuietlyEnded(j)'
  BY <1>3 DEF QuietlyEnded, StartQueueWorker, Goto, Worker
<1>4. CASE Operator
  <2>1. UNCHANGED <<record, hand, call>>
    BY <1>4 DEF Operator, OpsSummary, StartEmbedded, StartExternal, RequestStop
  <2> QED
    BY <1>3, <1>4, <2>1, OperatorMoves
<1>5. CASE Environment
  <2>1. CASE ComfyEnds \/ HeartbeatExpires \/ \E k \in Job : DelayElapses(k)
    BY <2>1 DEF ComfyEnds, HeartbeatExpires, DelayElapses, QuietlyEnded
  <2>2. ASSUME NEW dead \in SUBSET Worker, Kill(dead), call' = call \/ call' = [h \in Handler |-> Idle]
        PROVE  record'[j] = record[j] /\ QuietlyEnded(j)'
    <3>1. NoHand.job # j /\ Idle.job # j
      BY EmptyTypes, ConstantsAssumption
    <3> QED
      BY <2>2, <3>1 DEF Kill, QuietlyEnded
  <2>3. CASE ApiCrash
    BY <2>2, <2>3 DEF ApiCrash, Worker
  <2>4. CASE ApiBoot
    <3>1. UNCHANGED <<record, hand, call>>
      BY <2>4 DEF ApiBoot
    <3> QED
      BY <1>3, <2>4, <3>1, BootMoves
  <2>5. ASSUME NEW p \in Process, ProcessCrash(p)
        PROVE  record'[j] = record[j] /\ QuietlyEnded(j)'
    BY <2>2, <2>5 DEF ProcessCrash, Worker
  <2> QED
    BY <1>5, <2>1, <2>3, <2>4, <2>5 DEF Environment
<1> QED
  BY <1>1, <1>2, <1>4, <1>5

\* For any number of workers of both kinds, passes that overlap, copies that are
\* out of date and crashes: what ended with nobody at work on it keeps its
\* outcome until a user retries it.
THEOREM QuietEndHolds == Spec => QuietEndIsFinal
<1> DEFINE Kept == \A j \in Job : QuietlyEnded(j) =>
                      \/ record'[j] = record[j] /\ QuietlyEnded(j)'
                      \/ \E h \in Handler : call'[h].at = "assess" /\ call'[h].job = j
<1>1. Typed /\ [Next]_vars => [Kept]_vars
  BY QuietPass, QuietClient, QuietOthers DEF Next
<1>2. Typed /\ [Next]_vars => Typed'
  BY StepTyped
<1> QED
  BY InitTyped, <1>1, <1>2, PTL DEF Spec, QuietEndIsFinal
=============================================================================
