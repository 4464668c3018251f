----------------------- MODULE StudioEmbedded_proofs -----------------------
(***************************************************************************)
(* What the embedded worker keeps of the queue's promises when it is the   *)
(* only one and users retry a job only when nobody is at work on it, how   *)
(* many requests may overlap: the entry in hand is the one on file, a job  *)
(* whose entry is being settled is not one to be run, and a request that   *)
(* is to enqueue a job meets nobody at work on it but late cancellations.  *)
(* From that it follows that ComfyUI is given a job once for every demand  *)
(* and once more for each crash, and that a job that was accepted has      *)
(* somebody to run it, unless a cancellation came late.                    *)
(***************************************************************************)
EXTENDS StudioPromise_proofs, FiniteSetTheorems

\* Embedded mode, with users who retry a job only when nobody is at work on it.
Alone == Process = {} /\ PatientUsers

-----------------------------------------------------------------------------
\* One worker at a time is up, and one that has nothing in hand holds nothing.
Solo == \A v, w \in Worker : pc[v] # "down" /\ pc[w] # "down" => v = w

EmptyHanded == \A w \in Worker :
  /\ pc[w] \notin Carrying => hand[w].job = Nobody
  /\ pc[w] \notin Carrying \cup {"pick"} => todo[w] = NoTodo

\* A file that is not there has no contents, nor has a copy of it.
Tidy == \A j \in Job :
  /\ pending[j].status = "absent" => pending[j] = Absent
  /\ \A w \in Worker : todo[w][j].status \in {"absent", "queued"} /\ (todo[w][j].status = "absent" => todo[w][j] = Absent)

\* The entry in hand is the one on file, unless a cancellation took that away.
HandIsFile == \A w \in Worker : pc[w] \in Carrying =>
  /\ pending[hand[w].job] \in {Absent, hand[w].entry}
  /\ hand[w].entry.status = "running"
  /\ todo[w][hand[w].job] = Absent

\* What ComfyUI was given answers demands there were.
GivenAsked == \A j \in Job : \A n \in DOMAIN comfy[j] : comfy[j][n].request \in 1..asked[j]

\* Copies that are saved after ComfyUI was heard name a prompt, and cannot be run again.
Heard(rec, statuses) == rec.prompt > 0 /\ rec.status \in statuses

Polled == {"done", "error", "running"}

Prompted ==
  /\ \A w \in Worker : /\ pc[w] = "submitted" => Heard(hand[w].rec, {"submitted"})
                       /\ pc[w] = "poll" => Heard(hand[w].rec, Status)
                       /\ pc[w] = "answer" => Heard(hand[w].rec, Polled)
  /\ \A h \in Handler : /\ call[h].at \in {"ask", "interrupt"} => Heard(call[h].rec, Status)
                        /\ call[h].at = "answer" => Heard(call[h].rec, Polled)
                        /\ call[h].at = "interrupted" => Heard(call[h].rec, {"cancelled"})

\* A request that is to enqueue a job meets nobody but cancellations that found no entry yet.
Entering == {"assess", "requeue", "enqueue"}

Patience == \A h \in Handler : call[h].at \in Entering =>
  LET j == call[h].job
  IN  /\ pending[j] = Absent /\ \A w \in Worker : ~InHand(w, j)
      /\ \A g \in Handler \ {h} : call[g].job = j => call[g].at = "unqueue"
      /\ record[j].status \in {"planned", "queued"} \cup Terminal
      /\ call[h].at # "enqueue" =>
           /\ call[h].rec.status = "planned" /\ call[h].rec.prompt = 0 /\ call[h].rec.request = asked[j]
           /\ asked[j] > 1 /\ \A n \in DOMAIN comfy[j] : comfy[j][n].request < asked[j]

\* A request that is under way is for a job that was demanded.
Called == \A h \in Handler :
  IF call[h].at = "idle" THEN call[h].job = Nobody ELSE call[h].job \in Job /\ asked[call[h].job] > 0

Settling ==
  EmptyHanded /\ Tidy /\ HandIsFile /\ GivenAsked /\ Prompted /\ Patience /\ Called

-----------------------------------------------------------------------------
\* What a worker does with the entry in its hand, case by case: where it goes, what it
\* then holds, and what it saves.
Keeps(w, step, rec, result) ==
  /\ pc' = [pc EXCEPT ![w] = step]
  /\ hand' = [hand EXCEPT ![w] = [job |-> hand[w].job, entry |-> hand[w].entry, rec |-> rec, result |-> result]]

Saves(j, rec) == record' = [record EXCEPT ![j] = rec] /\ comfy' = comfy

SavesNothing == record' = record /\ comfy' = comfy

Loads(w) ==
  LET j == hand[w].job
      rec == record[j]
  IN  /\ pc[w] = "load"
      /\ \/ /\ rec.status \in Terminal
            /\ Keeps(w, "settle", rec, ResultOf(rec.status)) /\ SavesNothing
         \/ AwaitsComfy(rec) /\ Keeps(w, "poll", rec, hand[w].result) /\ SavesNothing
         \/ Runnable(rec) /\ Keeps(w, "settle", rec, "failed") /\ Saves(j, WithStatus(rec, "blocked"))
         \/ /\ Runnable(rec) /\ Keeps(w, "prepare", WithStatus(rec, "running"), hand[w].result)
            /\ Saves(j, WithStatus(rec, "running"))

Submits(w) ==
  LET j == hand[w].job
      rec == hand[w].rec
  IN  \/ pc[w] = "prepare" /\ Keeps(w, "submit", rec, hand[w].result) /\ Saves(j, rec)
      \/ /\ pc[w] \in {"prepare", "submit", "submitted"}
         /\ Keeps(w, "settle", rec, "retryable")
         /\ \E prompt \in {0, rec.prompt} : Saves(j, [rec EXCEPT !.status = "error", !.prompt = prompt])
      \/ /\ pc[w] = "submit"
         /\ Keeps(w, "submitted", [rec EXCEPT !.status = "submitted", !.prompt = Len(comfy[j]) + 1], hand[w].result)
         /\ comfy' = [comfy EXCEPT ![j] = Append(@, [state |-> "active", request |-> rec.request])]
         /\ record' = record
      \/ pc[w] = "submitted" /\ Keeps(w, "settle", rec, "queued") /\ Saves(j, rec)

Finishes(w) ==
  LET rec == hand[w].rec
  IN  \/ /\ pc[w] = "poll"
         /\ \E r \in Record : /\ r.prompt = rec.prompt /\ r.status \in Polled
                              /\ Keeps(w, "answer", r, hand[w].result)
         /\ SavesNothing
      \/ pc[w] = "answer" /\ Keeps(w, "settle", rec, ResultOf(rec.status)) /\ Saves(hand[w].job, rec)
      \/ pc[w] = "settle" /\ Keeps(w, "unlink", rec, hand[w].result) /\ SavesNothing

Works(w) ==
  /\ hand[w] \in Hand /\ hand[w].job \in Job /\ record[hand[w].job] \in Record /\ pc[w] \in Carrying
  /\ Loads(w) \/ Submits(w) \/ Finishes(w)
  /\ \A k \in Job : archived'[k] = archived[k] \/ (k = hand[w].job /\ pc[w] = "settle")
  /\ UNCHANGED <<pending, asked, registry, todo, call, apiUp, crashes>>

\* A record that is saved with an error is not one to be run.
LEMMA ErrorEnds ==
  \A rec \in Record : \A prompt : ~Runnable([rec EXCEPT !.status = "error", !.prompt = prompt])
BY DEF Record, Runnable, Terminal

\* The result of a poll names the prompt that was asked about.
LEMMA RefreshedHeard ==
  \A rec \in Record : \A state : \A r \in Refreshed(rec, state) :
    r \in Record /\ r.prompt = rec.prompt /\ r.request = rec.request /\ r.status \in Polled
<1> SUFFICES ASSUME NEW rec \in Record, NEW state, NEW r \in Refreshed(rec, state)
             PROVE  r \in Record /\ r.prompt = rec.prompt /\ r.request = rec.request /\ r.status \in Polled
  OBVIOUS
<1>1. PICK status \in {"done", "error", "running"} : r = WithStatus(rec, status)
  BY DEF Refreshed
<1>2. Polled \subseteq Status
  BY DEF Polled, Status, Active, Terminal
<1> QED
  BY <1>1, <1>2, RecordTypes DEF WithStatus, Record, Polled

\* A hand is its four parts.
LEMMA HandParts ==
  ASSUME NEW hd \in Hand
  PROVE  /\ hd = [job |-> hd.job, entry |-> hd.entry, rec |-> hd.rec, result |-> hd.result]
         /\ \A rec \in Record : [hd EXCEPT !.rec = rec] = [job |-> hd.job, entry |-> hd.entry, rec |-> rec, result |-> hd.result]
         /\ \A result \in Result :
              [hd EXCEPT !.result = result] = [job |-> hd.job, entry |-> hd.entry, rec |-> hd.rec, result |-> result]
         /\ \A rec \in Record, result \in Result :
              [hd EXCEPT !.rec = rec, !.result = result] = [job |-> hd.job, entry |-> hd.entry, rec |-> rec, result |-> result]
<1>1. /\ hd = [job |-> hd.job, entry |-> hd.entry, rec |-> hd.rec, result |-> hd.result]
      /\ hd.result \in Result /\ hd.rec \in Record
  BY DEF Hand
<1>2. ASSUME NEW rec \in Record
      PROVE  [hd EXCEPT !.rec = rec] = [job |-> hd.job, entry |-> hd.entry, rec |-> rec, result |-> hd.result]
  BY DEF Hand
<1>3. ASSUME NEW result \in Result
      PROVE  [hd EXCEPT !.result = result] = [job |-> hd.job, entry |-> hd.entry, rec |-> hd.rec, result |-> result]
  BY DEF Hand
<1>4. ASSUME NEW rec \in Record, NEW result \in Result
      PROVE  [hd EXCEPT !.rec = rec, !.result = result] = [job |-> hd.job, entry |-> hd.entry, rec |-> rec, result |-> result]
  <2>1. [[job |-> hd.job, entry |-> hd.entry, rec |-> rec, result |-> hd.result] EXCEPT !.result = result]
          = [job |-> hd.job, entry |-> hd.entry, rec |-> rec, result |-> result]
    OBVIOUS
  <2>2. [hd EXCEPT !.rec = rec, !.result = result] = [[hd EXCEPT !.rec = rec] EXCEPT !.result = result]
    OBVIOUS
  <2> QED
    BY <1>2, <2>1, <2>2
<1> QED
  BY <1>1, <1>2, <1>3, <1>4

\* Every step of a worker with an entry in hand is one of these, or puts the entry down.
LEMMA WorkEffect ==
  ASSUME Typed, NEW w \in Worker,
         \/ Load(w) \/ Prepare(w) \/ Submit(w) \/ FailToSubmit(w) \/ SaveSubmitted(w)
         \/ Poll(w) \/ SavePolled(w) \/ Archive(w)
  PROVE  Works(w)
<1> DEFINE j == hand[w].job
           hd(rec, result) == [job |-> j, entry |-> hand[w].entry, rec |-> rec, result |-> result]
<1>0. pc[w] \in Carrying
  BY DEF Load, Prepare, Submit, FailToSubmit, SaveSubmitted, Poll, SavePolled, Archive, Carrying
<1>1. hand[w] \in Hand /\ hand \in [Worker -> Hand] /\ j \in Job /\ record[j] \in Record
  BY <1>0 DEF Typed, TypeOK, JobsOK, WorkersOK, CarriesJob
<1>2. UNCHANGED <<pending, asked, registry, todo, call, apiUp, crashes>>
  BY DEF Load, Prepare, Submit, FailToSubmit, SaveSubmitted, Poll, SavePolled, Archive, files, jobs, api
<1>10. \A k \in Job : archived'[k] = archived[k] \/ (k = hand[w].job /\ pc[w] = "settle")
  <2>1. CASE Archive(w)
    <3>1. archived \in [Job -> Outcome \cup {"none"}]
      BY DEF Typed, TypeOK, FilesOK
    <3> QED
      BY <2>1, <3>1 DEF Archive
  <2>2. CASE archived' = archived
    BY <2>2
  <2> QED
    BY <2>1, <2>2 DEF Load, Prepare, Submit, FailToSubmit, SaveSubmitted, Poll, SavePolled, files
<1>3. hand = [hand EXCEPT ![w] = hd(hand[w].rec, hand[w].result)]
  BY <1>1, HandParts
<1>4. ASSUME NEW step, NEW rec \in Record, NEW result \in Result, Goto(w, step),
             \/ hand' = [hand EXCEPT ![w] = [hand[w] EXCEPT !.rec = rec, !.result = result]]
             \/ hand' = [hand EXCEPT ![w] = [hand[w] EXCEPT !.rec = rec]] /\ result = hand[w].result
             \/ hand' = [hand EXCEPT ![w] = [hand[w] EXCEPT !.result = result]] /\ rec = hand[w].rec
      PROVE  Keeps(w, step, rec, result)
  <2>1. CASE hand' = [hand EXCEPT ![w] = [hand[w] EXCEPT !.rec = rec, !.result = result]]
    <3>1. [hand[w] EXCEPT !.rec = rec, !.result = result] = hd(rec, result)
      BY <1>1, HandParts
    <3> QED
      BY <1>4, <2>1, <3>1 DEF Keeps, Goto
  <2>2. CASE hand' = [hand EXCEPT ![w] = [hand[w] EXCEPT !.rec = rec]] /\ result = hand[w].result
    <3>1. [hand[w] EXCEPT !.rec = rec] = hd(rec, result)
      BY <1>1, <2>2, HandParts
    <3> QED
      BY <1>4, <2>2, <3>1 DEF Keeps, Goto
  <2>3. CASE hand' = [hand EXCEPT ![w] = [hand[w] EXCEPT !.result = result]] /\ rec = hand[w].rec
    <3>1. [hand[w] EXCEPT !.result = result] = hd(rec, result)
      BY <1>1, <2>3, HandParts
    <3> QED
      BY <1>4, <2>3, <3>1 DEF Keeps, Goto
  <2> QED
    BY <1>4, <2>1, <2>2, <2>3
<1>5. \A step : Goto(w, step) /\ hand' = hand => Keeps(w, step, hand[w].rec, hand[w].result)
  BY <1>1, <1>3 DEF Keeps, Goto
<1>6. hand[w].rec \in Record /\ hand[w].result \in Result /\ {"queued", "failed", "retryable"} \subseteq Result
  BY <1>1 DEF Hand, Result
<1>7. CASE Load(w)
  <2> DEFINE rec == record[j]
  <2>1. ResultOf(rec.status) \in Result /\ WithStatus(rec, "running") \in Record
    BY <1>1, ResultTypes, RecordTypes
  <2>2. pc[w] = "load" /\ comfy' = comfy
    BY <1>7 DEF Load
  <2>3. Loads(w)
    <3>1. CASE /\ rec.status \in Terminal
               /\ hand' = [hand EXCEPT ![w].rec = rec, ![w].result = ResultOf(rec.status)]
               /\ Goto(w, "settle") /\ UNCHANGED record
      <4>1. hand' = [hand EXCEPT ![w] = [hand[w] EXCEPT !.rec = rec, !.result = ResultOf(rec.status)]]
        BY <1>1, <3>1
      <4>2. Keeps(w, "settle", rec, ResultOf(rec.status))
        BY <1>1, <1>4, <2>1, <3>1, <4>1
      <4> QED
        BY <2>2, <3>1, <4>2 DEF Loads, SavesNothing
    <3>2. CASE AwaitsComfy(rec) /\ hand' = [hand EXCEPT ![w].rec = rec] /\ Goto(w, "poll") /\ UNCHANGED record
      <4>1. Keeps(w, "poll", rec, hand[w].result)
        BY <1>1, <1>4, <1>6, <3>2
      <4> QED
        BY <2>2, <3>2, <4>1 DEF Loads, SavesNothing
    <3>3. CASE /\ Runnable(rec) /\ record' = [record EXCEPT ![j] = WithStatus(rec, "blocked")]
               /\ hand' = [hand EXCEPT ![w].rec = rec, ![w].result = "failed"] /\ Goto(w, "settle")
      <4>1. hand' = [hand EXCEPT ![w] = [hand[w] EXCEPT !.rec = rec, !.result = "failed"]]
        BY <1>1, <3>3
      <4>2. Keeps(w, "settle", rec, "failed")
        BY <1>1, <1>4, <1>6, <3>3, <4>1
      <4> QED
        BY <2>2, <3>3, <4>2 DEF Loads, Saves
    <3>4. CASE /\ Runnable(rec) /\ record' = [record EXCEPT ![j] = WithStatus(rec, "running")]
               /\ hand' = [hand EXCEPT ![w].rec = WithStatus(rec, "running")] /\ Goto(w, "prepare")
      <4>1. Keeps(w, "prepare", WithStatus(rec, "running"), hand[w].result)
        BY <1>4, <1>6, <2>1, <3>4
      <4> QED
        BY <2>2, <3>4, <4>1 DEF Loads, Saves
    <3> QED
      BY <1>7, <3>1, <3>2, <3>3, <3>4 DEF Load
  <2> QED
    BY <1>0, <1>1, <1>2, <1>10, <2>3 DEF Works
<1>8. CASE Prepare(w) \/ Submit(w) \/ FailToSubmit(w) \/ SaveSubmitted(w)
  <2>1. CASE Prepare(w)
    <3>1. Keeps(w, "submit", hand[w].rec, hand[w].result)
      BY <1>3, <1>5, <2>1 DEF Prepare
    <3> QED
      BY <2>1, <3>1, <1>0, <1>1, <1>2, <1>10 DEF Prepare, Submits, Saves, Works
  <2>2. CASE Submit(w)
    <3> DEFINE rec == [hand[w].rec EXCEPT !.status = "submitted", !.prompt = Len(comfy[j]) + 1]
    <3>1. rec \in Record
      BY <1>1, <1>6, SubmittedTypes, LenProperties DEF Typed, TypeOK, JobsOK
    <3>2. Keeps(w, "submitted", rec, hand[w].result)
      BY <1>4, <1>6, <2>2, <3>1 DEF Submit
    <3>3. Submits(w)
      BY <2>2, <3>2 DEF Submit, Submits
    <3> QED
      BY <3>3, <1>0, <1>1, <1>2, <1>10 DEF Works
  <2>3. CASE FailToSubmit(w)
    <3>1. Keeps(w, "settle", hand[w].rec, "retryable")
      BY <1>4, <1>6, <2>3 DEF FailToSubmit
    <3>2. \E prompt \in {0, hand[w].rec.prompt} : Saves(j, [hand[w].rec EXCEPT !.status = "error", !.prompt = prompt])
      BY <2>3 DEF FailToSubmit, Saves
    <3>3. Submits(w)
      BY <2>3, <3>1, <3>2 DEF FailToSubmit, Submits
    <3> QED
      BY <3>3, <1>0, <1>1, <1>2, <1>10 DEF Works
  <2>4. CASE SaveSubmitted(w)
    <3>1. Keeps(w, "settle", hand[w].rec, "queued")
      BY <1>4, <1>6, <2>4 DEF SaveSubmitted
    <3>2. Submits(w)
      BY <2>4, <3>1 DEF SaveSubmitted, Submits, Saves
    <3> QED
      BY <3>2, <1>0, <1>1, <1>2, <1>10 DEF Works
  <2> QED
    BY <1>8, <2>1, <2>2, <2>3, <2>4
<1>9. CASE Poll(w) \/ SavePolled(w) \/ Archive(w)
  <2>1. CASE Poll(w)
    <3>1. PICK r \in Refreshed(hand[w].rec, comfy[j][hand[w].rec.prompt].state) : hand' = [hand EXCEPT ![w].rec = r]
      BY <2>1 DEF Poll
    <3>2. r \in Record /\ r.prompt = hand[w].rec.prompt /\ r.status \in Polled
      BY <1>6, <3>1, RefreshedHeard
    <3>3. Keeps(w, "answer", r, hand[w].result)
      BY <1>4, <1>6, <2>1, <3>1, <3>2 DEF Poll
    <3>4. Finishes(w)
      BY <2>1, <3>2, <3>3 DEF Poll, Finishes, SavesNothing, jobs
    <3> QED
      BY <3>4, <1>0, <1>1, <1>2, <1>10 DEF Works
  <2>2. CASE SavePolled(w)
    <3>1. Keeps(w, "settle", hand[w].rec, ResultOf(hand[w].rec.status))
      BY <1>4, <1>6, <2>2, ResultTypes DEF SavePolled
    <3>2. Finishes(w)
      BY <2>2, <3>1 DEF SavePolled, Finishes, Saves
    <3> QED
      BY <3>2, <1>0, <1>1, <1>2, <1>10 DEF Works
  <2>3. CASE Archive(w)
    <3>1. Keeps(w, "unlink", hand[w].rec, hand[w].result)
      BY <1>3, <1>5, <2>3 DEF Archive
    <3>2. Finishes(w)
      BY <2>3, <3>1 DEF Archive, Finishes, SavesNothing, jobs
    <3> QED
      BY <3>2, <1>0, <1>1, <1>2, <1>10 DEF Works
  <2> QED
    BY <1>9, <2>1, <2>2, <2>3
<1> QED
  BY <1>7, <1>8, <1>9

-----------------------------------------------------------------------------
\* Where a worker has neither a list nor an entry.
Parked(step) == step \notin Carrying \cup {"pick"}

\* Who has neither goes where it will; the others stay, with what they have.
Waits ==
  /\ UNCHANGED <<todo, hand>>
  /\ \A w \in Worker : pc'[w] = pc[w] \/ (Parked(pc[w]) /\ Parked(pc'[w]))

\* One worker is up, so whoever else there is has nothing in hand.
LEMMA OthersDown ==
  ASSUME Solo, NEW w \in Worker, pc[w] # "down", NEW v \in Worker, v # w
  PROVE  pc[v] = "down" /\ pc[v] \notin Carrying /\ Parked(pc[v])
BY DEF Solo, Carrying, Parked

LEMMA StartWaits ==
  ASSUME Typed, NEW stopped, StartQueueWorker(stopped), UNCHANGED <<todo, hand>>
  PROVE  Waits
BY DEF Typed, TypeOK, WorkersOK, Waits, Parked, Carrying, StartQueueWorker, Goto, Worker

LEMMA ClientWaits ==
  ASSUME Typed, NEW h \in Handler, Client(h)
  PROVE  Waits
<1>1. UNCHANGED <<todo, hand>>
  BY DEF Client, Create, Get, Cancel, Retry, Proceed, Ask, SaveAnswer, Unqueue, Discard,
         Interrupt, SaveCancelled, Assess, Requeue, EnqueueJob, Wake, workers
<1> QED
  BY <1>1, ClientMoves, StartWaits DEF Waits

LEMMA OthersWait ==
  ASSUME Alone, Typed,
         \/ \E t \in Thread : EndThread(t) \/ ClearBeat(t) \/ Unregister(t)
         \/ \E p \in Process : Boot(p) \/ Look(p) \/ StopExternal(p) \/ IdleShutdown(p) \/ ClearBeat(p)
         \/ Operator \/ ComfyEnds \/ HeartbeatExpires \/ ApiBoot \/ \E j \in Job : DelayElapses(j)
  PROVE  Waits /\ UNCHANGED <<archived, record, asked, call, crashes>>
<1>1. CASE \E t \in Thread : EndThread(t) \/ ClearBeat(t) \/ Unregister(t)
  BY <1>1 DEF EndThread, Retire, ClearBeat, Unregister, Typed, TypeOK, WorkersOK, Waits, Parked, Carrying, Goto, Worker, files, jobs, api
<1>2. CASE Operator
  <2>1. UNCHANGED <<todo, hand, archived, record, asked, call, crashes>>
    BY <1>2 DEF Operator, OpsSummary, StartEmbedded, StartExternal, RequestStop, workers, files, jobs, api
  <2> QED
    BY <1>2, <2>1, OperatorMoves, StartWaits DEF Alone, Waits
<1>3. CASE ApiBoot
  <2>1. UNCHANGED <<todo, hand, archived, record, asked, call, crashes>>
    BY <1>3 DEF ApiBoot, files, jobs
  <2> QED
    BY <1>3, <2>1, BootMoves, StartWaits DEF Alone, Waits
<1>4. CASE ComfyEnds \/ HeartbeatExpires \/ \E j \in Job : DelayElapses(j)
  BY <1>4 DEF ComfyEnds, HeartbeatExpires, DelayElapses, workers, files, jobs, api, Waits
<1> QED
  BY <1>1, <1>2, <1>3, <1>4 DEF Alone

-----------------------------------------------------------------------------
\* A worker at work on the entry in its hand.
LEMMA WorksSettled ==
  ASSUME Solo, Typed, Grounded, Settling, NEW w \in Worker, Works(w)
  PROVE  Settling'
<1> DEFINE j == hand[w].job
<1>0. /\ hand \in [Worker -> Hand] /\ pc \in [Worker -> WorkerSteps] /\ record \in [Job -> Record]
      /\ comfy \in [Job -> Seq(Prompt)] /\ asked \in [Job -> Nat] /\ j \in Job
      /\ pc[w] \in Carrying /\ pc[w] # "down"
  BY ConstantsAssumption DEF Typed, TypeOK, JobsOK, WorkersOK, Works, Carrying
<1>1. UNCHANGED <<pending, asked, registry, todo, call, apiUp, crashes>>
  BY DEF Works
<1>2. \A v \in Worker : v # w => pc'[v] = pc[v] /\ hand'[v] = hand[v]
  BY <1>0 DEF Works, Loads, Submits, Finishes, Keeps
<1>3. pc'[w] \in Carrying /\ hand'[w].job = j /\ hand'[w].entry = hand[w].entry
  BY <1>0 DEF Works, Loads, Submits, Finishes, Keeps, Carrying
<1>4. \A k \in Job : k # j => record'[k] = record[k] /\ comfy'[k] = comfy[k]
  BY <1>0 DEF Works, Loads, Submits, Finishes, Saves, SavesNothing
<1>5. \A v \in Worker : v # w => pc[v] = "down" /\ pc[v] \notin Carrying /\ Parked(pc[v])
  BY <1>0, OthersDown
<1>6. EmptyHanded' /\ Tidy' /\ HandIsFile'
  <2>1. EmptyHanded'
    BY <1>0, <1>1, <1>2, <1>3 DEF Settling, EmptyHanded
  <2>2. Tidy'
    BY <1>1 DEF Settling, Tidy
  <2>3. HandIsFile'
    BY <1>0, <1>1, <1>2, <1>3 DEF Settling, HandIsFile
  <2> QED
    BY <2>1, <2>2, <2>3
<1>7. GivenAsked'
  <2>1. CASE comfy' = comfy
    BY <1>1, <2>1 DEF Settling, GivenAsked
  <2>2. CASE /\ pc[w] = "submit" 
             /\ comfy' = [comfy EXCEPT ![j] = Append(@, [state |-> "active", request |-> hand[w].rec.request])]
    <3> DEFINE p == [state |-> "active", request |-> hand[w].rec.request]
    <3>1. hand[w].rec.request \in 1..asked[j]
      BY <2>2 DEF Grounded, HandsGrounded, Working, Sound
    <3>2. p \in Prompt /\ p.request \in 1..asked[j]
      BY <3>1, <1>0 DEF Prompt, PromptState
    <3> HIDE DEF p
    <3>3. /\ comfy[j] \in Seq(Prompt) /\ Len(comfy[j]) \in Nat /\ DOMAIN comfy[j] = 1..Len(comfy[j])
          /\ comfy'[j] = Append(comfy[j], p)
      BY <1>0, <2>2, LenProperties DEF p
    <3>4. /\ Len(comfy'[j]) = Len(comfy[j]) + 1 /\ comfy'[j][Len(comfy[j]) + 1] = p
          /\ \A n \in 1..Len(comfy[j]) : comfy'[j][n] = comfy[j][n]
          /\ comfy'[j] \in Seq(Prompt)
      BY <3>2, <3>3, AppendProperties
    <3>5. DOMAIN comfy'[j] = 1..(Len(comfy[j]) + 1)
      BY <3>4, LenProperties
    <3>6. \A n \in DOMAIN comfy'[j] : n \in DOMAIN comfy[j] \/ n = Len(comfy[j]) + 1
      BY <3>3, <3>5
    <3>7. \A n \in DOMAIN comfy'[j] : comfy'[j][n].request \in 1..asked[j]
      BY <1>0, <3>2, <3>3, <3>4, <3>6 DEF Settling, GivenAsked
    <3> QED
      BY <1>0, <1>1, <1>4, <3>7 DEF Settling, GivenAsked
  <2> QED
    BY <2>1, <2>2 DEF Works, Loads, Submits, Finishes, Saves, SavesNothing
<1>8. Prompted'
  <2>1. /\ pc'[w] = "submitted" => Heard(hand'[w].rec, {"submitted"})
        /\ pc'[w] = "poll" => Heard(hand'[w].rec, Status)
        /\ pc'[w] = "answer" => Heard(hand'[w].rec, Polled)
    <3>1. CASE Loads(w)
      BY <1>0, <3>1 DEF Loads, Keeps, Heard, AwaitsComfy, Record
    <3>2. CASE Submits(w)
      <4>1. Len(comfy[j]) \in Nat
        BY <1>0, LenProperties
      <4>2. hand[w].rec \in Record
        BY <1>0 DEF Hand
      <4>3. pc'[w] \notin {"poll", "answer"}
        BY <1>0, <3>2 DEF Submits, Keeps
      <4> DEFINE r == [hand[w].rec EXCEPT !.status = "submitted", !.prompt = Len(comfy[j]) + 1]
      <4>4. pc'[w] = "submitted" => hand'[w].rec = r
        BY <1>0, <3>2 DEF Submits, Keeps
      <4>5. r.prompt = Len(comfy[j]) + 1 /\ r.status = "submitted"
        BY <4>2 DEF Record
      <4> HIDE DEF r
      <4>6. Heard(r, {"submitted"})
        BY <4>1, <4>5 DEF Heard
      <4> QED
        BY <4>3, <4>4, <4>6
    <3>3. CASE Finishes(w)
      BY <1>0, <3>3 DEF Finishes, Keeps, Heard, Settling, Prompted
    <3> QED
      BY <3>1, <3>2, <3>3 DEF Works
  <2> QED
    BY <1>1, <1>2, <2>1 DEF Settling, Prompted
<1>9. Patience'
  <2> SUFFICES ASSUME NEW h \in Handler, call[h].at \in Entering
               PROVE  LET k == call[h].job
                      IN  /\ pending[k] = Absent /\ \A v \in Worker : ~InHand(v, k)'
                          /\ \A g \in Handler \ {h} : call[g].job = k => call[g].at = "unqueue"
                          /\ record'[k].status \in {"planned", "queued"} \cup Terminal
                          /\ call[h].at # "enqueue" =>
                               /\ call[h].rec.status = "planned" /\ call[h].rec.prompt = 0 /\ call[h].rec.request = asked[k]
                               /\ asked[k] > 1 /\ \A n \in DOMAIN comfy'[k] : comfy'[k][n].request < asked[k]
    BY <1>1 DEF Patience
  <2>1. call[h].job # j /\ call[h].job \in Job
    BY DEF Settling, Patience, InHand, Grounded, CallsGrounded, Entering, Writing
  <2>2. \A v \in Worker : InHand(v, call[h].job)' <=> InHand(v, call[h].job)
    BY <1>1, <1>2, <1>3 DEF InHand
  <2> QED
    BY <1>4, <2>1, <2>2 DEF Settling, Patience
<1>10. Called'
  BY DEF Works, Settling, Called
<1> QED
  BY <1>6, <1>7, <1>8, <1>9, <1>10 DEF Settling

\* The worker takes the job's entry from its list, and marks it running.
Takes(w, j, e) ==
  /\ pc[w] = "pick" /\ todo[w][j].status = "queued"
  /\ e = MarkedRunning(todo[w][j], ~AwaitsComfy(record[j]))
  /\ pending' = [pending EXCEPT ![j] = e]
  /\ hand' = [hand EXCEPT ![w] = [job |-> j, entry |-> e, rec |-> NoRecord, result |-> "queued"]]
  /\ todo' = [todo EXCEPT ![w] = [todo[w] EXCEPT ![j] = Absent]]
  /\ pc' = [pc EXCEPT ![w] = "load"]
  /\ UNCHANGED <<archived, record, asked, comfy, call, crashes>>

LEMMA TakeEffect ==
  ASSUME NEW w \in Worker, Take(w)
  PROVE  \E j \in Job : \E e : Takes(w, j, e)
<1>1. PICK j \in Job :
        LET entry == MarkedRunning(todo[w][j], ~AwaitsComfy(record[j]))
        IN  /\ todo[w][j].status = "queued"
            /\ pending' = [pending EXCEPT ![j] = entry]
            /\ hand' = [hand EXCEPT ![w] = [NoHand EXCEPT !.job = j, !.entry = entry]]
            /\ todo' = [todo EXCEPT ![w][j] = Absent]
  BY DEF Take
<1> DEFINE e == MarkedRunning(todo[w][j], ~AwaitsComfy(record[j]))
<1>2. hand' = [hand EXCEPT ![w] = [job |-> j, entry |-> e, rec |-> NoRecord, result |-> "queued"]]
  <2> HIDE DEF e
  <2>1. [NoHand EXCEPT !.job = j, !.entry = e] = [job |-> j, entry |-> e, rec |-> NoRecord, result |-> "queued"]
    <3>1. [NoHand EXCEPT !.job = j] = [job |-> j, entry |-> Absent, rec |-> NoRecord, result |-> "queued"]
      BY DEF NoHand
    <3>2. [[job |-> j, entry |-> Absent, rec |-> NoRecord, result |-> "queued"] EXCEPT !.entry = e]
            = [job |-> j, entry |-> e, rec |-> NoRecord, result |-> "queued"]
      OBVIOUS
    <3>3. [NoHand EXCEPT !.job = j, !.entry = e] = [[NoHand EXCEPT !.job = j] EXCEPT !.entry = e]
      OBVIOUS
    <3> QED
      BY <3>1, <3>2, <3>3
  <2> QED
    BY <1>1, <2>1 DEF e
<1>3. todo' = [todo EXCEPT ![w] = [todo[w] EXCEPT ![j] = Absent]]
  BY <1>1
<1>4. Takes(w, j, e)
  BY <1>1, <1>2, <1>3 DEF Take, Takes, Goto, jobs, api
<1> QED
  BY <1>4

\* It puts it back, or away.
PutsDown(w, e) ==
  /\ pc[w] \in {"settle", "unlink"}
  /\ pending' = [pending EXCEPT ![hand[w].job] = e]
  /\ hand' = [hand EXCEPT ![w] = NoHand]
  /\ pc' = [pc EXCEPT ![w] = "pick"]
  /\ UNCHANGED <<archived, record, asked, comfy, todo, call, crashes>>

LEMMA PutDownEffect ==
  ASSUME NEW w \in Worker
  PROVE  /\ Postpone(w) => PutsDown(w, Postponed(hand[w].entry)) /\ pc[w] = "settle" /\ StaysPending(hand[w].entry, hand[w].result)
         /\ Unlink(w) => PutsDown(w, Absent) /\ pc[w] = "unlink"
BY DEF Postpone, Unlink, PutsDown, Goto, jobs, api

\* What it does where it has nothing in hand.
Lists(w) ==
  /\ pc[w] \in {"recover", "list", "pick"} /\ pc'[w] \in {"list", "end", "look", "pick"}
  /\ \A v \in Worker : v # w => pc'[v] = pc[v] /\ todo'[v] = todo[v]
  /\ pc'[w] = "pick" \/ todo'[w] = NoTodo \/ (todo'[w] = todo[w] /\ pc[w] # "pick")
  /\ \A j \in Job :
       /\ \/ todo'[w][j] \in {Absent, todo[w][j]}
          \/ todo'[w][j] = pending[j] /\ pending[j].status = "queued"
       /\ \/ pending'[j] = pending[j]
          \/ pending[j].status = "running" /\ pending'[j] = Enqueued(pending[j])
  /\ UNCHANGED <<archived, record, asked, comfy, hand, call, crashes>>

LEMMA ListEffect ==
  ASSUME Typed, NEW w \in Worker, Recover(w) \/ List(w) \/ EndPass(w) \/ SkipDelayed(w)
  PROVE  Lists(w)
<1>0. /\ pc \in [Worker -> WorkerSteps] /\ todo \in [Worker -> [Job -> Entry]] /\ pending \in [Job -> Entry]
  BY DEF Typed, TypeOK, FilesOK, WorkersOK
<1>1. UNCHANGED <<archived, record, asked, comfy, hand, call, crashes>>
  BY DEF Recover, List, EndPass, SkipDelayed, files, jobs, api
<1>2. CASE Recover(w)
  BY <1>0, <1>1, <1>2 DEF Recover, Recovered, Goto, Leave, Lists
<1>3. CASE List(w)
  BY <1>0, <1>1, <1>3 DEF List, Goto, Lists, files
<1>4. CASE EndPass(w)
  BY <1>0, <1>1, <1>4 DEF EndPass, Goto, Leave, Lists, files, NoTodo
<1>5. CASE SkipDelayed(w)
  <2>1. PICK i \in Job : todo' = [todo EXCEPT ![w] = [todo[w] EXCEPT ![i] = Absent]]
    BY <1>5 DEF SkipDelayed
  <2>2. \A v \in Worker : v # w => todo'[v] = todo[v]
    BY <1>0, <2>1
  <2>3. \A j \in Job : todo'[w][j] \in {Absent, todo[w][j]}
    BY <1>0, <2>1
  <2> QED
    BY <1>0, <1>1, <1>5, <2>2, <2>3 DEF SkipDelayed, Lists, files
<1> QED
  BY <1>2, <1>3, <1>4, <1>5

\* A pass begins, lists, passes an entry over and ends.
LEMMA ListSettled ==
  ASSUME Solo, Typed, Grounded, Settling, NEW w \in Worker, Lists(w)
  PROVE  Settling'
<1>0. pc[w] # "down" /\ pc[w] \notin Carrying /\ pc'[w] \notin Carrying /\ Absent.status = "absent"
  BY DEF Lists, Carrying, Absent
<1>1. \A v \in Worker : v # w => pc[v] = "down" /\ pc[v] \notin Carrying /\ Parked(pc[v])
  BY <1>0, OthersDown
<1>2. \A v \in Worker : pc'[v] \notin Carrying
  BY <1>0, <1>1 DEF Lists
<1>3. EmptyHanded'
  <2>1. hand'[w].job = Nobody /\ (pc'[w] # "pick" => todo'[w] = NoTodo)
    BY <1>0 DEF Lists, Settling, EmptyHanded
  <2> QED
    BY <1>1, <2>1 DEF Lists, Settling, EmptyHanded
<1>4. Tidy'
  <2>1. ASSUME NEW j \in Job
        PROVE  /\ pending'[j].status = "absent" => pending'[j] = Absent
               /\ todo'[w][j].status \in {"absent", "queued"} /\ (todo'[w][j].status = "absent" => todo'[w][j] = Absent)
    <3>1. /\ pending[j].status = "absent" => pending[j] = Absent
          /\ todo[w][j].status \in {"absent", "queued"} /\ (todo[w][j].status = "absent" => todo[w][j] = Absent)
      BY DEF Settling, Tidy
    <3>2. pending'[j].status = "absent" => pending'[j] = Absent
      <4>1. Enqueued(pending[j]).status = "queued"
        BY DEF Enqueued
      <4>2. pending'[j] = pending[j] \/ pending'[j] = Enqueued(pending[j])
        BY DEF Lists
      <4> QED
        BY <3>1, <4>1, <4>2
    <3>3. todo'[w][j].status \in {"absent", "queued"} /\ (todo'[w][j].status = "absent" => todo'[w][j] = Absent)
      BY <1>0, <3>1 DEF Lists
    <3> QED
      BY <3>2, <3>3
  <2> QED
    BY <2>1 DEF Lists, Settling, Tidy
<1>5. HandIsFile'
  BY <1>2 DEF HandIsFile, Carrying
<1>6. GivenAsked' /\ Prompted'
  BY <1>2 DEF Lists, Settling, GivenAsked, Prompted, Carrying
<1>7. Patience'
  <2>1. ASSUME NEW h \in Handler, call[h].at \in Entering
        PROVE  pending'[call[h].job] = Absent /\ \A v \in Worker : ~InHand(v, call[h].job)'
    <3>1. pending[call[h].job] = Absent /\ \A v \in Worker : ~InHand(v, call[h].job)
      BY <2>1 DEF Settling, Patience
    <3>2. call[h].job \in Job
      BY <2>1 DEF Grounded, CallsGrounded, Entering, Writing
    <3> QED
      BY <1>0, <3>1, <3>2 DEF InHand, Lists
  <2> QED
    BY <2>1 DEF Lists, Settling, Patience
<1>8. Called'
  BY DEF Lists, Settling, Called
<1> QED
  BY <1>3, <1>4, <1>5, <1>6, <1>7, <1>8 DEF Settling

\* An entry is taken up.
LEMMA TakeSettled ==
  ASSUME Solo, Typed, Grounded, Settling, NEW w \in Worker, NEW j \in Job, NEW e, Takes(w, j, e)
  PROVE  Settling'
<1>0. /\ hand \in [Worker -> Hand] /\ pc \in [Worker -> WorkerSteps] /\ todo \in [Worker -> [Job -> Entry]]
      /\ pending \in [Job -> Entry] /\ pc[w] # "down" /\ Absent.status = "absent" /\ e.status = "running"
  BY DEF Typed, TypeOK, FilesOK, WorkersOK, Takes, Absent, MarkedRunning
<1>1. \A v \in Worker : v # w => pc[v] = "down" /\ pc[v] \notin Carrying /\ Parked(pc[v])
  BY <1>0, OthersDown
<1>2. /\ \A v \in Worker : v # w => pc'[v] = pc[v] /\ todo'[v] = todo[v] /\ hand'[v] = hand[v]
      /\ pc'[w] = "load" /\ hand'[w].job = j /\ hand'[w].entry = e
      /\ \A k \in Job : todo'[w][k] = IF k = j THEN Absent ELSE todo[w][k]
      /\ \A k \in Job : pending'[k] = IF k = j THEN e ELSE pending[k]
      /\ UNCHANGED <<record, asked, comfy, call>>
  BY <1>0 DEF Takes
<1>3. EmptyHanded'
  BY <1>1, <1>2 DEF Settling, EmptyHanded, Carrying
<1>4. Tidy'
  <2>1. ASSUME NEW k \in Job
        PROVE  /\ pending'[k].status = "absent" => pending'[k] = Absent
               /\ \A v \in Worker : todo'[v][k].status \in {"absent", "queued"} /\ (todo'[v][k].status = "absent" => todo'[v][k] = Absent)
    <3>1. /\ pending[k].status = "absent" => pending[k] = Absent
          /\ \A v \in Worker : todo[v][k].status \in {"absent", "queued"} /\ (todo[v][k].status = "absent" => todo[v][k] = Absent)
      BY DEF Settling, Tidy
    <3> QED
      BY <1>0, <1>2, <3>1
  <2> QED
    BY <2>1 DEF Tidy
<1>5. HandIsFile' /\ Prompted'
  BY <1>0, <1>1, <1>2 DEF Settling, HandIsFile, Prompted, Carrying
<1>6. GivenAsked'
  BY <1>2 DEF Settling, GivenAsked
<1>7. Patience'
  <2>1. ASSUME NEW h \in Handler, call[h].at \in Entering
        PROVE  pending'[call[h].job] = Absent /\ \A v \in Worker : ~InHand(v, call[h].job)'
    <3>1. pending[call[h].job] = Absent /\ \A v \in Worker : ~InHand(v, call[h].job)
      BY <2>1 DEF Settling, Patience
    <3>2. call[h].job \in Job
      BY <2>1 DEF Grounded, CallsGrounded, Entering, Writing
    <3>3. call[h].job # j
      BY <1>0, <3>1 DEF InHand, Takes
    <3> QED
      BY <1>2, <3>1, <3>2, <3>3 DEF InHand
  <2> QED
    BY <1>2, <2>1 DEF Settling, Patience
<1>8. Called'
  BY DEF Takes, Settling, Called
<1> QED
  BY <1>3, <1>4, <1>5, <1>6, <1>7, <1>8 DEF Settling

\* An entry is put back, or away.
LEMMA PutDownSettled ==
  ASSUME Solo, Typed, Grounded, Settling, NEW w \in Worker, NEW e, e = Absent \/ e.status = "queued", PutsDown(w, e)
  PROVE  Settling'
<1>0. /\ hand \in [Worker -> Hand] /\ pc \in [Worker -> WorkerSteps] /\ pending \in [Job -> Entry]
      /\ pc[w] # "down" /\ NoHand.job = Nobody
  BY EmptyTypes DEF Typed, TypeOK, FilesOK, WorkersOK, PutsDown
<1>1. \A v \in Worker : v # w => pc[v] = "down" /\ pc[v] \notin Carrying /\ Parked(pc[v])
  BY <1>0, OthersDown
<1>2. /\ \A v \in Worker : v # w => pc'[v] = pc[v] /\ hand'[v] = hand[v]
      /\ pc'[w] = "pick" /\ hand'[w] = NoHand
      /\ \A k \in Job : pending'[k] = IF k = hand[w].job THEN e ELSE pending[k]
      /\ UNCHANGED <<record, asked, comfy, todo, call>>
  BY <1>0 DEF PutsDown
<1>3. EmptyHanded'
  BY <1>0, <1>1, <1>2 DEF Settling, EmptyHanded
<1>4. Tidy'
  BY <1>2 DEF Settling, Tidy
<1>5. HandIsFile' /\ Prompted'
  BY <1>1, <1>2 DEF Settling, HandIsFile, Prompted, Carrying
<1>6. GivenAsked'
  BY <1>2 DEF Settling, GivenAsked
<1>7. Patience'
  <2>1. ASSUME NEW h \in Handler, call[h].at \in Entering
        PROVE  pending'[call[h].job] = Absent /\ \A v \in Worker : ~InHand(v, call[h].job)'
    <3>1. pending[call[h].job] = Absent /\ \A v \in Worker : ~InHand(v, call[h].job)
      BY <2>1 DEF Settling, Patience
    <3>2. call[h].job \in Job
      BY <2>1 DEF Grounded, CallsGrounded, Entering, Writing
    <3> QED
      BY <1>0, <1>2, <3>1, <3>2, ConstantsAssumption DEF InHand
  <2> QED
    BY <1>2, <2>1 DEF Settling, Patience
<1>8. Called'
  BY DEF PutsDown, Settling, Called
<1> QED
  BY <1>3, <1>4, <1>5, <1>6, <1>7, <1>8 DEF Settling

\* The API dies, and every worker with it.
LEMMA CrashSettled ==
  ASSUME Alone, Typed, Settling, ApiCrash
  PROVE  Settling'
<1>1. /\ UNCHANGED <<pending, record, asked, comfy>> /\ Worker = Thread
      /\ \A w \in Worker : pc'[w] = "down" /\ hand'[w] = NoHand /\ todo'[w] = NoTodo
      /\ \A h \in Handler : call'[h] = Idle
  BY DEF Alone, Worker, ApiCrash, Kill, files, jobs
<1>2. EmptyHanded' /\ HandIsFile'
  BY <1>1 DEF EmptyHanded, HandIsFile, Carrying, NoHand
<1>4. Prompted' /\ Patience'
  BY <1>1 DEF Prompted, Patience, Entering, Idle
<1>3. Tidy' /\ GivenAsked'
  <2>1. \A v \in Worker, j \in Job : todo'[v][j] = Absent /\ Absent.status = "absent"
    BY <1>1 DEF NoTodo, Absent
  <2>2. Tidy'
    BY <1>1, <2>1 DEF Settling, Tidy
  <2>3. GivenAsked'
    BY <1>1 DEF Settling, GivenAsked
  <2> QED
    BY <2>2, <2>3
<1>5. Called'
  BY <1>1 DEF Settling, Called, Idle
<1> QED
  BY <1>2, <1>3, <1>4, <1>5 DEF Settling

-----------------------------------------------------------------------------
\* Prompts change their state; who asked for them stays.
SamePrompts == \A j \in Job :
  /\ DOMAIN comfy'[j] = DOMAIN comfy[j]
  /\ \A n \in DOMAIN comfy[j] : comfy'[j][n].request = comfy[j][n].request

LEMMA PromptMovesSame ==
  ASSUME comfy \in [Job -> Seq(Prompt)], NEW j, NEW n, NEW state, comfy' = [comfy EXCEPT ![j][n].state = state]
  PROVE  SamePrompts
<1>1. \A k \in Job : comfy[k] \in [1..Len(comfy[k]) -> Prompt]
  BY LenProperties
<1> QED
  BY <1>1 DEF SamePrompts, Prompt

\* Of the files only an entry whose delay is over changes, of the prompts their state.
LEMMA OthersWrite ==
  ASSUME Typed, Alone,
         \/ \E t \in Thread : EndThread(t) \/ ClearBeat(t) \/ Unregister(t)
         \/ \E p \in Process : Boot(p) \/ Look(p) \/ StopExternal(p) \/ IdleShutdown(p) \/ ClearBeat(p)
         \/ Operator \/ ComfyEnds \/ HeartbeatExpires \/ ApiBoot \/ \E j \in Job : DelayElapses(j)
  PROVE  SamePrompts /\ (\/ pending' = pending
                        \/ \E j \in Job : \E e : /\ pending[j].status = "queued" /\ e.status = "queued"
                                                 /\ pending' = [pending EXCEPT ![j] = e])
<1>0. comfy \in [Job -> Seq(Prompt)] /\ pending \in [Job -> Entry]
  BY DEF Typed, TypeOK, FilesOK, JobsOK
<1>1. CASE ComfyEnds
  <2>1. PICK j \in Job : \E n \in DOMAIN comfy[j], s \in {"done", "failed", "barren"} :
          comfy' = [comfy EXCEPT ![j][n].state = s]
    BY <1>1 DEF ComfyEnds
  <2>2. SamePrompts
    BY <1>0, <2>1, PromptMovesSame
  <2> QED
    BY <1>1, <2>2 DEF ComfyEnds, files
<1>2. ASSUME NEW j \in Job, DelayElapses(j)
      PROVE  comfy' = comfy /\ \E e : /\ pending[j].status = "queued" /\ e.status = "queued"
                                     /\ pending' = [pending EXCEPT ![j] = e]
  <2>1. [pending[j] EXCEPT !.due = TRUE].status = pending[j].status
    BY <1>0 DEF Entry
  <2>2. pending' = [pending EXCEPT ![j] = [pending[j] EXCEPT !.due = TRUE]] /\ comfy' = comfy /\ pending[j].status = "queued"
    BY <1>2 DEF DelayElapses, jobs
  <2> QED
    BY <2>1, <2>2
<1>3. CASE \E t \in Thread : EndThread(t) \/ ClearBeat(t) \/ Unregister(t)
  BY <1>3 DEF EndThread, Retire, ClearBeat, Unregister, files, jobs, SamePrompts
<1>4. CASE Operator \/ HeartbeatExpires \/ ApiBoot
  BY <1>4 DEF Operator, OpsSummary, StartEmbedded, StartExternal, RequestStop, HeartbeatExpires, ApiBoot, files, jobs, SamePrompts
<1> QED
  BY <1>1, <1>2, <1>3, <1>4 DEF Alone, SamePrompts

\* Where workers wait and records stay, nothing is unsettled unless an entry comes up.
LEMMA WaitSettled ==
  ASSUME Typed, Grounded, Settling, Waits, SamePrompts, UNCHANGED <<record, asked, call>>,
         \/ pending' = pending
         \/ \E j \in Job : \E e : pending[j].status = "queued" /\ e.status = "queued" /\ pending' = [pending EXCEPT ![j] = e]
  PROVE  Settling'
<1>0. pending \in [Job -> Entry]
  BY DEF Typed, TypeOK, FilesOK
<1>1. EmptyHanded'
  BY DEF Settling, EmptyHanded, Waits, Parked
<1>2. Tidy'
  BY <1>0 DEF Settling, Tidy, Waits
<1>3. HandIsFile'
  <2>1. ASSUME NEW w \in Worker, pc'[w] \in Carrying
        PROVE  /\ pending'[hand[w].job] \in {Absent, hand[w].entry}
               /\ hand[w].entry.status = "running" /\ todo[w][hand[w].job] = Absent
    <3>1. pc[w] \in Carrying /\ hand[w].job \in Job
      BY <2>1 DEF Waits, Parked, Typed, CarriesJob
    <3>2. /\ pending[hand[w].job] \in {Absent, hand[w].entry}
          /\ hand[w].entry.status = "running" /\ todo[w][hand[w].job] = Absent
      BY <3>1 DEF Settling, HandIsFile
    <3> QED
      BY <1>0, <3>1, <3>2 DEF Absent
  <2> QED
    BY <2>1 DEF HandIsFile, Waits
<1>4. GivenAsked'
  BY DEF Settling, GivenAsked, SamePrompts
<1>5. Prompted'
  BY DEF Settling, Prompted, Waits, Parked, Carrying
<1>6. Patience'
  <2>1. ASSUME NEW h \in Handler, call[h].at \in Entering
        PROVE  /\ pending'[call[h].job] = Absent
               /\ \A v \in Worker : ~InHand(v, call[h].job)'
               /\ call[h].at # "enqueue" =>
                    \A n \in DOMAIN comfy'[call[h].job] : comfy'[call[h].job][n].request < asked[call[h].job]
    <3>1. /\ pending[call[h].job] = Absent /\ \A v \in Worker : ~InHand(v, call[h].job)
          /\ call[h].at # "enqueue" =>
                    \A n \in DOMAIN comfy[call[h].job] : comfy[call[h].job][n].request < asked[call[h].job]
      BY <2>1 DEF Settling, Patience
    <3>2. call[h].job \in Job
      BY <2>1 DEF Grounded, CallsGrounded, Entering, Writing
    <3>3. pending'[call[h].job] = Absent
      BY <1>0, <3>1, <3>2 DEF Absent
    <3> QED
      BY <2>1, <3>1, <3>2, <3>3 DEF InHand, Waits, SamePrompts
  <2> QED
    BY <2>1 DEF Settling, Patience
<1>7. Called'
  BY DEF Settling, Called
<1> QED
  BY <1>1, <1>2, <1>3, <1>4, <1>5, <1>6, <1>7 DEF Settling

\* A request for the job goes on with c; the job's record and entry are then rec and e.
Serves(h, j, c, rec, e) ==
  /\ call' = [call EXCEPT ![h] = c]
  /\ c = call[h] \/ IF c.at = "idle" THEN c.job = Nobody ELSE c.job = j
  /\ record' = [record EXCEPT ![j] = rec]
  /\ pending' = [pending EXCEPT ![j] = e]
  /\ asked'[j] > 0 /\ asked'[j] >= asked[j] /\ \A k \in Job \ {j} : asked'[k] = asked[k]

\* What it then may go on with.
Backed(j, c) ==
  /\ c.at \in {"ask", "interrupt"} => Heard(c.rec, Status)
  /\ c.at = "answer" => Heard(c.rec, Polled)
  /\ c.at = "interrupted" => Heard(c.rec, {"cancelled"})

MayEnter(h, j, c) == c.at \in Entering =>
  /\ c.job = j /\ \A w \in Worker : ~InHand(w, j)
  /\ \A g \in Handler \ {h} : call[g].job = j => call[g].at = "unqueue"
  /\ c.at # "enqueue" =>
       /\ c.rec.status = "planned" /\ c.rec.prompt = 0 /\ c.rec.request = asked'[j]
       /\ asked'[j] > 1 /\ \A n \in DOMAIN comfy[j] : comfy[j][n].request < asked'[j]

\* Nobody else is about to enqueue the job, or it is only cancelled.
LeavesEntering(h, j, c, rec, e) ==
  \A g \in Handler \ {h} : call[g].at \in Entering /\ call[g].job = j =>
    /\ e \in {pending[j], Absent} /\ rec.status \in {"planned", "queued"} \cup Terminal
    /\ c.job = j => c.at = "unqueue"
    /\ asked'[j] = asked[j]

\* The job's record is one to be run, and its entry comes, only when nobody works on it.
Serving(h, j, c, rec, e) ==
  /\ Serves(h, j, c, rec, e) /\ Backed(j, c) /\ MayEnter(h, j, c) /\ LeavesEntering(h, j, c, rec, e)
  /\ c.at \in Entering => e = Absent /\ rec.status \in {"planned", "queued"} \cup Terminal
  /\ rec = record[j] \/ ~Runnable(rec) \/ \A w \in Worker : ~InHand(w, j)
  /\ e \in {pending[j], Absent} \/ (e.status = "queued" /\ \A w \in Worker : ~InHand(w, j))

LEMMA RequestSettled ==
  ASSUME Typed, Typed', Grounded, Settling, Waits, SamePrompts,
         NEW h \in Handler, NEW j \in Job, NEW c, NEW rec, NEW e, Serving(h, j, c, rec, e)
  PROVE  Settling'
<1> USE DEF Serving
<1>0. /\ pending \in [Job -> Entry] /\ record \in [Job -> Record] /\ call \in [Handler -> Call]
      /\ asked \in [Job -> Nat] /\ asked' \in [Job -> Nat] /\ Absent.status = "absent"
      /\ \A w \in Worker : pc[w] \in Carrying => hand[w].job \in Job
      /\ comfy \in [Job -> Seq(Prompt)]
  BY ConstantsAssumption DEF Typed, TypeOK, FilesOK, JobsOK, ApiOK, CarriesJob, Absent
<1>1. /\ \A k \in Job : record'[k] = IF k = j THEN rec ELSE record[k]
      /\ \A k \in Job : pending'[k] = IF k = j THEN e ELSE pending[k]
      /\ \A g \in Handler : call'[g] = IF g = h THEN c ELSE call[g]
      /\ UNCHANGED <<todo, hand>>
      /\ \A w \in Worker : pc'[w] = pc[w] \/ (Parked(pc[w]) /\ Parked(pc'[w]))
      /\ \A k \in Job : asked[k] <= asked'[k]
  <2>1. ASSUME NEW k \in Job PROVE asked[k] <= asked'[k]
    <3>1. asked[k] \in Nat /\ asked'[k] \in Nat
      BY <1>0
    <3>2. asked'[k] >= asked[k] \/ asked'[k] = asked[k]
      BY DEF Serves
    <3> QED
      BY <3>1, <3>2
  <2> QED
    BY <1>0, <2>1 DEF Serves, Waits
<1>2. EmptyHanded'
  BY <1>1 DEF Settling, EmptyHanded, Parked
<1>3. Tidy'
  <2>1. ASSUME NEW k \in Job PROVE pending'[k].status = "absent" => pending'[k] = Absent
    BY <1>0, <1>1 DEF Settling, Tidy
  <2> QED
    BY <1>1, <2>1 DEF Settling, Tidy
<1>4. HandIsFile'
  <2>1. ASSUME NEW w \in Worker, pc'[w] \in Carrying
        PROVE  /\ pending'[hand[w].job] \in {Absent, hand[w].entry}
               /\ hand[w].entry.status = "running" /\ todo[w][hand[w].job] = Absent
    <3>1. pc[w] \in Carrying /\ hand[w].job \in Job
      BY <1>0, <1>1, <2>1 DEF Parked
    <3>2. /\ pending[hand[w].job] \in {Absent, hand[w].entry}
          /\ hand[w].entry.status = "running" /\ todo[w][hand[w].job] = Absent
      BY <3>1 DEF Settling, HandIsFile
    <3> QED
      BY <1>1, <3>1, <3>2 DEF InHand
  <2> QED
    BY <1>1, <2>1 DEF HandIsFile
<1>5. GivenAsked'
  <2>1. ASSUME NEW k \in Job, NEW n \in DOMAIN comfy'[k] PROVE comfy'[k][n].request \in 1..asked'[k]
    <3>1. n \in DOMAIN comfy[k] /\ comfy'[k][n].request = comfy[k][n].request
      BY DEF SamePrompts
    <3>2. comfy[k][n].request \in 1..asked[k]
      BY <3>1 DEF Settling, GivenAsked
    <3>3. asked[k] \in Nat /\ asked'[k] \in Nat /\ asked[k] <= asked'[k]
      BY <1>0, <1>1
    <3> QED
      BY <3>1, <3>2, <3>3
  <2> QED
    BY <2>1 DEF GivenAsked
<1>6. Prompted'
  <2>1. \A w \in Worker : /\ pc'[w] = "submitted" => Heard(hand'[w].rec, {"submitted"})
                          /\ pc'[w] = "poll" => Heard(hand'[w].rec, Status)
                          /\ pc'[w] = "answer" => Heard(hand'[w].rec, Polled)
    BY <1>1 DEF Settling, Prompted, Parked, Carrying
  <2>2. \A g \in Handler : /\ call'[g].at \in {"ask", "interrupt"} => Heard(call'[g].rec, Status)
                           /\ call'[g].at = "answer" => Heard(call'[g].rec, Polled)
                           /\ call'[g].at = "interrupted" => Heard(call'[g].rec, {"cancelled"})
    BY <1>1 DEF Settling, Prompted, Backed
  <2> QED
    BY <2>1, <2>2 DEF Prompted
<1>7. Patience'
  <2>1. ASSUME NEW g \in Handler, call'[g].at \in Entering, NEW k \in Job, k = call'[g].job
        PROVE  /\ pending'[k] = Absent /\ \A w \in Worker : ~InHand(w, k)
               /\ \A f \in Handler \ {g} : call'[f].job = k => call'[f].at = "unqueue"
               /\ record'[k].status \in {"planned", "queued"} \cup Terminal
               /\ call'[g].at # "enqueue" =>
                    /\ call'[g].rec.status = "planned" /\ call'[g].rec.prompt = 0 /\ call'[g].rec.request = asked'[k]
                    /\ asked'[k] > 1 /\ \A n \in DOMAIN comfy[k] : comfy[k][n].request < asked'[k]
    <3>1. CASE g = h
      BY <1>1, <2>1, <3>1 DEF MayEnter
    <3>2. CASE g # h
      <4>1. call'[g] = call[g] /\ call[g].at \in Entering /\ k = call[g].job
        BY <1>1, <2>1, <3>2
      <4>2. /\ pending[k] = Absent /\ \A w \in Worker : ~InHand(w, k)
            /\ \A f \in Handler \ {g} : call[f].job = k => call[f].at = "unqueue"
            /\ record[k].status \in {"planned", "queued"} \cup Terminal
            /\ call[g].at # "enqueue" =>
                 /\ call[g].rec.status = "planned" /\ call[g].rec.prompt = 0 /\ call[g].rec.request = asked[k]
                 /\ asked[k] > 1 /\ \A n \in DOMAIN comfy[k] : comfy[k][n].request < asked[k]
        BY <4>1 DEF Settling, Patience
      <4>3. asked'[k] = asked[k] /\ (c.job = k => c.at = "unqueue")
        BY <1>1, <3>2, <4>1, <4>2, ConstantsAssumption DEF LeavesEntering, Serves
      <4>4. pending'[k] = Absent /\ record'[k].status \in {"planned", "queued"} \cup Terminal
        BY <1>1, <3>2, <4>1, <4>2 DEF LeavesEntering
      <4> QED
        BY <1>1, <4>1, <4>2, <4>3, <4>4
    <3> QED
      BY <3>1, <3>2
  <2>2. ASSUME NEW g \in Handler, call'[g].at \in Entering PROVE call'[g].job \in Job
    BY <1>1, <2>2 DEF MayEnter, Grounded, CallsGrounded, Entering, Writing
  <2>3. \A w \in Worker, k \in Job : InHand(w, k)' <=> InHand(w, k)
    BY <1>1 DEF InHand
  <2>4. ASSUME NEW k \in Job, \A n \in DOMAIN comfy[k] : comfy[k][n].request < asked'[k]
        PROVE  \A n \in DOMAIN comfy'[k] : comfy'[k][n].request < asked'[k]
    BY <2>4 DEF SamePrompts
  <2> QED
    BY <2>1, <2>2, <2>3, <2>4, SMTT(60) DEF Patience
<1>8. Called'
  <2>1. ASSUME NEW g \in Handler
        PROVE  IF call'[g].at = "idle" THEN call'[g].job = Nobody ELSE call'[g].job \in Job /\ asked'[call'[g].job] > 0
    <3>1. \A k \in Job : asked[k] > 0 => asked'[k] > 0
      BY <1>0, <1>1
    <3>2. CASE call'[g] = call[g]
      BY <3>1, <3>2 DEF Settling, Called
    <3>3. CASE g = h /\ IF c.at = "idle" THEN c.job = Nobody ELSE c.job = j
      BY <1>1, <3>3 DEF Serves
    <3> QED
      BY <1>1, <3>2, <3>3 DEF Serves
  <2> QED
    BY <2>1 DEF Called
<1> QED
  BY <1>2, <1>3, <1>4, <1>5, <1>6, <1>7, <1>8 DEF Settling

\* A job with a record was demanded; one without was not, and nobody is at work on it.
LEMMA RecordMeansAsked ==
  ASSUME Typed, Grounded, NEW j \in Job
  PROVE  /\ record[j].status # "absent" => asked[j] > 0
         /\ record[j] = NoRecord => asked[j] = 0
<1>1. asked[j] \in Nat /\ NoRecord.status = "absent" /\ NoRecord.request = 0
  BY ConstantsAssumption DEF Typed, TypeOK, JobsOK, NoRecord
<1>2. IF asked[j] = 0 THEN record[j] = NoRecord ELSE Sound(record[j], asked[j], comfy[j])
  BY DEF Grounded, RecordsGrounded
<1>3. record[j] = NoRecord => asked[j] = 0
  BY <1>1, <1>2 DEF Sound
<1> QED
  BY <1>1, <1>2, <1>3

LEMMA NotAskedNotThere ==
  ASSUME Typed, Grounded, Settling, NEW j \in Job, asked[j] = 0
  PROVE  /\ pending[j] = Absent /\ \A w \in Worker : ~InHand(w, j)
         /\ \A g \in Handler : call[g].job # j
<1>1. pending[j] = Absent /\ \A w \in Worker : todo[w][j] = Absent
  BY DEF Grounded, EntriesGrounded, Settling, Tidy
<1>2. \A w \in Worker : hand[w].job # j
  BY ConstantsAssumption DEF Grounded, HandsGrounded, Settling, EmptyHanded
<1> QED
  BY <1>1, <1>2, ConstantsAssumption DEF InHand, Settling, Called

\* Nobody is about to enqueue the job while its record says it is given to ComfyUI.
LEMMA EnteringMeans ==
  ASSUME Settling, NEW g \in Handler, call[g].at \in Entering
  PROVE  /\ record[call[g].job].status \in {"planned", "queued"} \cup Terminal
         /\ \A h \in Handler \ {g} : call[h].job = call[g].job => call[h].at = "unqueue"
         /\ pending[call[g].job] = Absent
         /\ \A w \in Worker : ~InHand(w, call[g].job)
BY DEF Settling, Patience

\* Creating, polling, cancelling and retrying a job.
LEMMA CreateSettled ==
  ASSUME Typed, Grounded, Settling, NEW h \in Handler, NEW j \in Job, Create(h, j)
  PROVE  SamePrompts /\ \E c, rec, e : Serving(h, j, c, rec, e)
<1>0. /\ pending \in [Job -> Entry] /\ record \in [Job -> Record] /\ call \in [Handler -> Call] /\ asked \in [Job -> Nat]
  BY ConstantsAssumption DEF Typed, TypeOK, FilesOK, JobsOK, ApiOK
<1>1. PICK status \in {"blocked", "queued", "planned"}, ready \in BOOLEAN :
        /\ record' = [record EXCEPT ![j] = NewRecord(status, ready, 1)]
        /\ Set(h, "enqueue", j, NewRecord(status, ready, 1)) \/ UNCHANGED call
  BY DEF Create
<1>2. asked[j] = 0 /\ call[h].at = "idle" /\ asked' = [asked EXCEPT ![j] = 1] /\ UNCHANGED <<pending, comfy>>
  BY RecordMeansAsked DEF Create, Free, files
<1>3. /\ pending[j] = Absent /\ \A w \in Worker : ~InHand(w, j)
      /\ \A g \in Handler : call[g].job # j
  BY <1>2, NotAskedNotThere
<1> DEFINE rec == NewRecord(status, ready, 1)
           c == IF UNCHANGED call THEN call[h] ELSE [at |-> "enqueue", job |-> j, rec |-> rec]
<1>4. rec.status \in {"planned", "queued"} \cup Terminal
  BY DEF NewRecord, Terminal
<1>5. \/ c = call[h] /\ c.at = "idle"
      \/ c.job = j /\ c.at = "enqueue"
  BY <1>1, <1>2
<1>6. Serves(h, j, c, rec, Absent)
  <2>1. call' = [call EXCEPT ![h] = c]
    BY <1>0, <1>1 DEF Set
  <2>2. c = call[h] \/ IF c.at = "idle" THEN c.job = Nobody ELSE c.job = j
    BY <1>5
  <2>3. pending' = [pending EXCEPT ![j] = Absent] /\ record' = [record EXCEPT ![j] = rec]
    BY <1>0, <1>1, <1>2, <1>3
  <2>4. asked'[j] > 0 /\ asked'[j] >= asked[j] /\ \A k \in Job \ {j} : asked'[k] = asked[k]
    BY <1>0, <1>2
  <2> HIDE DEF c, rec
  <2> QED
    BY <2>1, <2>2, <2>3, <2>4 DEF Serves
<1> HIDE DEF c, rec
<1>7. Serving(h, j, c, rec, Absent)
  BY <1>3, <1>4, <1>5, <1>6 DEF Serving, Backed, MayEnter, LeavesEntering, Entering
<1> QED
  BY <1>2, <1>7 DEF SamePrompts

LEMMA GetSettled ==
  ASSUME Typed, Grounded, Settling, NEW h \in Handler, NEW j \in Job, Get(h, j)
  PROVE  SamePrompts /\ \E c, rec, e : Serving(h, j, c, rec, e)
<1>0. /\ pending \in [Job -> Entry] /\ record \in [Job -> Record] /\ call \in [Handler -> Call] /\ asked \in [Job -> Nat]
  BY ConstantsAssumption DEF Typed, TypeOK, FilesOK, JobsOK, ApiOK
<1>1. UNCHANGED <<pending, record, asked, comfy>> /\ call[h].at = "idle"
  BY DEF Get, files, jobs, Free
<1>2. asked[j] > 0
  BY RecordMeansAsked DEF Get, AwaitsComfy
<1>3. CASE UNCHANGED call
  <2>1. Serves(h, j, call[h], record[j], pending[j])
    BY <1>0, <1>1, <1>2, <1>3 DEF Serves
  <2>2. Serving(h, j, call[h], record[j], pending[j])
    <3>1. LeavesEntering(h, j, call[h], record[j], pending[j])
      BY <1>1, EnteringMeans DEF LeavesEntering
    <3> QED
      BY <1>1, <2>1, <3>1 DEF Serving, Backed, MayEnter, Entering
  <2> QED
    BY <1>1, <2>2 DEF SamePrompts
<1>4. CASE AwaitsComfy(record[j]) /\ Set(h, "ask", j, record[j])
  <2> DEFINE c == [at |-> "ask", job |-> j, rec |-> record[j]]
  <2>1. Serves(h, j, c, record[j], pending[j])
    BY <1>0, <1>1, <1>2, <1>4 DEF Serves, Set
  <2>2. \A g \in Handler : ~(call[g].at \in Entering /\ call[g].job = j)
    BY <1>4, EnteringMeans DEF AwaitsComfy, Terminal
  <2>3. Heard(record[j], Status)
    BY <1>0, <1>4 DEF AwaitsComfy, Heard, Record
  <2>4. c.at = "ask" /\ c.job = j /\ c.rec = record[j]
    OBVIOUS
  <2> HIDE DEF c
  <2>5. Serving(h, j, c, record[j], pending[j])
    BY <2>1, <2>2, <2>3, <2>4 DEF Serving, Backed, MayEnter, LeavesEntering, Entering
  <2> QED
    BY <1>1, <2>5 DEF SamePrompts
<1> QED
  BY <1>3, <1>4 DEF Get

LEMMA CancelSettled ==
  ASSUME Typed, Grounded, Settling, NEW h \in Handler, NEW j \in Job, Cancel(h, j)
  PROVE  SamePrompts /\ \E c, rec, e : Serving(h, j, c, rec, e)
<1>0. /\ pending \in [Job -> Entry] /\ record \in [Job -> Record] /\ call \in [Handler -> Call] /\ asked \in [Job -> Nat]
  BY ConstantsAssumption DEF Typed, TypeOK, FilesOK, JobsOK, ApiOK
<1>1. UNCHANGED <<pending, asked, comfy>> /\ asked[j] > 0 /\ record[j].status \notin Terminal
  BY RecordMeansAsked DEF Cancel, files
<1>2. CASE record' = [record EXCEPT ![j] = WithStatus(record[j], "cancelled")] /\ Set(h, "unqueue", j, record[j])
  <2> DEFINE c == [at |-> "unqueue", job |-> j, rec |-> record[j]]
             rec == WithStatus(record[j], "cancelled")
  <2>1. Serves(h, j, c, rec, pending[j])
    BY <1>0, <1>1, <1>2 DEF Serves, Set
  <2>2. c.at = "unqueue" /\ c.job = j /\ rec.status = "cancelled"
    BY <1>0 DEF WithStatus, Record
  <2> HIDE DEF c, rec
  <2>3. Serving(h, j, c, rec, pending[j])
    BY <1>1, <2>1, <2>2, EnteringMeans
       DEF Serving, Backed, MayEnter, LeavesEntering, Entering, Runnable, Terminal
  <2> QED
    BY <1>1, <2>3 DEF SamePrompts
<1>3. CASE /\ ~(record[j].prompt = 0 \/ record[j].status \in {"planned", "queued"})
           /\ Set(h, "interrupt", j, record[j]) /\ UNCHANGED record
  <2> DEFINE c == [at |-> "interrupt", job |-> j, rec |-> record[j]]
  <2>1. Serves(h, j, c, record[j], pending[j])
    BY <1>0, <1>1, <1>3 DEF Serves, Set
  <2>2. \A g \in Handler : ~(call[g].at \in Entering /\ call[g].job = j)
    BY <1>1, <1>3, EnteringMeans
  <2>3. Heard(record[j], Status)
    BY <1>0, <1>3 DEF Heard, Record
  <2>4. c.at = "interrupt" /\ c.job = j /\ c.rec = record[j]
    OBVIOUS
  <2> HIDE DEF c
  <2>5. Serving(h, j, c, record[j], pending[j])
    BY <2>1, <2>2, <2>3, <2>4 DEF Serving, Backed, MayEnter, LeavesEntering, Entering
  <2> QED
    BY <1>1, <2>5 DEF SamePrompts
<1> QED
  BY <1>2, <1>3 DEF Cancel

LEMMA RetrySettled ==
  ASSUME Alone, Typed, Grounded, Settling, NEW h \in Handler, NEW j \in Job, Retry(h, j)
  PROVE  SamePrompts /\ \E c, rec, e : Serving(h, j, c, rec, e)
<1>0. /\ pending \in [Job -> Entry] /\ record \in [Job -> Record] /\ call \in [Handler -> Call] /\ asked \in [Job -> Nat]
      /\ asked[j] \in Nat
  BY ConstantsAssumption DEF Typed, TypeOK, FilesOK, JobsOK, ApiOK
<1>1. /\ UNCHANGED <<pending, record, comfy>> /\ asked' = [asked EXCEPT ![j] = asked[j] + 1]
      /\ record[j].status \in {"planned"} \cup Terminal
      /\ Set(h, "assess", j, NewRecord("planned", TRUE, asked[j] + 1))
      /\ Settled(j) /\ asked[j] > 0
  BY RecordMeansAsked DEF Retry, files, Alone, Terminal
<1> DEFINE c == [at |-> "assess", job |-> j, rec |-> NewRecord("planned", TRUE, asked[j] + 1)]
<1>2. Serves(h, j, c, record[j], pending[j])
  BY <1>0, <1>1 DEF Serves, Set
<1>3. /\ c.at = "assess" /\ c.job = j /\ c.rec.status = "planned" /\ c.rec.prompt = 0
      /\ c.rec.request = asked[j] + 1 /\ asked'[j] = asked[j] + 1 /\ asked'[j] > 1
  BY <1>0, <1>1 DEF NewRecord
<1> HIDE DEF c
<1>4. \A n \in DOMAIN comfy[j] : comfy[j][n].request < asked'[j]
  <2>1. \A n \in DOMAIN comfy[j] : comfy[j][n].request \in 1..asked[j]
    BY DEF Settling, GivenAsked
  <2> QED
    BY <1>0, <1>3, <2>1
<1>5. Serving(h, j, c, record[j], pending[j])
  BY <1>1, <1>2, <1>3, <1>4 DEF Serving, Backed, MayEnter, LeavesEntering, Entering, Settled
<1> QED
  BY <1>1, <1>5 DEF SamePrompts

\* A request goes on.
LEMMA ProceedSettled ==
  ASSUME Typed, Typed', Grounded, Settling, NEW h \in Handler, Proceed(h)
  PROVE  SamePrompts /\ \E j \in Job : \E c, rec, e : Serving(h, j, c, rec, e)
<1> DEFINE j == call[h].job
           Others == \A g \in Handler \ {h} : ~(call[g].at \in Entering /\ call[g].job = j)
           keeps(at, rec) == [at |-> at, job |-> j, rec |-> rec]
<1>0. /\ pending \in [Job -> Entry] /\ record \in [Job -> Record] /\ call \in [Handler -> Call] /\ asked \in [Job -> Nat]
      /\ Idle.at = "idle" /\ Idle.job = Nobody /\ comfy \in [Job -> Seq(Prompt)]
  BY ConstantsAssumption DEF Typed, TypeOK, FilesOK, JobsOK, ApiOK, Idle
<1>1. j \in Job /\ asked[j] > 0 /\ call[h].rec \in Record
  BY <1>0 DEF Settling, Called, Call, Proceed, Ask, SaveAnswer, Unqueue, Discard, Interrupt, SaveCancelled, Assess, Requeue, EnqueueJob, Wake
<1>2. call[h].at # "unqueue" => Others
  BY EnteringMeans
<1>3. asked' = asked
  BY DEF Proceed, Ask, SaveAnswer, Unqueue, Discard, Interrupt, SaveCancelled, Assess, Requeue, EnqueueJob, Wake, jobs
<1>4. ASSUME NEW c, call' = [call EXCEPT ![h] = c], IF c.at = "idle" THEN c.job = Nobody ELSE c.job = j,
             NEW rec, record' = [record EXCEPT ![j] = rec], NEW e, pending' = [pending EXCEPT ![j] = e]
      PROVE  Serves(h, j, c, rec, e)
  BY <1>0, <1>1, <1>3, <1>4 DEF Serves
<1>5. CASE Ask(h)
  <2>1. PICK r \in Refreshed(call[h].rec, comfy[j][call[h].rec.prompt].state) : Set(h, "answer", j, r)
    BY <1>5 DEF Ask
  <2>2. Heard(r, Polled)
    <3>1. Heard(call[h].rec, Status)
      BY <1>5 DEF Ask, Settling, Prompted
    <3> QED
      BY <1>1, <3>1, RefreshedHeard DEF Heard
  <2> DEFINE c == keeps("answer", r)
  <2>3. Serves(h, j, c, record[j], pending[j])
    BY <1>0, <1>1, <1>4, <1>5, <2>1 DEF Ask, Set, files, jobs
  <2>4. c.at = "answer" /\ c.job = j /\ c.rec = r
    OBVIOUS
  <2> HIDE DEF c
  <2>5. Serving(h, j, c, record[j], pending[j])
    BY <1>2, <1>5, <2>2, <2>3, <2>4 DEF Ask, Serving, Backed, MayEnter, LeavesEntering, Entering
  <2> QED
    BY <1>1, <1>5, <2>5 DEF Ask, jobs, SamePrompts
<1>6. CASE SaveAnswer(h) \/ SaveCancelled(h)
  <2>1. Heard(call[h].rec, Polled \cup {"cancelled"})
    BY <1>6 DEF SaveAnswer, SaveCancelled, Settling, Prompted, Heard
  <2>2. ~Runnable(call[h].rec)
    BY <2>1 DEF Heard, Polled, Runnable, AwaitsComfy, Terminal
  <2>3. Serves(h, j, Idle, call[h].rec, pending[j])
    BY <1>0, <1>1, <1>4, <1>6 DEF SaveAnswer, SaveCancelled, Hang, files
  <2>4. Serving(h, j, Idle, call[h].rec, pending[j])
    BY <1>0, <1>2, <1>6, <2>2, <2>3 DEF SaveAnswer, SaveCancelled, Serving, Backed, MayEnter, LeavesEntering, Entering
  <2> QED
    BY <1>1, <1>6, <2>4 DEF SaveAnswer, SaveCancelled, SamePrompts
<1>7. CASE Unqueue(h)
  <2> DEFINE c == IF pending[j] = Absent THEN Idle ELSE keeps("discard", NoRecord)
  <2>1. Serves(h, j, c, record[j], pending[j])
    BY <1>0, <1>1, <1>4, <1>7 DEF Unqueue, Set, Hang, jobs
  <2>2. (c.at = "idle" /\ c.job = Nobody) \/ (c.at = "discard" /\ c.job = j /\ pending[j] # Absent)
    BY <1>0
  <2> HIDE DEF c
  <2>3. Serving(h, j, c, record[j], pending[j])
    BY <1>1, <1>3, <2>1, <2>2, EnteringMeans, ConstantsAssumption DEF Serving, Backed, MayEnter, LeavesEntering, Entering
  <2> QED
    BY <1>1, <1>7, <2>3 DEF Unqueue, jobs, SamePrompts
<1>8. CASE Discard(h)
  <2>1. Serves(h, j, Idle, record[j], Absent)
    BY <1>0, <1>1, <1>4, <1>8 DEF Discard, Hang, jobs
  <2>2. Serving(h, j, Idle, record[j], Absent)
    BY <1>0, <1>2, <1>8, <2>1 DEF Discard, Serving, Backed, MayEnter, LeavesEntering, Entering
  <2> QED
    BY <1>1, <1>8, <2>2 DEF Discard, jobs, SamePrompts
<1>9. CASE Interrupt(h)
  <2> DEFINE rec == WithStatus(call[h].rec, "cancelled")
  <2>1. Heard(rec, {"cancelled"})
    <3>1. Heard(call[h].rec, Status)
      BY <1>9 DEF Interrupt, Settling, Prompted
    <3> QED
      BY <1>1, <3>1 DEF Heard, WithStatus, Record
  <2>2. SamePrompts
    <3>1. CASE UNCHANGED comfy
      BY <3>1 DEF SamePrompts
    <3>2. CASE comfy' # comfy
      <4> DEFINE n == call[h].rec.prompt
                 state == IF comfy[j][n].state = "active" THEN "gone" ELSE comfy[j][n].state
      <4>0. comfy' = [comfy EXCEPT ![j][n].state = IF comfy[j][n].state = "active" THEN "gone" ELSE comfy[j][n].state]
        BY <1>9, <3>2 DEF Interrupt
      <4>1. comfy' = [comfy EXCEPT ![j][n].state = state]
        BY <4>0
      <4> HIDE DEF n, state, j
      <4> QED
        BY <1>0, <4>1, PromptMovesSame
    <3> QED
      BY <3>1, <3>2
  <2>3. CASE Set(h, "interrupted", j, rec)
    <3> DEFINE c == keeps("interrupted", rec)
    <3>1. Serves(h, j, c, record[j], pending[j])
      BY <1>0, <1>1, <1>4, <1>9, <2>3 DEF Interrupt, Set, files
    <3>2. c.at = "interrupted" /\ c.job = j /\ c.rec = rec
      OBVIOUS
    <3> HIDE DEF c
    <3>3. Serving(h, j, c, record[j], pending[j])
      BY <1>2, <1>9, <2>1, <3>1, <3>2 DEF Interrupt, Serving, Backed, MayEnter, LeavesEntering, Entering
    <3> QED
      BY <1>1, <2>2, <3>3
  <2>4. CASE Hang(h)
    <3>1. Serves(h, j, Idle, record[j], pending[j])
      BY <1>0, <1>1, <1>4, <1>9, <2>4 DEF Interrupt, Hang, files
    <3>2. Serving(h, j, Idle, record[j], pending[j])
      BY <1>0, <1>2, <1>9, <3>1 DEF Interrupt, Serving, Backed, MayEnter, LeavesEntering, Entering
    <3> QED
      BY <1>1, <2>2, <3>2
  <2> QED
    BY <1>9, <2>3, <2>4 DEF Interrupt
<1>10. CASE Assess(h) \/ Requeue(h)
  <2>0. /\ call[h].at \in Entering /\ call[h].at # "enqueue" /\ UNCHANGED <<pending, comfy>>
    BY <1>10 DEF Assess, Requeue, Entering, files
  <2>1. /\ pending[j] = Absent /\ \A w \in Worker : ~InHand(w, j)
        /\ \A g \in Handler \ {h} : call[g].job = j => call[g].at = "unqueue"
        /\ call[h].rec.status = "planned" /\ call[h].rec.prompt = 0 /\ call[h].rec.request = asked[j]
        /\ asked[j] > 1 /\ \A n \in DOMAIN comfy[j] : comfy[j][n].request < asked[j]
    BY <2>0 DEF Settling, Patience
  <2>2. CASE Assess(h)
    <3>1. PICK ready \in BOOLEAN :
            LET rec == [call[h].rec EXCEPT !.ready = ready]
            IN  record' = [record EXCEPT ![j] = rec] /\ Set(h, "requeue", j, rec)
      BY <2>2 DEF Assess
    <3> DEFINE rec == [call[h].rec EXCEPT !.ready = ready]
               c == keeps("requeue", rec)
    <3>2. rec.status = "planned" /\ rec.prompt = 0 /\ rec.request = asked[j]
      BY <1>1, <2>1 DEF Record
    <3> HIDE DEF rec
    <3>3. Serves(h, j, c, rec, Absent)
      BY <1>0, <1>1, <1>4, <2>0, <2>1, <3>1 DEF Set, rec
    <3>4. c.at = "requeue" /\ c.job = j /\ c.rec = rec
      OBVIOUS
    <3> HIDE DEF c
    <3>5. Serving(h, j, c, rec, Absent)
      BY <1>2, <1>3, <2>0, <2>1, <3>2, <3>3, <3>4 DEF Serving, Backed, MayEnter, LeavesEntering, Entering
    <3> QED
      BY <1>1, <2>0, <3>5 DEF SamePrompts
  <2>3. CASE Requeue(h)
    <3> DEFINE rec == WithStatus(call[h].rec, IF call[h].rec.ready THEN "queued" ELSE "blocked")
               c == IF call[h].rec.ready THEN keeps("enqueue", call[h].rec) ELSE Idle
    <3>1. rec.status \in {"queued", "blocked"}
      BY <1>1 DEF WithStatus, Record
    <3>2. record' = [record EXCEPT ![j] = rec] /\ call' = [call EXCEPT ![h] = c]
      <4>1. CASE call[h].rec.ready
        BY <2>3, <4>1 DEF Requeue, Set
      <4>2. CASE ~call[h].rec.ready
        BY <2>3, <4>2 DEF Requeue, Hang
      <4> QED
        BY <4>1, <4>2
    <3>3. (c.at = "idle" /\ c.job = Nobody) \/ (c.at = "enqueue" /\ c.job = j)
      BY <1>0
    <3> HIDE DEF rec, c
    <3>4. Serves(h, j, c, rec, Absent)
      BY <1>0, <1>1, <1>4, <2>0, <2>1, <3>2, <3>3
    <3>5. Serving(h, j, c, rec, Absent)
      BY <1>2, <1>3, <2>0, <2>1, <3>1, <3>3, <3>4 DEF Serving, Backed, MayEnter, LeavesEntering, Entering, Terminal
    <3> QED
      BY <1>1, <2>0, <3>5 DEF SamePrompts
  <2> QED
    BY <1>10, <2>2, <2>3
<1>11. CASE EnqueueJob(h)
  <2>1. call[h].at = "enqueue" /\ \A w \in Worker : ~InHand(w, j)
    BY <1>11 DEF EnqueueJob, Settling, Patience, Entering
  <2> DEFINE c == keeps("wake", NoRecord)
             e == Enqueued(pending[j])
  <2>2. Serves(h, j, c, record[j], e)
    BY <1>0, <1>1, <1>4, <1>11 DEF EnqueueJob, Set, jobs
  <2>3. c.at = "wake" /\ c.job = j /\ e.status = "queued"
    BY DEF Enqueued
  <2> HIDE DEF c, e
  <2>4. Serving(h, j, c, record[j], e)
    BY <1>2, <2>1, <2>2, <2>3 DEF Serving, Backed, MayEnter, LeavesEntering, Entering
  <2> QED
    BY <1>1, <1>11, <2>4 DEF EnqueueJob, jobs, SamePrompts
<1>12. CASE Wake(h)
  <2>1. Serves(h, j, Idle, record[j], pending[j])
    BY <1>0, <1>1, <1>4, <1>12 DEF Wake, Hang, files, jobs
  <2>2. Serving(h, j, Idle, record[j], pending[j])
    BY <1>0, <1>2, <1>12, <2>1 DEF Wake, Serving, Backed, MayEnter, LeavesEntering, Entering
  <2> QED
    BY <1>1, <1>12, <2>2 DEF Wake, jobs, SamePrompts
<1> QED
  BY <1>5, <1>6, <1>7, <1>8, <1>9, <1>10, <1>11, <1>12 DEF Proceed

-----------------------------------------------------------------------------
LEMMA InitSettled == Init => Settling
BY ConstantsAssumption
   DEF Init, Settling, EmptyHanded, Tidy, HandIsFile, GivenAsked, Prompted, Patience, Called,
       Carrying, Entering, NoHand, NoTodo, Absent, Idle

\* With one embedded worker registered there is one worker up.
LEMMA OneIsUp ==
  ASSUME Alone, Typed, OneEmbeddedPass
  PROVE  Solo
BY DEF Alone, Typed, TypeOK, WorkersOK, OneEmbeddedPass, Solo, Worker

\* Every step is one of those.
LEMMA StepSettled ==
  ASSUME Alone, Typed, Typed', Grounded, Solo, Settling, [Next]_vars
  PROVE  Settling'
<1>1. ASSUME NEW w \in Worker, Pass(w) PROVE Settling'
  <2>1. CASE Take(w)
    BY <2>1, TakeEffect, TakeSettled
  <2>2. CASE Postpone(w) \/ Unlink(w)
    BY <2>2, PutDownEffect, PutDownSettled DEF Postponed
  <2>3. CASE Recover(w) \/ List(w) \/ EndPass(w) \/ SkipDelayed(w)
    BY <2>3, ListEffect, ListSettled
  <2> QED
    BY <1>1, <2>1, <2>2, <2>3, WorkEffect, WorksSettled DEF Pass
<1>2. ASSUME NEW h \in Handler, Client(h) PROVE Settling'
  <2>1. SamePrompts /\ \E j \in Job : \E c, rec, e : Serving(h, j, c, rec, e)
    BY <1>2, CreateSettled, GetSettled, CancelSettled, RetrySettled, ProceedSettled DEF Client
  <2> QED
    BY <1>2, <2>1, ClientWaits, RequestSettled
<1>3. CASE ApiCrash
  BY <1>3, CrashSettled
<1>4. ASSUME \/ \E t \in Thread : EndThread(t) \/ ClearBeat(t) \/ Unregister(t)
             \/ \E p \in Process : Boot(p) \/ Look(p) \/ StopExternal(p) \/ IdleShutdown(p) \/ ClearBeat(p)
             \/ Operator \/ ComfyEnds \/ HeartbeatExpires \/ ApiBoot \/ \E j \in Job : DelayElapses(j)
      PROVE  Settling'
  <2>1. Waits /\ UNCHANGED <<record, asked, call>>
    BY <1>4, OthersWait
  <2>2. SamePrompts /\ (\/ pending' = pending
                        \/ \E j \in Job : \E e : /\ pending[j].status = "queued" /\ e.status = "queued"
                                                 /\ pending' = [pending EXCEPT ![j] = e])
    BY <1>4, OthersWrite
  <2> QED
    BY <2>1, <2>2, WaitSettled
<1>5. CASE UNCHANGED vars
  <2>1. Waits /\ SamePrompts /\ UNCHANGED <<record, asked, call, pending>>
    BY <1>5 DEF vars, Waits, SamePrompts
  <2> QED
    BY <2>1, WaitSettled
<1> QED
  BY <1>1, <1>2, <1>3, <1>4, <1>5 DEF Next, Environment, Alone

\* While the embedded worker is the only one and users are patient, an entry in hand is
\* the one on file, and no request enqueues a job that somebody is at work on.
THEOREM SettlingHolds ==
  ASSUME Alone
  PROVE  Spec => []Settling
<1>1. Init => OneEmbeddedPass
  BY ConstantsAssumption DEF Init, OneEmbeddedPass, Worker
<1>2. Typed /\ [Next]_vars => Typed'
  BY StepTyped
<1>3. Typed /\ OneEmbeddedPass /\ [Next]_vars => OneEmbeddedPass'
  BY OneEmbeddedPassStep
<1>4. Typed /\ Typed' /\ Grounded /\ OneEmbeddedPass /\ Settling /\ [Next]_vars => Settling'
  BY OneIsUp, StepSettled
<1> QED
  BY InitTyped, InitGrounded, InitSettled, <1>1, <1>2, <1>3, <1>4, StepGrounded, PTL DEF Spec

-----------------------------------------------------------------------------
\* A job is demanded afresh: nobody is at work on it, it has no entry, and ComfyUI was
\* not given it for this demand.
Afresh(j, rec) ==
  /\ pending[j] = Absent /\ pending'[j] = Absent /\ \A w \in Worker : ~InHand(w, j)
  /\ \A n \in DOMAIN comfy[j] : comfy[j][n].request # rec.request

At(h, j, steps) == call[h].at \in steps /\ call[h].job = j

\* What a request does to its job, and leaves of the others.
Minds(h, j) ==
  LET rec == record'[j]
      e == pending'[j]
      c == call'[h]
  IN  /\ \A k \in Job \ {j} : record'[k] = record[k] /\ pending'[k] = pending[k]
      /\ \A g \in Handler \ {h} : call'[g] = call[g]
      /\ c.at = "idle" \/ c.job = j
      /\ \/ e = pending[j] \/ e.status = "queued"
         \/ e = Absent /\ At(h, j, {"discard"}) /\ rec = record[j]
      /\ call[h].at = "enqueue" => call[h].job = j /\ e.status = "queued"
      /\ \/ rec = record[j]
         \/ ~Runnable(rec) /\ (AwaitsComfy(rec) => At(h, j, {"answer"}))
         \/ /\ Afresh(j, rec) /\ (c.at = "enqueue" \/ rec.status = "planned")
            /\ asked[j] # 1 /\ \A g \in Handler \ {h} : call[g].job = j => call[g].at = "unqueue"
      /\ c.at \in {"ask", "answer"} => rec = record[j] /\ (AwaitsComfy(rec) \/ At(h, j, {"ask"}))
      /\ c.at \in {"unqueue", "discard"} => ~Runnable(rec) \/ (rec = record[j] /\ At(h, j, {"unqueue"}))

LEMMA RequestMinds ==
  ASSUME Alone, Typed, Grounded, Settling, NEW h \in Handler, NEW j \in Job,
         Create(h, j) \/ Get(h, j) \/ Cancel(h, j) \/ Retry(h, j)
  PROVE  Minds(h, j)
<1>0. /\ pending \in [Job -> Entry] /\ record \in [Job -> Record] /\ call \in [Handler -> Call]
      /\ call[h].at = "idle" /\ UNCHANGED pending
  <2>1. pending \in [Job -> Entry] /\ record \in [Job -> Record] /\ call \in [Handler -> Call]
    BY DEF Typed, TypeOK, FilesOK, JobsOK, ApiOK
  <2> QED
    BY <2>1 DEF Create, Get, Cancel, Retry, Free, files
<1>1. CASE Create(h, j)
  <2>1. PICK status \in {"blocked", "queued", "planned"}, ready \in BOOLEAN :
          /\ record' = [record EXCEPT ![j] = NewRecord(status, ready, 1)]
          /\ \/ Set(h, "enqueue", j, NewRecord(status, ready, 1))
             \/ UNCHANGED call /\ status # "queued"
    <3>1. PICK ready, execute \in BOOLEAN :
            LET rec == NewRecord(IF ~ready THEN "blocked" ELSE IF execute THEN "queued" ELSE "planned", ready, 1)
            IN  /\ record' = [record EXCEPT ![j] = rec]
                /\ IF ready /\ execute THEN Set(h, "enqueue", j, rec) ELSE UNCHANGED call
      BY <1>1 DEF Create
    <3> DEFINE status == IF ~ready THEN "blocked" ELSE IF execute THEN "queued" ELSE "planned"
    <3>2. status \in {"blocked", "queued", "planned"} /\ (~(ready /\ execute) => status # "queued")
      OBVIOUS
    <3>3. /\ record' = [record EXCEPT ![j] = NewRecord(status, ready, 1)]
          /\ IF ready /\ execute THEN Set(h, "enqueue", j, NewRecord(status, ready, 1)) ELSE UNCHANGED call
      BY <3>1
    <3> HIDE DEF status
    <3> QED
      BY <3>2, <3>3
  <2>2. asked[j] = 0
    BY <1>1, RecordMeansAsked DEF Create
  <2>3. /\ pending[j] = Absent /\ (\A w \in Worker : ~InHand(w, j)) /\ DOMAIN comfy[j] = {}
        /\ \A g \in Handler : call[g].job # j
    <3>1. \A n \in DOMAIN comfy[j] : comfy[j][n].request \in 1..0
      BY <2>2 DEF Settling, GivenAsked
    <3> QED
      BY <3>1, <2>2, NotAskedNotThere
  <2> DEFINE rec == NewRecord(status, ready, 1)
  <2>4. rec.status = status
    BY DEF NewRecord
  <2>5. record' = [record EXCEPT ![j] = rec] /\ (Set(h, "enqueue", j, rec) \/ (UNCHANGED call /\ status # "queued"))
    BY <2>1
  <2> HIDE DEF rec
  <2>6. Afresh(j, rec)
    BY <1>0, <2>3 DEF Afresh
  <2>7. (call'[h].at = "enqueue" /\ call'[h].job = j) \/ (call'[h].at = "idle" /\ status # "queued")
    BY <1>0, <2>5 DEF Set
  <2>8. (~Runnable(rec) /\ ~AwaitsComfy(rec)) \/ status # "blocked"
    BY <2>4 DEF Runnable, AwaitsComfy, Terminal
  <2> QED
    BY <1>0, <2>2, <2>3, <2>4, <2>5, <2>6, <2>7, <2>8 DEF Minds, Set
<1>2. CASE Get(h, j)
  BY <1>0, <1>2 DEF Get, jobs, Set, Minds
<1>3. CASE Cancel(h, j)
  <2>1. CASE record' = [record EXCEPT ![j] = WithStatus(record[j], "cancelled")] /\ Set(h, "unqueue", j, record[j])
    <3>1. ~Runnable(record'[j]) /\ ~AwaitsComfy(record'[j])
      BY <1>0, <2>1 DEF WithStatus, Record, Runnable, AwaitsComfy, Terminal
    <3> QED
      BY <1>0, <2>1, <3>1 DEF Minds, Set
  <2>2. CASE Set(h, "interrupt", j, record[j]) /\ UNCHANGED record
    BY <1>0, <2>2 DEF Minds, Set
  <2> QED
    BY <1>3, <2>1, <2>2 DEF Cancel
<1>4. CASE Retry(h, j)
  BY <1>0, <1>4 DEF Retry, Set, Minds
<1> QED
  BY <1>1, <1>2, <1>3, <1>4

LEMMA ProceedMinds ==
  ASSUME Typed, Grounded, Settling, NEW h \in Handler, Proceed(h)
  PROVE  call[h].job \in Job /\ Minds(h, call[h].job)
<1> DEFINE j == call[h].job
<1>0. /\ pending \in [Job -> Entry] /\ record \in [Job -> Record] /\ call \in [Handler -> Call]
      /\ Idle.at = "idle" /\ Idle.job = Nobody
  BY DEF Typed, TypeOK, FilesOK, JobsOK, ApiOK, Idle
<1>1. j \in Job /\ call[h].rec \in Record
  BY <1>0 DEF Settling, Called, Call, Proceed, Ask, SaveAnswer, Unqueue, Discard, Interrupt, SaveCancelled, Assess, Requeue, EnqueueJob, Wake
<1>2. CASE Ask(h) \/ Unqueue(h) \/ Interrupt(h) \/ Wake(h)
  <2>1. UNCHANGED <<pending, record>> /\ call[h].at \in {"ask", "unqueue", "interrupt", "wake"}
    BY <1>2 DEF Ask, Unqueue, Interrupt, Wake, files, jobs
  <2>2. /\ call'[h].at = "idle" \/ call'[h].job = j
        /\ call'[h].at \in {"ask", "answer"} => call[h].at = "ask"
        /\ call'[h].at \in {"unqueue", "discard"} => call[h].at = "unqueue"
        /\ \A g \in Handler \ {h} : call'[g] = call[g]
    <3>1. ASSUME Hang(h)
          PROVE  call'[h].at = "idle" /\ \A g \in Handler \ {h} : call'[g] = call[g]
      BY <1>0, <3>1 DEF Hang
    <3>2. ASSUME NEW at, NEW rec, Set(h, at, j, rec)
          PROVE  call'[h].at = at /\ call'[h].job = j /\ \A g \in Handler \ {h} : call'[g] = call[g]
      BY <1>0, <3>2 DEF Set
    <3>3. CASE Ask(h)
      <4>1. \E rec : Set(h, "answer", j, rec)
        BY <3>3 DEF Ask
      <4> QED
        BY <3>2, <3>3, <4>1 DEF Ask
    <3>4. CASE Unqueue(h)
      <4>1. Hang(h) \/ Set(h, "discard", j, NoRecord)
        BY <3>4 DEF Unqueue
      <4> QED
        BY <3>1, <3>2, <3>4, <4>1 DEF Unqueue
    <3>5. CASE Interrupt(h)
      <4>1. Hang(h) \/ \E rec : Set(h, "interrupted", j, rec)
        BY <3>5 DEF Interrupt
      <4> QED
        BY <3>1, <3>2, <4>1
    <3>6. CASE Wake(h)
      BY <3>1, <3>6 DEF Wake
    <3> QED
      BY <1>2, <3>3, <3>4, <3>5, <3>6
  <2>5. record'[j] = record[j] /\ pending'[j] = pending[j] /\ call[h].at # "enqueue"
    BY <2>1
  <2>6. \A steps : At(h, j, steps) <=> call[h].at \in steps
    BY DEF At
  <2> HIDE DEF j
  <2>7. Minds(h, j)
    <3>1. \A k \in Job \ {j} : record'[k] = record[k] /\ pending'[k] = pending[k]
      BY <2>1
    <3>2. /\ call'[h].at \in {"ask", "answer"} => At(h, j, {"ask"})
          /\ call'[h].at \in {"unqueue", "discard"} => At(h, j, {"unqueue"})
      BY <2>2, <2>6
    <3> QED
      BY <2>2, <2>5, <3>1, <3>2 DEF Minds
  <2> QED
    BY <1>1, <2>7 DEF j
<1>3. CASE SaveAnswer(h) \/ SaveCancelled(h)
  <2>1. /\ record' = [record EXCEPT ![j] = call[h].rec] /\ call' = [call EXCEPT ![h] = Idle] /\ UNCHANGED pending
        /\ call[h].at \in {"answer", "interrupted"}
    BY <1>3 DEF SaveAnswer, SaveCancelled, Hang, files
  <2>2. ~Runnable(call[h].rec) /\ (AwaitsComfy(call[h].rec) => call[h].at = "answer")
    BY <2>1 DEF Settling, Prompted, Heard, Polled, Runnable, AwaitsComfy, Terminal
  <2>3. record'[j] = call[h].rec /\ call'[h].at = "idle" /\ \A k \in Job \ {j} : record'[k] = record[k]
    BY <1>0, <1>1, <2>1
  <2>4. \A g \in Handler \ {h} : call'[g] = call[g]
    BY <1>0, <2>1
  <2> QED
    BY <1>1, <2>1, <2>2, <2>3, <2>4 DEF Minds, At
<1>4. CASE Discard(h)
  BY <1>0, <1>1, <1>4 DEF Discard, Hang, jobs, Minds, At, Absent
<1>5. CASE Assess(h) \/ Requeue(h)
  <2>1. /\ call[h].at \in {"assess", "requeue"} /\ UNCHANGED <<pending, comfy>>
    BY <1>5 DEF Assess, Requeue, files
  <2>2. /\ pending[j] = Absent /\ \A w \in Worker : ~InHand(w, j)
        /\ call[h].rec.request = asked[j] /\ asked[j] > 1
        /\ \A n \in DOMAIN comfy[j] : comfy[j][n].request < asked[j]
        /\ call[h].rec.status = "planned"
        /\ \A g \in Handler \ {h} : call[g].job = j => call[g].at = "unqueue"
    BY <2>1 DEF Settling, Patience, Entering
  <2>3. asked[j] \in Nat /\ \A n \in DOMAIN comfy[j] : comfy[j][n].request \in 1..asked[j]
    BY <1>1, ConstantsAssumption DEF Typed, TypeOK, JobsOK, Settling, GivenAsked
  <2>4. asked[j] # 1 /\ \A n \in DOMAIN comfy[j] : comfy[j][n].request # asked[j]
    BY <2>2, <2>3
  <2>5. CASE Assess(h)
    <3>1. PICK ready \in BOOLEAN :
            LET rec == [call[h].rec EXCEPT !.ready = ready]
            IN  record' = [record EXCEPT ![j] = rec] /\ Set(h, "requeue", j, rec)
      BY <2>5 DEF Assess
    <3>2. record'[j].status = "planned" /\ record'[j].request = asked[j]
      BY <1>0, <1>1, <2>2, <3>1 DEF Record
    <3>3. Afresh(j, record'[j])
      BY <2>1, <2>2, <2>4, <3>2 DEF Afresh
    <3>4. call'[h].at = "requeue" /\ call'[h].job = j /\ \A g \in Handler \ {h} : call'[g] = call[g]
      BY <1>0, <3>1 DEF Set
    <3>5. \A k \in Job \ {j} : record'[k] = record[k]
      BY <1>0, <3>1
    <3> QED
      BY <1>1, <2>1, <2>2, <2>4, <3>2, <3>3, <3>4, <3>5 DEF Minds
  <2>6. CASE Requeue(h)
    <3>1. CASE record' = [record EXCEPT ![j] = WithStatus(call[h].rec, "queued")] /\ Set(h, "enqueue", j, call[h].rec)
      <4>1. record'[j].request = asked[j]
        BY <1>0, <1>1, <2>2, <3>1 DEF Record, WithStatus
      <4>2. Afresh(j, record'[j])
        BY <2>1, <2>2, <2>4, <4>1 DEF Afresh
      <4>4. call'[h].at = "enqueue" /\ call'[h].job = j /\ \A g \in Handler \ {h} : call'[g] = call[g]
        BY <1>0, <3>1 DEF Set
      <4>5. \A k \in Job \ {j} : record'[k] = record[k]
        BY <1>0, <3>1
      <4> QED
        BY <1>1, <2>1, <2>2, <2>4, <4>2, <4>4, <4>5 DEF Minds
    <3>2. CASE record' = [record EXCEPT ![j] = WithStatus(call[h].rec, "blocked")] /\ Hang(h)
      <4>1. ~Runnable(record'[j]) /\ ~AwaitsComfy(record'[j])
        BY <1>0, <1>1, <3>2 DEF Record, WithStatus, Runnable, AwaitsComfy, Terminal
      <4> QED
        BY <1>0, <1>1, <2>1, <3>2, <4>1 DEF Minds, Hang
    <3> QED
      BY <2>6, <3>1, <3>2 DEF Requeue
  <2> QED
    BY <1>5, <2>5, <2>6
<1>6. CASE EnqueueJob(h)
  BY <1>0, <1>1, <1>6 DEF EnqueueJob, Set, jobs, Minds, Enqueued
<1> QED
  BY <1>1, <1>2, <1>3, <1>4, <1>5, <1>6 DEF Proceed

-----------------------------------------------------------------------------
\* The job may be given to ComfyUI again for a demand it was given for.
Gave(j, request) == \E n \in DOMAIN comfy[j] : comfy[j][n].request = request

Again(j) ==
  \/ /\ Runnable(record[j]) /\ Gave(j, record[j].request)
     /\ \A w \in Worker : ~(pc[w] = "submitted" /\ hand[w].job = j)
  \/ \E w \in Worker : /\ pc[w] \in {"prepare", "submit"} /\ hand[w].job = j
                       /\ Gave(j, hand[w].rec.request)

Exposed(j) == Resubmissions(j) + (IF Again(j) THEN 1 ELSE 0)

Exposure == \A j \in Job : Exposed(j) <= crashes

NoMoreExposed == \A j \in Job : Exposed(j)' <= Exposed(j)

\* The demands ComfyUI was given the job for are finitely many.
LEMMA DemandsGiven ==
  ASSUME Typed, GivenAsked, NEW j \in Job
  PROVE  /\ IsFiniteSet({comfy[j][n].request : n \in DOMAIN comfy[j]})
         /\ Resubmissions(j) \in Int
<1>1. asked[j] \in Nat /\ comfy[j] \in Seq(Prompt)
  BY ConstantsAssumption DEF Typed, TypeOK, JobsOK
<1>2. IsFiniteSet(1..asked[j])
  BY <1>1, FS_Interval
<1>3. {comfy[j][n].request : n \in DOMAIN comfy[j]} \in SUBSET (1..asked[j])
  BY DEF GivenAsked
<1>4. IsFiniteSet({comfy[j][n].request : n \in DOMAIN comfy[j]})
  BY <1>2, <1>3, FS_Subset
<1>5. Cardinality({comfy[j][n].request : n \in DOMAIN comfy[j]}) \in Nat
  BY <1>4, FS_CardinalityType
<1>6. Len(comfy[j]) \in Nat
  BY <1>1, LenProperties
<1> QED
  BY <1>4, <1>5, <1>6 DEF Resubmissions

\* Where prompts only change their state, as many are given twice as before.
LEMMA SameGiven ==
  ASSUME Typed, Typed', SamePrompts, NEW j \in Job
  PROVE  Resubmissions(j)' = Resubmissions(j) /\ \A r : Gave(j, r)' <=> Gave(j, r)
<1>1. comfy[j] \in Seq(Prompt) /\ comfy'[j] \in Seq(Prompt)
  BY DEF Typed, TypeOK, JobsOK
<1>2. DOMAIN comfy'[j] = DOMAIN comfy[j] /\ \A n \in DOMAIN comfy[j] : comfy'[j][n].request = comfy[j][n].request
  BY DEF SamePrompts
<1>3. Len(comfy'[j]) = Len(comfy[j])
  <2>1. /\ DOMAIN comfy[j] = 1..Len(comfy[j]) /\ Len(comfy[j]) \in Nat
        /\ DOMAIN comfy'[j] = 1..Len(comfy'[j]) /\ Len(comfy'[j]) \in Nat
    BY <1>1, LenProperties
  <2> DEFINE a == Len(comfy[j])
             b == Len(comfy'[j])
  <2>2. 1..a = 1..b /\ a \in Nat /\ b \in Nat
    BY <1>2, <2>1
  <2> HIDE DEF a, b
  <2>3. a = b
    <3>1. CASE a > b
      <4>1. a \in 1..a /\ a \notin 1..b
        BY <2>2, <3>1
      <4> QED
        BY <2>2, <4>1
    <3>2. CASE b > a
      <4>1. b \in 1..b /\ b \notin 1..a
        BY <2>2, <3>2
      <4> QED
        BY <2>2, <4>1
    <3> QED
      BY <2>2, <3>1, <3>2
  <2> QED
    BY <2>3 DEF a, b
<1>4. {comfy'[j][n].request : n \in DOMAIN comfy'[j]} = {comfy[j][n].request : n \in DOMAIN comfy[j]}
  BY <1>2
<1> QED
  BY <1>2, <1>3, <1>4 DEF Resubmissions, Gave

\* A prompt more is one resubmission more only if its demand was answered before.
LEMMA OneMoreGiven ==
  ASSUME Typed, GivenAsked, NEW j \in Job, NEW p \in Prompt, comfy' = [comfy EXCEPT ![j] = Append(@, p)]
  PROVE  Resubmissions(j)' = Resubmissions(j) + (IF Gave(j, p.request) THEN 1 ELSE 0)
<1> DEFINE given == {comfy[j][n].request : n \in DOMAIN comfy[j]}
<1>1. comfy \in [Job -> Seq(Prompt)] /\ comfy[j] \in Seq(Prompt) /\ comfy'[j] = Append(comfy[j], p)
  BY DEF Typed, TypeOK, JobsOK
<1>2. /\ Len(comfy[j]) \in Nat /\ DOMAIN comfy[j] = 1..Len(comfy[j])
      /\ comfy'[j] \in Seq(Prompt) /\ Len(comfy'[j]) = Len(comfy[j]) + 1
      /\ comfy'[j][Len(comfy[j]) + 1] = p /\ \A n \in 1..Len(comfy[j]) : comfy'[j][n] = comfy[j][n]
  BY <1>1, AppendProperties, LenProperties
<1>3. DOMAIN comfy'[j] = 1..(Len(comfy[j]) + 1)
  BY <1>2, LenProperties
<1>4. {comfy'[j][n].request : n \in DOMAIN comfy'[j]} = given \cup {p.request}
  <2>1. \A n \in DOMAIN comfy'[j] : n \in DOMAIN comfy[j] \/ n = Len(comfy[j]) + 1
    BY <1>2, <1>3
  <2>2. DOMAIN comfy[j] \subseteq DOMAIN comfy'[j] /\ Len(comfy[j]) + 1 \in DOMAIN comfy'[j]
    BY <1>2, <1>3
  <2>3. \A n \in DOMAIN comfy[j] : comfy'[j][n].request = comfy[j][n].request
    BY <1>2
  <2>4. comfy'[j][Len(comfy[j]) + 1].request = p.request
    BY <1>2
  <2> QED
    BY <2>1, <2>2, <2>3, <2>4
<1>5. IsFiniteSet(given)
  BY DemandsGiven
<1>6. Cardinality(given \cup {p.request}) = IF p.request \in given THEN Cardinality(given) ELSE Cardinality(given) + 1
  BY <1>5, FS_AddElement
<1>7. Cardinality(given) \in Nat
  BY <1>5, FS_CardinalityType
<1>8. p.request \in given <=> Gave(j, p.request)
  BY DEF Gave
<1> HIDE DEF given
<1>9. Resubmissions(j)' = Len(comfy'[j]) - Cardinality(given \cup {p.request}) /\ Resubmissions(j) = Len(comfy[j]) - Cardinality(given)
  BY <1>4 DEF Resubmissions, given
<1> QED
  BY <1>2, <1>6, <1>7, <1>8, <1>9

-----------------------------------------------------------------------------
LEMMA CrashesCount == Typed => crashes \in Nat
BY ConstantsAssumption DEF Typed, TypeOK

\* How exposed a job is can be counted.
LEMMA ExposedCount ==
  ASSUME Typed, Settling, NEW j \in Job
  PROVE  Resubmissions(j) \in Int /\ Exposed(j) \in Int
<1>1. Resubmissions(j) \in Int
  BY DemandsGiven DEF Settling
<1>2. CASE Again(j)
  BY <1>1, <1>2 DEF Exposed
<1>3. CASE ~Again(j)
  BY <1>1, <1>3 DEF Exposed
<1> QED
  BY <1>1, <1>2, <1>3

\* No job is exposed that was not.
LEMMA ExposureKept ==
  ASSUME Typed, Typed', Settling, SamePrompts, \A j \in Job : Again(j)' => Again(j)
  PROVE  NoMoreExposed
<1> SUFFICES ASSUME NEW j \in Job PROVE Exposed(j)' <= Exposed(j)
  BY DEF NoMoreExposed
<1>1. Resubmissions(j)' = Resubmissions(j)
  BY SameGiven
<1>2. Again(j)' => Again(j)
  OBVIOUS
<1> QED
  BY <1>1, <1>2, ExposedCount DEF Exposed

\* A worker at work on an entry submits it a second time only if it was exposed.
LEMMA WorksExposed ==
  ASSUME Typed, Typed', Solo, Settling, NEW w \in Worker, Works(w)
  PROVE  NoMoreExposed
<1> SUFFICES ASSUME NEW j \in Job, hand[w].job = j PROVE NoMoreExposed
  BY DEF Works
<1> DEFINE r == hand[w].rec
<1>0. /\ hand \in [Worker -> Hand] /\ pc \in [Worker -> WorkerSteps] /\ record \in [Job -> Record] /\ comfy \in [Job -> Seq(Prompt)]
      /\ j \in Job /\ r \in Record /\ record[j] \in Record /\ pc[w] \in Carrying /\ pc[w] # "down"
      /\ crashes' = crashes
  BY DEF Typed, TypeOK, JobsOK, WorkersOK, Works, Carrying, Hand
<1>1. \A v \in Worker : v # w => pc'[v] = pc[v] /\ hand'[v] = hand[v] /\ pc[v] = "down"
  BY <1>0, OthersDown DEF Works, Loads, Submits, Finishes, Keeps
<1>2. hand'[w].job = j
  BY <1>0 DEF Works, Loads, Submits, Finishes, Keeps
<1>3. \A k \in Job : k # j => record'[k] = record[k] /\ comfy'[k] = comfy[k]
  BY <1>0 DEF Works, Loads, Submits, Finishes, Saves, SavesNothing
<1>4. \A k \in Job : k # j => (Again(k)' <=> Again(k))
  BY <1>1, <1>2, <1>3 DEF Again, Gave
<1>5. CASE comfy' = comfy
  <2>0. SamePrompts /\ \A q : Gave(j, q)' <=> Gave(j, q)
    BY <1>5 DEF SamePrompts, Gave
  <2>1. Again(j)' => Again(j)
    <3>1. /\ Again(j) <=> \/ pc[w] # "submitted" /\ Runnable(record[j]) /\ Gave(j, record[j].request)
                          \/ pc[w] \in {"prepare", "submit"} /\ Gave(j, r.request)
          /\ Again(j)' <=> \/ pc'[w] # "submitted" /\ Runnable(record'[j]) /\ Gave(j, record'[j].request)
                           \/ pc'[w] \in {"prepare", "submit"} /\ Gave(j, hand'[w].rec.request)
      BY <1>0, <1>1, <1>2, <2>0 DEF Again
    <3>2. CASE Loads(w)
      <4>1. \A status : WithStatus(record[j], status).status = status /\ WithStatus(record[j], status).request = record[j].request
        BY <1>0 DEF WithStatus, Record
      <4>2. pc[w] = "load"
        BY <3>2 DEF Loads
      <4>3. CASE \/ record[j].status \in Terminal /\ Keeps(w, "settle", record[j], ResultOf(record[j].status)) /\ SavesNothing
                 \/ AwaitsComfy(record[j]) /\ Keeps(w, "poll", record[j], hand[w].result) /\ SavesNothing
        BY <1>0, <3>1, <4>2, <4>3 DEF Keeps, SavesNothing
      <4>4. CASE Keeps(w, "settle", record[j], "failed") /\ Saves(j, WithStatus(record[j], "blocked"))
        <5>1. ~Runnable(record'[j]) /\ pc'[w] = "settle"
          BY <1>0, <4>1, <4>4 DEF Keeps, Saves, Runnable, Terminal
        <5> QED
          BY <3>1, <5>1
      <4>5. CASE /\ Runnable(record[j]) /\ Keeps(w, "prepare", WithStatus(record[j], "running"), hand[w].result)
                 /\ Saves(j, WithStatus(record[j], "running"))
        <5>1. record'[j].request = record[j].request /\ hand'[w].rec.request = record[j].request
          BY <1>0, <4>1, <4>5 DEF Keeps, Saves
        <5> QED
          BY <3>1, <4>2, <4>5, <5>1
      <4> QED
        BY <3>2, <4>3, <4>4, <4>5 DEF Loads
    <3>3. CASE Submits(w)
      <4>1. CASE pc[w] = "prepare" /\ Keeps(w, "submit", r, hand[w].result) /\ Saves(j, r)
        <5>1. record'[j] = r /\ hand'[w].rec = r
          BY <1>0, <4>1 DEF Keeps, Saves
        <5> QED
          BY <3>1, <4>1, <5>1
      <4>2. ASSUME NEW prompt, Keeps(w, "settle", r, "retryable"),
                   Saves(j, [r EXCEPT !.status = "error", !.prompt = prompt])
            PROVE  Again(j)' => Again(j)
        <5>1. ~Runnable(record'[j]) /\ pc'[w] = "settle"
          BY <1>0, <4>2, ErrorEnds DEF Keeps, Saves
        <5> QED
          BY <3>1, <5>1
      <4>3. CASE pc[w] = "submitted" /\ Keeps(w, "settle", r, "queued") /\ Saves(j, r)
        <5>1. ~Runnable(r)
          BY <4>3 DEF Settling, Prompted, Heard, Runnable, AwaitsComfy
        <5>2. record'[j] = r /\ pc'[w] = "settle"
          BY <1>0, <4>3 DEF Keeps, Saves
        <5> QED
          BY <3>1, <5>1, <5>2
      <4>4. CASE comfy' = [comfy EXCEPT ![j] = Append(@, [state |-> "active", request |-> r.request])]
        <5>1. Len(comfy'[j]) = Len(comfy[j]) + 1 /\ Len(comfy[j]) \in Nat
          <6>1. [state |-> "active", request |-> r.request] \in Prompt
            BY <1>0 DEF Prompt, PromptState, Record
          <6> QED
            BY <1>0, <4>4, <6>1, AppendProperties, LenProperties
        <5> QED
          BY <1>5, <5>1
      <4> QED
        BY <3>3, <4>1, <4>2, <4>3, <4>4 DEF Submits
    <3>4. CASE Finishes(w)
      <4>1. CASE pc[w] = "answer" /\ Keeps(w, "settle", r, ResultOf(r.status)) /\ Saves(j, r)
        <5>1. ~Runnable(r)
          BY <4>1 DEF Settling, Prompted, Heard, Runnable, AwaitsComfy, Polled, Terminal
        <5>2. record'[j] = r /\ pc'[w] = "settle"
          BY <1>0, <4>1 DEF Keeps, Saves
        <5> QED
          BY <3>1, <5>1, <5>2
      <4>2. CASE pc[w] \in {"poll", "settle"} /\ pc'[w] \in {"answer", "unlink"} /\ record' = record
        BY <3>1, <4>2
      <4> QED
        BY <1>0, <3>4, <4>1, <4>2 DEF Finishes, Keeps, SavesNothing
    <3> QED
      BY <3>2, <3>3, <3>4 DEF Works
  <2> QED
    BY <1>0, <1>4, <2>0, <2>1, ExposureKept
<1>6. CASE /\ pc[w] = "submit" /\ pc'[w] = "submitted"
           /\ comfy' = [comfy EXCEPT ![j] = Append(@, [state |-> "active", request |-> r.request])]
  <2> DEFINE p == [state |-> "active", request |-> r.request]
  <2>1. p \in Prompt /\ p.request = r.request
    BY <1>0 DEF Prompt, PromptState, Record
  <2>2. comfy' = [comfy EXCEPT ![j] = Append(@, p)]
    BY <1>6
  <2> HIDE DEF p
  <2>3. Resubmissions(j)' = Resubmissions(j) + (IF Gave(j, r.request) THEN 1 ELSE 0)
    <3>1. Resubmissions(j)' = Resubmissions(j) + (IF Gave(j, p.request) THEN 1 ELSE 0)
      BY <1>0, <2>1, <2>2, OneMoreGiven DEF Settling
    <3> QED
      BY <2>1, <3>1
  <2>4. Gave(j, r.request) => Again(j)
    BY <1>6 DEF Again
  <2>5. ~Again(j)'
    BY <1>0, <1>1, <1>2, <1>6 DEF Again
  <2>6. ASSUME NEW k \in Job, k # j PROVE Resubmissions(k)' = Resubmissions(k)
    BY <1>3, <2>6 DEF Resubmissions
  <2>7. ASSUME NEW k \in Job PROVE Exposed(k)' <= Exposed(k)
    <3>1. Resubmissions(k) \in Int
      BY ExposedCount
    <3>2. CASE k = j
      BY <1>0, <2>3, <2>4, <2>5, <3>1, <3>2 DEF Exposed
    <3>3. CASE k # j
      BY <1>0, <1>4, <2>6, <3>1, <3>3 DEF Exposed
    <3> QED
      BY <3>2, <3>3
  <2> QED
    BY <2>7 DEF NoMoreExposed
<1> QED
  BY <1>0, <1>5, <1>6 DEF Works, Loads, Submits, Finishes, Saves, SavesNothing, Keeps

-----------------------------------------------------------------------------
\* About to submit, or just after it.
Submitting == {"prepare", "submit", "submitted"}

SameSubmitters == \A w \in Worker :
  pc[w] \in Submitting \/ pc'[w] \in Submitting => pc'[w] = pc[w] /\ hand'[w] = hand[w]

LEMMA WaitsSubmitters == ASSUME Waits PROVE SameSubmitters
BY DEF Waits, SameSubmitters, Submitting, Parked, Carrying

\* What is listed, taken up, put down or heard exposes nothing.
LEMMA QuietExposed ==
  ASSUME Typed, Typed', Settling, SamePrompts, SameSubmitters, record' = record
  PROVE  NoMoreExposed
<1>1. \A j \in Job : Again(j)' => Again(j)
  <2> SUFFICES ASSUME NEW j \in Job, Again(j)' PROVE Again(j)
    OBVIOUS
  <2>1. \A r : (\E n \in DOMAIN comfy'[j] : comfy'[j][n].request = r) => Gave(j, r)
    BY SameGiven DEF Gave
  <2>2. CASE /\ Runnable(record'[j])
             /\ \E n \in DOMAIN comfy'[j] : comfy'[j][n].request = record'[j].request
             /\ \A w \in Worker : ~(pc'[w] = "submitted" /\ hand'[w].job = j)
    <3>1. \A w \in Worker : ~(pc[w] = "submitted" /\ hand[w].job = j)
      BY <2>2 DEF SameSubmitters, Submitting
    <3>2. Runnable(record[j]) /\ Gave(j, record[j].request)
      BY <2>1, <2>2
    <3> QED
      BY <3>1, <3>2 DEF Again
  <2>3. CASE \E w \in Worker : /\ pc'[w] \in {"prepare", "submit"} /\ hand'[w].job = j
                               /\ \E n \in DOMAIN comfy'[j] : comfy'[j][n].request = hand'[w].rec.request
    <3>1. PICK w \in Worker : pc'[w] \in {"prepare", "submit"} /\ hand'[w].job = j /\ \E n \in DOMAIN comfy'[j] : comfy'[j][n].request = hand'[w].rec.request
      BY <2>3
    <3>2. pc[w] = pc'[w] /\ hand'[w] = hand[w]
      BY <3>1 DEF SameSubmitters, Submitting
    <3>3. Gave(j, hand[w].rec.request)
      BY <2>1, <3>1, <3>2
    <3> QED
      BY <3>1, <3>2, <3>3 DEF Again
  <2> QED
    BY <2>2, <2>3 DEF Again, Gave
<1> QED
  BY <1>1, ExposureKept

\* A request makes a job one to be run only for a demand that ComfyUI does not know.
LEMMA RequestExposed ==
  ASSUME Typed, Typed', Settling, SamePrompts, SameSubmitters,
         NEW h \in Handler, NEW j \in Job, Minds(h, j)
  PROVE  NoMoreExposed
<1>1. \A k \in Job : Again(k)' => Again(k)
  <2> SUFFICES ASSUME NEW k \in Job, Again(k)' PROVE Again(k)
    OBVIOUS
  <2>1. \A r : (\E n \in DOMAIN comfy'[k] : comfy'[k][n].request = r) => Gave(k, r)
    BY SameGiven DEF Gave
  <2>2. CASE /\ Runnable(record'[k])
             /\ \E n \in DOMAIN comfy'[k] : comfy'[k][n].request = record'[k].request
             /\ \A w \in Worker : ~(pc'[w] = "submitted" /\ hand'[w].job = k)
    <3>1. \A w \in Worker : ~(pc[w] = "submitted" /\ hand[w].job = k)
      BY <2>2 DEF SameSubmitters, Submitting
    <3>2. Runnable(record'[k]) /\ Gave(k, record'[k].request)
      BY <2>1, <2>2
    <3>3. record'[k] = record[k]
      <4>1. CASE k # j
        BY <4>1 DEF Minds
      <4>2. CASE k = j
        BY <3>2, <4>2 DEF Minds, Afresh, Gave
      <4> QED
        BY <4>1, <4>2
    <3> QED
      BY <3>1, <3>2, <3>3 DEF Again
  <2>3. CASE \E w \in Worker : /\ pc'[w] \in {"prepare", "submit"} /\ hand'[w].job = k
                               /\ \E n \in DOMAIN comfy'[k] : comfy'[k][n].request = hand'[w].rec.request
    <3>1. PICK w \in Worker : pc'[w] \in {"prepare", "submit"} /\ hand'[w].job = k /\ \E n \in DOMAIN comfy'[k] : comfy'[k][n].request = hand'[w].rec.request
      BY <2>3
    <3>2. pc[w] = pc'[w] /\ hand'[w] = hand[w]
      BY <3>1 DEF SameSubmitters, Submitting
    <3>3. Gave(k, hand[w].rec.request)
      BY <2>1, <3>1, <3>2
    <3> QED
      BY <3>1, <3>2, <3>3 DEF Again
  <2> QED
    BY <2>2, <2>3 DEF Again, Gave
<1> QED
  BY <1>1, ExposureKept

\* Where no prompt is added, a job is exposed once more at most.
LEMMA OnceMoreExposed ==
  ASSUME Typed, Typed', Settling, SamePrompts, NEW j \in Job
  PROVE  Exposed(j)' <= Exposed(j) + 1
<1>1. Resubmissions(j)' = Resubmissions(j)
  BY SameGiven
<1> QED
  BY <1>1, ExposedCount DEF Exposed

\* A crash may expose every job once more, and counts.
LEMMA CrashExposed ==
  ASSUME Typed, Typed', Settling, ApiCrash
  PROVE  crashes' = crashes + 1 /\ \A j \in Job : Exposed(j)' <= Exposed(j) + 1
<1>1. comfy' = comfy /\ crashes' = crashes + 1
  BY DEF ApiCrash, Kill, jobs
<1>2. SamePrompts
  BY <1>1 DEF SamePrompts
<1> QED
  BY <1>1, <1>2, OnceMoreExposed

LEMMA ListSubmitters ==
  ASSUME Typed, NEW w \in Worker, \/ Lists(w) \/ (\E j \in Job : \E e : Takes(w, j, e)) \/ \E e : PutsDown(w, e)
  PROVE  SameSubmitters /\ SamePrompts /\ crashes' = crashes /\ record' = record /\ comfy' = comfy
<1>0. pc \in [Worker -> WorkerSteps] /\ hand \in [Worker -> Hand]
  BY DEF Typed, TypeOK, WorkersOK
<1> QED
  BY <1>0 DEF Lists, Takes, PutsDown, SameSubmitters, SamePrompts, Submitting

-----------------------------------------------------------------------------
\* A step of the embedded worker is work, or lists, takes up or puts down an entry.
LEMMA PassEffect ==
  ASSUME Typed, NEW w \in Worker, Pass(w)
  PROVE  \/ Works(w)
         \/ Lists(w) \/ (\E j \in Job : \E e : Takes(w, j, e))
         \/ PutsDown(w, Postponed(hand[w].entry)) /\ pc[w] = "settle" /\ StaysPending(hand[w].entry, hand[w].result)
         \/ PutsDown(w, Absent) /\ pc[w] = "unlink"
BY WorkEffect, ListEffect, TakeEffect, PutDownEffect DEF Pass

\* A request goes on with one job, and leaves the workers and the prompts as they are.
LEMMA ClientEffect ==
  ASSUME Alone, Typed, Typed', Grounded, Settling, NEW h \in Handler, Client(h)
  PROVE  Waits /\ SamePrompts /\ crashes' = crashes /\ \E j \in Job : Minds(h, j)
<1>1. SamePrompts
  BY CreateSettled, GetSettled, CancelSettled, RetrySettled, ProceedSettled DEF Client
<1>2. \E j \in Job : Minds(h, j)
  BY RequestMinds, ProceedMinds DEF Client
<1>3. crashes' = crashes
  BY DEF Client, Create, Get, Cancel, Retry, Proceed, Ask, SaveAnswer, Unqueue, Discard,
         Interrupt, SaveCancelled, Assess, Requeue, EnqueueJob, Wake
<1> QED
  BY <1>1, <1>2, <1>3, ClientWaits

\* Every other step is a crash, or only waits while a delay goes by or ComfyUI ends a prompt.
Elapses ==
  /\ Waits /\ SamePrompts /\ UNCHANGED <<archived, record, asked, call, crashes>>
  /\ \/ pending' = pending
     \/ \E j \in Job : \E e : /\ pending[j].status = "queued" /\ e.status = "queued"
                              /\ pending' = [pending EXCEPT ![j] = e]

LEMMA NextEffect ==
  ASSUME Alone, Typed, [Next]_vars
  PROVE  \/ \E w \in Worker : Pass(w)
         \/ \E h \in Handler : Client(h)
         \/ ApiCrash
         \/ Elapses
<1>1. CASE UNCHANGED vars
  BY <1>1 DEF vars, Waits, SamePrompts, Elapses
<1>2. ASSUME \/ \E t \in Thread : EndThread(t) \/ ClearBeat(t) \/ Unregister(t)
             \/ \E p \in Process : Boot(p) \/ Look(p) \/ StopExternal(p) \/ IdleShutdown(p) \/ ClearBeat(p)
             \/ Operator \/ ComfyEnds \/ HeartbeatExpires \/ ApiBoot \/ \E j \in Job : DelayElapses(j)
      PROVE  Elapses
  <2>1. Waits /\ UNCHANGED <<archived, record, asked, call, crashes>>
    BY <1>2, OthersWait
  <2>2. SamePrompts /\ (\/ pending' = pending
                        \/ \E j \in Job : \E e : /\ pending[j].status = "queued" /\ e.status = "queued"
                                                 /\ pending' = [pending EXCEPT ![j] = e])
    BY <1>2, OthersWrite
  <2> QED
    BY <2>1, <2>2 DEF Elapses
<1> QED
  BY <1>1, <1>2 DEF Next, Environment, Alone

\* A step exposes a job once more only if it is a crash.
LEMMA StepExposed ==
  ASSUME Alone, Typed, Typed', Grounded, Solo, Settling, [Next]_vars, NEW j \in Job, Exposed(j)' \in Int
  PROVE  Exposed(j)' + crashes <= Exposed(j) + crashes'
<1>0. Exposed(j) \in Int /\ crashes \in Nat /\ crashes' \in Nat
  BY ExposedCount, CrashesCount, ConstantsAssumption DEF Typed, TypeOK
<1>1. ASSUME NEW w \in Worker, Pass(w) PROVE crashes' = crashes /\ NoMoreExposed
  <2>1. CASE Works(w)
    BY <2>1, WorksExposed DEF Works
  <2>2. CASE \/ Lists(w) \/ (\E k \in Job : \E e : Takes(w, k, e)) \/ \E e : PutsDown(w, e)
    BY <2>2, ListSubmitters, QuietExposed
  <2> QED
    BY <1>1, <2>1, <2>2, PassEffect
<1>2. ASSUME NEW h \in Handler, Client(h) PROVE crashes' = crashes /\ NoMoreExposed
  BY <1>2, ClientEffect, WaitsSubmitters, RequestExposed
<1>3. CASE Elapses
  <2>1. crashes' = crashes /\ NoMoreExposed
    BY <1>3, WaitsSubmitters, QuietExposed DEF Elapses
  <2> QED
    BY <1>0, <2>1 DEF NoMoreExposed
<1>4. CASE ApiCrash
  BY <1>0, <1>4, CrashExposed
<1>5. crashes' = crashes /\ NoMoreExposed => Exposed(j)' + crashes <= Exposed(j) + crashes'
  BY <1>0 DEF NoMoreExposed
<1> QED
  BY <1>1, <1>2, <1>3, <1>4, <1>5, NextEffect

\* Every job's exposure is a number.
Countable == \A j \in Job : Exposed(j) \in Int

LEMMA InitExposed == Init => Exposure
<1> SUFFICES ASSUME Init, NEW j \in Job PROVE Resubmissions(j) + (IF Again(j) THEN 1 ELSE 0) <= crashes
  BY DEF Exposure, Exposed
<1>1. comfy[j] = <<>> /\ crashes = 0
  BY DEF Init
<1>2. DOMAIN comfy[j] = {} /\ Len(comfy[j]) = 0
  BY <1>1, EmptySeq
<1>3. {comfy[j][n].request : n \in DOMAIN comfy[j]} = {}
  BY <1>2
<1>4. Cardinality({comfy[j][n].request : n \in DOMAIN comfy[j]}) = 0
  BY <1>3, FS_EmptySet
<1>5. Resubmissions(j) = 0
  BY <1>2, <1>4 DEF Resubmissions
<1>6. ~Again(j)
  BY <1>2 DEF Again, Gave
<1> QED
  BY <1>1, <1>5, <1>6

\* With the embedded worker alone and patient users, however many requests overlap,
\* ComfyUI is given a job once for every demand, and once more for each crash at most.
THEOREM ResubmissionsHold ==
  ASSUME Alone
  PROVE  Spec => []ResubmissionsNeedCrashes
<1>1. Init => OneEmbeddedPass
  BY ConstantsAssumption DEF Init, OneEmbeddedPass, Worker
<1>2. Typed /\ [Next]_vars => Typed'
  BY StepTyped
<1>3. Typed /\ OneEmbeddedPass /\ [Next]_vars => OneEmbeddedPass'
  BY OneEmbeddedPassStep
<1>4. Typed /\ Typed' /\ Grounded /\ OneEmbeddedPass /\ Settling /\ Countable' /\ Exposure /\ [Next]_vars => Exposure'
  <2> SUFFICES ASSUME Typed, Typed', Grounded, OneEmbeddedPass, Settling, Countable', Exposure, [Next]_vars, NEW j \in Job
               PROVE  Exposed(j)' <= crashes'
    BY DEF Exposure
  <2>1. Exposed(j) \in Int /\ Exposed(j)' \in Int /\ crashes \in Nat /\ crashes' \in Nat
    BY ExposedCount, CrashesCount, ConstantsAssumption DEF Typed, TypeOK, Countable
  <2>2. Exposed(j)' + crashes <= Exposed(j) + crashes'
    BY <2>1, OneIsUp, StepExposed
  <2>3. Exposed(j) <= crashes
    BY DEF Exposure
  <2> QED
    BY <2>1, <2>2, <2>3
<1>5. Typed /\ Settling /\ Exposure => ResubmissionsNeedCrashes
  <2> SUFFICES ASSUME Typed, Settling, Exposure, NEW j \in Job PROVE Resubmissions(j) <= crashes
    BY DEF ResubmissionsNeedCrashes
  <2>1. Resubmissions(j) \in Int /\ crashes \in Nat
    BY DemandsGiven, CrashesCount DEF Settling
  <2>2. Resubmissions(j) + (IF Again(j) THEN 1 ELSE 0) <= crashes
    BY DEF Exposure, Exposed
  <2> QED
    BY <2>1, <2>2
<1>6. Spec => []Settling
  BY SettlingHolds
<1>7. Typed /\ Settling => Countable
  BY ExposedCount DEF Countable
<1> QED
  BY InitTyped, InitGrounded, InitExposed, <1>1, <1>2, <1>3, <1>4, <1>5, <1>6, <1>7, StepGrounded, PTL DEF Spec

\* While a worker polls an entry, or settles it, the job's record is not one to be run.
NothingToRun == \A w \in Worker :
  pc[w] \in {"poll", "answer", "settle", "unlink"} => ~Runnable(record[hand[w].job])

\* A worker puts an entry down, or polls it, only for a record that is not to be run.
LEMMA WorksNothing ==
  ASSUME Typed, Solo, Settling, NothingToRun, NEW w \in Worker, Works(w)
  PROVE  NothingToRun'
<1> DEFINE j == hand[w].job
<1>0. /\ hand \in [Worker -> Hand] /\ pc \in [Worker -> WorkerSteps] /\ record \in [Job -> Record] /\ j \in Job
      /\ pc[w] \in Carrying /\ pc[w] # "down"
  BY DEF Typed, TypeOK, JobsOK, WorkersOK, Works, Carrying
<1>1. \A v \in Worker : v # w => pc'[v] = pc[v] /\ hand'[v] = hand[v] /\ pc[v] = "down"
  BY <1>0, OthersDown DEF Works, Loads, Submits, Finishes, Keeps
<1>2. hand'[w].job = j
  BY <1>0 DEF Works, Loads, Submits, Finishes, Keeps
<1>3. pc'[w] \in {"poll", "answer", "settle", "unlink"} => ~Runnable(record'[j])
  <2>0. hand[w].rec \in Record /\ record[j] \in Record
    BY <1>0 DEF Hand
  <2>1. CASE Loads(w)
    BY <1>0, <2>0, <2>1 DEF Loads, Keeps, Saves, SavesNothing, Runnable, WithStatus, Terminal, Record
  <2>2. CASE Submits(w)
    <3>1. pc[w] = "submitted" => Heard(hand[w].rec, {"submitted"})
      BY DEF Settling, Prompted
    <3>2. ASSUME NEW prompt, record' = [record EXCEPT ![j] = [hand[w].rec EXCEPT !.status = "error", !.prompt = prompt]]
          PROVE  ~Runnable(record'[j])
      BY <1>0, <2>0, <3>2, ErrorEnds
    <3>3. CASE pc[w] = "submitted" /\ record' = [record EXCEPT ![j] = hand[w].rec]
      BY <1>0, <2>0, <3>1, <3>3 DEF Runnable, AwaitsComfy, Heard
    <3>4. CASE pc'[w] \in {"submit", "submitted"}
      BY <3>4
    <3>5. \/ pc'[w] \in {"submit", "submitted"}
          \/ \E prompt : record' = [record EXCEPT ![j] = [hand[w].rec EXCEPT !.status = "error", !.prompt = prompt]]
          \/ pc[w] = "submitted" /\ record' = [record EXCEPT ![j] = hand[w].rec]
      BY <1>0, <2>2 DEF Submits, Keeps, Saves
    <3> QED
      BY <3>2, <3>3, <3>4, <3>5
  <2>3. CASE Finishes(w)
    <3>1. pc[w] = "answer" => Heard(hand[w].rec, Polled)
      BY DEF Settling, Prompted
    <3>2. pc[w] \in {"poll", "settle"} => ~Runnable(record[j])
      BY DEF NothingToRun
    <3> QED
      BY <1>0, <2>0, <2>3, <3>1, <3>2
         DEF Finishes, Keeps, Saves, SavesNothing, Runnable, AwaitsComfy, Terminal, Heard, Polled
  <2> QED
    BY <2>1, <2>2, <2>3 DEF Works
<1> QED
  BY <1>1, <1>2, <1>3 DEF NothingToRun

\* Every step leaves it at that.
LEMMA StepNothing ==
  ASSUME Alone, Typed, Typed', Grounded, Solo, Settling, NothingToRun, [Next]_vars
  PROVE  NothingToRun'
<1>0. pc \in [Worker -> WorkerSteps] /\ hand \in [Worker -> Hand]
  BY DEF Typed, TypeOK, WorkersOK
<1>1. ASSUME NEW w \in Worker, Lists(w) \/ (\E j \in Job : \E e : Takes(w, j, e)) \/ \E e : PutsDown(w, e)
      PROVE  NothingToRun'
  <2>1. pc[w] # "down" /\ pc'[w] \notin {"poll", "answer", "settle", "unlink"}
    BY <1>0, <1>1 DEF Lists, Takes, PutsDown
  <2>2. \A v \in Worker : v # w => pc'[v] = pc[v] /\ pc[v] = "down"
    BY <1>0, <1>1, <2>1, OthersDown DEF Lists, Takes, PutsDown
  <2> QED
    BY <2>1, <2>2 DEF NothingToRun
<1>2. ASSUME NEW h \in Handler, Client(h) PROVE NothingToRun'
  <2>1. PICK j \in Job : Waits /\ Minds(h, j)
    BY <1>2, ClientEffect
  <2> SUFFICES ASSUME NEW w \in Worker, pc'[w] \in {"poll", "answer", "settle", "unlink"}
               PROVE  ~Runnable(record'[hand'[w].job])
    BY DEF NothingToRun
  <2>2. pc'[w] = pc[w] /\ hand'[w] = hand[w] /\ hand[w].job \in Job
    BY <2>1 DEF Waits, Parked, Carrying, Typed, CarriesJob
  <2>3. ~Runnable(record[hand[w].job])
    BY <2>2 DEF NothingToRun
  <2>4. record'[hand[w].job] = record[hand[w].job] \/ ~Runnable(record'[hand[w].job])
    BY <2>1, <2>2 DEF Minds, Afresh, InHand
  <2> QED
    BY <2>2, <2>3, <2>4
<1>3. CASE ApiCrash
  BY <1>3 DEF ApiCrash, Kill, NothingToRun, Alone, Worker
<1>4. CASE Elapses
  BY <1>4 DEF Elapses, Waits, NothingToRun, Parked, Carrying
<1> QED
  BY <1>1, <1>2, <1>3, <1>4, NextEffect, PassEffect, WorksNothing

\* What the embedded worker polls, settles or puts away is not to be run again.
THEOREM NothingToRunHolds ==
  ASSUME Alone
  PROVE  Spec => []NothingToRun
<1>1. Init => OneEmbeddedPass /\ NothingToRun
  BY ConstantsAssumption DEF Init, OneEmbeddedPass, Worker, NothingToRun
<1>2. Typed /\ [Next]_vars => Typed'
  BY StepTyped
<1>3. Typed /\ OneEmbeddedPass /\ [Next]_vars => OneEmbeddedPass'
  BY OneEmbeddedPassStep
<1>4. Typed /\ Typed' /\ Grounded /\ OneEmbeddedPass /\ Settling /\ NothingToRun /\ [Next]_vars => NothingToRun'
  BY OneIsUp, StepNothing
<1>5. Spec => []Settling
  BY SettlingHolds
<1> QED
  BY InitTyped, InitGrounded, <1>1, <1>2, <1>3, <1>4, <1>5, StepGrounded, PTL DEF Spec

-----------------------------------------------------------------------------
\* What requests do to the history: only a cancellation writes it, and then goes on to
\* discard the entry.
LEMMA ClientArchives ==
  ASSUME Typed, Typed', Grounded, Settling, NEW h \in Handler, Client(h)
  PROVE  /\ \A k \in Job : archived'[k] \in {archived[k], "cancelled"} /\ asked'[k] >= asked[k]
         /\ \A g \in Handler : call'[g].at = "discard" => call'[g] = call[g] \/ archived'[call'[g].job] = "cancelled"
<1>0. /\ archived \in [Job -> Outcome \cup {"none"}] /\ call \in [Handler -> Call]
      /\ asked \in [Job -> Nat] /\ asked' \in [Job -> Nat] /\ Idle.at = "idle"
  BY ConstantsAssumption DEF Typed, TypeOK, FilesOK, JobsOK, ApiOK, Idle
<1>1. \A k \in Job : asked'[k] >= asked[k]
  <2>1. CASE asked' = asked
    BY <1>0, <2>1
  <2>2. ASSUME NEW j \in Job, Create(h, j) PROVE \A k \in Job : asked'[k] >= asked[k]
    <3>1. asked[j] = 0 /\ asked' = [asked EXCEPT ![j] = 1]
      BY <2>2, RecordMeansAsked DEF Create
    <3> QED
      BY <1>0, <3>1
  <2>3. ASSUME NEW j \in Job, Retry(h, j) PROVE \A k \in Job : asked'[k] >= asked[k]
    BY <1>0, <2>3 DEF Retry
  <2> QED
    BY <2>1, <2>2, <2>3 DEF Client, Get, Cancel, Proceed, Ask, SaveAnswer, Unqueue, Discard,
       Interrupt, SaveCancelled, Assess, Requeue, EnqueueJob, Wake, jobs
<1>2. CASE Unqueue(h)
  <2> DEFINE j == call[h].job
  <2>1. CASE Hang(h) /\ UNCHANGED archived
    BY <1>0, <1>1, <2>1 DEF Hang
  <2>2. CASE archived' = [archived EXCEPT ![j] = "cancelled"] /\ Set(h, "discard", j, NoRecord)
    <3>1. call'[h].job = j /\ \A g \in Handler \ {h} : call'[g] = call[g]
      BY <1>0, <2>2 DEF Set
    <3>2. j \in Job
      BY <1>2 DEF Unqueue, Settling, Called
    <3> QED
      BY <1>0, <1>1, <2>2, <3>1, <3>2
  <2> QED
    BY <1>2, <2>1, <2>2 DEF Unqueue
<1>3. CASE ~Unqueue(h)
  <2>1. archived' = archived
    BY <1>3 DEF Client, Create, Get, Cancel, Retry, Proceed, Ask, SaveAnswer, Discard,
       Interrupt, SaveCancelled, Assess, Requeue, EnqueueJob, Wake, files
  <2>2. \/ call' = call \/ Hang(h)
        \/ \E at \in CallSteps \ {"discard"} : \E j, rec : Set(h, at, j, rec)
    BY <1>3 DEF Client, Create, Get, Cancel, Retry, Proceed, Ask, SaveAnswer, Discard,
       Interrupt, SaveCancelled, Assess, Requeue, EnqueueJob, Wake, CallSteps
  <2>3. \A g \in Handler : call'[g].at = "discard" => call'[g] = call[g]
    BY <1>0, <2>2 DEF Hang, Set
  <2> QED
    BY <1>1, <2>1, <2>3
<1> QED
  BY <1>2, <1>3

\* The job was demanded again, and a cancellation has archived an entry of it.
CancelledLate(j) == asked[j] > 1 /\ archived[j] = "cancelled"

\* A cancellation discards the entry of a job that is to be run only if the job was demanded
\* again, or a worker is about to submit it.
Spares(h) ==
  LET j == call[h].job
  IN  \/ ~Runnable(record[j])
      \/ \E w \in Worker : hand[w].job = j /\ pc[w] \in Submitting
      \/ call[h].at = "unqueue" /\ asked[j] > 1
      \/ CancelledLate(j)

Spared == \A h \in Handler : call[h].at \in {"unqueue", "discard"} => Spares(h)

LEMMA WorksSpared ==
  ASSUME Typed, Grounded, Solo, Settling, NothingToRun, Spared, NEW w \in Worker, Works(w)
  PROVE  Spared'
<1> SUFFICES ASSUME NEW j \in Job, hand[w].job = j PROVE Spared'
  BY DEF Works
<1> DEFINE r == hand[w].rec
<1>0. /\ hand \in [Worker -> Hand] /\ pc \in [Worker -> WorkerSteps] /\ record \in [Job -> Record]
      /\ r \in Record /\ record[j] \in Record /\ pc[w] \in Carrying /\ pc[w] # "down" /\ call' = call /\ asked' = asked
  BY DEF Typed, TypeOK, JobsOK, WorkersOK, Works, Carrying, Hand
<1>1. \A v \in Worker : v # w => pc'[v] = pc[v] /\ hand'[v] = hand[v] /\ pc[v] = "down"
  BY <1>0, OthersDown DEF Works, Loads, Submits, Finishes, Keeps
<1>2. hand'[w].job = j
  BY <1>0 DEF Works, Loads, Submits, Finishes, Keeps
<1>3. \A k \in Job : k # j => record'[k] = record[k] /\ archived'[k] = archived[k]
  BY <1>0 DEF Works, Loads, Submits, Finishes, Saves, SavesNothing
<1>4. \/ ~Runnable(record'[j])
      \/ pc'[w] \in Submitting
      \/ record'[j] = record[j] /\ pc[w] \notin Submitting
  <2>1. \A q \in Record : ~Runnable(WithStatus(q, "blocked"))
    BY DEF WithStatus, Record, Runnable, Terminal
  <2>2. CASE Loads(w)
    BY <1>0, <2>1, <2>2 DEF Loads, Keeps, Saves, SavesNothing, Submitting
  <2>3. CASE Submits(w)
    <3>1. pc[w] = "submitted" => ~Runnable(r)
      BY DEF Settling, Prompted, Heard, Runnable, AwaitsComfy
    <3>2. ASSUME NEW prompt, Saves(j, [r EXCEPT !.status = "error", !.prompt = prompt])
          PROVE  ~Runnable(record'[j])
      BY <1>0, <3>2, ErrorEnds DEF Saves
    <3> QED
      BY <1>0, <2>3, <3>1, <3>2 DEF Submits, Keeps, Saves, Submitting
  <2>4. CASE Finishes(w)
    <3>1. pc[w] = "answer" => ~Runnable(r)
      BY DEF Settling, Prompted, Heard, Runnable, AwaitsComfy, Polled, Terminal
    <3> QED
      BY <1>0, <2>4, <3>1 DEF Finishes, Keeps, Saves, SavesNothing, Submitting
  <2> QED
    BY <2>2, <2>3, <2>4 DEF Works
<1>5. archived'[j] = archived[j] \/ ~Runnable(record'[j])
  <2>1. CASE pc[w] = "settle"
    <3>1. ~Runnable(record[j])
      BY <2>1 DEF NothingToRun
    <3>2. record' = record
      BY <2>1 DEF Works, Loads, Submits, Finishes, SavesNothing
    <3> QED
      BY <3>1, <3>2
  <2> QED
    BY <2>1 DEF Works
<1>6. ASSUME NEW h \in Handler, call[h].at \in {"unqueue", "discard"}, Spares(h)
      PROVE  Spares(h)'
  <2>1. call[h].job \in Job
    BY <1>6 DEF Settling, Called
  <2>2. CASE call[h].job # j
    BY <1>0, <1>1, <1>3, <1>6, <2>1, <2>2 DEF Spares, CancelledLate
  <2>3. CASE call[h].job = j
    BY <1>0, <1>1, <1>2, <1>4, <1>5, <1>6, <2>3 DEF Spares, CancelledLate, Submitting
  <2> QED
    BY <2>2, <2>3
<1> QED
  BY <1>0, <1>6 DEF Spared

LEMMA QuietSpared ==
  ASSUME Spared, SameSubmitters, UNCHANGED <<archived, record, asked, call>>
  PROVE  Spared'
BY DEF Spared, Spares, CancelledLate, SameSubmitters

LEMMA RequestSpared ==
  ASSUME Typed, Typed', Grounded, Settling, Spared, SameSubmitters,
         NEW h \in Handler, Client(h), NEW j \in Job, Minds(h, j)
  PROVE  Spared'
<1> SUFFICES ASSUME NEW g \in Handler, call'[g].at \in {"unqueue", "discard"} PROVE Spares(g)'
  BY DEF Spared
<1>0. asked \in [Job -> Nat] /\ asked' \in [Job -> Nat]
  BY ConstantsAssumption DEF Typed, TypeOK, JobsOK
<1>1. /\ \A k \in Job : archived'[k] \in {archived[k], "cancelled"} /\ asked'[k] >= asked[k]
      /\ call'[g].at = "discard" => call'[g] = call[g] \/ archived'[call'[g].job] = "cancelled"
  BY ClientArchives
<1>2. \A k \in Job : /\ asked[k] > 1 => asked'[k] > 1
                     /\ CancelledLate(k) => CancelledLate(k)'
  BY <1>0, <1>1 DEF CancelledLate
<1>3. CASE g = h
  <2>1. call'[h].job = j /\ (~Runnable(record'[j]) \/ (record'[j] = record[j] /\ At(h, j, {"unqueue"})))
    BY <1>3 DEF Minds
  <2>2. CASE record'[j] = record[j] /\ At(h, j, {"unqueue"})
    <3>1. Spares(h) /\ call[h].job = j /\ call[h].at = "unqueue"
      BY <2>2 DEF Spared, At
    <3>2. call'[h].at = "discard" => archived'[j] = "cancelled"
      BY <1>1, <1>3, <2>1, <3>1
    <3>3. asked[j] > 1 => (call'[h].at = "unqueue" /\ asked'[j] > 1) \/ CancelledLate(j)'
      BY <1>2, <1>3, <3>2 DEF CancelledLate
    <3> QED
      BY <1>2, <1>3, <2>1, <2>2, <3>1, <3>3 DEF Spares, SameSubmitters
  <2> QED
    BY <1>3, <2>1, <2>2 DEF Spares
<1>4. CASE g # h
  <2>1. call'[g] = call[g] /\ Spares(g) /\ call[g].job \in Job /\ asked[call[g].job] > 0
    BY <1>4 DEF Minds, Spared, Settling, Called
  <2>2. CASE record'[call[g].job] = record[call[g].job]
    BY <1>2, <2>1, <2>2 DEF Spares, SameSubmitters
  <2>3. CASE ~Runnable(record'[call[g].job])
    BY <2>1, <2>3 DEF Spares
  <2>4. CASE call[g].job = j /\ asked[j] # 1 /\ call[g].at = "unqueue"
    <3>1. asked'[j] > 1
      BY <1>0, <1>2, <2>1, <2>4
    <3> QED
      BY <2>1, <2>4, <3>1 DEF Spares
  <2> QED
    BY <1>4, <2>1, <2>2, <2>3, <2>4 DEF Minds
<1> QED
  BY <1>3, <1>4

LEMMA CrashSpared == ASSUME ApiCrash PROVE Spared'
BY DEF ApiCrash, Spared, Idle

\* A job to be run has somebody to run it, or was cancelled late.
Tracked(j) == record[j].status \in {"queued", "running"} /\ record[j].prompt = 0 => HasEntry(j) \/ CancelledLate(j)

Attended == UnsubmittedJobIsTracked /\ Spared

LEMMA TrackedMeans == UnsubmittedJobIsTracked <=> (crashes = 0 => \A j \in Job : Tracked(j))
BY DEF UnsubmittedJobIsTracked, Tracked, CancelledLate

\* What is tracked stays tracked where the entry stays and the history of the job does.
LEMMA TrackedStays ==
  ASSUME NEW j \in Job, Tracked(j), record'[j] = record[j], call' = call, asked' = asked, archived'[j] = archived[j],
         pending[j] # Absent => pending'[j] # Absent \/ \E w \in Worker : hand'[w].job = j,
         \A w \in Worker : hand[w].job = j => pending'[j] # Absent \/ \E v \in Worker : hand'[v].job = j
  PROVE  Tracked(j)'
BY DEF Tracked, HasEntry, CancelledLate

LEMMA ToBeRun ==
  ASSUME NEW rec, rec.status \in {"queued", "running"}, rec.prompt = 0
  PROVE  Runnable(rec)
BY DEF Runnable, AwaitsComfy, Terminal

LEMMA TrackedNext ==
  ASSUME UnsubmittedJobIsTracked, crashes' = crashes, \A k \in Job : Tracked(k) => Tracked(k)'
  PROVE  UnsubmittedJobIsTracked'
BY DEF UnsubmittedJobIsTracked, Tracked, CancelledLate

LEMMA WorksTracked ==
  ASSUME Typed, UnsubmittedJobIsTracked, NEW w \in Worker, Works(w)
  PROVE  UnsubmittedJobIsTracked'
<1> SUFFICES ASSUME NEW j \in Job, hand[w].job = j PROVE UnsubmittedJobIsTracked'
  BY DEF Works
<1>0. hand \in [Worker -> Hand] /\ record \in [Job -> Record]
  BY DEF Typed, TypeOK, JobsOK, WorkersOK
<1>1. \A v \in Worker : hand'[v].job = hand[v].job
  BY <1>0 DEF Works, Loads, Submits, Finishes, Keeps
<1>2. UNCHANGED <<pending, call, asked, crashes>>
  BY DEF Works
<1>3. ASSUME NEW k \in Job, k # j, Tracked(k) PROVE Tracked(k)'
  <2>1. record'[k] = record[k] /\ archived'[k] = archived[k]
    BY <1>0, <1>3 DEF Works, Loads, Submits, Finishes, Saves, SavesNothing
  <2> QED
    BY <1>1, <1>2, <1>3, <2>1, TrackedStays
<1>4. Tracked(j)'
  BY <1>1 DEF Tracked, HasEntry
<1> QED
  BY <1>2, <1>3, <1>4, TrackedNext

LEMMA PassTracked ==
  ASSUME Alone, Typed, Solo, Settling, NothingToRun, UnsubmittedJobIsTracked, NEW w \in Worker, Pass(w)
  PROVE  UnsubmittedJobIsTracked'
<1>0. /\ hand \in [Worker -> Hand] /\ pending \in [Job -> Entry]
      /\ Absent.status = "absent"
  BY DEF Typed, TypeOK, FilesOK, WorkersOK, Absent
<1>1. CASE Works(w)
  BY <1>1, WorksTracked
<1>2. CASE Lists(w)
  <2>1. \A k \in Job : pending[k] # Absent => pending'[k] # Absent
    <3>1. \A e : Enqueued(e).status = "queued"
      BY DEF Enqueued
    <3> QED
      BY <1>0, <1>2, <3>1 DEF Lists
  <2>2. UNCHANGED <<archived, record, asked, hand, call, crashes>>
    BY <1>2 DEF Lists
  <2> QED
    BY <2>1, <2>2, TrackedStays, TrackedNext
<1>3. ASSUME NEW j \in Job, NEW e, Takes(w, j, e) PROVE UnsubmittedJobIsTracked'
  <2>1. e.status = "running" /\ hand[w].job = Nobody
    BY <1>3 DEF Takes, MarkedRunning, Settling, EmptyHanded, Carrying
  <2>2. \A k \in Job : pending[k] # Absent => pending'[k] # Absent
    BY <1>0, <1>3, <2>1 DEF Takes
  <2>3. \A v \in Worker, k \in Job : hand[v].job = k => hand'[v].job = k
    BY <1>0, <1>3, <2>1, ConstantsAssumption DEF Takes
  <2>4. UNCHANGED <<archived, record, asked, call, crashes>>
    BY <1>3 DEF Takes
  <2> QED
    BY <2>2, <2>3, <2>4, TrackedStays, TrackedNext
<1>4. ASSUME NEW e, PutsDown(w, e), e.status = "queued" \/ ~Runnable(record[hand[w].job])
      PROVE  UnsubmittedJobIsTracked'
  <2>1. UNCHANGED <<archived, record, asked, call, crashes>>
    BY <1>4 DEF PutsDown
  <2>2. ASSUME NEW k \in Job, k # hand[w].job, Tracked(k) PROVE Tracked(k)'
    <3>1. pending'[k] = pending[k] /\ \A v \in Worker : hand[v].job = k => hand'[v].job = k
      BY <1>0, <1>4, <2>2 DEF PutsDown
    <3> QED
      BY <2>1, <2>2, <3>1, TrackedStays
  <2>3. ASSUME NEW k \in Job, k = hand[w].job PROVE Tracked(k)'
    <3>1. pending'[k] = e
      BY <1>0, <1>4, <2>3 DEF PutsDown
    <3>2. CASE e.status = "queued"
      BY <1>0, <3>1, <3>2 DEF Tracked, HasEntry
    <3>3. CASE ~Runnable(record[k])
      BY <2>1, <3>3, ToBeRun DEF Tracked
    <3> QED
      BY <1>4, <2>3, <3>2, <3>3
  <2> QED
    BY <2>1, <2>2, <2>3, TrackedNext
<1>5. CASE PutsDown(w, Postponed(hand[w].entry))
  BY <1>4, <1>5 DEF Postponed
<1>6. CASE PutsDown(w, Absent) /\ pc[w] = "unlink"
  BY <1>4, <1>6 DEF NothingToRun
<1> QED
  BY <1>1, <1>2, <1>3, <1>5, <1>6, PassEffect

LEMMA RequestTracked ==
  ASSUME Typed, Typed', Grounded, Settling, Attended, NEW h \in Handler, Client(h),
         NEW j \in Job, Minds(h, j), Waits, crashes' = crashes
  PROVE  UnsubmittedJobIsTracked'
<1>0. hand' = hand /\ Absent.status = "absent"
  BY DEF Waits, Absent
<1>1. \A k \in Job : CancelledLate(k) => CancelledLate(k)'
  <2>1. asked \in [Job -> Nat] /\ asked' \in [Job -> Nat]
    BY ConstantsAssumption DEF Typed, TypeOK, JobsOK
  <2>2. \A k \in Job : archived'[k] \in {archived[k], "cancelled"} /\ asked'[k] >= asked[k]
    BY ClientArchives
  <2> QED
    BY <2>1, <2>2 DEF CancelledLate
<1>2. ASSUME NEW k \in Job, Tracked(k), k # j PROVE Tracked(k)'
  <2>1. record'[k] = record[k] /\ pending'[k] = pending[k]
    BY <1>2 DEF Minds
  <2>2. \A g \in Handler : call[g].at = "enqueue" /\ call[g].job = k => call'[g].at = "enqueue" /\ call'[g].job = k
    BY <1>2 DEF Minds
  <2> QED
    BY <1>0, <1>1, <1>2, <2>1, <2>2 DEF Tracked, HasEntry
<1>3. ASSUME Tracked(j), record'[j].status \in {"queued", "running"}, record'[j].prompt = 0
      PROVE  HasEntry(j)' \/ CancelledLate(j)'
  <2>1. Runnable(record'[j])
    BY <1>3, ToBeRun
  <2>2. CASE record'[j] # record[j]
    <3>1. call'[h].at = "enqueue" /\ call'[h].job = j
      BY <2>1, <2>2, <1>3 DEF Minds
    <3> QED
      BY <3>1 DEF HasEntry
  <2>3. CASE record'[j] = record[j]
    <3>1. CASE pending[j] # Absent
      <4>1. CASE pending'[j] = pending[j] \/ pending'[j].status = "queued"
        BY <1>0, <3>1, <4>1 DEF HasEntry
      <4>2. CASE call[h].at = "discard" /\ call[h].job = j
        <5>1. Spares(h)
          BY <4>2 DEF Attended, Spared
        <5> QED
          BY <1>0, <1>1, <2>1, <2>3, <4>2, <5>1 DEF Spares, HasEntry
      <4> QED
        BY <4>1, <4>2 DEF Minds, At
    <3>2. CASE \E w \in Worker : hand[w].job = j
      BY <1>0, <3>2 DEF HasEntry
    <3>3. ASSUME NEW g \in Handler, call[g].at = "enqueue", call[g].job = j
          PROVE  HasEntry(j)'
      <4>1. CASE g = h
        BY <1>0, <3>3, <4>1 DEF Minds, HasEntry
      <4>2. CASE g # h
        BY <3>3, <4>2 DEF Minds, HasEntry
      <4> QED
        BY <4>1, <4>2
    <3> QED
      BY <1>1, <1>3, <2>3, <3>1, <3>2, <3>3 DEF Tracked, HasEntry
  <2> QED
    BY <2>2, <2>3
<1>4. \A k \in Job : Tracked(k) => Tracked(k)'
  BY <1>2, <1>3 DEF Tracked
<1> QED
  BY <1>4, TrackedNext DEF Attended

LEMMA StepAttended ==
  ASSUME Alone, Typed, Typed', Grounded, Solo, Settling, NothingToRun, Attended, [Next]_vars
  PROVE  Attended'
<1>1. ASSUME NEW w \in Worker, Pass(w) PROVE Attended'
  <2>1. UnsubmittedJobIsTracked'
    BY <1>1, PassTracked DEF Attended
  <2>2. CASE Works(w)
    BY <2>1, <2>2, WorksSpared DEF Attended
  <2>3. CASE \/ Lists(w) \/ (\E j \in Job : \E e : Takes(w, j, e)) \/ \E e : PutsDown(w, e)
    <3>1. UNCHANGED <<archived, record, asked, call>>
      BY <2>3 DEF Lists, Takes, PutsDown
    <3> QED
      BY <2>1, <2>3, <3>1, ListSubmitters, QuietSpared DEF Attended
  <2> QED
    BY <1>1, <2>2, <2>3, PassEffect
<1>2. ASSUME NEW h \in Handler, Client(h) PROVE Attended'
  BY <1>2, ClientEffect, WaitsSubmitters, RequestSpared, RequestTracked DEF Attended
<1>3. CASE ApiCrash
  <2>1. crashes' = crashes + 1 /\ crashes \in Nat
    BY <1>3, CrashesCount DEF ApiCrash, Kill
  <2>2. crashes' # 0
    BY <2>1
  <2> QED
    BY <1>3, <2>2, CrashSpared DEF Attended, UnsubmittedJobIsTracked
<1>4. CASE Elapses
  <2>1. Spared'
    BY <1>4, WaitsSubmitters, QuietSpared DEF Elapses, Attended
  <2>2. \A k \in Job : pending[k] # Absent => pending'[k] # Absent
    <3>1. pending \in [Job -> Entry] /\ Absent.status = "absent"
      BY DEF Typed, TypeOK, FilesOK, Absent
    <3> QED
      BY <1>4, <3>1 DEF Elapses
  <2>3. UNCHANGED <<archived, record, asked, hand, call, crashes>>
    BY <1>4 DEF Elapses, Waits
  <2>4. UnsubmittedJobIsTracked'
    BY <2>2, <2>3, TrackedStays, TrackedNext DEF Attended
  <2> QED
    BY <2>1, <2>4 DEF Attended
<1> QED
  BY <1>1, <1>2, <1>3, <1>4, NextEffect

\* While no crash has happened, a job that was accepted and is not given to ComfyUI yet is
\* in the queue, in hand or about to be enqueued, however many requests overlap; only a
\* cancellation may take away the entry of a job that was demanded again meanwhile.
THEOREM TrackedHolds ==
  ASSUME Alone
  PROVE  Spec => []UnsubmittedJobIsTracked
<1>1. Init => OneEmbeddedPass
  BY ConstantsAssumption DEF Init, OneEmbeddedPass, Worker
<1>2. Typed /\ [Next]_vars => Typed'
  BY StepTyped
<1>3. Typed /\ OneEmbeddedPass /\ [Next]_vars => OneEmbeddedPass'
  BY OneEmbeddedPassStep
<1>4. Typed /\ Typed' /\ Grounded /\ OneEmbeddedPass /\ Settling /\ NothingToRun /\ Attended /\ [Next]_vars => Attended'
  BY OneIsUp, StepAttended
<1>5. Init => Attended
  BY DEF Init, Attended, Spared, UnsubmittedJobIsTracked, Idle, NoRecord
<1>6. Spec => []Settling /\ []NothingToRun
  BY SettlingHolds, NothingToRunHolds
<1>7. Attended => UnsubmittedJobIsTracked
  BY DEF Attended
<1> QED
  BY InitTyped, InitGrounded, <1>1, <1>2, <1>3, <1>4, <1>5, <1>6, <1>7, StepGrounded, PTL DEF Spec
=============================================================================
