------------------------- MODULE StudioPromise_proofs -------------------------
(***************************************************************************)
(* That StudioQueue implements QueuePromise for every set of jobs, workers *)
(* and requests.  The invariant behind it: nothing is on file, listed, in  *)
(* a worker's hand or in a request's that no user has demanded, and every  *)
(* copy of a record that may yet be written back belongs to a demand and   *)
(* is "done", or names a prompt, only if ComfyUI was given the job.        *)
(***************************************************************************)
EXTENDS StudioPromise, StudioQueue_proofs

Sound(rec, n, prompts) ==
  rec.request \in 1..n /\ (rec.status = "done" \/ rec.prompt > 0 => prompts # <<>>)

RecordsGrounded == \A j \in Job :
  IF asked[j] = 0 THEN record[j] = NoRecord ELSE Sound(record[j], asked[j], comfy[j])

EntriesGrounded == \A j \in Job : asked[j] = 0 =>
  /\ pending[j].status = "absent"
  /\ \A w \in Worker : todo[w][j].status # "queued"

Working == {"prepare", "submit", "submitted", "poll", "answer"}

HandsGrounded == \A w \in Worker :
  /\ pc[w] \in Carrying => asked[hand[w].job] > 0
  /\ pc[w] \in Working => Sound(hand[w].rec, asked[hand[w].job], comfy[hand[w].job])
  /\ pc[w] = "poll" => comfy[hand[w].job] # <<>>

Writing == {"ask", "answer", "interrupt", "interrupted", "assess", "requeue"}

CallsGrounded == \A h \in Handler :
  /\ call[h].at \in Writing \cup {"enqueue"} => call[h].job \in Job /\ asked[call[h].job] > 0
  /\ call[h].at \in Writing => Sound(call[h].rec, asked[call[h].job], comfy[call[h].job])
  /\ call[h].at = "ask" => comfy[call[h].job] # <<>>

Grounded == RecordsGrounded /\ EntriesGrounded /\ HandsGrounded /\ CallsGrounded

-----------------------------------------------------------------------------
\* A record that is sound stays so when more is demanded and more is given.
LEMMA SoundGrows ==
  ASSUME NEW rec, NEW n \in Nat, NEW m \in Nat, n <= m, NEW s, NEW r, s # <<>> => r # <<>>, Sound(rec, n, s)
  PROVE  Sound(rec, m, r)
BY DEF Sound

\* What is made of a sound record by a new status, other than "done", is sound.
LEMMA SoundStatus ==
  ASSUME NEW rec \in Record, NEW n, NEW s, Sound(rec, n, s), NEW status \in Status, status # "done" \/ s # <<>>
  PROVE  Sound(WithStatus(rec, status), n, s)
BY DEF Sound, WithStatus, Record

\* Nor does what ComfyUI answers unsettle it, when it was given the job.
LEMMA SoundRefreshed ==
  ASSUME NEW rec \in Record, NEW n, NEW s, s # <<>>, Sound(rec, n, s), NEW state, NEW r \in Refreshed(rec, state)
  PROVE  Sound(r, n, s)
<1>1. \E status \in {"done", "error", "running"} : r = WithStatus(rec, status)
  BY DEF Refreshed
<1>2. {"done", "error", "running"} \subseteq Status
  BY DEF Status, Active, Terminal
<1> QED
  BY <1>1, <1>2, SoundStatus

\* Prompts that were appended, or that change their state, answer the same demands.
LEMMA RequestsAppend ==
  ASSUME NEW s \in Seq(Prompt), NEW p \in Prompt
  PROVE  Requests(Append(s, p)) = Append(Requests(s), p.request)
<1>1. Requests(s) \in Seq(Nat) /\ Len(Requests(s)) = Len(s) /\ DOMAIN s = 1..Len(s) /\ Len(s) \in Nat
  <2>1. s \in [1..Len(s) -> Prompt] /\ Len(s) \in Nat
    BY LenProperties
  <2>2. Requests(s) \in [1..Len(s) -> Nat]
    BY <2>1 DEF Requests, Prompt
  <2> QED
    BY <2>1, <2>2, SeqDef, LenProperties
<1> QED
  BY <1>1, AppendProperties DEF Requests

LEMMA RequestsEmpty ==
  ASSUME NEW s \in Seq(Prompt)
  PROVE  Requests(s) = <<>> <=> s = <<>>
BY LenProperties, EmptySeq DEF Requests

LEMMA RequestsMove ==
  ASSUME NEW s \in Seq(Prompt), NEW n, NEW state
  PROVE  Requests([s EXCEPT ![n].state = state]) = Requests(s)
<1>1. s \in [1..Len(s) -> Prompt]
  BY LenProperties
<1> QED
  BY <1>1 DEF Requests, Prompt

-----------------------------------------------------------------------------
\* Nobody has demanded anything, and nothing is anywhere, in the beginning.
LEMMA InitGrounded == Init => Grounded
BY ConstantsAssumption
   DEF Init, Grounded, RecordsGrounded, EntriesGrounded, HandsGrounded, CallsGrounded, Carrying,
       Working, Writing, Absent, NoTodo, NoRecord, Idle

\* A sound record, or none, is written; the job's entry, in the queue or in the worker's
\* list, is replaced, or none; the worker takes up what it may go on with.
WritesSound(j) ==
  \/ record' = record
  \/ \E rec : record' = [record EXCEPT ![j] = rec] /\ Sound(rec, asked[j], comfy[j])

Replaces(w, j) ==
  \/ UNCHANGED <<pending, todo>>
  \/ \E e : /\ pending' = [pending EXCEPT ![j] = e]
            /\ todo' = todo \/ todo' = [todo EXCEPT ![w][j] = Absent]

TakesUp(w, step, hd) ==
  /\ pc' = [pc EXCEPT ![w] = step] /\ hand' = [hand EXCEPT ![w] = hd]
  /\ step \in Carrying => hd.job \in Job /\ asked[hd.job] > 0
  /\ step \in Working => Sound(hd.rec, asked[hd.job], comfy[hd.job])
  /\ step = "poll" => comfy[hd.job] # <<>>

\* A worker's step that does no more than that keeps everything grounded.
LEMMA WorkerGrounded ==
  ASSUME Typed, Grounded, NEW w \in Worker, UNCHANGED <<asked, comfy, call>>,
         NEW step, NEW hd, TakesUp(w, step, hd),
         NEW j \in Job, asked[j] > 0, WritesSound(j), Replaces(w, j)
  PROVE  Grounded'
<1>0. /\ record \in [Job -> Record] /\ pending \in [Job -> Entry]
      /\ todo \in [Worker -> [Job -> Entry]] /\ pc \in [Worker -> WorkerSteps] /\ hand \in [Worker -> Hand]
  BY DEF Typed, TypeOK, FilesOK, JobsOK, WorkersOK
<1>1. RecordsGrounded'
  <2> SUFFICES ASSUME NEW k \in Job
               PROVE  IF asked'[k] = 0 THEN record'[k] = NoRecord ELSE Sound(record'[k], asked'[k], comfy'[k])
    BY DEF RecordsGrounded
  <2>1. IF asked[k] = 0 THEN record[k] = NoRecord ELSE Sound(record[k], asked[k], comfy[k])
    BY DEF Grounded, RecordsGrounded
  <2>2. CASE record' = record
    BY <2>1, <2>2
  <2>3. ASSUME NEW rec, record' = [record EXCEPT ![j] = rec], Sound(rec, asked[j], comfy[j])
        PROVE  IF asked'[k] = 0 THEN record'[k] = NoRecord ELSE Sound(record'[k], asked'[k], comfy'[k])
    BY <1>0, <2>1, <2>3
  <2> QED
    BY <2>2, <2>3 DEF WritesSound
<1>2. EntriesGrounded'
  <2>1. ASSUME NEW k \in Job, asked'[k] = 0
        PROVE  pending'[k].status = "absent" /\ \A v \in Worker : todo'[v][k].status # "queued"
    <3>1. asked[k] = 0 /\ k # j
      BY <2>1
    <3>2. pending[k].status = "absent" /\ \A v \in Worker : todo[v][k].status # "queued"
      BY <3>1 DEF Grounded, EntriesGrounded
    <3>3. CASE UNCHANGED <<pending, todo>>
      BY <3>2, <3>3
    <3>4. ASSUME NEW e, pending' = [pending EXCEPT ![j] = e],
                 todo' = todo \/ todo' = [todo EXCEPT ![w][j] = Absent]
          PROVE  pending'[k] = pending[k] /\ \A v \in Worker : todo'[v][k] = todo[v][k]
      BY <1>0, <3>1, <3>4
    <3> QED
      BY <3>2, <3>3, <3>4 DEF Replaces
  <2> QED
    BY <2>1 DEF EntriesGrounded
<1>3. HandsGrounded'
  <2>1. ASSUME NEW v \in Worker, v # w
        PROVE  pc'[v] = pc[v] /\ hand'[v] = hand[v]
    BY <1>0, <2>1 DEF TakesUp
  <2>2. pc'[w] = step /\ hand'[w] = hd
    BY <1>0 DEF TakesUp
  <2> QED
    BY <2>1, <2>2 DEF Grounded, HandsGrounded, TakesUp
<1>4. CallsGrounded'
  BY DEF Grounded, CallsGrounded
<1> QED
  BY <1>1, <1>2, <1>3, <1>4 DEF Grounded

\* A worker that has an entry in hand has one that was demanded.
LEMMA CarriedWasDemanded ==
  ASSUME Typed, Grounded, NEW w \in Worker, pc[w] \in Carrying
  PROVE  /\ hand[w] \in Hand /\ hand[w].job \in Job /\ asked[hand[w].job] > 0
         /\ hand[w].rec \in Record
         /\ record[hand[w].job] \in Record
         /\ Sound(record[hand[w].job], asked[hand[w].job], comfy[hand[w].job])
         /\ hand = [hand EXCEPT ![w] = hand[w]]
BY DEF Typed, TypeOK, JobsOK, WorkersOK, Hand, CarriesJob, Grounded, HandsGrounded, RecordsGrounded

\* Loading, submitting and polling.
LEMMA LoadGrounded ==
  ASSUME Typed, Grounded, NEW w \in Worker, Load(w)
  PROVE  Grounded'
<1> DEFINE j == hand[w].job
           rec == record[j]
<1>1. pc[w] = "load" /\ pc[w] \in Carrying /\ UNCHANGED <<asked, comfy, call, pending, todo>>
  BY DEF Load, Carrying, files, api
<1>2. /\ hand[w] \in Hand /\ j \in Job /\ asked[j] > 0 /\ rec \in Record
      /\ Sound(rec, asked[j], comfy[j])
  BY <1>1, CarriedWasDemanded
<1>3. CASE /\ hand' = [hand EXCEPT ![w].rec = rec, ![w].result = ResultOf(rec.status)]
           /\ Goto(w, "settle") /\ UNCHANGED record
  <2> DEFINE hd == [hand[w] EXCEPT !.rec = rec, !.result = ResultOf(rec.status)]
  <2>1. hand' = [hand EXCEPT ![w] = hd] /\ hd \in Hand /\ hd.job = j
    BY <1>2, <1>3, ResultTypes DEF Hand
  <2>2. TakesUp(w, "settle", hd) /\ WritesSound(j) /\ Replaces(w, j)
    BY <1>1, <1>2, <1>3, <2>1 DEF TakesUp, WritesSound, Replaces, Goto, Working
  <2> HIDE DEF hd
  <2> QED
    BY <1>1, <1>2, <2>2, WorkerGrounded
<1>4. CASE AwaitsComfy(rec) /\ hand' = [hand EXCEPT ![w].rec = rec] /\ Goto(w, "poll") /\ UNCHANGED record
  <2> DEFINE hd == [hand[w] EXCEPT !.rec = rec]
  <2>1. hand' = [hand EXCEPT ![w] = hd] /\ hd \in Hand /\ hd.job = j /\ hd.rec = rec
    BY <1>2, <1>4 DEF Hand
  <2>2. comfy[j] # <<>>
    BY <1>2, <1>4 DEF AwaitsComfy, Sound
  <2> HIDE DEF hd
  <2>3. TakesUp(w, "poll", hd) /\ WritesSound(j) /\ Replaces(w, j)
    BY <1>1, <1>2, <1>4, <2>1, <2>2 DEF TakesUp, WritesSound, Replaces, Goto
  <2> QED
    BY <1>1, <1>2, <2>3, WorkerGrounded
<1>5. CASE /\ record' = [record EXCEPT ![j] = WithStatus(rec, "blocked")]
           /\ hand' = [hand EXCEPT ![w].rec = rec, ![w].result = "failed"] /\ Goto(w, "settle")
  <2> DEFINE hd == [hand[w] EXCEPT !.rec = rec, !.result = "failed"]
  <2>1. hand' = [hand EXCEPT ![w] = hd] /\ hd \in Hand /\ hd.job = j
    BY <1>2, <1>5 DEF Hand, Result
  <2>2. Sound(WithStatus(rec, "blocked"), asked[j], comfy[j])
    BY <1>2, RecordTypes, SoundStatus
  <2> HIDE DEF hd
  <2>3. TakesUp(w, "settle", hd) /\ WritesSound(j) /\ Replaces(w, j)
    BY <1>1, <1>2, <1>5, <2>1, <2>2 DEF TakesUp, WritesSound, Replaces, Goto, Working
  <2> QED
    BY <1>1, <1>2, <2>3, WorkerGrounded
<1>6. CASE /\ record' = [record EXCEPT ![j] = WithStatus(rec, "running")]
           /\ hand' = [hand EXCEPT ![w].rec = WithStatus(rec, "running")] /\ Goto(w, "prepare")
  <2> DEFINE hd == [hand[w] EXCEPT !.rec = WithStatus(rec, "running")]
  <2>1. WithStatus(rec, "running") \in Record /\ Sound(WithStatus(rec, "running"), asked[j], comfy[j])
    BY <1>2, RecordTypes, SoundStatus
  <2>2. hand' = [hand EXCEPT ![w] = hd] /\ hd \in Hand /\ hd.job = j /\ hd.rec = WithStatus(rec, "running")
    BY <1>2, <1>6, <2>1 DEF Hand
  <2> HIDE DEF hd
  <2>3. TakesUp(w, "prepare", hd) /\ WritesSound(j) /\ Replaces(w, j)
    BY <1>1, <1>2, <1>6, <2>1, <2>2 DEF TakesUp, WritesSound, Replaces, Goto
  <2> QED
    BY <1>1, <1>2, <2>3, WorkerGrounded
<1> QED
  BY <1>3, <1>4, <1>5, <1>6 DEF Load

\* A worker that writes back its copy, or what becomes of it, writes a sound record.
LEMMA WriteGrounded ==
  ASSUME Typed, Grounded, NEW w \in Worker,
         Prepare(w) \/ FailToSubmit(w) \/ SaveSubmitted(w) \/ Poll(w) \/ SavePolled(w)
  PROVE  Grounded'
<1> DEFINE j == hand[w].job
           rec == hand[w].rec
<1>1. /\ pc[w] \in Carrying /\ pc[w] \in Working /\ UNCHANGED <<asked, comfy, call, pending, todo>>
  BY DEF Prepare, FailToSubmit, SaveSubmitted, Poll, SavePolled, Carrying, Working, files, jobs, api
<1>2. /\ hand[w] \in Hand /\ j \in Job /\ asked[j] > 0 /\ rec \in Record
      /\ hand = [hand EXCEPT ![w] = hand[w]]
  BY <1>1, CarriedWasDemanded
<1>3. Sound(rec, asked[j], comfy[j])
  BY <1>1 DEF Grounded, HandsGrounded
<1>4. CASE Prepare(w)
  <2>1. TakesUp(w, "submit", hand[w]) /\ WritesSound(j) /\ Replaces(w, j)
    BY <1>1, <1>2, <1>3, <1>4 DEF Prepare, TakesUp, WritesSound, Replaces, Goto
  <2> QED
    BY <1>1, <1>2, <2>1, WorkerGrounded
<1>5. CASE FailToSubmit(w)
  <2> DEFINE hd == [hand[w] EXCEPT !.result = "retryable"]
  <2>1. hand' = [hand EXCEPT ![w] = hd] /\ hd \in Hand /\ hd.job = j
    BY <1>2, <1>5 DEF FailToSubmit, Hand, Result
  <2>2. PICK prompt \in {0, rec.prompt} :
          record' = [record EXCEPT ![j] = [rec EXCEPT !.status = "error", !.prompt = prompt]]
    BY <1>5 DEF FailToSubmit
  <2> DEFINE failed == [rec EXCEPT !.status = "error", !.prompt = prompt]
  <2>3. Sound(failed, asked[j], comfy[j])
    BY <1>2, <1>3 DEF Sound, Record
  <2>5. record' = [record EXCEPT ![j] = failed] /\ pc' = [pc EXCEPT ![w] = "settle"]
    BY <1>5, <2>2 DEF FailToSubmit, Goto
  <2> HIDE DEF hd, failed
  <2>4. TakesUp(w, "settle", hd) /\ WritesSound(j) /\ Replaces(w, j)
    BY <1>1, <1>2, <2>1, <2>3, <2>5 DEF TakesUp, WritesSound, Replaces, Working
  <2> QED
    BY <1>1, <1>2, <2>4, WorkerGrounded
<1>6. CASE SaveSubmitted(w)
  <2> DEFINE hd == [hand[w] EXCEPT !.result = "queued"]
  <2>1. hand' = [hand EXCEPT ![w] = hd] /\ hd \in Hand /\ hd.job = j
    BY <1>2, <1>6 DEF SaveSubmitted, Hand, Result
  <2>2. record' = [record EXCEPT ![j] = rec] /\ pc' = [pc EXCEPT ![w] = "settle"]
    BY <1>6 DEF SaveSubmitted, Goto
  <2> HIDE DEF hd
  <2>3. TakesUp(w, "settle", hd) /\ WritesSound(j) /\ Replaces(w, j)
    BY <1>1, <1>2, <1>3, <2>1, <2>2 DEF TakesUp, WritesSound, Replaces, Working
  <2> QED
    BY <1>1, <1>2, <2>3, WorkerGrounded
<1>7. CASE Poll(w)
  <2>1. PICK r \in Refreshed(rec, comfy[j][rec.prompt].state) : hand' = [hand EXCEPT ![w].rec = r]
    BY <1>7 DEF Poll
  <2>2. comfy[j] # <<>>
    BY <1>7 DEF Poll, Grounded, HandsGrounded
  <2>3. r \in Record /\ Sound(r, asked[j], comfy[j])
    BY <1>2, <1>3, <2>2, RefreshedTypes, SoundRefreshed
  <2> DEFINE hd == [hand[w] EXCEPT !.rec = r]
  <2>4. hand' = [hand EXCEPT ![w] = hd] /\ hd \in Hand /\ hd.job = j /\ hd.rec = r
    BY <1>2, <2>1, <2>3 DEF Hand
  <2>5. record' = record /\ pc' = [pc EXCEPT ![w] = "answer"]
    BY <1>7 DEF Poll, Goto, jobs
  <2> HIDE DEF hd
  <2>6. TakesUp(w, "answer", hd) /\ WritesSound(j) /\ Replaces(w, j)
    BY <1>1, <1>2, <2>3, <2>4, <2>5 DEF TakesUp, WritesSound, Replaces
  <2> QED
    BY <1>1, <1>2, <2>6, WorkerGrounded
<1>8. CASE SavePolled(w)
  <2> DEFINE hd == [hand[w] EXCEPT !.result = ResultOf(rec.status)]
  <2>1. hand' = [hand EXCEPT ![w] = hd] /\ hd \in Hand /\ hd.job = j
    BY <1>2, <1>8, ResultTypes DEF SavePolled, Hand
  <2>2. record' = [record EXCEPT ![j] = rec] /\ pc' = [pc EXCEPT ![w] = "settle"]
    BY <1>8 DEF SavePolled, Goto
  <2> HIDE DEF hd
  <2>3. TakesUp(w, "settle", hd) /\ WritesSound(j) /\ Replaces(w, j)
    BY <1>1, <1>2, <1>3, <2>1, <2>2 DEF TakesUp, WritesSound, Replaces, Working
  <2> QED
    BY <1>1, <1>2, <2>3, WorkerGrounded
<1> QED
  BY <1>4, <1>5, <1>6, <1>7, <1>8

\* Taking an entry up and putting it back or away.
LEMMA EntryGrounded ==
  ASSUME Typed, Grounded, NEW w \in Worker, Take(w) \/ Postpone(w) \/ Archive(w) \/ Unlink(w)
  PROVE  Grounded'
<1>1. CASE Take(w)
  <2>1. PICK j \in Job : \E e :
          /\ todo[w][j].status = "queued"
          /\ pending' = [pending EXCEPT ![j] = e]
          /\ hand' = [hand EXCEPT ![w] = [NoHand EXCEPT !.job = j, !.entry = e]]
          /\ todo' = [todo EXCEPT ![w][j] = Absent]
    BY <1>1 DEF Take
  <2>2. PICK e : /\ pending' = [pending EXCEPT ![j] = e]
                 /\ hand' = [hand EXCEPT ![w] = [NoHand EXCEPT !.job = j, !.entry = e]]
    BY <2>1
  <2> DEFINE hd == [NoHand EXCEPT !.job = j, !.entry = e]
  <2>3. asked[j] > 0
    BY <2>1, ConstantsAssumption DEF Grounded, EntriesGrounded, Typed, TypeOK, JobsOK
  <2>4. hd.job = j /\ pc' = [pc EXCEPT ![w] = "load"] /\ UNCHANGED <<asked, comfy, call, record>>
    BY <1>1 DEF Take, NoHand, Goto, jobs, api
  <2>5. TakesUp(w, "load", hd) /\ WritesSound(j) /\ Replaces(w, j)
    BY <2>1, <2>2, <2>3, <2>4 DEF TakesUp, WritesSound, Replaces, Working
  <2> HIDE DEF hd
  <2> QED
    BY <2>3, <2>4, <2>5, WorkerGrounded
<1>2. CASE Postpone(w) \/ Archive(w) \/ Unlink(w)
  <2>1. pc[w] \in Carrying /\ UNCHANGED <<asked, comfy, call, record, todo>>
    BY <1>2 DEF Postpone, Archive, Unlink, Carrying, jobs, api
  <2>2. hand[w].job \in Job /\ asked[hand[w].job] > 0 /\ hand = [hand EXCEPT ![w] = hand[w]]
    BY <2>1, CarriedWasDemanded
  <2>3. WritesSound(hand[w].job) /\ Replaces(w, hand[w].job)
    BY <1>2, <2>1 DEF WritesSound, Replaces, Postpone, Archive, Unlink
  <2>4. CASE Archive(w)
    <3>1. TakesUp(w, "unlink", hand[w])
      BY <2>2, <2>4 DEF Archive, TakesUp, Working, Goto
    <3> QED
      BY <2>1, <2>2, <2>3, <3>1, WorkerGrounded
  <2>5. CASE Postpone(w) \/ Unlink(w)
    <3>1. TakesUp(w, "pick", NoHand)
      BY <2>5 DEF Postpone, Unlink, TakesUp, Working, Carrying, Goto
    <3> QED
      BY <2>1, <2>2, <2>3, <3>1, WorkerGrounded
  <2> QED
    BY <1>2, <2>4, <2>5
<1> QED
  BY <1>1, <1>2

\* A pass begins, lists, passes an entry over, and ends.
LEMMA ListGrounded ==
  ASSUME Typed, Grounded, NEW w \in Worker, Recover(w) \/ List(w) \/ EndPass(w) \/ SkipDelayed(w)
  PROVE  Grounded'
<1>0. /\ pending \in [Job -> Entry] /\ todo \in [Worker -> [Job -> Entry]]
      /\ pc \in [Worker -> WorkerSteps]
  BY DEF Typed, TypeOK, FilesOK, WorkersOK
<1>1. UNCHANGED <<record, asked, comfy, call, hand>>
  BY DEF Recover, List, EndPass, SkipDelayed, jobs, api
<1>2. /\ \A v \in Worker \ {w} : pc'[v] = pc[v]
      /\ pc'[w] \notin Carrying /\ pc'[w] \notin Working /\ pc'[w] # "poll"
  BY <1>0 DEF Recover, List, EndPass, SkipDelayed, Goto, Leave, Carrying, Working
<1>3. ASSUME NEW k \in Job, pending[k].status = "absent", \A v \in Worker : todo[v][k].status # "queued"
      PROVE  pending'[k].status = "absent" /\ \A v \in Worker : todo'[v][k].status # "queued"
  <2>1. CASE Recover(w)
    BY <1>0, <1>3, <2>1 DEF Recover, Recovered
  <2>2. CASE List(w)
    BY <1>0, <1>3, <2>2 DEF List, Absent, files
  <2>3. CASE EndPass(w)
    BY <1>0, <1>3, <2>3 DEF EndPass, NoTodo, Absent, files
  <2>4. CASE SkipDelayed(w)
    <3>1. PICK i \in Job : todo' = [todo EXCEPT ![w][i] = Absent]
      BY <2>4 DEF SkipDelayed
    <3> QED
      BY <1>0, <1>3, <2>4, <3>1 DEF SkipDelayed, Absent, files
  <2> QED
    BY <2>1, <2>2, <2>3, <2>4
<1>4. EntriesGrounded'
  BY <1>1, <1>3 DEF Grounded, EntriesGrounded
<1>5. HandsGrounded'
  BY <1>1, <1>2 DEF Grounded, HandsGrounded
<1> QED
  BY <1>1, <1>4, <1>5 DEF Grounded, RecordsGrounded, CallsGrounded

\* A prompt that is added, or changes its state, leaves everything sound.
LEMMA MorePrompts ==
  ASSUME Typed, Grounded, asked' = asked, UNCHANGED <<record, pending, todo>>,
         \A k \in Job : comfy[k] # <<>> => comfy'[k] # <<>>
  PROVE  /\ RecordsGrounded' /\ EntriesGrounded'
         /\ UNCHANGED call => CallsGrounded'
         /\ \A v \in Worker : pc'[v] = pc[v] /\ hand'[v] = hand[v] =>
              /\ pc'[v] \in Carrying => asked'[hand'[v].job] > 0
              /\ pc'[v] \in Working => Sound(hand'[v].rec, asked'[hand'[v].job], comfy'[hand'[v].job])
              /\ pc'[v] = "poll" => comfy'[hand'[v].job] # <<>>
<1>1. \A k \in Job : \A rec : Sound(rec, asked[k], comfy[k]) => Sound(rec, asked[k], comfy'[k])
  BY DEF Sound
<1>2. RecordsGrounded' /\ EntriesGrounded'
  BY <1>1 DEF Grounded, RecordsGrounded, EntriesGrounded
<1>3. UNCHANGED call => CallsGrounded'
  BY <1>1 DEF Grounded, CallsGrounded, Writing
<1>4. \A v \in Worker : pc[v] \in Working \cup {"poll"} => pc[v] \in Carrying /\ hand[v].job \in Job
  BY DEF Working, Carrying, Typed, CarriesJob
<1>5. \A v \in Worker : pc'[v] = pc[v] /\ hand'[v] = hand[v] =>
              /\ pc'[v] \in Carrying => asked'[hand'[v].job] > 0
              /\ pc'[v] \in Working => Sound(hand'[v].rec, asked'[hand'[v].job], comfy'[hand'[v].job])
              /\ pc'[v] = "poll" => comfy'[hand'[v].job] # <<>>
  BY <1>1, <1>4 DEF Grounded, HandsGrounded
<1> QED
  BY <1>2, <1>3, <1>5

LEMMA SubmitGrounded ==
  ASSUME Typed, Grounded, NEW w \in Worker, Submit(w)
  PROVE  Grounded'
<1> DEFINE j == hand[w].job
           rec == hand[w].rec
           prompt == [state |-> "active", request |-> rec.request]
           hd == [hand[w] EXCEPT !.rec = [rec EXCEPT !.status = "submitted", !.prompt = Len(comfy[j]) + 1]]
<1>1. pc[w] \in Carrying /\ pc[w] \in Working
  BY DEF Submit, Carrying, Working
<1>2. /\ hand[w] \in Hand /\ j \in Job /\ asked[j] > 0 /\ rec \in Record
  BY <1>1, CarriedWasDemanded
<1>3. Sound(rec, asked[j], comfy[j])
  BY <1>1 DEF Grounded, HandsGrounded
<1>4. /\ comfy' = [comfy EXCEPT ![j] = Append(comfy[j], prompt)]
      /\ hand' = [hand EXCEPT ![w] = hd] /\ pc' = [pc EXCEPT ![w] = "submitted"]
      /\ UNCHANGED <<record, asked, pending, todo, call>>
  BY DEF Submit, Goto, files, api
<1>5. comfy \in [Job -> Seq(Prompt)] /\ hand \in [Worker -> Hand] /\ pc \in [Worker -> WorkerSteps]
  BY DEF Typed, TypeOK, JobsOK, WorkersOK
<1>6. Append(comfy[j], prompt) # <<>>
  <2>1. prompt \in Prompt
    BY <1>2 DEF Prompt, PromptState, Record
  <2> HIDE DEF prompt
  <2>2. comfy[j] \in Seq(Prompt) /\ Len(comfy[j]) \in Nat
    BY <1>2, <1>5, LenProperties
  <2>3. Len(Append(comfy[j], prompt)) = Len(comfy[j]) + 1
    BY <2>1, <2>2, AppendProperties
  <2> QED
    BY <2>2, <2>3, EmptySeq
<1> HIDE DEF prompt
<1>7. \A k \in Job : comfy[k] # <<>> => comfy'[k] # <<>>
  BY <1>2, <1>4, <1>5, <1>6
<1>8. hd.job = j /\ hd.rec.request = rec.request
  BY <1>2 DEF Hand, Record
<1>9. asked'[hd.job] > 0 /\ Sound(hd.rec, asked'[hd.job], comfy'[hd.job])
  BY <1>2, <1>3, <1>4, <1>5, <1>6, <1>8 DEF Sound
<1> HIDE DEF hd
<1>10. /\ \A v \in Worker \ {w} : pc'[v] = pc[v] /\ hand'[v] = hand[v]
       /\ pc'[w] = "submitted" /\ hand'[w] = hd
  BY <1>4, <1>5
<1>11. HandsGrounded'
  BY <1>4, <1>7, <1>9, <1>10, MorePrompts DEF HandsGrounded
<1> QED
  BY <1>4, <1>7, <1>11, MorePrompts DEF Grounded

LEMMA PassGrounded ==
  ASSUME Typed, Grounded, NEW w \in Worker, Pass(w)
  PROVE  Grounded'
BY LoadGrounded, WriteGrounded, EntryGrounded, ListGrounded, SubmitGrounded DEF Pass

-----------------------------------------------------------------------------
\* A request goes on with what it may write back; an entry is put away, or put in for a
\* job that was demanded; workers go on as they were, or begin.
GoesOn(h, c) ==
  /\ call' = [call EXCEPT ![h] = c]
  /\ c.at \in Writing \cup {"enqueue"} => c.job \in Job /\ asked[c.job] > 0
  /\ c.at \in Writing => Sound(c.rec, asked[c.job], comfy[c.job])
  /\ c.at = "ask" => comfy[c.job] # <<>>

PutsIn ==
  \/ pending' = pending
  \/ \E j, e : pending' = [pending EXCEPT ![j] = e] /\ (e = Absent \/ asked[j] > 0)

WorkersStay ==
  /\ UNCHANGED <<todo, hand>>
  /\ \A w \in Worker : pc'[w] = pc[w] \/ pc'[w] \in {"boot", "recover", "down", "end", "look", "clear",
                                                     "unregister"}

\* Workers that stay have only what was demanded in hand.
LEMMA StayGrounded ==
  ASSUME Grounded, WorkersStay, UNCHANGED <<asked, comfy>>
  PROVE  HandsGrounded'
BY DEF Grounded, HandsGrounded, WorkersStay, Carrying, Working

\* Starting a worker, or none, lets the others stay.
LEMMA StartStays ==
  ASSUME Typed, UNCHANGED <<todo, hand>>,
         \/ UNCHANGED <<registry, pc>>
         \/ StartQueueWorker(stop) \/ StartQueueWorker(FALSE)
         \/ registry' = registry /\ \E p \in Process : pc[p] = "down" /\ Goto(p, "boot")
  PROVE  WorkersStay
BY DEF WorkersStay, StartQueueWorker, Goto, Typed, TypeOK, WorkersOK, Worker

\* A request's step that does no more than that keeps everything grounded.
LEMMA RequestGrounded ==
  ASSUME Typed, Grounded, NEW h \in Handler, UNCHANGED <<asked, comfy>>, WorkersStay,
         NEW c, GoesOn(h, c), PutsIn, NEW j, WritesSound(j)
  PROVE  Grounded'
<1>0. /\ record \in [Job -> Record] /\ pending \in [Job -> Entry] /\ call \in [Handler -> Call]
      /\ asked \in [Job -> 0..MaxRequests] /\ MaxRequests \in Nat
  BY ConstantsAssumption DEF Typed, TypeOK, FilesOK, JobsOK, ApiOK
<1>1. RecordsGrounded'
  <2> SUFFICES ASSUME NEW k \in Job
               PROVE  IF asked'[k] = 0 THEN record'[k] = NoRecord ELSE Sound(record'[k], asked'[k], comfy'[k])
    BY DEF RecordsGrounded
  <2>1. IF asked[k] = 0 THEN record[k] = NoRecord ELSE Sound(record[k], asked[k], comfy[k])
    BY DEF Grounded, RecordsGrounded
  <2>2. CASE record' = record
    BY <2>1, <2>2
  <2>3. ASSUME NEW rec, record' = [record EXCEPT ![j] = rec], Sound(rec, asked[j], comfy[j])
        PROVE  IF asked'[k] = 0 THEN record'[k] = NoRecord ELSE Sound(record'[k], asked'[k], comfy'[k])
    <3>1. CASE k = j
      BY <1>0, <2>3, <3>1 DEF Sound
    <3>2. CASE k # j
      BY <1>0, <2>1, <2>3, <3>2
    <3> QED
      BY <3>1, <3>2
  <2> QED
    BY <2>2, <2>3 DEF WritesSound
<1>2. EntriesGrounded'
  <2>1. ASSUME NEW k \in Job, asked[k] = 0, pending[k].status = "absent" PROVE pending'[k].status = "absent"
    BY <1>0, <2>1 DEF PutsIn, Absent
  <2> QED
    BY <2>1 DEF Grounded, EntriesGrounded, WorkersStay
<1>3. CallsGrounded'
  <2>1. \A g \in Handler \ {h} : call'[g] = call[g]
    BY <1>0 DEF GoesOn
  <2>2. call'[h] = c
    BY <1>0 DEF GoesOn
  <2> QED
    BY <2>1, <2>2 DEF Grounded, CallsGrounded, GoesOn
<1> QED
  BY <1>1, <1>2, <1>3, StayGrounded DEF Grounded

\* A demand: what was sound stays so.
LEMMA DemandGrounded ==
  ASSUME Typed, Grounded, NEW j \in Job, asked' = [asked EXCEPT ![j] = asked[j] + 1],
         UNCHANGED <<comfy, pending, workers>>,
         NEW h \in Handler, NEW c, call' = [call EXCEPT ![h] = c],
         c.at \in Writing \cup {"enqueue"} => c.job = j,
         c.at \in Writing => Sound(c.rec, asked[j] + 1, comfy[j]) /\ c.at # "ask",
         \/ record' = record /\ asked[j] > 0
         \/ \E rec : record' = [record EXCEPT ![j] = rec] /\ Sound(rec, asked[j] + 1, comfy[j])
  PROVE  Grounded'
<1>0. /\ record \in [Job -> Record] /\ pending \in [Job -> Entry] /\ call \in [Handler -> Call]
      /\ asked \in [Job -> Nat] /\ asked[j] \in Nat
  BY ConstantsAssumption DEF Typed, TypeOK, FilesOK, JobsOK, ApiOK
<1>1. /\ \A k \in Job : asked[k] > 0 => asked'[k] > 0
      /\ \A k \in Job : \A rec : Sound(rec, asked[k], comfy[k]) => Sound(rec, asked'[k], comfy'[k])
  <2>1. \A k \in Job : asked[k] <= asked'[k] /\ asked[k] \in Nat /\ asked'[k] \in Nat
    BY <1>0
  <2> QED
    BY <2>1 DEF Sound
<1>2. asked'[j] = asked[j] + 1 /\ \A k \in Job \ {j} : asked'[k] = asked[k]
  BY <1>0
<1>3. RecordsGrounded'
  <2> SUFFICES ASSUME NEW k \in Job
               PROVE  IF asked'[k] = 0 THEN record'[k] = NoRecord ELSE Sound(record'[k], asked'[k], comfy'[k])
    BY DEF RecordsGrounded
  <2>1. IF asked[k] = 0 THEN record[k] = NoRecord ELSE Sound(record[k], asked[k], comfy[k])
    BY DEF Grounded, RecordsGrounded
  <2>2. CASE record' = record /\ asked[j] > 0
    BY <1>0, <1>1, <1>2, <2>1, <2>2
  <2>3. ASSUME NEW rec, record' = [record EXCEPT ![j] = rec], Sound(rec, asked[j] + 1, comfy[j])
        PROVE  IF asked'[k] = 0 THEN record'[k] = NoRecord ELSE Sound(record'[k], asked'[k], comfy'[k])
    BY <1>0, <1>1, <1>2, <2>1, <2>3
  <2> QED
    BY <2>2, <2>3
<1>4. EntriesGrounded'
  BY <1>0, <1>1, <1>2 DEF Grounded, EntriesGrounded, workers
<1>5. HandsGrounded'
  <2>1. \A v \in Worker : pc[v] \in Working \cup {"poll"} \cup Carrying => hand[v].job \in Job
    BY DEF Working, Carrying, Typed, CarriesJob
  <2> QED
    BY <1>1, <2>1 DEF Grounded, HandsGrounded, workers
<1>6. CallsGrounded'
  <2>1. \A g \in Handler \ {h} : call'[g] = call[g]
    BY <1>0
  <2>2. call'[h] = c
    BY <1>0
  <2>3. "ask" \in Writing
    BY DEF Writing
  <2>4. ASSUME NEW g \in Handler, g # h
        PROVE  /\ call'[g].at \in Writing \cup {"enqueue"} => call'[g].job \in Job /\ asked'[call'[g].job] > 0
               /\ call'[g].at \in Writing => Sound(call'[g].rec, asked'[call'[g].job], comfy'[call'[g].job])
               /\ call'[g].at = "ask" => comfy'[call'[g].job] # <<>>
    BY <1>1, <2>1, <2>4 DEF Grounded, CallsGrounded
  <2>5. /\ c.at \in Writing \cup {"enqueue"} => c.job \in Job /\ asked'[c.job] > 0
        /\ c.at \in Writing => Sound(c.rec, asked'[c.job], comfy'[c.job])
        /\ c.at # "ask"
    BY <1>0, <1>2, <2>3
  <2> QED
    BY <2>2, <2>4, <2>5 DEF CallsGrounded
<1> QED
  BY <1>3, <1>4, <1>5, <1>6 DEF Grounded

\* A request that is served has a job that was demanded, and a copy that is sound.
LEMMA ServedWasDemanded ==
  ASSUME Typed, Grounded, NEW h \in Handler
  PROVE  /\ call[h].at \in Writing \cup {"enqueue"} => call[h].job \in Job /\ asked[call[h].job] > 0
         /\ call[h].at \in Writing => Sound(call[h].rec, asked[call[h].job], comfy[call[h].job])
         /\ call[h].at = "ask" => comfy[call[h].job] # <<>>
         /\ call[h].rec \in Record
         /\ call = [call EXCEPT ![h] = call[h]]
BY DEF Grounded, CallsGrounded, Typed, TypeOK, ApiOK, Call

\* Creation and retries demand a run.
LEMMA DemandsGrounded ==
  ASSUME Typed, Grounded, NEW h \in Handler, NEW j \in Job, Create(h, j) \/ Retry(h, j)
  PROVE  Grounded'
<1>0. asked \in [Job -> Nat]
  BY ConstantsAssumption DEF Typed, TypeOK, JobsOK
<1>1. CASE Create(h, j)
  <2>1. asked[j] = 0
    BY <1>0, <1>1 DEF Create, Grounded, RecordsGrounded, Sound, NoRecord
  <2>2. PICK ready \in BOOLEAN, execute \in BOOLEAN, status \in {"blocked", "queued", "planned"} :
          /\ record' = [record EXCEPT ![j] = NewRecord(status, ready, 1)]
          /\ IF ready /\ execute THEN Set(h, "enqueue", j, NewRecord(status, ready, 1))
                               ELSE UNCHANGED call
    BY <1>1 DEF Create
  <2>3. Sound(NewRecord(status, ready, 1), asked[j] + 1, comfy[j])
    BY <2>1 DEF Sound, NewRecord
  <2>4. asked' = [asked EXCEPT ![j] = asked[j] + 1] /\ UNCHANGED <<comfy, pending, workers>>
    BY <1>1, <2>1 DEF Create, files
  <2>5. CASE ready /\ execute
    <3> DEFINE c == [at |-> "enqueue", job |-> j, rec |-> NewRecord(status, ready, 1)]
    <3>1. call' = [call EXCEPT ![h] = c] /\ c.job = j /\ c.at \notin Writing
      BY <2>2, <2>5 DEF Set, Writing
    <3> HIDE DEF c
    <3> QED
      BY <2>2, <2>3, <2>4, <3>1, DemandGrounded
  <2>6. CASE ~(ready /\ execute)
    <3>1. call' = [call EXCEPT ![h] = call[h]] /\ call[h].at = "idle"
      BY <1>1, <2>2, <2>6, ServedWasDemanded DEF Create, Free
    <3> QED
      BY <2>2, <2>3, <2>4, <3>1, DemandGrounded DEF Writing
  <2> QED
    BY <2>5, <2>6
<1>2. CASE Retry(h, j)
  <2> DEFINE c == [at |-> "assess", job |-> j, rec |-> NewRecord("planned", TRUE, asked[j] + 1)]
  <2>1. asked[j] > 0
    BY <1>0, <1>2 DEF Retry, Grounded, RecordsGrounded, NoRecord, Terminal
  <2>2. Sound(c.rec, asked[j] + 1, comfy[j]) /\ c.job = j /\ c.at # "ask"
    BY <1>0, <2>1 DEF Sound, NewRecord
  <2>3. /\ asked' = [asked EXCEPT ![j] = asked[j] + 1] /\ UNCHANGED <<comfy, pending, workers, record>>
        /\ call' = [call EXCEPT ![h] = c]
    BY <1>2 DEF Retry, Set, files
  <2> HIDE DEF c
  <2> QED
    BY <2>1, <2>2, <2>3, DemandGrounded
<1> QED
  BY <1>1, <1>2

\* Polling and cancelling.
LEMMA AnswersGrounded ==
  ASSUME Typed, Grounded, NEW h \in Handler, NEW j \in Job, Get(h, j) \/ Cancel(h, j)
  PROVE  Grounded'
<1>0. asked \in [Job -> Nat] /\ record[j] \in Record
  BY ConstantsAssumption DEF Typed, TypeOK, JobsOK
<1>1. IF asked[j] = 0 THEN record[j] = NoRecord ELSE Sound(record[j], asked[j], comfy[j])
  BY DEF Grounded, RecordsGrounded
<1>2. CASE Get(h, j)
  <2>1. UNCHANGED <<asked, comfy, record, pending, todo, hand>>
    BY <1>2 DEF Get, files, jobs
  <2>2. PutsIn /\ WritesSound(j)
    BY <2>1 DEF PutsIn, WritesSound
  <2>3. WorkersStay
    BY <1>2, <2>1, StartStays DEF Get
  <2>4. CASE UNCHANGED call
    <3>1. GoesOn(h, call[h])
      BY <2>4, ServedWasDemanded DEF GoesOn
    <3> QED
      BY <2>1, <2>2, <2>3, <3>1, RequestGrounded
  <2>5. CASE AwaitsComfy(record[j]) /\ Set(h, "ask", j, record[j])
    <3> DEFINE c == [at |-> "ask", job |-> j, rec |-> record[j]]
    <3>1. asked[j] > 0
      BY <1>0, <1>1, <2>5 DEF AwaitsComfy, NoRecord
    <3>2. Sound(record[j], asked[j], comfy[j]) /\ comfy[j] # <<>>
      BY <1>1, <2>5, <3>1 DEF AwaitsComfy, Sound
    <3>3. GoesOn(h, c)
      BY <2>5, <3>1, <3>2 DEF GoesOn, Set
    <3> HIDE DEF c
    <3> QED
      BY <2>1, <2>2, <2>3, <3>3, RequestGrounded
  <2> QED
    BY <1>2, <2>4, <2>5 DEF Get
<1>3. CASE Cancel(h, j)
  <2>1. asked[j] > 0 /\ Sound(record[j], asked[j], comfy[j])
    BY <1>0, <1>1, <1>3 DEF Cancel, NoRecord
  <2>2. UNCHANGED <<asked, comfy, pending, todo, hand, registry, pc>>
    BY <1>3 DEF Cancel, files, workers
  <2>3. Sound(WithStatus(record[j], "cancelled"), asked[j], comfy[j])
    BY <1>0, <2>1, SoundStatus, RecordTypes
  <2>4. WritesSound(j) /\ PutsIn /\ WorkersStay
    BY <1>3, <2>2, <2>3, StartStays DEF Cancel, WritesSound, PutsIn
  <2>5. PICK at \in {"unqueue", "interrupt"} : Set(h, at, j, record[j])
    BY <1>3 DEF Cancel
  <2> DEFINE c == [at |-> at, job |-> j, rec |-> record[j]]
  <2>6. GoesOn(h, c)
    BY <2>1, <2>5 DEF GoesOn, Set
  <2> HIDE DEF c
  <2> QED
    BY <2>2, <2>4, <2>6, RequestGrounded
<1> QED
  BY <1>2, <1>3

\* A request that is under way.
LEMMA ProceedGrounded ==
  ASSUME Typed, Grounded, NEW h \in Handler, Proceed(h)
  PROVE  Grounded'
<1> DEFINE j == call[h].job
           rec == call[h].rec
<1>1. /\ call[h].at \in Writing \cup {"enqueue"} => j \in Job /\ asked[j] > 0
      /\ call[h].at \in Writing => Sound(rec, asked[j], comfy[j])
      /\ call[h].at = "ask" => comfy[j] # <<>>
      /\ rec \in Record
  BY ServedWasDemanded
<1>2. \A c : c.at \notin Writing \cup {"enqueue"} /\ call' = [call EXCEPT ![h] = c] => GoesOn(h, c)
  BY DEF GoesOn, Writing
<1>3. UNCHANGED <<registry, pc, todo, hand>> => WorkersStay
  BY StartStays
<1>4. Idle.at = "idle" /\ Idle.at \notin Writing \cup {"enqueue"}
  BY DEF Idle, Writing
<1>5. CASE Ask(h)
  <2>1. PICK r \in Refreshed(rec, comfy[j][rec.prompt].state) : Set(h, "answer", j, r)
    BY <1>5 DEF Ask
  <2>2. Sound(r, asked[j], comfy[j]) /\ j \in Job /\ asked[j] > 0
    BY <1>1, <1>5, SoundRefreshed DEF Ask, Writing
  <2> DEFINE c == [at |-> "answer", job |-> j, rec |-> r]
  <2>3. GoesOn(h, c)
    BY <2>1, <2>2 DEF GoesOn, Set
  <2> HIDE DEF c
  <2>4. PutsIn /\ WritesSound(j) /\ UNCHANGED <<asked, comfy, registry, pc, todo, hand>>
    BY <1>5 DEF Ask, PutsIn, WritesSound, files, jobs, workers
  <2> QED
    BY <1>3, <2>3, <2>4, RequestGrounded
<1>6. CASE SaveAnswer(h) \/ SaveCancelled(h)
  <2>1. call[h].at \in Writing
    BY <1>6 DEF SaveAnswer, SaveCancelled, Writing
  <2>2. WritesSound(j) /\ PutsIn /\ UNCHANGED <<asked, comfy, registry, pc, todo, hand>>
    BY <1>1, <1>6, <2>1 DEF SaveAnswer, SaveCancelled, WritesSound, PutsIn, files, workers
  <2>3. GoesOn(h, Idle)
    BY <1>2, <1>4, <1>6 DEF SaveAnswer, SaveCancelled, Hang
  <2> QED
    BY <1>3, <2>2, <2>3, RequestGrounded
<1>7. CASE Unqueue(h) \/ Discard(h)
  <2>1. \E c : GoesOn(h, c)
    <3>1. [at |-> "discard", job |-> j, rec |-> NoRecord].at \notin Writing \cup {"enqueue"}
      BY DEF Writing
    <3> QED
      BY <1>2, <1>4, <1>7, <3>1 DEF Unqueue, Discard, Hang, Set
  <2>2. WritesSound(j) /\ PutsIn /\ UNCHANGED <<asked, comfy, registry, pc, todo, hand>>
    BY <1>7 DEF Unqueue, Discard, WritesSound, PutsIn, jobs, workers
  <2> QED
    BY <1>3, <2>1, <2>2, RequestGrounded
<1>8. CASE Interrupt(h)
  <2>1. /\ UNCHANGED <<record, asked, pending, todo, pc, hand>> /\ call[h].at \in Writing
    BY <1>8 DEF Interrupt, files, workers, Writing
  <2>2. /\ comfy \in [Job -> Seq(Prompt)] /\ call \in [Handler -> Call]
    BY DEF Typed, TypeOK, JobsOK, ApiOK
  <2>3. \A k \in Job : comfy[k] # <<>> => comfy'[k] # <<>>
    <3>1. SUFFICES ASSUME NEW k \in Job, comfy[k] # <<>>, comfy' # comfy PROVE comfy'[k] # <<>>
      OBVIOUS
    <3>2. comfy' = [comfy EXCEPT ![j][rec.prompt].state =
                      IF comfy[j][rec.prompt].state = "active" THEN "gone" ELSE comfy[j][rec.prompt].state]
      BY <1>8, <3>1 DEF Interrupt
    <3>3. DOMAIN comfy'[k] = DOMAIN comfy[k]
      BY <2>2, <3>2
    <3>4. comfy[k] \in Seq(Prompt)
      BY <2>2
    <3> QED
      BY <3>1, <3>3, <3>4, LenProperties, EmptySeq
  <2>4. RecordsGrounded' /\ EntriesGrounded' /\ HandsGrounded'
    BY <2>1, <2>3, MorePrompts DEF HandsGrounded
  <2>5. CallsGrounded'
    <3>1. \A k \in Job : \A r : Sound(r, asked[k], comfy[k]) => Sound(r, asked[k], comfy'[k])
      BY <2>3 DEF Sound
    <3>2. Sound(WithStatus(rec, "cancelled"), asked[j], comfy[j])
      BY <1>1, <2>1, RecordTypes, SoundStatus
    <3> DEFINE c == [at |-> "interrupted", job |-> j, rec |-> WithStatus(rec, "cancelled")]
    <3>3. \/ call' = [call EXCEPT ![h] = c]
          \/ call' = [call EXCEPT ![h] = Idle]
      BY <1>8 DEF Interrupt, Set, Hang
    <3>4. /\ c.at # "ask" /\ c.job \in Job /\ asked[c.job] > 0 /\ Sound(c.rec, asked[c.job], comfy'[c.job])
      BY <1>1, <2>1, <3>1, <3>2
    <3> HIDE DEF c
    <3>5. \A g \in Handler \ {h} : call'[g] = call[g]
      BY <2>2, <3>3
    <3>6. call'[h] = c \/ call'[h] = Idle
      BY <2>2, <3>3
    <3>7. "ask" \in Writing
      BY DEF Writing
    <3>8. ASSUME NEW g \in Handler
          PROVE  /\ call'[g].at \in Writing \cup {"enqueue"} => call'[g].job \in Job /\ asked[call'[g].job] > 0
                 /\ call'[g].at \in Writing => Sound(call'[g].rec, asked[call'[g].job], comfy'[call'[g].job])
                 /\ call'[g].at = "ask" => comfy'[call'[g].job] # <<>>
      <4>1. CASE g = h
        BY <1>4, <3>4, <3>6, <3>7, <4>1
      <4>2. CASE g # h
        BY <2>3, <3>1, <3>5, <3>7, <4>2 DEF Grounded, CallsGrounded
      <4> QED
        BY <4>1, <4>2
    <3> QED
      BY <2>1, <3>8 DEF CallsGrounded
  <2> QED
    BY <2>4, <2>5 DEF Grounded
<1>9. CASE Assess(h)
  <2>1. call[h].at \in Writing
    BY <1>9 DEF Assess, Writing
  <2>2. PICK ready \in BOOLEAN :
          /\ record' = [record EXCEPT ![j] = [rec EXCEPT !.ready = ready]]
          /\ Set(h, "requeue", j, [rec EXCEPT !.ready = ready])
    BY <1>9 DEF Assess
  <2> DEFINE r == [rec EXCEPT !.ready = ready]
             c == [at |-> "requeue", job |-> j, rec |-> r]
  <2>3. r.status = rec.status /\ r.prompt = rec.prompt /\ r.request = rec.request
    BY <1>1 DEF Record
  <2>4. Sound(r, asked[j], comfy[j])
    BY <1>1, <2>1, <2>3 DEF Sound
  <2>5. c.job = j /\ c.rec = r /\ c.at # "ask" /\ call' = [call EXCEPT ![h] = c]
    BY <2>2 DEF Set
  <2>6. record' = [record EXCEPT ![j] = r]
    BY <2>2
  <2> HIDE DEF c, r
  <2>7. GoesOn(h, c) /\ WritesSound(j)
    BY <1>1, <2>1, <2>4, <2>5, <2>6 DEF GoesOn, WritesSound
  <2>8. PutsIn /\ UNCHANGED <<asked, comfy, registry, pc, todo, hand>>
    BY <1>9 DEF Assess, PutsIn, files, workers
  <2> QED
    BY <1>3, <2>7, <2>8, RequestGrounded
<1>10. CASE Requeue(h)
  <2>1. call[h].at \in Writing /\ j \in Job /\ asked[j] > 0
    BY <1>1, <1>10 DEF Requeue, Writing
  <2>2. /\ Sound(WithStatus(rec, "queued"), asked[j], comfy[j])
        /\ Sound(WithStatus(rec, "blocked"), asked[j], comfy[j])
    BY <1>1, <2>1, RecordTypes, SoundStatus
  <2>3. WritesSound(j)
    BY <1>10, <2>2 DEF Requeue, WritesSound
  <2> DEFINE c == [at |-> "enqueue", job |-> j, rec |-> rec]
  <2>4. c.at = "enqueue" /\ c.job = j
    OBVIOUS
  <2>5. call' = [call EXCEPT ![h] = c] \/ call' = [call EXCEPT ![h] = Idle]
    BY <1>10 DEF Requeue, Set, Hang
  <2> HIDE DEF c
  <2>6. \E d : GoesOn(h, d)
    BY <1>2, <1>4, <2>1, <2>4, <2>5 DEF GoesOn, Writing
  <2>7. PutsIn /\ UNCHANGED <<asked, comfy, registry, pc, todo, hand>>
    BY <1>10 DEF Requeue, PutsIn, files, workers
  <2> QED
    BY <1>3, <2>3, <2>6, <2>7, RequestGrounded
<1>11. CASE EnqueueJob(h) \/ Wake(h)
  <2>1. WritesSound(j) /\ UNCHANGED <<asked, comfy, todo, hand>>
    BY <1>11 DEF EnqueueJob, Wake, WritesSound, jobs, workers
  <2>2. WorkersStay
    BY <1>3, <1>11, <2>1, StartStays DEF EnqueueJob, Wake, workers
  <2>3. PutsIn
    BY <1>1, <1>11 DEF EnqueueJob, Wake, PutsIn, files
  <2>4. \E c : GoesOn(h, c)
    <3>1. [at |-> "wake", job |-> j, rec |-> NoRecord].at \notin Writing \cup {"enqueue"}
      BY DEF Writing
    <3> QED
      BY <1>2, <1>4, <1>11, <3>1 DEF EnqueueJob, Wake, Hang, Set
  <2> QED
    BY <2>1, <2>2, <2>3, <2>4, RequestGrounded
<1> QED
  BY <1>5, <1>6, <1>7, <1>8, <1>9, <1>10, <1>11 DEF Proceed

\* Workers that begin and end, the operations board, crashes, ComfyUI and the clock.
LEMMA OthersGrounded ==
  ASSUME Typed, Grounded,
         \/ \E t \in Thread : EndThread(t) \/ ClearBeat(t) \/ Unregister(t)
         \/ \E p \in Process : Boot(p) \/ Look(p) \/ StopExternal(p) \/ IdleShutdown(p) \/ ClearBeat(p)
         \/ Operator \/ Environment
  PROVE  Grounded'
<1>0. /\ pc \in [Worker -> WorkerSteps] /\ comfy \in [Job -> Seq(Prompt)] /\ pending \in [Job -> Entry]
      /\ Thread \subseteq Worker /\ Process \subseteq Worker
  BY DEF Typed, TypeOK, WorkersOK, JobsOK, FilesOK, Worker
<1>1. ASSUME UNCHANGED <<pending, record, asked, comfy, call>>, WorkersStay PROVE Grounded'
  <2>1. HandsGrounded'
    BY <1>1, StayGrounded
  <2> QED
    BY <1>1, <2>1 DEF Grounded, RecordsGrounded, EntriesGrounded, CallsGrounded, WorkersStay
<1>2. ASSUME NEW t \in Thread, EndThread(t) \/ ClearBeat(t) \/ Unregister(t) PROVE Grounded'
  BY <1>0, <1>1, <1>2 DEF EndThread, Retire, ClearBeat, Unregister, WorkersStay, Goto, files, jobs, api
<1>3. ASSUME NEW p \in Process, Boot(p) \/ Look(p) \/ StopExternal(p) \/ IdleShutdown(p) \/ ClearBeat(p) PROVE Grounded'
  BY <1>0, <1>1, <1>3
     DEF Boot, Look, StopExternal, IdleShutdown, Retire, ClearBeat, WorkersStay, Goto, files, jobs, api
<1>4. CASE Operator
  <2>1. UNCHANGED <<pending, record, asked, comfy, call, todo, hand>>
    BY <1>4 DEF Operator, OpsSummary, StartEmbedded, StartExternal, RequestStop, files, jobs, api, workers
  <2>2. WorkersStay
    BY <1>4, <2>1, StartStays
       DEF Operator, OpsSummary, StartEmbedded, StartExternal, RequestStop, LaunchExternal, workers
  <2> QED
    BY <1>1, <2>1, <2>2
<1>5. CASE ApiBoot
  <2>1. UNCHANGED <<pending, record, asked, comfy, call, todo, hand>>
    BY <1>5 DEF ApiBoot, files, jobs
  <2>2. WorkersStay
    BY <1>5, <2>1, StartStays DEF ApiBoot
  <2> QED
    BY <1>1, <2>1, <2>2
<1>6. CASE ComfyEnds
  <2>1. PICK j \in Job : \E n \in DOMAIN comfy[j], s \in {"done", "failed", "barren"} :
          comfy' = [comfy EXCEPT ![j][n].state = s]
    BY <1>6 DEF ComfyEnds
  <2>2. \A k \in Job : DOMAIN comfy'[k] = DOMAIN comfy[k]
    BY <1>0, <2>1
  <2>3. \A k \in Job : comfy[k] # <<>> => comfy'[k] # <<>>
    BY <1>0, <2>2, LenProperties, EmptySeq
  <2>4. UNCHANGED <<record, asked, pending, todo, pc, hand, call>>
    BY <1>6 DEF ComfyEnds, files, workers, api
  <2> QED
    BY <2>3, <2>4, MorePrompts DEF Grounded, HandsGrounded
<1>7. CASE HeartbeatExpires
  BY <1>1, <1>7 DEF HeartbeatExpires, WorkersStay, files, jobs, workers, api
<1>8. ASSUME NEW j \in Job, DelayElapses(j) PROVE Grounded'
  <2>1. UNCHANGED <<record, asked, comfy, todo, pc, hand, call>>
    BY <1>8 DEF DelayElapses, jobs, workers, api
  <2>2. \A k \in Job : pending'[k].status = pending[k].status
    BY <1>0, <1>8 DEF DelayElapses, Entry
  <2> QED
    BY <2>1, <2>2 DEF Grounded, RecordsGrounded, EntriesGrounded, HandsGrounded, CallsGrounded
<1>9. ASSUME NEW dead \in SUBSET Worker, Kill(dead),
             call' = call \/ call' = [h \in Handler |-> Idle]
      PROVE  Grounded'
  <2>1. UNCHANGED <<pending, record, asked, comfy>>
    BY <1>9 DEF Kill, files, jobs
  <2>2. RecordsGrounded' /\ EntriesGrounded'
    BY <1>9, <2>1 DEF Grounded, RecordsGrounded, EntriesGrounded, Kill, NoTodo, Absent
  <2>3. HandsGrounded'
    BY <1>9, <2>1 DEF Grounded, HandsGrounded, Kill, Carrying, Working
  <2>4. CallsGrounded'
    BY <1>9, <2>1 DEF Grounded, CallsGrounded, Idle, Writing
  <2> QED
    BY <2>2, <2>3, <2>4 DEF Grounded
<1>10. CASE ApiCrash
  BY <1>0, <1>9, <1>10 DEF ApiCrash
<1>11. ASSUME NEW p \in Process, ProcessCrash(p) PROVE Grounded'
  BY <1>0, <1>9, <1>11 DEF ProcessCrash, api
<1> QED
  BY <1>2, <1>3, <1>4, <1>5, <1>6, <1>7, <1>8, <1>10, <1>11 DEF Environment

\* Everything stays grounded, whatever happens.
LEMMA StepGrounded == Typed /\ Grounded /\ [Next]_vars => Grounded'
<1> SUFFICES ASSUME Typed, Grounded, [Next]_vars PROVE Grounded'
  OBVIOUS
<1>1. CASE UNCHANGED vars
  BY <1>1 DEF vars, Grounded, RecordsGrounded, EntriesGrounded, HandsGrounded, CallsGrounded
<1>2. CASE Next
  BY <1>2, PassGrounded, DemandsGrounded, AnswersGrounded, ProceedGrounded, OthersGrounded DEF Next, Client
<1> QED
  BY <1>1, <1>2

-----------------------------------------------------------------------------
\* A request that is over is about no job.
CallsOver == \A h \in Handler : call[h].at = "idle" => call[h].job = Nobody

LEMMA InitOver == Init => CallsOver
BY DEF Init, CallsOver, Idle

LEMMA StepOver == Typed /\ CallsOver /\ [Next]_vars => CallsOver'
<1> SUFFICES ASSUME Typed, CallsOver, [Next]_vars PROVE CallsOver'
  OBVIOUS
<1>0. call \in [Handler -> Call] /\ Idle.job = Nobody
  BY DEF Typed, TypeOK, ApiOK, Idle
<1>1. ASSUME UNCHANGED call PROVE CallsOver'
  BY <1>1 DEF CallsOver
<1>2. ASSUME NEW h \in Handler, NEW c, call' = [call EXCEPT ![h] = c], c.at = "idle" => c.job = Nobody
      PROVE  CallsOver'
  BY <1>0, <1>2 DEF CallsOver
<1>3. ASSUME NEW h \in Handler, NEW at, at # "idle", NEW j, NEW rec, Set(h, at, j, rec)
      PROVE  CallsOver'
  BY <1>2, <1>3 DEF Set
<1>4. ASSUME NEW h \in Handler, Hang(h) PROVE CallsOver'
  BY <1>0, <1>2, <1>4 DEF Hang
<1>5. ASSUME NEW h \in Handler, NEW j \in Job, Create(h, j) \/ Get(h, j) \/ Cancel(h, j) \/ Retry(h, j)
      PROVE  CallsOver'
  BY <1>1, <1>3, <1>5 DEF Create, Get, Cancel, Retry
<1>6. ASSUME NEW h \in Handler, Proceed(h) PROVE CallsOver'
  BY <1>3, <1>4, <1>6
     DEF Proceed, Ask, SaveAnswer, Unqueue, Discard, Interrupt, SaveCancelled, Assess, Requeue, EnqueueJob, Wake
<1>7. ASSUME NEW w \in Worker, Pass(w) PROVE CallsOver'
  BY <1>1, <1>7 DEF Pass, Recover, List, EndPass, SkipDelayed, Take, Load, Prepare, Submit, FailToSubmit,
                    SaveSubmitted, Poll, SavePolled, Postpone, Archive, Unlink, api
<1>8. ASSUME \/ \E t \in Thread : EndThread(t) \/ ClearBeat(t) \/ Unregister(t)
             \/ \E p \in Process : Boot(p) \/ Look(p) \/ StopExternal(p) \/ IdleShutdown(p) \/ ClearBeat(p)
             \/ Operator
      PROVE  CallsOver'
  BY <1>1, <1>8 DEF EndThread, Unregister, Boot, Look, StopExternal, IdleShutdown, Retire, ClearBeat, Operator,
                    OpsSummary, StartEmbedded, StartExternal, RequestStop, api
<1>9. CASE ApiCrash
  BY <1>0, <1>9 DEF ApiCrash, CallsOver
<1>10. ASSUME Environment, ~ApiCrash PROVE CallsOver'
  BY <1>1, <1>10 DEF Environment, ComfyEnds, HeartbeatExpires, ApiBoot, DelayElapses, ProcessCrash, api
<1>11. CASE UNCHANGED vars
  BY <1>1, <1>11 DEF vars
<1> QED
  BY <1>5, <1>6, <1>7, <1>8, <1>9, <1>10, <1>11 DEF Next, Client

-----------------------------------------------------------------------------
Given == [j \in Job |-> Requests(comfy[j])]
Lives == [j \in Job |-> Life(j)]

\* What ended with nobody at work on it has one of the outcomes, and was given to
\* ComfyUI if it is done.
Earned == \A j \in Job : Life(j) # "open" => Life(j) \in Terminal /\ (Life(j) = "done" => Given[j] # <<>>)

LEMMA EndIsEarned == Typed /\ Grounded => Earned
<1> SUFFICES ASSUME Typed, Grounded, NEW j \in Job, Life(j) # "open"
             PROVE  Life(j) \in Terminal /\ (Life(j) = "done" => Given[j] # <<>>)
  BY DEF Earned
<1>1. Life(j) = record[j].status /\ record[j].status \in Terminal
  BY DEF Life, QuietlyEnded
<1>2. record[j].status = "done" => comfy[j] # <<>>
  BY <1>1 DEF Grounded, RecordsGrounded, Sound, NoRecord, Terminal
<1>3. comfy[j] \in Seq(Prompt)
  BY DEF Typed, TypeOK, JobsOK
<1> QED
  BY <1>1, <1>2, <1>3, RequestsEmpty DEF Given

\* A step that demands nothing, gives nothing and keeps what has ended concludes jobs.
LEMMA Concludes ==
  ASSUME Earned', UNCHANGED <<asked, Given>>, \A j \in Job : Lives[j] # "open" => Lives'[j] = Lives[j]
  PROVE  Promise!Conclude
<1>1. \A j \in Job : Lives'[j] = Life(j)'
  BY DEF Lives
<1>2. ASSUME NEW j \in Job, Lives'[j] # "open"
      PROVE  Lives'[j] \in Terminal /\ (Lives'[j] = "done" => Given'[j] # <<>>)
  BY <1>1, <1>2 DEF Earned
<1>3. Lives' \in [Job -> {"open"} \cup Terminal]
  BY <1>2 DEF Lives
<1>4. \A j \in Job : Lives'[j] # Lives[j] => Lives[j] = "open" /\ (Lives'[j] = "done" => Given[j] # <<>>)
  BY <1>2
<1> QED
  BY <1>3, <1>4 DEF Promise!Conclude, Lives, Given

\* A job has an outcome when and only when it ended quietly.
LEMMA OpenMeans ==
  \A j \in Job : /\ Lives[j] = Life(j)
                 /\ Lives[j] # "open" <=> QuietlyEnded(j)
                 /\ QuietlyEnded(j) => Lives[j] = record[j].status
BY DEF Lives, Life, QuietlyEnded, Terminal

\* Prompts that answer the same demands are the same as given.
LEMMA NothingGiven ==
  ASSUME Typed, [Next]_vars, \A w \in Worker : ~Submit(w)
  PROVE  Given' = Given
<1>0. comfy \in [Job -> Seq(Prompt)] /\ call \in [Handler -> Call]
  BY DEF Typed, TypeOK, JobsOK, ApiOK
<1>1. CASE comfy' = comfy
  BY <1>1 DEF Given
<1>2. ASSUME NEW j, NEW n, NEW state, comfy' = [comfy EXCEPT ![j][n].state = state] PROVE Given' = Given
  <2>1. ASSUME NEW k \in Job PROVE Requests(comfy'[k]) = Requests(comfy[k])
    <3>1. CASE k = j
      <4>1. comfy'[k] = [comfy[k] EXCEPT ![n].state = state]
        BY <1>0, <1>2, <3>1
      <4>2. comfy[k] \in Seq(Prompt)
        BY <1>0
      <4>3. Requests([comfy[k] EXCEPT ![n].state = state]) = Requests(comfy[k])
        BY <4>2, RequestsMove
      <4> QED
        BY <4>1, <4>3
    <3>2. CASE k # j
      BY <1>0, <1>2, <3>2
    <3> QED
      BY <3>1, <3>2
  <2> QED
    BY <2>1 DEF Given
<1>3. ASSUME NEW h \in Handler, Interrupt(h) PROVE Given' = Given
  <2>1. CASE comfy' = comfy
    BY <1>1, <2>1
  <2>2. CASE comfy' # comfy
    <3> DEFINE j == call[h].job
               n == call[h].rec.prompt
    <3>1. comfy' = [comfy EXCEPT ![j][n].state = IF comfy[j][n].state = "active" THEN "gone" ELSE comfy[j][n].state]
      BY <1>3, <2>2 DEF Interrupt
    <3> DEFINE state == IF comfy[j][n].state = "active" THEN "gone" ELSE comfy[j][n].state
    <3>2. comfy' = [comfy EXCEPT ![j][n].state = state]
      BY <3>1
    <3> HIDE DEF j, n, state
    <3> QED
      BY <1>2, <3>2
  <2> QED
    BY <2>1, <2>2
<1>4. CASE ComfyEnds
  <2>1. PICK j \in Job : \E n \in DOMAIN comfy[j], s \in {"done", "failed", "barren"} :
          comfy' = [comfy EXCEPT ![j][n].state = s]
    BY <1>4 DEF ComfyEnds
  <2> QED
    BY <1>2, <2>1
<1>5. ASSUME Next, ~ComfyEnds, \A h \in Handler : ~Interrupt(h) PROVE comfy' = comfy
  <2>1. ASSUME NEW w \in Worker, Pass(w) PROVE comfy' = comfy
    BY <2>1 DEF Pass, Recover, List, EndPass, SkipDelayed, Take, Load, Prepare, FailToSubmit,
                SaveSubmitted, Poll, SavePolled, Postpone, Archive, Unlink, jobs
  <2>2. ASSUME NEW h \in Handler, Client(h) PROVE comfy' = comfy
    BY <1>5, <2>2 DEF Client, Create, Get, Cancel, Retry, Proceed, Ask, SaveAnswer, Unqueue, Discard,
                SaveCancelled, Assess, Requeue, EnqueueJob, Wake, jobs
  <2>3. CASE Environment
    BY <1>5, <2>3 DEF Environment, HeartbeatExpires, ApiCrash, ApiBoot, DelayElapses, ProcessCrash, Kill, jobs
  <2>4. ASSUME \/ \E t \in Thread : EndThread(t) \/ ClearBeat(t) \/ Unregister(t)
               \/ \E p \in Process : Boot(p) \/ Look(p) \/ StopExternal(p) \/ IdleShutdown(p) \/ ClearBeat(p)
               \/ Operator
        PROVE  comfy' = comfy
    BY <2>4 DEF EndThread, Unregister, Boot, Look, StopExternal, IdleShutdown, Retire, ClearBeat, Operator,
                OpsSummary, StartEmbedded, StartExternal, RequestStop, jobs
  <2> QED
    BY <1>5, <2>1, <2>2, <2>3, <2>4 DEF Next
<1> QED
  BY <1>1, <1>3, <1>4, <1>5 DEF vars

\* A worker's submission answers a demand, for a job that is open.
LEMMA SubmitGives ==
  ASSUME Typed, Grounded, NEW w \in Worker, Submit(w)
  PROVE  \E j \in Job : Promise!Give(j)
<1> DEFINE j == hand[w].job
           d == hand[w].rec.request
           prompt == [state |-> "active", request |-> d]
<1>1. pc[w] = "submit" /\ pc[w] \in Carrying /\ pc[w] \in Working
  BY DEF Submit, Carrying, Working
<1>2. j \in Job /\ hand[w].rec \in Record /\ hand[w] \in Hand
  BY <1>1, CarriedWasDemanded
<1>3. d \in 1..asked[j]
  BY <1>1 DEF Grounded, HandsGrounded, Sound
<1>4. /\ comfy' = [comfy EXCEPT ![j] = Append(comfy[j], prompt)]
      /\ pc' = [pc EXCEPT ![w] = "submitted"]
      /\ hand' = [hand EXCEPT ![w].rec = hand'[w].rec]
      /\ UNCHANGED <<record, asked, call>>
  BY DEF Submit, Goto, files, api, Typed, TypeOK, WorkersOK, Hand
<1>5. comfy \in [Job -> Seq(Prompt)] /\ hand \in [Worker -> Hand] /\ pc \in [Worker -> WorkerSteps]
  BY DEF Typed, TypeOK, JobsOK, WorkersOK
<1>6. Given' = [Given EXCEPT ![j] = Append(Given[j], d)]
  <2>1. prompt \in Prompt /\ prompt.request = d
    BY <1>2 DEF Prompt, PromptState, Record
  <2> HIDE DEF prompt
  <2>2. comfy[j] \in Seq(Prompt)
    BY <1>2, <1>5
  <2>3. Requests(Append(comfy[j], prompt)) = Append(Requests(comfy[j]), d)
    BY <2>1, <2>2, RequestsAppend
  <2>4. \A k \in Job : comfy'[k] = IF k = j THEN Append(comfy[j], prompt) ELSE comfy[k]
    BY <1>4, <1>5
  <2> QED
    BY <1>2, <2>3, <2>4 DEF Given
<1>7. Lives[j] = "open"
  BY <1>1, <1>2, OpenMeans DEF QuietlyEnded
<1>8. Lives' = Lives
  <2>1. \A v \in Worker : hand'[v].job = hand[v].job /\ (pc'[v] = pc[v] \/ v = w)
    BY <1>4, <1>5 DEF Hand
  <2>2. pc'[w] = "submitted"
    BY <1>4, <1>5
  <2>3. \A k \in Job : QuietlyEnded(k)' <=> QuietlyEnded(k)
    BY <1>1, <1>4, <2>1, <2>2 DEF QuietlyEnded
  <2>4. \A k \in Job : Life(k)' = Life(k)
    BY <1>4, <2>3 DEF Life
  <2> QED
    BY <2>4 DEF Lives
<1>9. /\ Given' = [Given EXCEPT ![j] = Append(@, d)] /\ UNCHANGED <<asked, Lives>>
  BY <1>4, <1>6, <1>8
<1> QED
  BY <1>2, <1>3, <1>7, <1>9 DEF Promise!Give, Given, Lives

\* A creation or a retry is a demand, and opens the job unless it is blocked.
LEMMA DemandDemands ==
  ASSUME Typed, Grounded, CallsOver, NEW h \in Handler, NEW j \in Job, Create(h, j) \/ Retry(h, j)
  PROVE  Promise!Demand(j)
<1>0. /\ record \in [Job -> Record] /\ asked \in [Job -> Nat] /\ call \in [Handler -> Call]
      /\ call[h].at = "idle" /\ call[h].job = Nobody
  <2>1. call[h].at = "idle"
    BY DEF Create, Retry, Free
  <2> QED
    BY <2>1, ConstantsAssumption DEF Typed, TypeOK, JobsOK, ApiOK, CallsOver
<1>1. asked' = [asked EXCEPT ![j] = @ + 1] /\ UNCHANGED <<comfy, hand, pc>>
  <2>1. CASE Create(h, j)
    <3>1. asked[j] = 0
      BY <1>0, <2>1 DEF Create, Grounded, RecordsGrounded, Sound, NoRecord
    <3> QED
      BY <1>0, <2>1, <3>1 DEF Create, workers
  <2>2. CASE Retry(h, j)
    BY <2>2 DEF Retry, workers
  <2> QED
    BY <2>1, <2>2
<1>2. Given' = Given
  BY <1>1 DEF Given
<1>3. /\ \A k \in Job \ {j} : record'[k] = record[k]
      /\ \A g \in Handler \ {h} : call'[g] = call[g]
      /\ call'[h] = call[h] \/ call'[h].job = j
  <2>1. CASE Create(h, j)
    <3>1. \E rec : record' = [record EXCEPT ![j] = rec]
      BY <2>1 DEF Create
    <3>2. call' = call \/ \E rec : call' = [call EXCEPT ![h] = [at |-> "enqueue", job |-> j, rec |-> rec]]
      BY <2>1 DEF Create, Set
    <3> QED
      BY <1>0, <3>1, <3>2
  <2>2. CASE Retry(h, j)
    BY <1>0, <2>2 DEF Retry, Set
  <2> QED
    BY <2>1, <2>2
<1>4. ASSUME NEW k \in Job, k # j PROVE Life(k)' = Life(k)
  <2>1. call[h].job # k /\ call'[h].job # k
    BY <1>0, <1>3, <1>4, ConstantsAssumption
  <2>2. QuietlyEnded(k)' <=> QuietlyEnded(k)
    BY <1>1, <1>3, <1>4, <2>1 DEF QuietlyEnded
  <2> QED
    BY <1>3, <1>4, <2>2 DEF Life
<1>5. Life(j)' \in {"open", "blocked"}
  <2>1. CASE Create(h, j)
    <3>1. record'[j].status \in {"blocked", "queued", "planned"}
      BY <1>0, <2>1 DEF Create, NewRecord
    <3> QED
      BY <3>1 DEF Life, QuietlyEnded, Terminal
  <2>2. CASE Retry(h, j)
    <3>1. call'[h].at = "assess" /\ call'[h].job = j
      BY <1>0, <2>2 DEF Retry, Set
    <3> QED
      BY <3>1 DEF Life, QuietlyEnded
  <2> QED
    BY <2>1, <2>2
<1>6. Lives' = [Lives EXCEPT ![j] = Life(j)']
  BY <1>4 DEF Lives
<1> QED
  BY <1>1, <1>2, <1>5, <1>6 DEF Promise!Demand, Given, Lives

\* Every other step keeps what has ended.
LEMMA EndsAreKept ==
  ASSUME Typed, [Next]_vars,
         \A h \in Handler, j \in Job : ~Create(h, j) /\ ~Retry(h, j)
  PROVE  asked' = asked /\ \A j \in Job : Lives[j] # "open" => Lives'[j] = Lives[j]
<1>1. asked' = asked
  <2>1. ASSUME NEW w \in Worker, Pass(w) PROVE asked' = asked
    BY <2>1 DEF Pass, Recover, List, EndPass, SkipDelayed, Take, Load, Prepare, Submit, FailToSubmit,
                SaveSubmitted, Poll, SavePolled, Postpone, Archive, Unlink, jobs
  <2>2. ASSUME NEW h \in Handler, Client(h) PROVE asked' = asked
    BY <2>2 DEF Client, Get, Cancel, Proceed, Ask, SaveAnswer, Unqueue, Discard, Interrupt,
                SaveCancelled, Assess, Requeue, EnqueueJob, Wake, jobs
  <2>3. CASE Environment
    BY <2>3 DEF Environment, ComfyEnds, HeartbeatExpires, ApiCrash, ApiBoot, DelayElapses, ProcessCrash, Kill, jobs
  <2>4. ASSUME \/ \E t \in Thread : EndThread(t) \/ ClearBeat(t) \/ Unregister(t)
               \/ \E p \in Process : Boot(p) \/ Look(p) \/ StopExternal(p) \/ IdleShutdown(p) \/ ClearBeat(p)
               \/ Operator
        PROVE  asked' = asked
    BY <2>4 DEF EndThread, Unregister, Boot, Look, StopExternal, IdleShutdown, Retire, ClearBeat, Operator,
                OpsSummary, StartEmbedded, StartExternal, RequestStop, jobs
  <2> QED
    BY <2>1, <2>2, <2>3, <2>4 DEF Next, vars
<1>2. ASSUME NEW j \in Job, QuietlyEnded(j) PROVE record'[j] = record[j] /\ QuietlyEnded(j)'
  <2>1. CASE UNCHANGED vars
    BY <1>2, <2>1 DEF vars, QuietlyEnded
  <2>2. ASSUME NEW w \in Worker, Pass(w) PROVE record'[j] = record[j] /\ QuietlyEnded(j)'
    BY <1>2, <2>2, QuietPass
  <2>3. ASSUME NEW h \in Handler, Client(h) PROVE record'[j] = record[j] /\ QuietlyEnded(j)'
    <3>1. call'[h].at # "assess" \/ call'[h].job # j
      <4>0. call \in [Handler -> Call] /\ Idle.at = "idle"
        BY DEF Typed, TypeOK, ApiOK, Idle
      <4>1. ASSUME NEW c, call' = [call EXCEPT ![h] = c], c.at # "assess" PROVE call'[h].at # "assess"
        BY <4>0, <4>1
      <4>2. ASSUME NEW at, NEW k, NEW rec, at # "assess", Set(h, at, k, rec) PROVE call'[h].at # "assess"
        BY <4>0, <4>2 DEF Set
      <4>3. Hang(h) => call'[h].at # "assess"
        BY <4>0, <4>1 DEF Hang
      <4>4. ASSUME NEW k \in Job, Get(h, k) \/ Cancel(h, k) PROVE call'[h].at # "assess"
        BY <4>2, <4>4 DEF Get, Cancel, Free
      <4>5. ASSUME Proceed(h) PROVE call'[h].at # "assess"
        BY <4>2, <4>3, <4>5
           DEF Proceed, Ask, SaveAnswer, Unqueue, Discard, Interrupt, SaveCancelled, Assess, Requeue,
               EnqueueJob, Wake
      <4> QED
        BY <2>3, <4>4, <4>5 DEF Client
    <3> QED
      BY <1>2, <2>3, <3>1, QuietClient
  <2>4. ASSUME \/ \E t \in Thread : EndThread(t) \/ ClearBeat(t) \/ Unregister(t)
               \/ \E p \in Process : Boot(p) \/ Look(p) \/ StopExternal(p) \/ IdleShutdown(p) \/ ClearBeat(p)
               \/ Operator \/ Environment
        PROVE  record'[j] = record[j] /\ QuietlyEnded(j)'
    BY <1>2, <2>4, QuietOthers
  <2> QED
    BY <2>1, <2>2, <2>3, <2>4 DEF Next
<1>3. ASSUME NEW j \in Job, Lives[j] # "open" PROVE Lives'[j] = Lives[j]
  <2>1. QuietlyEnded(j) /\ record'[j] = record[j] /\ QuietlyEnded(j)'
    BY <1>2, <1>3, OpenMeans
  <2>2. Life(j)' = Life(j)
    BY <2>1 DEF Life
  <2> QED
    BY <2>2 DEF Lives
<1> QED
  BY <1>1, <1>3

\* Every step of the queue is a step of the promise, or none.
LEMMA StepKeepsPromise ==
  Typed /\ Grounded /\ CallsOver /\ Earned' /\ [Next]_vars => [Promise!Next]_Promise!promise
<1> SUFFICES ASSUME Typed, Grounded, CallsOver, Earned', [Next]_vars
             PROVE  [Promise!Next]_Promise!promise
  OBVIOUS
<1>1. ASSUME NEW w \in Worker, Submit(w) PROVE Promise!Next
  BY <1>1, SubmitGives DEF Promise!Next
<1>2. ASSUME NEW h \in Handler, NEW j \in Job, Create(h, j) \/ Retry(h, j) PROVE Promise!Next
  BY <1>2, DemandDemands DEF Promise!Next
<1>3. ASSUME \A w \in Worker : ~Submit(w), \A h \in Handler, j \in Job : ~Create(h, j) /\ ~Retry(h, j)
      PROVE  Promise!Next
  <2>1. Given' = Given
    BY <1>3, NothingGiven
  <2>2. asked' = asked /\ \A j \in Job : Lives[j] # "open" => Lives'[j] = Lives[j]
    BY <1>3, EndsAreKept
  <2>3. Promise!Conclude
    BY <2>1, <2>2, Concludes
  <2> QED
    BY <2>3 DEF Promise!Next
<1> QED
  BY <1>1, <1>2, <1>3

LEMMA InitKeepsPromise == Init => Promise!Init
BY DEF Init, Promise!Init, Requests, Life, QuietlyEnded, NoRecord, Terminal

\* Nothing is on file, listed or in hand for a job nobody demanded, and a record is
\* "done", or names a prompt, only if ComfyUI was given the job.
THEOREM GroundedHolds == Spec => []Grounded
<1>1. Typed /\ [Next]_vars => Typed'
  BY StepTyped
<1> QED
  BY InitTyped, InitGrounded, <1>1, StepGrounded, PTL DEF Spec

\* For any number of jobs, workers of both kinds, requests and crashes, the queue of
\* files and threads keeps what it promises its users.
THEOREM PromiseKept == Spec => KeepsPromise
<1>1. Typed /\ [Next]_vars => Typed'
  BY StepTyped
<1>2. Promise!Spec <=> Promise!Init /\ [][Promise!Next]_Promise!promise
  BY DEF Promise!Spec
<1> QED
  BY InitTyped, InitGrounded, InitOver, InitKeepsPromise, <1>1, <1>2, StepGrounded, StepOver,
     EndIsEarned, StepKeepsPromise, PTL DEF Spec, KeepsPromise
=============================================================================
