------------------------ MODULE RawprepQueue_proofs ------------------------
(***************************************************************************)
(* What RawprepQueue keeps for any number of jobs, brackets, requests and  *)
(* crashes.                                                                *)
(*                                                                         *)
(* Formed is the type invariant with what it needs to be inductive: who is *)
(* at work has a job for it.  Means says what a step is to one job; every  *)
(* later proof is about these few ways, and no longer about the actions.   *)
(* Orderly is the invariant that patient users bring about: a job is the   *)
(* worker's, or waits in the queue, or one request has it.  On it rest the *)
(* three invariants that do not survive a retry of a job at work.          *)
(***************************************************************************)
EXTENDS RawprepQueue, TLAPS

SavingType == [at : {"no", "read", "open", "write"}, job : Job \cup {Nobody}, copy : SUBSET Job]
HandType   == [job : Job \cup {Nobody}, entry : Entry, group : 1..(Groups + 1), result : Result]
CallType   == [at : {"idle", "initialize", "queue", "enqueue", "wake", "cancel"}, job : Job \cup {Nobody}]

\* Who is at work has a job for it.
AtIt == pc \in {"load", "begin", "run", "settle"}

Busy ==
  /\ AtIt <=> hand.job \in Job
  /\ \A h \in Handler : call[h].at # "idle" <=> call[h].job \in Job
  /\ \A a \in Actor : saving[a].at # "no" => saving[a].job \in Job

Formed == RawTypeOK /\ Busy

LEMMA EntryMade ==
  /\ Absent \in Entry
  /\ \A e \in Entry : Enqueued(e) \in Entry /\ Recovered(e) \in Entry /\ Postponed(e) \in Entry
  /\ \A e \in Entry, counted \in BOOLEAN : MarkedRunning(e, counted) \in Entry
  /\ \A e \in Entry : [e EXCEPT !.due = TRUE] \in Entry
<1>1. Absent \in Entry
  BY DEF Absent, Entry
<1>2. \A e \in Entry : Enqueued(e) \in Entry /\ Recovered(e) \in Entry /\ Postponed(e) \in Entry
  BY DEF Entry, Enqueued, Recovered, Postponed
<1>3. \A e \in Entry, counted \in BOOLEAN : MarkedRunning(e, counted) \in Entry
  BY DEF Entry, MarkedRunning
<1>4. \A e \in Entry : [e EXCEPT !.due = TRUE] \in Entry
  BY DEF Entry
<1> QED BY <1>1, <1>2, <1>3, <1>4

LEMMA Nothings ==
  /\ NotSaving \in SavingType /\ NotSaving.at = "no"
  /\ NoHand \in HandType /\ NoHand.job = Nobody /\ NoHand.group = 1
  /\ NoTodo \in [Job -> Entry] /\ \A j \in Job : NoTodo[j] = Absent
  /\ Idle \in CallType /\ Idle.at = "idle" /\ Idle.job = Nobody
  /\ Outlined \in [1..Groups -> {Foundation, "preview_fused"}]
BY RawprepAssumption, EntryMade DEF NotSaving, SavingType, NoHand, HandType, NoTodo, Idle, CallType, Outlined, Result

LEMMA FusedMeans == \A bracket : Fused(bracket) \in {"nothing", "preview_fused"}
BY DEF Fused

LEMMA FormedInit == Init => Formed
BY Nothings, EntryMade, RawprepAssumption DEF Init, Formed, Busy, AtIt, RawTypeOK, Waiting, Ended, SavingType, HandType, CallType, NoTodo

\* What a save leaves an actor with is a record of the right shape.
SavingOK(s) == s \in SavingType /\ (s.at # "no" => s.job \in Job)

LEMMA SaveFormed ==
  ASSUME Formed, NEW a \in Actor, NEW s, SavingOK(s), saving' = [saving EXCEPT ![a] = s]
  PROVE  saving' \in [Actor -> SavingType] /\ \A b \in Actor : SavingOK(saving'[b])
BY DEF Formed, Busy, RawTypeOK, SavingType, SavingOK

LEMMA SaveKept ==
  ASSUME Formed, UNCHANGED saving
  PROVE  saving' \in [Actor -> SavingType] /\ \A b \in Actor : SavingOK(saving'[b])
BY DEF Formed, Busy, RawTypeOK, SavingType, SavingOK

\* A save that has read the index is still of the same job.
LEMMA ReadTyped ==
  ASSUME NEW s \in SavingType, NEW x \in SUBSET Job
  PROVE  /\ [s EXCEPT !.at = "open", !.copy = x] \in SavingType
         /\ [s EXCEPT !.at = "open", !.copy = x].job = s.job
<1>1. [s EXCEPT !.at = "open"] \in SavingType /\ [s EXCEPT !.at = "open"].job = s.job
  BY DEF SavingType
<1>2. ASSUME NEW r \in SavingType
      PROVE  [r EXCEPT !.copy = x] \in SavingType /\ [r EXCEPT !.copy = x].job = r.job
  BY DEF SavingType
<1>3. [s EXCEPT !.at = "open", !.copy = x] = [[s EXCEPT !.at = "open"] EXCEPT !.copy = x]
  BY DEF SavingType
<1> QED BY <1>1, <1>2, <1>3

LEMMA IndexSteps ==
  ASSUME Formed, NEW a \in Actor, ReadIndex(a) \/ OpenIndex(a) \/ WriteIndex(a)
  PROVE  /\ saving' \in [Actor -> SavingType] /\ \A b \in Actor : SavingOK(saving'[b])
         /\ index' \in [whole : BOOLEAN, jobs : SUBSET Job]
         /\ UNCHANGED <<report, pending, record, pc, todo, hand, call, asked, runs, misread, crashes>>
<1> USE DEF worker, counts
<1>0. saving[a] \in SavingType /\ index \in [whole : BOOLEAN, jobs : SUBSET Job] /\ saving \in [Actor -> SavingType]
  BY DEF Formed, RawTypeOK, SavingType
<1>1. CASE ReadIndex(a)
  <2> DEFINE x == IF index.whole THEN index.jobs ELSE {}
             s == [saving[a] EXCEPT !.at = "open", !.copy = x]
  <2>1. x \in SUBSET Job /\ saving[a].job \in Job
    BY <1>0, <1>1 DEF SavingType, ReadIndex, Formed, Busy
  <2>2. saving' = [saving EXCEPT ![a] = s]
    BY <1>1 DEF ReadIndex
  <2> HIDE DEF x
  <2>3. s \in SavingType /\ s.job = saving[a].job
    BY <1>0, <2>1, ReadTyped
  <2> HIDE DEF s
  <2> QED BY <1>0, <1>1, <2>1, <2>2, <2>3, SaveFormed DEF ReadIndex, SavingOK
<1>2. CASE OpenIndex(a)
  <2> DEFINE s == [saving[a] EXCEPT !.at = "write"]
  <2>1. s \in SavingType /\ s.job = saving[a].job /\ saving[a].job \in Job
    BY <1>0, <1>2 DEF SavingType, OpenIndex, Formed, Busy
  <2>2. saving' = [saving EXCEPT ![a] = s]
    BY <1>2 DEF OpenIndex
  <2>3. index' \in [whole : BOOLEAN, jobs : SUBSET Job]
    BY <1>2 DEF OpenIndex
  <2> HIDE DEF s
  <2> QED BY <1>2, <2>1, <2>2, <2>3, SaveFormed DEF OpenIndex, SavingOK
<1>3. CASE WriteIndex(a)
  <2>1. saving' \in [Actor -> SavingType] /\ \A b \in Actor : SavingOK(saving'[b])
    BY <1>3, Nothings, SaveFormed DEF WriteIndex, SavingOK
  <2>2. index' \in [whole : BOOLEAN, jobs : SUBSET Job]
    <3>1. PICK whole \in IF index.whole THEN BOOLEAN ELSE {TRUE} :
            index' = [whole |-> whole, jobs |-> saving[a].copy \cup {saving[a].job}]
      BY <1>3 DEF WriteIndex
    <3>2. saving[a].job \in Job /\ saving[a].copy \subseteq Job
      BY <1>0, <1>3 DEF SavingType, WriteIndex, Formed, Busy
    <3> QED BY <3>1, <3>2
  <2> QED BY <1>3, <2>1, <2>2 DEF WriteIndex
<1> QED BY <1>1, <1>2, <1>3

\* Formed is these facts, one for each variable.
LEMMA FormedIs ==
  Formed <=>
    /\ pending \in [Job -> Entry]
    /\ report \in [Job -> [1..Groups -> {Foundation, "preview_fused"}]]
    /\ record \in [Job -> {"absent"} \cup Waiting \cup Ended]
    /\ index \in [whole : BOOLEAN, jobs : SUBSET Job]
    /\ saving \in [Actor -> SavingType] /\ \A b \in Actor : SavingOK(saving[b])
    /\ pc \in {"down", "list", "pick", "load", "begin", "run", "settle"}
    /\ todo \in [Job -> Entry]
    /\ hand \in HandType /\ (AtIt <=> hand.job \in Job)
    /\ call \in [Handler -> CallType] /\ \A h \in Handler : call[h].at # "idle" <=> call[h].job \in Job
    /\ asked \in [Job -> Nat] /\ runs \in [Job -> Nat]
    /\ misread \in Nat /\ crashes \in 0..MaxCrashes
BY DEF Formed, RawTypeOK, Busy, SavingType, SavingOK, HandType, CallType

LEMMA HandTyped ==
  ASSUME NEW hd \in HandType, NEW result \in Result
  PROVE  /\ [hd EXCEPT !.result = result] \in HandType
         /\ [hd EXCEPT !.result = result].job = hd.job
BY DEF HandType

LEMMA SavingTyped ==
  ASSUME Formed, NEW a \in Actor, NEW j \in Job, NEW status \in Waiting \cup Ended, Save(a, j, status)
  PROVE  /\ record' \in [Job -> {"absent"} \cup Waiting \cup Ended]
         /\ saving' \in [Actor -> SavingType] /\ \A b \in Actor : SavingOK(saving'[b])
<1>1. record' \in [Job -> {"absent"} \cup Waiting \cup Ended]
  BY FormedIs DEF Save
<1> DEFINE s == [at |-> "read", job |-> j, copy |-> {}]
<1>2. SavingOK(s)
  BY DEF SavingOK, SavingType
<1> HIDE DEF s
<1>3. saving' = [saving EXCEPT ![a] = s]
  BY DEF Save, s
<1> QED BY <1>1, <1>2, <1>3, SaveFormed

LEMMA CallTyped ==
  ASSUME Formed, NEW h \in Handler, NEW at \in {"initialize", "queue", "enqueue", "wake", "cancel"}, NEW j \in Job,
         Set(h, at, j)
  PROVE  call' \in [Handler -> CallType] /\ \A g \in Handler : call'[g].at # "idle" <=> call'[g].job \in Job
<1> DEFINE c == [at |-> at, job |-> j]
<1>1. c \in CallType /\ c.at # "idle" /\ c.job \in Job
  BY DEF CallType
<1>2. call' = [call EXCEPT ![h] = c]
  BY DEF Set
<1> HIDE DEF c
<1> QED BY <1>1, <1>2, FormedIs

LEMMA FormedStep ==
  ASSUME Formed, Next
  PROVE  Formed'
<1> USE DEF worker, counts
<1>0. /\ pending \in [Job -> Entry]
      /\ report \in [Job -> [1..Groups -> {Foundation, "preview_fused"}]]
      /\ record \in [Job -> {"absent"} \cup Waiting \cup Ended]
      /\ index \in [whole : BOOLEAN, jobs : SUBSET Job]
      /\ saving \in [Actor -> SavingType] /\ \A b \in Actor : SavingOK(saving[b])
      /\ pc \in {"down", "list", "pick", "load", "begin", "run", "settle"}
      /\ todo \in [Job -> Entry]
      /\ hand \in HandType /\ (AtIt <=> hand.job \in Job)
      /\ call \in [Handler -> CallType] /\ \A h \in Handler : call[h].at # "idle" <=> call[h].job \in Job
      /\ asked \in [Job -> Nat] /\ runs \in [Job -> Nat]
      /\ misread \in Nat /\ crashes \in 0..MaxCrashes
  BY FormedIs
<1> DEFINE Goal ==
      /\ pending' \in [Job -> Entry]
      /\ report' \in [Job -> [1..Groups -> {Foundation, "preview_fused"}]]
      /\ record' \in [Job -> {"absent"} \cup Waiting \cup Ended]
      /\ index' \in [whole : BOOLEAN, jobs : SUBSET Job]
      /\ saving' \in [Actor -> SavingType] /\ \A b \in Actor : SavingOK(saving'[b])
      /\ pc' \in {"down", "list", "pick", "load", "begin", "run", "settle"}
      /\ todo' \in [Job -> Entry]
      /\ hand' \in HandType /\ (pc' \in {"load", "begin", "run", "settle"} <=> hand'.job \in Job)
      /\ call' \in [Handler -> CallType] /\ \A h \in Handler : call'[h].at # "idle" <=> call'[h].job \in Job
      /\ asked' \in [Job -> Nat] /\ runs' \in [Job -> Nat]
      /\ misread' \in Nat /\ crashes' \in 0..MaxCrashes
<1>g. SUFFICES Goal
  BY DEF Formed, RawTypeOK, Busy, SavingType, SavingOK, HandType, CallType, AtIt
<1>s. Worker \in Actor /\ Handler \subseteq Actor
  BY DEF Actor
<1>w. /\ pc \in {"load", "begin", "run", "settle"} => hand.job \in Job
      /\ pc \notin {"load", "begin", "run", "settle"} => hand.job \notin Job
  BY <1>0 DEF AtIt
<1>a. CASE List
  <2>1. pending' \in [Job -> Entry]
    BY <1>a, <1>0, EntryMade DEF List
  <2>2. todo' \in [Job -> Entry]
    BY <1>a, <2>1, EntryMade DEF List
  <2> QED BY <1>0, <1>a, <1>w, <2>1, <2>2 DEF List
<1>b. CASE EndPass
  BY <1>0, <1>b, <1>w DEF EndPass
<1>c. CASE SkipDelayed
  BY <1>0, <1>c, <1>w, EntryMade DEF SkipDelayed
<1>d. CASE Take
  <2>1. PICK j \in Job :
          /\ pending' = [pending EXCEPT ![j] = MarkedRunning(todo[j], TRUE)]
          /\ hand' = [NoHand EXCEPT !.job = j, !.entry = MarkedRunning(todo[j], TRUE)]
          /\ todo' = [todo EXCEPT ![j] = Absent]
    BY <1>d DEF Take
  <2> DEFINE e == MarkedRunning(todo[j], TRUE)
  <2>2. e \in Entry
    BY <1>0, EntryMade
  <2> HIDE DEF e
  <2>3. hand' = [NoHand EXCEPT !.job = j, !.entry = e]
    BY <2>1 DEF e
  <2>4. hand' = [job |-> j, entry |-> e, group |-> 1, result |-> "done"]
    BY <2>3 DEF NoHand
  <2>5. hand' \in HandType /\ hand'.job = j
    BY <2>2, <2>4, RawprepAssumption DEF HandType, Result
  <2>6. pending' = [pending EXCEPT ![j] = e]
    BY <2>1 DEF e
  <2>7. todo' = [todo EXCEPT ![j] = Absent] /\ Absent \in Entry
    BY <2>1, EntryMade
  <2>9. pending' \in [Job -> Entry] /\ todo' \in [Job -> Entry]
    BY <1>0, <2>2, <2>6, <2>7
  <2>8. pc' = "load" /\ UNCHANGED <<report, record, index, saving, call, counts>>
    BY <1>d DEF Take
  <2> QED BY <1>0, <2>5, <2>8, <2>9
<1>e. CASE FailToLoad
  <2>1. hand' \in HandType /\ hand'.job = hand.job
    BY <1>e, <1>0, HandTyped DEF FailToLoad, Settle, Result
  <2> QED BY <1>0, <1>e, <1>w, <2>1 DEF FailToLoad, Settle
<1>f. CASE Load
  <2>1. CASE pc' = "begin" /\ UNCHANGED hand
    BY <1>0, <1>f, <1>w, <2>1 DEF Load
  <2>2. CASE \E result \in Result : Settle(result)
    <3>1. hand' \in HandType /\ hand'.job = hand.job /\ pc' = "settle"
      BY <2>2, <1>0, HandTyped DEF Settle
    <3> QED BY <1>0, <1>f, <1>w, <3>1 DEF Load
  <2> QED BY <1>f, <2>1, <2>2 DEF Load, Result
<1>h. CASE Begin
  <2>1. /\ record' \in [Job -> {"absent"} \cup Waiting \cup Ended]
        /\ saving' \in [Actor -> SavingType] /\ \A b \in Actor : SavingOK(saving'[b])
    BY <1>h, <1>s, <1>w, SavingTyped DEF Begin, Waiting
  <2>2. runs' \in [Job -> Nat]
    <3>1. runs' = [runs EXCEPT ![hand.job] = runs[hand.job] + 1] /\ hand.job \in Job
      BY <1>h, <1>w DEF Begin
    <3>2. runs[hand.job] + 1 \in Nat
      BY <1>0, <3>1
    <3> QED BY <1>0, <3>1, <3>2
  <2>3. pc' = "run" /\ hand.job \in Job
    BY <1>h, <1>w DEF Begin
  <2> QED BY <1>0, <1>h, <2>1, <2>2, <2>3 DEF Begin
<1>i. CASE Fuse
  <2>1. CASE EndRun("blocked", "failed") /\ UNCHANGED report
    <3>1. /\ record' \in [Job -> {"absent"} \cup Waiting \cup Ended]
          /\ saving' \in [Actor -> SavingType] /\ \A b \in Actor : SavingOK(saving'[b])
      BY <1>i, <2>1, <1>s, <1>w, SavingTyped DEF Fuse, Ended, EndRun
    <3>2. hand' \in HandType /\ hand'.job = hand.job /\ pc' = "settle"
      BY <2>1, <1>0, HandTyped DEF EndRun, Settle, Result
    <3> QED BY <1>0, <1>i, <1>w, <2>1, <3>1, <3>2 DEF Fuse
  <2>2. CASE \E bracket \in Brackets :
          /\ Fused(bracket) # "nothing"
          /\ report' = [report EXCEPT ![hand.job][hand.group] = Fused(bracket)]
          /\ hand' = [hand EXCEPT !.group = @ + 1]
          /\ UNCHANGED <<record, saving, pc>>
    <3>0. /\ hand.group \in 1..Groups /\ hand.job \in Job
          /\ hand' = [hand EXCEPT !.group = hand.group + 1]
      BY <1>0, <1>i, <1>w, <2>2, RawprepAssumption DEF HandType, Fuse
    <3>1. hand' \in HandType /\ hand'.job = hand.job
      <4>1. hand.group + 1 \in 1..(Groups + 1)
        BY <3>0, RawprepAssumption
      <4> QED BY <1>0, <3>0, <4>1 DEF HandType
    <3>2. report' \in [Job -> [1..Groups -> {Foundation, "preview_fused"}]]
      <4>1. PICK bracket \in Brackets :
              /\ Fused(bracket) # "nothing"
              /\ report' = [report EXCEPT ![hand.job][hand.group] = Fused(bracket)]
        BY <2>2
      <4>2. Fused(bracket) = "preview_fused"
        BY <4>1, FusedMeans
      <4>3. report' = [report EXCEPT ![hand.job] = [report[hand.job] EXCEPT ![hand.group] = "preview_fused"]]
        BY <4>1, <4>2
      <4> QED BY <1>0, <3>0, <4>3
    <3> QED BY <1>0, <1>i, <1>w, <2>2, <3>1, <3>2 DEF Fuse
  <2> QED BY <1>i, <2>1, <2>2 DEF Fuse
<1>j. CASE Fail
  <2>1. /\ record' \in [Job -> {"absent"} \cup Waiting \cup Ended]
        /\ saving' \in [Actor -> SavingType] /\ \A b \in Actor : SavingOK(saving'[b])
    BY <1>j, <1>s, <1>w, SavingTyped DEF Fail, Ended, EndRun
  <2>2. hand' \in HandType /\ hand'.job = hand.job /\ pc' = "settle"
    BY <1>j, <1>0, HandTyped DEF Fail, EndRun, Settle, Result
  <2> QED BY <1>0, <1>j, <1>w, <2>1, <2>2 DEF Fail
<1>k. CASE Complete
  <2>1. /\ record' \in [Job -> {"absent"} \cup Waiting \cup Ended]
        /\ saving' \in [Actor -> SavingType] /\ \A b \in Actor : SavingOK(saving'[b])
    BY <1>k, <1>s, <1>w, SavingTyped DEF Complete, Ended, EndRun
  <2>2. hand' \in HandType /\ hand'.job = hand.job /\ pc' = "settle"
    BY <1>k, <1>0, HandTyped DEF Complete, EndRun, Settle, Result
  <2> QED BY <1>0, <1>k, <1>w, <2>1, <2>2 DEF Complete
<1>l. CASE Postpone \/ Archive
  <2>1. hand.entry \in Entry
    BY <1>0 DEF HandType
  <2>2. \E e \in Entry : pending' = [pending EXCEPT ![hand.job] = e]
    BY <1>l, <2>1, EntryMade DEF Postpone, Archive
  <2>3. pending' \in [Job -> Entry]
    BY <1>0, <2>2
  <2>4. hand' = NoHand /\ pc' = "pick" /\ UNCHANGED <<report, record, index, saving, todo, call, counts>>
    BY <1>l DEF Postpone, Archive
  <2>5. hand' \in HandType /\ hand'.job \notin Job
    BY <2>4, Nothings, RawprepAssumption
  <2> QED BY <1>0, <2>3, <2>4, <2>5
<1>m. CASE \E a \in Actor : ReadIndex(a) \/ OpenIndex(a) \/ WriteIndex(a)
  BY <1>0, <1>m, <1>w, IndexSteps
<1>n. CASE LookAtBoard \/ \E h \in Handler, j \in Job : Get(h, j)
  BY <1>0, <1>n, <1>w DEF LookAtBoard, Get, StartQueueWorker
<1>o. ASSUME NEW h \in Handler, NEW j \in Job, Create(h, j) PROVE Goal
  <2>1. /\ record' \in [Job -> {"absent"} \cup Waiting \cup Ended]
        /\ saving' \in [Actor -> SavingType] /\ \A b \in Actor : SavingOK(saving'[b])
    BY <1>o, <1>s, SavingTyped DEF Create, Waiting
  <2>2. call' \in [Handler -> CallType] /\ \A g \in Handler : call'[g].at # "idle" <=> call'[g].job \in Job
    BY <1>o, <1>0, CallTyped DEF Create
  <2>3. asked' \in [Job -> Nat]
    BY <1>o, <1>0 DEF Create
  <2> QED BY <1>0, <1>o, <1>w, <2>1, <2>2, <2>3 DEF Create
<1>p. ASSUME NEW h \in Handler, NEW j \in Job, Retry(h, j) PROVE Goal
  <2>1. call' \in [Handler -> CallType] /\ \A g \in Handler : call'[g].at # "idle" <=> call'[g].job \in Job
    BY <1>p, <1>0, CallTyped DEF Retry
  <2> QED BY <1>0, <1>p, <1>w, <2>1, Nothings DEF Retry
<1>q. ASSUME NEW h \in Handler, NEW j \in Job, Cancel(h, j) PROVE Goal
  <2>1. call' \in [Handler -> CallType] /\ \A g \in Handler : call'[g].at # "idle" <=> call'[g].job \in Job
    BY <1>q, <1>0, CallTyped DEF Cancel
  <2> QED BY <1>0, <1>q, <1>w, <2>1 DEF Cancel
<1>k1. ASSUME NEW h \in Handler, SaveCancel(h) PROVE Goal
  <2>0. call[h].job \in Job
    BY <1>0, <1>k1 DEF SaveCancel
  <2>1. /\ record' \in [Job -> {"absent"} \cup Waiting \cup Ended]
        /\ saving' \in [Actor -> SavingType] /\ \A b \in Actor : SavingOK(saving'[b])
    BY <1>k1, <1>s, <2>0, SavingTyped DEF SaveCancel, Ended
  <2>2. call' \in [Handler -> CallType] /\ \A g \in Handler : call'[g].at # "idle" <=> call'[g].job \in Job
    BY <1>k1, <1>0, Nothings, RawprepAssumption DEF SaveCancel, Hang
  <2> QED BY <1>0, <1>k1, <1>w, <2>1, <2>2 DEF SaveCancel
<1>r. ASSUME NEW h \in Handler, Initialize(h) \/ Queue(h) PROVE Goal
  <2>0. call[h].job \in Job
    BY <1>0, <1>r DEF Initialize, Queue
  <2>1. /\ record' \in [Job -> {"absent"} \cup Waiting \cup Ended]
        /\ saving' \in [Actor -> SavingType] /\ \A b \in Actor : SavingOK(saving'[b])
    BY <1>r, <1>s, <2>0, SavingTyped DEF Initialize, Queue, Waiting
  <2>2. call' \in [Handler -> CallType] /\ \A g \in Handler : call'[g].at # "idle" <=> call'[g].job \in Job
    BY <1>r, <1>0, <2>0, CallTyped DEF Initialize, Queue
  <2> QED BY <1>0, <1>r, <1>w, <2>1, <2>2 DEF Initialize, Queue
<1>t. ASSUME NEW h \in Handler, Enqueue(h) PROVE Goal
  <2>0. call[h].job \in Job
    BY <1>0, <1>t DEF Enqueue
  <2>2. call' \in [Handler -> CallType] /\ \A g \in Handler : call'[g].at # "idle" <=> call'[g].job \in Job
    BY <1>t, <1>0, <2>0, CallTyped DEF Enqueue
  <2>3. pending' \in [Job -> Entry]
    BY <1>t, <1>0, EntryMade DEF Enqueue
  <2> QED BY <1>0, <1>t, <1>w, <2>2, <2>3 DEF Enqueue
<1>u. ASSUME NEW h \in Handler, Wake(h) PROVE Goal
  <2>2. call' \in [Handler -> CallType] /\ \A g \in Handler : call'[g].at # "idle" <=> call'[g].job \in Job
    BY <1>u, <1>0, Nothings, RawprepAssumption DEF Wake, Hang
  <2> QED BY <1>0, <1>u, <1>w, <2>2 DEF Wake, StartQueueWorker
<1>v. ASSUME NEW j \in Job, DelayElapses(j) PROVE Goal
  <2>1. pending' = [pending EXCEPT ![j] = [pending[j] EXCEPT !.due = TRUE]]
    BY <1>v DEF DelayElapses
  <2>2. pending' \in [Job -> Entry]
    BY <1>0, <2>1, EntryMade
  <2> QED BY <1>0, <1>v, <1>w, <2>2 DEF DelayElapses
<1>x. CASE Crash
  <2>1. saving' \in [Actor -> SavingType] /\ \A b \in Actor : SavingOK(saving'[b])
    BY <1>x, Nothings DEF Crash, SavingOK
  <2>2. crashes' \in 0..MaxCrashes
    BY <1>x, <1>0, RawprepAssumption DEF Crash
  <2>3. call' \in [Handler -> CallType] /\ \A g \in Handler : call'[g].at # "idle" <=> call'[g].job \in Job
    BY <1>x, Nothings, RawprepAssumption DEF Crash
  <2> QED BY <1>0, <1>x, <2>1, <2>2, <2>3, Nothings, RawprepAssumption DEF Crash
<1> HIDE DEF Goal
<1>y. CASE Work
  BY <1>y, <1>a, <1>b, <1>c, <1>d, <1>e, <1>f, <1>h, <1>i, <1>j, <1>k, <1>l, <1>m, <1>s DEF Work
<1>z. ASSUME NEW h \in Handler, Serve(h) PROVE Goal
  BY <1>z, <1>s, <1>m, <1>n, <1>o, <1>p, <1>q, <1>k1, <1>r, <1>t, <1>u DEF Serve, Proceed
<1> QED BY <1>y, <1>z, <1>n, <1>v, <1>x DEF Next

\* Records, entries, index, saves and requests stay well formed,
\* however jobs are created, retried, cancelled and crashed into.
THEOREM RawTypesHold == Spec => []RawTypeOK
<1>1. Formed /\ UNCHANGED rvars => Formed'
  BY DEF Formed, RawTypeOK, Busy, AtIt, rvars
<1>2. Formed /\ [Next]_rvars => Formed'
  BY <1>1, FormedStep
<1>3. Formed => RawTypeOK
  BY DEF Formed
<1> QED BY FormedInit, <1>2, <1>3, PTL DEF Spec

-----------------------------------------------------------------------------
\* What a step means to one job.

FileKept(j)   == record'[j] = record[j] /\ report'[j] = report[j]
Counted(j)    == asked'[j] = asked[j] /\ runs'[j] = runs[j] /\ misread' = misread /\ crashes' = crashes
EntryKept(j)  == pending'[j] = pending[j] /\ todo'[j] = todo[j]
WorkerKept(j) == hand' = hand /\ (hand.job = j => pc' = pc)
CallsKept(j)  == \A h \in Handler : /\ call'[h].job = j <=> call[h].job = j
                                    /\ call[h].job = j => call'[h].at = call[h].at

\* A request of the job moves on, and no other is the job's.
CallMoves(h, j, at) ==
  /\ call'[h].job = j /\ call'[h].at = at
  /\ \A g \in Handler \ {h} : call'[g] = call[g]

\* The step is about another job, or lists the entries.
Aside(j) ==
  /\ FileKept(j) /\ CallsKept(j)
  /\ asked'[j] = asked[j] /\ runs'[j] = runs[j] /\ misread' >= misread /\ crashes' = crashes
  /\ hand'.job = j <=> hand.job = j
  /\ hand.job = j => hand' = hand /\ pc' = pc
  /\ pending'[j] = Absent <=> pending[j] = Absent
  /\ pending'[j].attempts = pending[j].attempts
  /\ todo'[j] \in {todo[j], Absent} \/ (todo'[j] = pending'[j] /\ hand.job # j)

TakesIt(j) ==
  /\ FileKept(j) /\ CallsKept(j) /\ Counted(j)
  /\ pc = "pick" /\ pc' = "load"
  /\ todo[j].status = "queued" /\ todo'[j] = Absent
  /\ pending'[j] = MarkedRunning(todo[j], TRUE)
  /\ hand'.job = j /\ hand'.entry = pending'[j] /\ hand'.group = 1

MissesIt(j) ==
  /\ FileKept(j) /\ CallsKept(j) /\ EntryKept(j)
  /\ hand.job = j /\ hand'.job = j /\ hand'.entry = hand.entry
  /\ pc \in {"load", "begin"} /\ pc' = "settle" /\ hand'.result = "retryable"
  /\ asked'[j] = asked[j] /\ runs'[j] = runs[j] /\ misread' = misread + 1 /\ crashes' = crashes

LoadsIt(j) ==
  /\ FileKept(j) /\ CallsKept(j) /\ EntryKept(j) /\ Counted(j)
  /\ hand.job = j /\ hand'.job = j /\ hand'.entry = hand.entry
  /\ pc = "load"
  /\ \/ pc' = "begin" /\ record[j] \in Waiting /\ hand' = hand
     \/ pc' = "settle" /\ record[j] \in Ended

BeginsIt(j) ==
  /\ CallsKept(j) /\ EntryKept(j)
  /\ hand.job = j /\ hand' = hand
  /\ pc = "begin" /\ pc' = "run"
  /\ record'[j] = "running" /\ report'[j] = report[j]
  /\ asked'[j] = asked[j] /\ runs'[j] = runs[j] + 1 /\ misread' = misread /\ crashes' = crashes

FusesIt(j) ==
  /\ CallsKept(j) /\ EntryKept(j) /\ Counted(j)
  /\ hand.job = j /\ hand'.job = j
  /\ pc = "run" /\ pc' = "run" /\ record'[j] = record[j]
  /\ hand.group \in 1..Groups /\ hand'.group = hand.group + 1
  /\ report'[j] = [report[j] EXCEPT ![hand.group] = "preview_fused"]

EndsIt(j) ==
  /\ CallsKept(j) /\ EntryKept(j) /\ Counted(j)
  /\ hand.job = j /\ hand'.job = j
  /\ pc = "run" /\ pc' = "settle"
  /\ report'[j] = report[j] /\ record'[j] \in Ended
  /\ record'[j] = "done" => hand.group > Groups

PutsBack(j) ==
  /\ FileKept(j) /\ CallsKept(j) /\ Counted(j)
  /\ hand.job = j /\ hand'.job = Nobody
  /\ pc = "settle" /\ pc' = "pick"
  /\ todo'[j] = todo[j]
  /\ \/ pending'[j] # Absent /\ pending'[j].attempts = hand.entry.attempts
     \/ pending'[j] = Absent /\ ~StaysPending(hand.entry, hand.result)

CreatesIt(h, j) ==
  /\ EntryKept(j) /\ WorkerKept(j)
  /\ record[j] = "absent" /\ record'[j] = "ready" /\ report'[j] = report[j]
  /\ runs'[j] = runs[j] /\ misread' = misread /\ crashes' = crashes
  /\ \/ CallMoves(h, j, "queue") /\ asked'[j] = 1
     \/ CallsKept(j) /\ asked'[j] = asked[j]

RetriesIt(h, j) ==
  /\ EntryKept(j) /\ WorkerKept(j)
  /\ record[j] # "absent" /\ record'[j] = record[j]
  /\ PatientUsers => Settled(j)
  /\ CallMoves(h, j, "initialize")
  /\ asked'[j] = asked[j] + 1 /\ runs'[j] = runs[j] /\ misread' = misread /\ crashes' = crashes

ServesIt(h, j) ==
  /\ EntryKept(j) /\ WorkerKept(j) /\ Counted(j)
  /\ call[h].job = j /\ report'[j] = report[j]
  /\ \/ call[h].at = "initialize" /\ record'[j] = "ready" /\ CallMoves(h, j, "queue")
     \/ call[h].at = "queue" /\ record'[j] = "queued" /\ CallMoves(h, j, "enqueue")

EnqueuesIt(h, j) ==
  /\ FileKept(j) /\ WorkerKept(j) /\ Counted(j)
  /\ call[h].job = j /\ call[h].at = "enqueue" /\ CallMoves(h, j, "wake")
  /\ pending'[j] = Enqueued(pending[j]) /\ todo'[j] = todo[j]

WakesIt(h, j) ==
  /\ FileKept(j) /\ EntryKept(j) /\ WorkerKept(j) /\ Counted(j)
  /\ call[h].job = j /\ call[h].at = "wake" /\ call'[h].job = Nobody
  /\ \A g \in Handler \ {h} : call'[g] = call[g]

ChecksIt(h, j) ==
  /\ FileKept(j) /\ EntryKept(j) /\ WorkerKept(j) /\ Counted(j)
  /\ record[j] \in Waiting /\ call[h].at = "idle" /\ CallMoves(h, j, "cancel")

CancelsIt(h, j) ==
  /\ EntryKept(j) /\ WorkerKept(j) /\ Counted(j)
  /\ call[h].job = j /\ call[h].at = "cancel" /\ call'[h].job = Nobody
  /\ \A g \in Handler \ {h} : call'[g] = call[g]
  /\ record'[j] = "cancelled" /\ report'[j] = report[j]

Crashes(j) ==
  /\ FileKept(j) /\ pending'[j] = pending[j] /\ todo'[j] = Absent
  /\ hand'.job = Nobody /\ pc' \in {"down", "list"}
  /\ \A h \in Handler : call'[h].job = Nobody
  /\ asked'[j] = asked[j] /\ runs'[j] = runs[j] /\ misread' = misread /\ crashes' = crashes + 1

Means(j) ==
  \/ Aside(j) \/ TakesIt(j) \/ MissesIt(j) \/ LoadsIt(j) \/ BeginsIt(j) \/ FusesIt(j) \/ EndsIt(j)
  \/ PutsBack(j) \/ Crashes(j)
  \/ \E h \in Handler : \/ CreatesIt(h, j) \/ RetriesIt(h, j) \/ ServesIt(h, j)
                        \/ EnqueuesIt(h, j) \/ WakesIt(h, j) \/ ChecksIt(h, j) \/ CancelsIt(h, j)

-----------------------------------------------------------------------------
LEMMA RecoveredIs ==
  \A e \in Entry : (Recovered(e) = Absent <=> e = Absent) /\ Recovered(e).attempts = e.attempts
<1> SUFFICES ASSUME NEW e \in Entry
             PROVE  (Recovered(e) = Absent <=> e = Absent) /\ Recovered(e).attempts = e.attempts
  OBVIOUS
<1>1. CASE e.status = "running"
  <2>1. Recovered(e).status = "queued" /\ Recovered(e).attempts = e.attempts
    BY <1>1 DEF Recovered, Enqueued
  <2> QED BY <1>1, <2>1 DEF Absent
<1>2. CASE e.status # "running"
  BY <1>2 DEF Recovered
<1> QED BY <1>1, <1>2

LEMMA DueIs ==
  \A e \in Entry : e.status = "queued" => /\ e # Absent /\ [e EXCEPT !.due = TRUE] # Absent
                                          /\ [e EXCEPT !.due = TRUE].attempts = e.attempts
<1> SUFFICES ASSUME NEW e \in Entry, e.status = "queued"
             PROVE  /\ e # Absent /\ [e EXCEPT !.due = TRUE] # Absent
                    /\ [e EXCEPT !.due = TRUE].attempts = e.attempts
  OBVIOUS
<1>1. e # Absent
  BY DEF Absent
<1>2. [e EXCEPT !.due = TRUE].attempts = e.attempts /\ [e EXCEPT !.due = TRUE].status = "queued"
  BY DEF Entry
<1> QED BY <1>1, <1>2 DEF Absent

LEMMA MarkedIs ==
  \A e \in Entry : /\ MarkedRunning(e, TRUE) # Absent /\ MarkedRunning(e, TRUE).attempts = e.attempts + 1
                   /\ Enqueued(e) # Absent /\ Enqueued(e).attempts = e.attempts
                   /\ Postponed(e) # Absent /\ Postponed(e).attempts = e.attempts
BY DEF MarkedRunning, Enqueued, Postponed, Absent, Entry

LEMMA CallSet ==
  ASSUME Formed, NEW h \in Handler, NEW k, NEW at, Set(h, at, k)
  PROVE  CallMoves(h, k, at)
<1>1. call' = [call EXCEPT ![h] = [at |-> at, job |-> k]]
  BY DEF Set
<1> QED BY <1>1, FormedIs DEF CallMoves

\* A request of another job changes nothing for this one's.
LEMMA CallElsewhere ==
  ASSUME Formed, NEW j \in Job, NEW h \in Handler, call[h].job # j, call'[h].job # j,
         \A g \in Handler \ {h} : call'[g] = call[g]
  PROVE  CallsKept(j)
BY DEF CallsKept

LEMMA SaveElsewhere ==
  ASSUME Formed, NEW a, NEW j \in Job, NEW k, k # j, NEW status, Save(a, k, status)
  PROVE  record'[j] = record[j]
BY FormedIs DEF Save

LEMMA SavedHere ==
  ASSUME Formed, NEW a, NEW j \in Job, NEW status, Save(a, j, status)
  PROVE  record'[j] = status
BY FormedIs DEF Save

LEMMA SettleKeeps ==
  ASSUME Formed, NEW result, Settle(result)
  PROVE  hand'.job = hand.job /\ hand'.entry = hand.entry /\ hand'.group = hand.group
         /\ hand'.result = result /\ pc' = "settle"
<1>1. hand \in HandType /\ hand' = [hand EXCEPT !.result = result] /\ pc' = "settle"
  BY FormedIs DEF Settle
<1> QED BY <1>1 DEF HandType

-----------------------------------------------------------------------------
LEMMA WorkMeans ==
  ASSUME Formed, Work, NEW j \in Job
  PROVE  Means(j)
<1> USE DEF worker, counts
<1>0. /\ pending \in [Job -> Entry] /\ todo \in [Job -> Entry] /\ hand \in HandType
      /\ record \in [Job -> {"absent"} \cup Waiting \cup Ended]
      /\ report \in [Job -> [1..Groups -> {Foundation, "preview_fused"}]]
      /\ runs \in [Job -> Nat] /\ misread \in Nat
  BY FormedIs
<1>w. /\ pc \in {"load", "begin", "run", "settle"} => hand.job \in Job
      /\ pc \notin {"load", "begin", "run", "settle"} => hand.job \notin Job
  BY FormedIs DEF AtIt
<1>c. UNCHANGED call => CallsKept(j)
  BY DEF CallsKept
<1>n. NoHand.job = Nobody /\ Nobody \notin Job
  BY Nothings, RawprepAssumption
<1>a. CASE List
  <2>1. pending'[j] = Recovered(pending[j])
    BY <1>a DEF List
  <2>2. todo'[j] \in {Absent, pending'[j]}
    BY <1>a DEF List
  <2> HIDE DEF worker, counts
  <2>3. UNCHANGED <<report, record, hand, call, asked, runs, misread, crashes>> /\ pc = "list"
    BY <1>a DEF List, counts
  <2> QED BY <1>0, <1>w, <1>c, <2>1, <2>2, <2>3, RecoveredIs DEF Means, Aside, FileKept
<1>b. CASE EndPass
  BY <1>0, <1>w, <1>c, <1>b DEF EndPass, Means, Aside, FileKept
<1>d. CASE SkipDelayed
  BY <1>0, <1>w, <1>c, <1>d DEF SkipDelayed, Means, Aside, FileKept
<1>e. CASE Take
  <2>1. PICK k \in Job :
          /\ todo[k].status = "queued"
          /\ pending' = [pending EXCEPT ![k] = MarkedRunning(todo[k], TRUE)]
          /\ hand' = [NoHand EXCEPT !.job = k, !.entry = MarkedRunning(todo[k], TRUE)]
          /\ todo' = [todo EXCEPT ![k] = Absent]
    BY <1>e DEF Take
  <2>2. hand' = [job |-> k, entry |-> MarkedRunning(todo[k], TRUE), group |-> 1, result |-> "done"]
    BY <2>1 DEF NoHand
  <2>3. hand'.job = k /\ hand'.entry = MarkedRunning(todo[k], TRUE) /\ hand'.group = 1
    BY <2>2
  <2>4. pc = "pick" /\ pc' = "load" /\ UNCHANGED <<report, record, index, saving, call, counts>>
    BY <1>e DEF Take
  <2>5. pending'[j] = IF k = j THEN MarkedRunning(todo[k], TRUE) ELSE pending[j]
    BY <1>0, <2>1
  <2>6. todo'[j] = IF k = j THEN Absent ELSE todo[j]
    BY <1>0, <2>1
  <2>7. CASE k = j
    BY <1>c, <2>1, <2>3, <2>4, <2>5, <2>6, <2>7 DEF Means, TakesIt, FileKept, Counted
  <2>8. CASE k # j
    BY <1>0, <1>w, <1>c, <2>3, <2>4, <2>5, <2>6, <2>8 DEF Means, Aside, FileKept
  <2> QED BY <2>7, <2>8
<1>f. CASE FailToLoad
  <2>1. /\ hand'.job = hand.job /\ hand'.entry = hand.entry
        /\ hand'.result = "retryable" /\ pc' = "settle"
    BY <1>f, SettleKeeps DEF FailToLoad
  <2>2. pc \in {"load", "begin"} /\ misread' = misread + 1
        /\ UNCHANGED <<report, pending, record, index, saving, todo, call, asked, runs, crashes>>
    BY <1>f DEF FailToLoad
  <2>3. CASE hand.job = j
    BY <1>c, <2>1, <2>2, <2>3 DEF Means, MissesIt, FileKept, EntryKept
  <2>4. CASE hand.job # j
    BY <1>0, <1>c, <2>1, <2>2, <2>4 DEF Means, Aside, FileKept
  <2> QED BY <2>3, <2>4
<1>h. CASE Load
  <2>1. pc = "load" /\ UNCHANGED <<report, pending, record, index, saving, todo, call, counts>>
    BY <1>h DEF Load
  <2>2. /\ hand'.job = hand.job /\ hand'.entry = hand.entry
        /\ \/ pc' = "begin" /\ record[hand.job] \in Waiting /\ hand' = hand
           \/ pc' = "settle" /\ record[hand.job] \in Ended
    BY <1>h, SettleKeeps DEF Load, Ended
  <2>3. CASE hand.job = j
    BY <1>c, <2>1, <2>2, <2>3 DEF Means, LoadsIt, FileKept, EntryKept, Counted
  <2>4. CASE hand.job # j
    BY <1>0, <1>c, <2>1, <2>2, <2>4 DEF Means, Aside, FileKept
  <2> QED BY <2>3, <2>4
<1>i. CASE Begin
  <2>1. /\ pc = "begin" /\ pc' = "run" /\ Save(Worker, hand.job, "running")
        /\ runs' = [runs EXCEPT ![hand.job] = @ + 1]
        /\ UNCHANGED <<report, pending, index, todo, hand, call, asked, misread, crashes>>
    BY <1>i DEF Begin
  <2>3. CASE hand.job = j
    <3>1. record'[j] = "running"
      BY <2>1, <2>3, SavedHere
    <3>2. runs'[j] = runs[j] + 1
      BY <1>0, <2>1, <2>3
    <3> QED BY <1>c, <2>1, <2>3, <3>1, <3>2 DEF Means, BeginsIt, EntryKept
  <2>4. CASE hand.job # j
    <3>1. record'[j] = record[j]
      BY <2>1, <2>4, SaveElsewhere
    <3>2. runs'[j] = runs[j]
      BY <1>0, <2>1, <2>4
    <3> QED BY <1>0, <1>c, <2>1, <2>4, <3>1, <3>2 DEF Means, Aside, FileKept
  <2> QED BY <2>3, <2>4
<1>j. CASE Fuse /\ UNCHANGED pc
  <2>1. pc = "run" /\ hand.group <= Groups /\ UNCHANGED <<pending, index, todo, call, counts>>
    BY <1>j DEF Fuse
  <2>2. PICK bracket \in Brackets :
          /\ Fused(bracket) # "nothing"
          /\ report' = [report EXCEPT ![hand.job][hand.group] = Fused(bracket)]
          /\ hand' = [hand EXCEPT !.group = @ + 1]
          /\ UNCHANGED <<record, saving, pc>>
    BY <1>j, <2>1 DEF Fuse, EndRun, Settle
  <2>3. /\ hand' = [hand EXCEPT !.group = hand.group + 1] /\ hand.group \in 1..Groups
    BY <1>0, <2>1, <2>2, RawprepAssumption DEF HandType
  <2>4. hand'.job = hand.job /\ hand'.group = hand.group + 1
    BY <1>0, <2>3 DEF HandType
  <2>5. report' = [report EXCEPT ![hand.job] = [report[hand.job] EXCEPT ![hand.group] = "preview_fused"]]
    BY <2>2, FusedMeans
  <2>6. CASE hand.job = j
    <3>1. report'[j] = [report[j] EXCEPT ![hand.group] = "preview_fused"]
      BY <1>0, <2>5, <2>6
    <3> QED BY <1>c, <2>1, <2>2, <2>3, <2>4, <2>6, <3>1 DEF Means, FusesIt, EntryKept, Counted
  <2>7. CASE hand.job # j
    <3>1. report'[j] = report[j]
      BY <1>0, <2>5, <2>7
    <3> QED BY <1>0, <1>c, <2>1, <2>2, <2>4, <2>7, <3>1 DEF Means, Aside, FileKept
  <2> QED BY <2>6, <2>7
<1>k. ASSUME NEW status \in Ended, NEW result, EndRun(status, result), pc = "run",
             status = "done" => hand.group > Groups,
             UNCHANGED <<pending, report, index, todo, call, counts>>
      PROVE  Means(j)
  <2>1. hand'.job = hand.job /\ pc' = "settle"
    BY <1>k, SettleKeeps DEF EndRun
  <2>2. CASE hand.job = j
    <3>1. record'[j] = status
      BY <1>k, <2>2, SavedHere DEF EndRun
    <3> QED BY <1>c, <1>k, <2>1, <2>2, <3>1 DEF Means, EndsIt, EntryKept, Counted
  <2>3. CASE hand.job # j
    <3>1. record'[j] = record[j]
      BY <1>k, <2>3, SaveElsewhere DEF EndRun
    <3> QED BY <1>0, <1>c, <1>k, <2>1, <2>3, <3>1 DEF Means, Aside, FileKept
  <2> QED BY <2>2, <2>3
<1>l. CASE Fuse /\ pc' # pc
  <2>1. EndRun("blocked", "failed") /\ UNCHANGED report
    BY <1>l DEF Fuse
  <2> QED BY <1>k, <1>l, <2>1 DEF Fuse, Ended
<1>m. CASE Fail \/ Complete
  BY <1>k, <1>m DEF Fail, Complete, Ended
<1>o. CASE Postpone \/ Archive
  <2>1. /\ pc = "settle" /\ pc' = "pick" /\ hand' = NoHand
        /\ UNCHANGED <<report, record, index, saving, todo, call, counts>>
    BY <1>o DEF Postpone, Archive
  <2>2. PICK e \in Entry : /\ pending' = [pending EXCEPT ![hand.job] = e]
                           /\ \/ e # Absent /\ e.attempts = hand.entry.attempts
                              \/ e = Absent /\ ~StaysPending(hand.entry, hand.result)
    <3>1. hand.entry \in Entry
      BY <1>0 DEF HandType
    <3>2. CASE Postpone
      BY <3>1, <3>2, MarkedIs, EntryMade DEF Postpone
    <3>3. CASE Archive
      BY <3>3, EntryMade DEF Archive
    <3> QED BY <1>o, <3>2, <3>3
  <2>3. CASE hand.job = j
    <3>1. pending'[j] = e
      BY <1>0, <2>2, <2>3
    <3> QED BY <1>c, <1>n, <2>1, <2>2, <2>3, <3>1 DEF Means, PutsBack, FileKept, Counted
  <2>4. CASE hand.job # j
    <3>1. pending'[j] = pending[j]
      BY <1>0, <2>2, <2>4
    <3> QED BY <1>0, <1>c, <1>n, <2>1, <2>4, <3>1 DEF Means, Aside, FileKept
  <2> QED BY <2>3, <2>4
<1>p. CASE \E a \in Actor : ReadIndex(a) \/ OpenIndex(a) \/ WriteIndex(a)
  BY <1>0, <1>c, <1>p, IndexSteps DEF Means, Aside, FileKept
<1> QED BY <1>a, <1>b, <1>d, <1>e, <1>f, <1>h, <1>i, <1>j, <1>l, <1>m, <1>o, <1>p DEF Work, Actor

LEMMA StartKeeps ==
  ASSUME Formed, NEW j \in Job, StartQueueWorker
  PROVE  hand.job = j => pc' = pc
BY FormedIs DEF StartQueueWorker, AtIt

LEMMA ServeMeans ==
  ASSUME Formed, NEW h \in Handler, Serve(h), NEW j \in Job
  PROVE  Means(j)
<1> USE DEF worker, counts
<1>0. /\ pending \in [Job -> Entry] /\ todo \in [Job -> Entry] /\ hand \in HandType
      /\ record \in [Job -> {"absent"} \cup Waiting \cup Ended]
      /\ report \in [Job -> [1..Groups -> {Foundation, "preview_fused"}]]
      /\ asked \in [Job -> Nat] /\ runs \in [Job -> Nat] /\ misread \in Nat
      /\ call \in [Handler -> CallType]
      /\ \A g \in Handler : call[g].at # "idle" <=> call[g].job \in Job
  BY FormedIs
<1>c. UNCHANGED call => CallsKept(j)
  BY DEF CallsKept
<1>f. ASSUME NEW k \in Job, Free(h), k # j, NEW at, CallMoves(h, k, at) PROVE CallsKept(j)
  <2>1. call[h].job # j
    BY <1>0, <1>f DEF Free
  <2> QED BY <1>f, <2>1, CallElsewhere DEF CallMoves
<1>g. ASSUME call[h].job # j, NEW at, CallMoves(h, call[h].job, at) PROVE CallsKept(j)
  BY <1>g, CallElsewhere DEF CallMoves
<1>1. ASSUME NEW k \in Job, Create(h, k) PROVE Means(j)
  <2>1. /\ Free(h) /\ record[k] = "absent" /\ Save(h, k, "ready")
        /\ UNCHANGED <<report, pending, index, worker, runs, misread, crashes>>
    BY <1>1 DEF Create
  <2>2. \/ CallMoves(h, k, "queue") /\ asked' = [asked EXCEPT ![k] = 1]
        \/ UNCHANGED <<call, asked>>
    BY <1>1, CallSet DEF Create
  <2>3. CASE k = j
    <3>1. record'[j] = "ready"
      BY <2>1, <2>3, SavedHere
    <3>2. \/ CallMoves(h, j, "queue") /\ asked'[j] = 1
          \/ CallsKept(j) /\ asked'[j] = asked[j]
      BY <1>0, <1>c, <2>2, <2>3
    <3> QED BY <2>1, <2>3, <3>1, <3>2 DEF Means, CreatesIt, EntryKept, WorkerKept
  <2>4. CASE k # j
    <3>1. record'[j] = record[j]
      BY <2>1, <2>4, SaveElsewhere
    <3>2. CallsKept(j) /\ asked'[j] = asked[j]
      BY <1>0, <1>c, <1>f, <2>1, <2>2, <2>4
    <3> QED BY <1>0, <2>1, <3>1, <3>2 DEF Means, Aside, FileKept
  <2> QED BY <2>3, <2>4
<1>2. ASSUME NEW k \in Job, Retry(h, k) PROVE Means(j)
  <2>1. /\ Free(h) /\ record[k] # "absent" /\ (PatientUsers => Settled(k))
        /\ report' = [report EXCEPT ![k] = Outlined]
        /\ asked' = [asked EXCEPT ![k] = asked[k] + 1]
        /\ UNCHANGED <<pending, record, index, saving, worker, runs, misread, crashes>>
    BY <1>2 DEF Retry, Loadable
  <2>2. CallMoves(h, k, "initialize")
    BY <1>2, CallSet DEF Retry
  <2>3. CASE k = j
    BY <1>0, <2>1, <2>2, <2>3 DEF Means, RetriesIt, EntryKept, WorkerKept
  <2>4. CASE k # j
    <3>1. CallsKept(j)
      BY <1>f, <2>1, <2>2, <2>4
    <3> QED BY <1>0, <2>1, <2>4, <3>1 DEF Means, Aside, FileKept
  <2> QED BY <2>3, <2>4
<1>3. ASSUME NEW k \in Job, Get(h, k) PROVE Means(j)
  BY <1>0, <1>c, <1>3, StartKeeps DEF Means, Aside, FileKept, Get
<1>4. ASSUME NEW k \in Job, Cancel(h, k) PROVE Means(j)
  <2>1. /\ Free(h) /\ record[k] \in Waiting /\ CallMoves(h, k, "cancel")
        /\ UNCHANGED <<report, pending, record, index, saving, worker, counts>>
    BY <1>4, CallSet DEF Cancel
  <2>3. CASE k = j
    BY <2>1, <2>3 DEF Means, ChecksIt, Free, FileKept, EntryKept, WorkerKept, Counted
  <2>4. CASE k # j
    <3>1. CallsKept(j)
      BY <1>f, <2>1, <2>4
    <3> QED BY <1>0, <2>1, <3>1 DEF Means, Aside, FileKept
  <2> QED BY <2>3, <2>4
<1>11. CASE SaveCancel(h)
  <2>1. /\ call[h].at = "cancel" /\ Save(h, call[h].job, "cancelled") /\ call'[h].job = Nobody
        /\ \A g \in Handler \ {h} : call'[g] = call[g]
        /\ UNCHANGED <<report, pending, index, worker, counts>>
    BY <1>0, <1>11, Nothings DEF SaveCancel, Hang
  <2>3. CASE call[h].job = j
    <3>1. record'[j] = "cancelled"
      BY <2>1, <2>3, SavedHere
    <3> QED BY <2>1, <2>3, <3>1 DEF Means, CancelsIt, EntryKept, WorkerKept, Counted
  <2>4. CASE call[h].job # j
    <3>1. CallsKept(j)
      BY <2>1, <2>4, CallElsewhere, RawprepAssumption
    <3>2. record'[j] = record[j]
      BY <2>1, <2>4, SaveElsewhere
    <3> QED BY <1>0, <2>1, <3>1, <3>2 DEF Means, Aside, FileKept
  <2> QED BY <2>3, <2>4
<1>5. ASSUME NEW from, NEW to, NEW status, call[h].at = from, Save(h, call[h].job, status),
             Set(h, to, call[h].job), UNCHANGED <<pending, report, index, worker, counts>>,
             \/ from = "initialize" /\ status = "ready" /\ to = "queue"
             \/ from = "queue" /\ status = "queued" /\ to = "enqueue"
      PROVE  Means(j)
  <2>2. CallMoves(h, call[h].job, to)
    BY <1>5, CallSet
  <2>3. CASE call[h].job = j
    <3>1. record'[j] = status /\ CallMoves(h, j, to)
      BY <1>5, <2>2, <2>3, SavedHere
    <3> QED BY <1>5, <2>3, <3>1 DEF Means, ServesIt, EntryKept, WorkerKept, Counted
  <2>4. CASE call[h].job # j
    <3>1. record'[j] = record[j] /\ CallsKept(j)
      BY <1>5, <1>g, <2>2, <2>4, SaveElsewhere
    <3> QED BY <1>0, <1>5, <3>1 DEF Means, Aside, FileKept
  <2> QED BY <2>3, <2>4
<1>6. CASE Initialize(h)
  BY <1>5, <1>6 DEF Initialize
<1>7. CASE Queue(h)
  BY <1>5, <1>7 DEF Queue
<1>8. CASE Enqueue(h)
  <2>1. /\ call[h].at = "enqueue" /\ CallMoves(h, call[h].job, "wake")
        /\ pending' = [pending EXCEPT ![call[h].job] = Enqueued(@)]
        /\ UNCHANGED <<report, record, index, saving, worker, counts>>
    BY <1>8, CallSet DEF Enqueue
  <2>3. CASE call[h].job = j
    <3>1. pending'[j] = Enqueued(pending[j])
      BY <1>0, <2>1, <2>3
    <3> QED BY <2>1, <2>3, <3>1 DEF Means, EnqueuesIt, FileKept, WorkerKept, Counted
  <2>4. CASE call[h].job # j
    <3>1. pending'[j] = pending[j] /\ CallsKept(j)
      BY <1>0, <1>g, <2>1, <2>4
    <3> QED BY <1>0, <2>1, <3>1 DEF Means, Aside, FileKept
  <2> QED BY <2>3, <2>4
<1>9. CASE Wake(h)
  <2>1. /\ call[h].at = "wake" /\ call'[h].job = Nobody
        /\ \A g \in Handler \ {h} : call'[g] = call[g]
        /\ (hand.job = j => pc' = pc)
        /\ UNCHANGED <<report, pending, record, index, saving, todo, hand, counts>>
    BY <1>0, <1>9, StartKeeps, Nothings DEF Wake, Hang
  <2>3. CASE call[h].job = j
    BY <2>1, <2>3 DEF Means, WakesIt, FileKept, EntryKept, WorkerKept, Counted
  <2>4. CASE call[h].job # j
    <3>1. CallsKept(j)
      BY <2>1, <2>4, CallElsewhere, RawprepAssumption
    <3> QED BY <1>0, <2>1, <3>1 DEF Means, Aside, FileKept
  <2> QED BY <2>3, <2>4
<1>10. CASE ReadIndex(h) \/ OpenIndex(h) \/ WriteIndex(h)
  BY <1>0, <1>c, <1>10, IndexSteps DEF Means, Aside, FileKept, Actor
<1> QED BY <1>1, <1>2, <1>3, <1>4, <1>6, <1>7, <1>8, <1>9, <1>10, <1>11 DEF Serve, Proceed

LEMMA NextMeans ==
  ASSUME Formed, Next, NEW j \in Job
  PROVE  Means(j)
<1>0. /\ pending \in [Job -> Entry] /\ todo \in [Job -> Entry] /\ misread \in Nat
  BY FormedIs
<1>c. UNCHANGED call => CallsKept(j)
  BY DEF CallsKept
<1>1. CASE LookAtBoard
  BY <1>0, <1>c, <1>1, StartKeeps DEF Means, Aside, FileKept, LookAtBoard, counts
<1>2. ASSUME NEW k \in Job, DelayElapses(k) PROVE Means(j)
  <2>1. /\ pending[k].status = "queued"
        /\ pending' = [pending EXCEPT ![k] = [pending[k] EXCEPT !.due = TRUE]]
        /\ UNCHANGED <<report, record, index, saving, pc, todo, hand, call, asked, runs, misread, crashes>>
    BY <1>2 DEF DelayElapses, worker, counts
  <2>2. pending'[j] = IF k = j THEN [pending[k] EXCEPT !.due = TRUE] ELSE pending[j]
    BY <1>0, <2>1
  <2>3. (pending'[j] = Absent <=> pending[j] = Absent) /\ pending'[j].attempts = pending[j].attempts
    BY <1>0, <2>1, <2>2, DueIs
  <2> QED BY <1>0, <1>c, <2>1, <2>3 DEF Means, Aside, FileKept
<1>3. CASE Crash
  <2>1. /\ hand'.job = Nobody /\ todo'[j] = Absent /\ \A h \in Handler : call'[h].job = Nobody
    BY <1>3, Nothings DEF Crash
  <2> QED BY <1>3, <2>1 DEF Means, Crashes, FileKept, Crash
<1> QED BY <1>1, <1>2, <1>3, WorkMeans, ServeMeans DEF Next

-----------------------------------------------------------------------------
\* What has ended quietly stays as it is until it is demanded again.
LEMMA QuietStep ==
  ASSUME Formed, [Next]_rvars, NEW j \in Job, QuietlyEnded(j)
  PROVE  (record'[j] = record[j] /\ QuietlyEnded(j)') \/ asked'[j] > asked[j]
<1>0. /\ record[j] \in Ended /\ (hand.job = j => pc \notin {"begin", "run"})
      /\ \A h \in Handler : call[h].job = j => call[h].at \notin {"initialize", "queue", "cancel"}
  BY DEF QuietlyEnded
<1>9. record[j] # "absent" /\ record[j] \notin Waiting
  BY <1>0 DEF Ended, Waiting
<1>8. Nobody # j /\ asked[j] \in Nat
  BY FormedIs, RawprepAssumption
<1> SUFFICES ASSUME ~(asked'[j] > asked[j])
             PROVE  /\ record'[j] = record[j]
                    /\ record'[j] \in Ended /\ (hand'.job = j => pc' \notin {"begin", "run"})
                    /\ \A h \in Handler : call'[h].job = j => call'[h].at \notin {"initialize", "queue", "cancel"}
  BY DEF QuietlyEnded
<1>1. CASE UNCHANGED rvars
  BY <1>0, <1>1 DEF rvars
<1>2. CASE Next
  <2>1. Means(j)
    BY <1>2, NextMeans
  <2> USE <1>0, <1>8, <1>9 DEF FileKept, CallsKept, WorkerKept, CallMoves
  <2>2. CASE Aside(j)
    BY <2>2 DEF Aside
  <2>3. CASE TakesIt(j) \/ MissesIt(j) \/ LoadsIt(j) \/ PutsBack(j)
    BY <2>3 DEF TakesIt, MissesIt, LoadsIt, PutsBack
  <2>4. ~BeginsIt(j) /\ ~FusesIt(j) /\ ~EndsIt(j)
    BY DEF BeginsIt, FusesIt, EndsIt
  <2>5. CASE Crashes(j)
    BY <2>5 DEF Crashes
  <2>6. ASSUME NEW h \in Handler
        PROVE  /\ ~CreatesIt(h, j) /\ ~RetriesIt(h, j) /\ ~ServesIt(h, j)
               /\ ~ChecksIt(h, j) /\ ~CancelsIt(h, j)
    BY DEF CreatesIt, RetriesIt, ServesIt, ChecksIt, CancelsIt
  <2>7. ASSUME NEW h \in Handler, EnqueuesIt(h, j) \/ WakesIt(h, j)
        PROVE  /\ record'[j] = record[j]
               /\ record'[j] \in Ended /\ (hand'.job = j => pc' \notin {"begin", "run"})
               /\ \A g \in Handler : call'[g].job = j => call'[g].at \notin {"initialize", "queue", "cancel"}
    BY <2>7 DEF EnqueuesIt, WakesIt
  <2> QED BY <2>1, <2>2, <2>3, <2>4, <2>5, <2>6, <2>7 DEF Means
<1> QED BY <1>1, <1>2

\* Whatever users, requests and crashes there are, a job that ended with nobody about to
\* write its record keeps its outcome until it is demanded again.
THEOREM RawQuietEndHolds == Spec => RawQuietEndIsFinal
<1>1. Formed /\ [Next]_rvars => Formed'
  BY FormedStep DEF Formed, RawTypeOK, Busy, AtIt, rvars
<1>2. Formed /\ [Next]_rvars =>
        [\A j \in Job : QuietlyEnded(j) =>
           \/ record'[j] = record[j] /\ QuietlyEnded(j)'
           \/ asked'[j] > asked[j]]_rvars
  BY QuietStep
<1> QED BY FormedInit, <1>1, <1>2, PTL DEF Spec, RawQuietEndIsFinal

\* Users retry a job only when nobody is at work on it: a retry of one that is at work
\* takes all three of the following from it.
Patient == PatientUsers

AtWork(h, j) == call[h].job = j /\ call[h].at \notin {"wake", "cancel"}

\* One at a time has to do with a job, the worker or a request, and its run keeps to it.
OrderlyFor(j) ==
  /\ record[j] = "absent" => Settled(j) /\ asked[j] = 0 /\ runs[j] = 0
  /\ \A g, h \in Handler : AtWork(g, j) /\ AtWork(h, j) => g = h
  /\ \A h \in Handler : AtWork(h, j) => pending[j] = Absent /\ todo[j] = Absent /\ hand.job # j
  /\ hand.job = j /\ pc \in {"load", "begin"} => hand.group = 1
  /\ hand.job = j /\ pc = "run" => 
       /\ record[j] \in {"running", "cancelled"}
       /\ \A g \in 1..Groups : g < hand.group => report[j][g] = "preview_fused"

Orderly == \A j \in Job : OrderlyFor(j)

LEMMA OrderlyInit == Init => Orderly
<1> SUFFICES ASSUME Init, NEW j \in Job PROVE OrderlyFor(j)
  BY DEF Orderly
<1>1. /\ pending[j] = Absent /\ todo[j] = Absent /\ hand.job = Nobody /\ asked[j] = 0 /\ runs[j] = 0
      /\ \A h \in Handler : call[h].job = Nobody
  BY Nothings DEF Init
<1> QED BY <1>1, RawprepAssumption DEF OrderlyFor, AtWork, Settled

LEMMA SettledMeans ==
  ASSUME Formed, NEW j \in Job, Settled(j)
  PROVE  pending[j] = Absent /\ todo[j] = Absent /\ hand.job # j /\ \A h \in Handler : call[h].job # j
BY DEF Settled

LEMMA OrderlyMeans ==
  ASSUME Patient, Formed, NEW j \in Job, OrderlyFor(j), Means(j)
  PROVE  /\ record'[j] = "absent" => /\ pending'[j] = Absent /\ todo'[j] = Absent /\ hand'.job # j
                                     /\ \A h \in Handler : call'[h].job # j
                                     /\ asked'[j] = 0 /\ runs'[j] = 0
         /\ \A g, h \in Handler : AtWork(g, j)' /\ AtWork(h, j)' => g = h
         /\ \A h \in Handler : AtWork(h, j)'
                               => pending'[j] = Absent /\ todo'[j] = Absent /\ hand'.job # j
         /\ hand'.job = j /\ pc' \in {"load", "begin"} => hand'.group = 1
         /\ hand'.job = j /\ pc' = "run" =>
              /\ record'[j] \in {"running", "cancelled"}
              /\ \A g \in 1..Groups : g < hand'.group => report'[j][g] = "preview_fused"
<1> DEFINE Goal ==
         /\ record'[j] = "absent" => /\ pending'[j] = Absent /\ todo'[j] = Absent /\ hand'.job # j
                                     /\ \A h \in Handler : call'[h].job # j
                                     /\ asked'[j] = 0 /\ runs'[j] = 0
         /\ \A g, h \in Handler : AtWork(g, j)' /\ AtWork(h, j)' => g = h
         /\ \A h \in Handler : AtWork(h, j)'
                               => pending'[j] = Absent /\ todo'[j] = Absent /\ hand'.job # j
         /\ hand'.job = j /\ pc' \in {"load", "begin"} => hand'.group = 1
         /\ hand'.job = j /\ pc' = "run" =>
              /\ record'[j] \in {"running", "cancelled"}
              /\ \A g \in 1..Groups : g < hand'.group => report'[j][g] = "preview_fused"
<1> SUFFICES Goal
  OBVIOUS
<1>0. /\ record[j] = "absent" => /\ pending[j] = Absent /\ todo[j] = Absent /\ hand.job # j
                                 /\ \A h \in Handler : call[h].job # j
                                 /\ asked[j] = 0 /\ runs[j] = 0
      /\ \A g, h \in Handler : AtWork(g, j) /\ AtWork(h, j) => g = h
      /\ \A h \in Handler : AtWork(h, j)
                            => pending[j] = Absent /\ todo[j] = Absent /\ hand.job # j
      /\ hand.job = j /\ pc \in {"load", "begin"} => hand.group = 1
      /\ hand.job = j /\ pc = "run" =>
           /\ record[j] \in {"running", "cancelled"}
           /\ \A g \in 1..Groups : g < hand.group => report[j][g] = "preview_fused"
  BY SettledMeans DEF OrderlyFor, AtWork
<1>t. /\ report \in [Job -> [1..Groups -> {Foundation, "preview_fused"}]]
      /\ hand \in HandType
      /\ record[j] \in {"absent"} \cup Waiting \cup Ended
  BY FormedIs
<1>e. "absent" \notin Waiting \cup Ended
  BY DEF Waiting, Ended
<1>8. Nobody # j
  BY RawprepAssumption
<1>1. CASE Aside(j)
  BY <1>0, <1>1 DEF Aside, FileKept, CallsKept, AtWork
<1>2. CASE TakesIt(j)
  <2>1. todo[j] # Absent
    BY <1>2 DEF TakesIt, Absent
  <2> QED BY <1>0, <1>2, <2>1 DEF TakesIt, FileKept, CallsKept, Counted, AtWork
<1>3. CASE MissesIt(j)
  BY <1>0, <1>3 DEF MissesIt, FileKept, CallsKept, EntryKept, AtWork
<1>4. CASE LoadsIt(j)
  BY <1>0, <1>4 DEF LoadsIt, FileKept, CallsKept, EntryKept, Counted, AtWork
<1>5. CASE BeginsIt(j)
  BY <1>0, <1>5 DEF BeginsIt, CallsKept, EntryKept, AtWork
<1>6. CASE FusesIt(j)
  <2>1. \A g \in 1..Groups : g < hand'.group => report'[j][g] = "preview_fused"
    <3>1. SUFFICES ASSUME NEW g \in 1..Groups, g < hand'.group
                   PROVE  report'[j][g] = "preview_fused"
      OBVIOUS
    <3>2. /\ hand.group \in 1..Groups /\ hand'.group = hand.group + 1 /\ hand.job = j /\ pc = "run"
          /\ report'[j] = [report[j] EXCEPT ![hand.group] = "preview_fused"]
          /\ report[j] \in [1..Groups -> {Foundation, "preview_fused"}]
      BY <1>6, <1>t DEF FusesIt
    <3>3. g = hand.group \/ g < hand.group
      BY <3>1, <3>2, RawprepAssumption
    <3> QED BY <1>0, <3>2, <3>3
  <2> QED BY <1>0, <1>6, <2>1 DEF FusesIt, CallsKept, EntryKept, Counted, AtWork
<1>7. CASE EndsIt(j)
  BY <1>0, <1>7, <1>e DEF EndsIt, CallsKept, EntryKept, Counted, AtWork
<1>9. CASE PutsBack(j)
  BY <1>0, <1>9, <1>8 DEF PutsBack, FileKept, CallsKept, Counted, AtWork
<1>10. ASSUME NEW h \in Handler, ChecksIt(h, j) \/ CancelsIt(h, j) PROVE Goal
  BY <1>0, <1>10, <1>8, <1>e DEF ChecksIt, CancelsIt, CallMoves, FileKept, EntryKept, WorkerKept, Counted, AtWork
<1>11. CASE Crashes(j)
  BY <1>0, <1>8, <1>11 DEF Crashes, FileKept, AtWork
<1>12. ASSUME NEW h \in Handler, CreatesIt(h, j) PROVE Goal
  BY <1>0, <1>12 DEF CreatesIt, CallsKept, CallMoves, EntryKept, WorkerKept, AtWork
<1>13. ASSUME NEW h \in Handler, RetriesIt(h, j) PROVE Goal
  <2>1. pending[j] = Absent /\ todo[j] = Absent /\ hand.job # j /\ \A g \in Handler : call[g].job # j
    BY <1>13, SettledMeans DEF Patient, RetriesIt
  <2> QED BY <1>0, <1>13, <2>1 DEF RetriesIt, CallMoves, EntryKept, WorkerKept, AtWork
<1>14. ASSUME NEW h \in Handler, ServesIt(h, j) PROVE Goal
  BY <1>0, <1>14 DEF ServesIt, CallMoves, EntryKept, WorkerKept, Counted, AtWork
<1>15. ASSUME NEW h \in Handler, EnqueuesIt(h, j) PROVE Goal
  BY <1>0, <1>15 DEF EnqueuesIt, CallMoves, FileKept, WorkerKept, Counted, AtWork
<1>16. ASSUME NEW h \in Handler, WakesIt(h, j) PROVE Goal
  BY <1>0, <1>8, <1>16 DEF WakesIt, FileKept, EntryKept, WorkerKept, Counted, AtWork
<1> HIDE DEF Goal
<1>17. Goal
  BY <1>1, <1>2, <1>3, <1>4, <1>5, <1>6, <1>7, <1>9, <1>10, <1>11, <1>12, <1>13, <1>14, <1>15, <1>16 DEF Means
<1> QED BY <1>17

LEMMA OrderlyStep ==
  ASSUME Patient, Formed, Orderly, [Next]_rvars
  PROVE  Orderly'
<1>1. CASE UNCHANGED rvars
  BY <1>1 DEF Orderly, OrderlyFor, AtWork, Settled, rvars
<1>2. CASE Next
  <2> SUFFICES ASSUME NEW j \in Job PROVE OrderlyFor(j)'
    BY DEF Orderly
  <2>1. Means(j) /\ OrderlyFor(j)
    BY <1>2, NextMeans DEF Orderly
  <2>2.  /\ record'[j] = "absent" => /\ pending'[j] = Absent /\ todo'[j] = Absent /\ hand'.job # j
                                     /\ \A h \in Handler : call'[h].job # j
                                     /\ asked'[j] = 0 /\ runs'[j] = 0
         /\ \A g, h \in Handler : AtWork(g, j)' /\ AtWork(h, j)' => g = h
         /\ \A h \in Handler : AtWork(h, j)'
                               => pending'[j] = Absent /\ todo'[j] = Absent /\ hand'.job # j
         /\ hand'.job = j /\ pc' \in {"load", "begin"} => hand'.group = 1
         /\ hand'.job = j /\ pc' = "run" =>
              /\ record'[j] \in {"running", "cancelled"}
              /\ \A g \in 1..Groups : g < hand'.group => report'[j][g] = "preview_fused"
    BY <2>1, OrderlyMeans
  <2>3. (record[j] = "absent" => Settled(j) /\ asked[j] = 0 /\ runs[j] = 0)'
    BY <2>2 DEF Settled
  <2>4. (\A g, h \in Handler : AtWork(g, j) /\ AtWork(h, j) => g = h)'
    BY <2>2
  <2>5. (\A h \in Handler : AtWork(h, j) => pending[j] = Absent /\ todo[j] = Absent /\ hand.job # j)'
    BY <2>2 DEF AtWork
  <2>6. (hand.job = j /\ pc \in {"load", "begin"} => hand.group = 1)'
    BY <2>2
  <2>7. (hand.job = j /\ pc = "run" =>
           /\ record[j] \in {"running", "cancelled"}
           /\ \A g \in 1..Groups : g < hand.group => report[j][g] = "preview_fused")'
    BY <2>2
  <2> QED BY <2>3, <2>4, <2>5, <2>6, <2>7 DEF OrderlyFor
<1> QED BY <1>1, <1>2

-----------------------------------------------------------------------------
LEMMA DoneIsFused ==
  ASSUME Formed, NEW j \in Job, OrderlyFor(j), Means(j)
  PROVE  /\ record'[j] = "done" /\ record[j] # "done" => \A g \in 1..Groups : report'[j][g] = "preview_fused"
         /\ record[j] = "done" /\ report'[j] # report[j] => asked'[j] > asked[j]
<1>t. hand.group \in Nat /\ asked[j] \in Nat
  BY FormedIs, RawprepAssumption DEF HandType
<1>1. CASE \/ Aside(j) \/ TakesIt(j) \/ MissesIt(j) \/ LoadsIt(j) \/ PutsBack(j) \/ Crashes(j)
  BY <1>1 DEF Aside, TakesIt, MissesIt, LoadsIt, PutsBack, Crashes, FileKept
<1>2. CASE BeginsIt(j)
  BY <1>2 DEF BeginsIt
<1>3. CASE FusesIt(j)
  BY <1>3 DEF FusesIt, OrderlyFor
<1>4. CASE EndsIt(j)
  <2>1. /\ hand.job = j /\ pc = "run" /\ report'[j] = report[j]
        /\ record'[j] = "done" => hand.group > Groups
        /\ \A g \in 1..Groups : g < hand.group => report[j][g] = "preview_fused"
    BY <1>4 DEF EndsIt, OrderlyFor
  <2>2. hand.group > Groups => \A g \in 1..Groups : g < hand.group
    BY <1>t, RawprepAssumption
  <2> QED BY <2>1, <2>2
<1>5. ASSUME NEW h \in Handler, CreatesIt(h, j) \/ ServesIt(h, j)
      PROVE  record'[j] # "done" /\ report'[j] = report[j]
  BY <1>5 DEF CreatesIt, ServesIt
<1>6. ASSUME NEW h \in Handler, RetriesIt(h, j)
      PROVE  record'[j] = record[j] /\ asked'[j] > asked[j]
  BY <1>6, <1>t DEF RetriesIt
<1>7. ASSUME NEW h \in Handler, EnqueuesIt(h, j) \/ WakesIt(h, j) \/ ChecksIt(h, j)
      PROVE  record'[j] = record[j] /\ report'[j] = report[j]
  BY <1>7 DEF EnqueuesIt, WakesIt, ChecksIt, FileKept
<1>8. ASSUME NEW h \in Handler, CancelsIt(h, j)
      PROVE  record'[j] # "done" /\ report'[j] = report[j]
  BY <1>8 DEF CancelsIt
<1> QED BY <1>1, <1>2, <1>3, <1>4, <1>5, <1>6, <1>7, <1>8 DEF Means

LEMMA FormedAlways == Formed /\ [Next]_rvars => Formed'
BY FormedStep DEF Formed, RawTypeOK, Busy, AtIt, rvars

\* A job that becomes done has fused all its brackets, however often it was interrupted,
\* and what its reports say stands until a retry.
THEOREM DoneIsFusedHolds == ASSUME Patient PROVE Spec => DoneJobIsFused
<1>1. Formed /\ Orderly /\ [Next]_rvars => (Formed /\ Orderly)'
  BY FormedAlways, OrderlyStep
<1>2. Formed /\ Orderly /\ [Next]_rvars =>
        [\A j \in Job :
           /\ record'[j] = "done" /\ record[j] # "done" => \A g \in 1..Groups : report'[j][g] = "preview_fused"
           /\ record[j] = "done" /\ report'[j] # report[j] => asked'[j] > asked[j]]_rvars
  BY DoneIsFused, NextMeans DEF Orderly
<1>3. Init => Formed /\ Orderly
  BY FormedInit, OrderlyInit
<1> QED BY <1>1, <1>2, <1>3, PTL DEF Spec, DoneJobIsFused

-----------------------------------------------------------------------------
\* The job has an entry, the worker, or a request that will give it one.
Attended(j) == pending[j] # Absent \/ hand.job = j \/ todo[j] # Absent \/ \E h \in Handler : AtWork(h, j)

\* A run of the job may still begin that nobody has counted.
MayBegin(j) ==
  /\ Attended(j)
  /\ \/ \E h \in Handler : call[h].job = j /\ call[h].at \in {"initialize", "queue"}
     \/ hand.job = j /\ pc = "begin"
     \/ record[j] \in Waiting /\ ~(hand.job = j /\ pc = "run")

Demanded(j) == runs[j] + (IF MayBegin(j) THEN 1 ELSE 0) <= asked[j] + crashes

LEMMA SettledIs ==
  ASSUME NEW j \in Job, Settled(j)
  PROVE  pending[j] = Absent /\ hand.job # j /\ todo[j] = Absent /\ \A h \in Handler : ~AtWork(h, j)
BY DEF Settled, AtWork

\* No step but a demand or a crash lets a run begin that was not about to.
LEMMA MayBeginStep ==
  ASSUME Patient, Formed, NEW j \in Job, OrderlyFor(j), Means(j)
  PROVE  \/ Crashes(j) /\ runs'[j] = runs[j] /\ asked'[j] = asked[j]
         \/ runs'[j] = runs[j] /\ asked'[j] = asked[j] + 1 /\ crashes' = crashes
         \/ BeginsIt(j) /\ MayBegin(j) /\ ~MayBegin(j)'
         \/ runs'[j] = runs[j] /\ asked'[j] = asked[j] /\ crashes' = crashes /\ (MayBegin(j)' => MayBegin(j))
<1> DEFINE Goal ==
         \/ Crashes(j) /\ runs'[j] = runs[j] /\ asked'[j] = asked[j]
         \/ runs'[j] = runs[j] /\ asked'[j] = asked[j] + 1 /\ crashes' = crashes
         \/ BeginsIt(j) /\ MayBegin(j) /\ ~MayBegin(j)'
         \/ runs'[j] = runs[j] /\ asked'[j] = asked[j] /\ crashes' = crashes /\ (MayBegin(j)' => MayBegin(j))
<1> SUFFICES Goal
  OBVIOUS
<1>8. Nobody # j
  BY RawprepAssumption
<1>e. Waiting \cap Ended = {} /\ "absent" \notin Waiting
  BY DEF Waiting, Ended
<1>m. MayBegin(j) <=>
        /\ \/ pending[j] # Absent \/ hand.job = j \/ todo[j] # Absent
           \/ \E h \in Handler : AtWork(h, j)
        /\ \/ \E h \in Handler : call[h].job = j /\ call[h].at \in {"initialize", "queue"}
           \/ hand.job = j /\ pc = "begin"
           \/ record[j] \in Waiting /\ ~(hand.job = j /\ pc = "run")
  BY DEF MayBegin, Attended
<1>p. MayBegin(j)' <=>
        /\ \/ pending'[j] # Absent \/ hand'.job = j \/ todo'[j] # Absent
           \/ \E h \in Handler : AtWork(h, j)'
        /\ \/ \E h \in Handler : call'[h].job = j /\ call'[h].at \in {"initialize", "queue"}
           \/ hand'.job = j /\ pc' = "begin"
           \/ record'[j] \in Waiting /\ ~(hand'.job = j /\ pc' = "run")
  BY DEF MayBegin, Attended
<1>o. /\ \A h \in Handler : AtWork(h, j) => hand.job # j
      /\ hand.job = j /\ pc = "run" => record[j] \in {"running", "cancelled"}
      /\ record[j] = "absent" => Settled(j) /\ asked[j] = 0
  BY DEF OrderlyFor, AtWork
<1>1. CASE Aside(j)
  BY <1>1, <1>m, <1>p DEF Aside, FileKept, CallsKept, AtWork
<1>2. CASE TakesIt(j)
  <2>1. todo[j] # Absent
    BY <1>2 DEF TakesIt, Absent
  <2> QED BY <1>2, <1>m, <1>p, <2>1 DEF TakesIt, FileKept, CallsKept, Counted, AtWork
<1>3. CASE MissesIt(j)
  BY <1>3, <1>m, <1>p DEF MissesIt, FileKept, CallsKept, EntryKept, AtWork
<1>4. CASE LoadsIt(j)
  BY <1>4, <1>m, <1>p DEF LoadsIt, FileKept, CallsKept, EntryKept, Counted, AtWork
<1>5. CASE BeginsIt(j)
  BY <1>5, <1>m, <1>p, <1>o DEF BeginsIt, CallsKept, EntryKept, AtWork
<1>6. CASE FusesIt(j)
  BY <1>6, <1>m, <1>p DEF FusesIt, CallsKept, EntryKept, Counted, AtWork
<1>7. CASE EndsIt(j)
  BY <1>7, <1>m, <1>p, <1>e DEF EndsIt, CallsKept, EntryKept, Counted, AtWork
<1>9. CASE PutsBack(j)
  BY <1>9, <1>m, <1>p, <1>8 DEF PutsBack, FileKept, CallsKept, Counted, AtWork
<1>10. ASSUME NEW h \in Handler, CancelsIt(h, j) PROVE Goal
  <2>1. record'[j] \notin Waiting
    BY <1>10 DEF CancelsIt, Waiting
  <2> QED BY <1>10, <1>m, <1>p, <1>8, <2>1 DEF CancelsIt, EntryKept, WorkerKept, Counted, AtWork
<1>17. ASSUME NEW h \in Handler, ChecksIt(h, j) PROVE Goal
  BY <1>17, <1>m, <1>p DEF ChecksIt, CallMoves, FileKept, EntryKept, WorkerKept, Counted, AtWork
<1>11. CASE Crashes(j)
  BY <1>11 DEF Crashes
<1>12. ASSUME NEW h \in Handler, CreatesIt(h, j) PROVE Goal
  <2>1. Settled(j) /\ asked[j] = 0
    BY <1>12, <1>o DEF CreatesIt
  <2>2. CASE asked'[j] = 1
    BY <1>12, <2>1, <2>2 DEF CreatesIt
  <2>3. CASE CallsKept(j) /\ asked'[j] = asked[j]
    <3>1. ~MayBegin(j)'
      BY <1>12, <1>p, <2>1, <2>3, SettledIs DEF CreatesIt, CallsKept, EntryKept, WorkerKept, AtWork
    <3> QED BY <1>12, <2>3, <3>1 DEF CreatesIt
  <2> QED BY <1>12, <2>2, <2>3 DEF CreatesIt
<1>13. ASSUME NEW h \in Handler, RetriesIt(h, j) PROVE Goal
  BY <1>13 DEF RetriesIt
<1>14. ASSUME NEW h \in Handler, ServesIt(h, j) PROVE Goal
  BY <1>14, <1>m DEF ServesIt, Counted, AtWork
<1>15. ASSUME NEW h \in Handler, EnqueuesIt(h, j) PROVE Goal
  BY <1>15, <1>m, <1>p DEF EnqueuesIt, CallMoves, FileKept, WorkerKept, Counted, AtWork
<1>16. ASSUME NEW h \in Handler, WakesIt(h, j) PROVE Goal
  BY <1>16, <1>8, <1>m, <1>p DEF WakesIt, FileKept, EntryKept, WorkerKept, Counted, AtWork
<1> HIDE DEF Goal
<1> QED BY <1>1, <1>2, <1>3, <1>4, <1>5, <1>6, <1>7, <1>9, <1>10, <1>11, <1>12, <1>13, <1>14, <1>15, <1>16, <1>17 DEF Means

LEMMA DemandedStep ==
  ASSUME Patient, Formed, Orderly, NEW j \in Job, Demanded(j), Next
  PROVE  Demanded(j)'
<1>0. /\ runs[j] \in Nat /\ asked[j] \in Nat /\ crashes \in Nat
      /\ runs[j] + (IF MayBegin(j) THEN 1 ELSE 0) <= asked[j] + crashes
  BY FormedIs, RawprepAssumption DEF Demanded
<1>1. SUFFICES runs'[j] + (IF MayBegin(j)' THEN 1 ELSE 0) <= asked'[j] + crashes'
  BY DEF Demanded
<1>2. Means(j) /\ OrderlyFor(j)
  BY NextMeans DEF Orderly
<1>3. CASE Crashes(j) /\ runs'[j] = runs[j] /\ asked'[j] = asked[j]
  BY <1>0, <1>3 DEF Crashes
<1>4. CASE BeginsIt(j) /\ MayBegin(j) /\ ~MayBegin(j)'
  BY <1>0, <1>4 DEF BeginsIt
<1>5. CASE runs'[j] = runs[j] /\ asked'[j] = asked[j] + 1 /\ crashes' = crashes
  BY <1>0, <1>5
<1>6. CASE runs'[j] = runs[j] /\ asked'[j] = asked[j] /\ crashes' = crashes /\ (MayBegin(j)' => MayBegin(j))
  BY <1>0, <1>6
<1> QED BY <1>2, <1>3, <1>4, <1>5, <1>6, MayBeginStep

AllDemanded == \A j \in Job : Demanded(j)

\* No job is run more often than it was demanded and the API crashed.
THEOREM RunsDemandedHold == ASSUME Patient PROVE Spec => []RunsAreDemanded
<1>1. Init => Formed /\ Orderly /\ AllDemanded
  <2> SUFFICES ASSUME Init, NEW j \in Job PROVE Demanded(j)
    BY FormedInit, OrderlyInit DEF AllDemanded
  <2>1. /\ Settled(j) /\ runs[j] = 0 /\ asked[j] = 0 /\ crashes = 0
    BY Nothings, RawprepAssumption DEF Init, Settled
  <2> QED BY <2>1, SettledIs DEF Demanded, MayBegin, Attended
<1>2. Formed /\ Orderly /\ AllDemanded /\ [Next]_rvars => (Formed /\ Orderly /\ AllDemanded)'
  <2> SUFFICES ASSUME Formed, Orderly, AllDemanded, [Next]_rvars PROVE AllDemanded'
    BY FormedAlways, OrderlyStep
  <2>1. CASE UNCHANGED rvars
    BY <2>1 DEF AllDemanded, Demanded, MayBegin, Attended, AtWork, rvars
  <2>2. CASE Next
    BY <2>2, DemandedStep DEF AllDemanded
  <2> QED BY <2>1, <2>2
<1>3. Formed /\ Orderly /\ AllDemanded => RunsAreDemanded
  <2> SUFFICES ASSUME Formed, NEW j \in Job, Demanded(j) PROVE runs[j] <= asked[j] + crashes
    BY DEF AllDemanded, RunsAreDemanded
  <2>1. runs[j] \in Nat /\ asked[j] \in Nat /\ crashes \in Nat
    BY FormedIs, RawprepAssumption
  <2> QED BY <2>1 DEF Demanded
<1> QED BY <1>1, <1>2, <1>3, PTL DEF Spec

-----------------------------------------------------------------------------
\* Whatever became of its entry, a queued job has spent an attempt only where the
\* worker could not load its record.
TriedFor(j) ==
  record[j] = "queued" /\ crashes = 0 =>
    /\ pending[j].attempts <= misread + (IF hand.job = j /\ pc \in {"load", "begin"} THEN 1 ELSE 0)
    /\ todo[j].attempts <= misread
    /\ hand.job = j =>
         /\ pc # "run"
         /\ hand.entry.attempts <= misread + (IF pc \in {"load", "begin"} THEN 1 ELSE 0)
         /\ pc = "settle" => hand.result = "retryable"
    /\ \/ misread >= MaxAttempts
       \/ pending[j] # Absent \/ hand.job = j
       \/ \E h \in Handler : call[h].at = "enqueue" /\ call[h].job = j

LEMMA TriedStep ==
  ASSUME Patient, Formed, Orderly, NEW j \in Job, TriedFor(j), Next
  PROVE  TriedFor(j)'
<1>t. /\ misread \in Nat /\ MaxAttempts \in Nat /\ Nobody # j /\ crashes \in Nat
      /\ pending[j] \in Entry /\ todo[j] \in Entry /\ hand.entry \in Entry
      /\ pending[j].attempts \in Nat /\ todo[j].attempts \in Nat /\ hand.entry.attempts \in Nat
  BY FormedIs, RawprepAssumption, MaxAttemptsAssumption DEF HandType, Entry
<1>a. Absent.attempts = 0
  BY DEF Absent
<1>m. Means(j) /\ OrderlyFor(j)
  BY NextMeans DEF Orderly
<1>f. Formed'
  BY FormedStep
<1>o. /\ \A h \in Handler : AtWork(h, j)
                            => pending[j] = Absent /\ todo[j] = Absent /\ hand.job # j
      /\ hand.job = j /\ pc = "run" => record[j] \in {"running", "cancelled"}
  BY <1>m DEF OrderlyFor, AtWork
<1> DEFINE Goal ==
    /\ pending'[j].attempts <= misread' + (IF hand'.job = j /\ pc' \in {"load", "begin"} THEN 1 ELSE 0)
    /\ todo'[j].attempts <= misread'
    /\ hand'.job = j =>
         /\ pc' # "run"
         /\ hand'.entry.attempts <= misread' + (IF pc' \in {"load", "begin"} THEN 1 ELSE 0)
         /\ pc' = "settle" => hand'.result = "retryable"
    /\ \/ misread' >= MaxAttempts
       \/ pending'[j] # Absent \/ hand'.job = j
       \/ \E h \in Handler : call'[h].at = "enqueue" /\ call'[h].job = j
<1> SUFFICES ASSUME record'[j] = "queued", crashes' = 0 PROVE Goal
  BY DEF TriedFor
<1>s. ASSUME record[j] = "queued", crashes = 0
      PROVE
    /\ pending[j].attempts <= misread + (IF hand.job = j /\ pc \in {"load", "begin"} THEN 1 ELSE 0)
    /\ todo[j].attempts <= misread
    /\ hand.job = j =>
         /\ pc # "run"
         /\ hand.entry.attempts <= misread + (IF pc \in {"load", "begin"} THEN 1 ELSE 0)
         /\ pc = "settle" => hand.result = "retryable"
    /\ \/ misread >= MaxAttempts
       \/ pending[j] # Absent \/ hand.job = j
       \/ \E h \in Handler : call[h].at = "enqueue" /\ call[h].job = j
  BY <1>s DEF TriedFor
<1>1. CASE Aside(j)
  <2>1. misread' \in Nat /\ misread' >= misread /\ record[j] = "queued" /\ crashes = 0
    BY <1>1, <1>f, FormedIs DEF Aside, FileKept, Formed, RawTypeOK
  <2>2. todo'[j].attempts <= misread'
    BY <1>1, <1>s, <1>t, <1>a, <2>1 DEF Aside
  <2> QED BY <1>1, <1>s, <1>t, <2>1, <2>2 DEF Aside, CallsKept
<1>2. CASE TakesIt(j)
  <2>1. pending'[j].attempts = todo[j].attempts + 1 /\ hand'.entry = pending'[j] /\ todo'[j] = Absent
    BY <1>2, <1>t, MarkedIs DEF TakesIt
  <2>2. record[j] = "queued" /\ crashes = 0 /\ misread' = misread /\ hand'.job = j /\ pc' = "load"
    BY <1>2 DEF TakesIt, FileKept, Counted
  <2>3. todo[j].attempts <= misread
    BY <1>s, <2>2
  <2> QED BY <1>t, <1>a, <2>1, <2>2, <2>3
<1>3. CASE MissesIt(j)
  BY <1>3, <1>s, <1>t DEF MissesIt, FileKept, EntryKept
<1>4. CASE LoadsIt(j)
  <2>1. "queued" \notin Ended
    BY DEF Ended
  <2> QED BY <1>4, <1>s, <1>t, <2>1 DEF LoadsIt, FileKept, EntryKept, Counted
<1>5. ~BeginsIt(j) /\ ~EndsIt(j) /\ ~FusesIt(j)
  BY <1>o DEF BeginsIt, EndsIt, FusesIt, Ended
<1>6. CASE PutsBack(j)
  <2>1. record[j] = "queued" /\ crashes = 0 /\ hand.job = j /\ pc = "settle" /\ misread' = misread
        /\ hand'.job = Nobody /\ todo'[j] = todo[j]
    BY <1>6 DEF PutsBack, FileKept, Counted
  <2>2. hand.entry.attempts <= misread /\ hand.result = "retryable" /\ todo[j].attempts <= misread
    BY <1>s, <1>t, <2>1
  <2>3. CASE pending'[j] # Absent /\ pending'[j].attempts = hand.entry.attempts
    BY <1>t, <2>1, <2>2, <2>3
  <2>4. CASE pending'[j] = Absent /\ ~StaysPending(hand.entry, hand.result)
    BY <1>a, <1>t, <2>1, <2>2, <2>4 DEF StaysPending
  <2> QED BY <1>6, <2>3, <2>4 DEF PutsBack
<1>7. ~Crashes(j)
  BY <1>t DEF Crashes
<1>8. ASSUME NEW h \in Handler PROVE ~CreatesIt(h, j) /\ ~CancelsIt(h, j)
  BY DEF CreatesIt, CancelsIt
<1>9. ASSUME NEW h \in Handler, RetriesIt(h, j) PROVE Goal
  <2>1. /\ record[j] = "queued" /\ crashes = 0 /\ misread' = misread
        /\ pending'[j] = pending[j] /\ todo'[j] = todo[j] /\ hand' = hand
    BY <1>9 DEF RetriesIt, EntryKept, WorkerKept
  <2>2. pending[j] = Absent /\ todo[j] = Absent /\ hand.job # j /\ \A g \in Handler : call[g].job # j
    BY <1>9, SettledMeans DEF RetriesIt, Patient
  <2> QED BY <1>s, <1>t, <2>1, <2>2
<1>10. ASSUME NEW h \in Handler, ServesIt(h, j) PROVE Goal
  BY <1>10, <1>a, <1>o, <1>t DEF ServesIt, CallMoves, EntryKept, WorkerKept, Counted, AtWork
<1>11. ASSUME NEW h \in Handler, EnqueuesIt(h, j) PROVE Goal
  <2>1. pending'[j] # Absent /\ pending'[j].attempts = pending[j].attempts
    BY <1>11, <1>t, MarkedIs DEF EnqueuesIt
  <2>2. hand.job # j /\ hand' = hand /\ todo'[j] = todo[j] /\ misread' = misread
        /\ record[j] = "queued" /\ crashes = 0
    BY <1>11, <1>o DEF EnqueuesIt, FileKept, WorkerKept, Counted, AtWork
  <2> QED BY <1>s, <1>t, <2>1, <2>2
<1>12. ASSUME NEW h \in Handler, WakesIt(h, j) PROVE Goal
  BY <1>12, <1>s, <1>t DEF WakesIt, FileKept, EntryKept, WorkerKept, Counted
<1>13. ASSUME NEW h \in Handler, ChecksIt(h, j) PROVE Goal
  <2>1. /\ record[j] = "queued" /\ crashes = 0 /\ misread' = misread
        /\ pending'[j] = pending[j] /\ todo'[j] = todo[j] /\ hand' = hand /\ (hand.job = j => pc' = pc)
        /\ \A g \in Handler : call[g].job = j /\ call[g].at = "enqueue" => call'[g] = call[g]
    BY <1>13 DEF ChecksIt, CallMoves, FileKept, EntryKept, WorkerKept, Counted
  <2> QED BY <1>s, <1>t, <2>1
<1> HIDE DEF Goal
<1> QED BY <1>m, <1>1, <1>2, <1>3, <1>4, <1>5, <1>6, <1>7, <1>8, <1>9, <1>10, <1>11, <1>12, <1>13 DEF Means

AllTried == \A j \in Job : TriedFor(j)

\* A job queued on file has an entry, the worker or a request to go with it, as long as
\* the index was unreadable less often than there are attempts.
THEOREM QueuedTrackedHolds == ASSUME Patient PROVE Spec => []QueuedRawJobIsTracked
<1>1. Init => Formed /\ Orderly /\ AllTried
  <2> SUFFICES ASSUME Init, NEW j \in Job PROVE TriedFor(j)
    BY FormedInit, OrderlyInit DEF AllTried
  <2>1. record[j] = "absent"
    BY DEF Init
  <2> QED BY <2>1 DEF TriedFor
<1>2. Formed /\ Orderly /\ AllTried /\ [Next]_rvars => (Formed /\ Orderly /\ AllTried)'
  <2> SUFFICES ASSUME Formed, Orderly, AllTried, [Next]_rvars PROVE AllTried'
    BY FormedAlways, OrderlyStep
  <2>1. CASE UNCHANGED rvars
    BY <2>1 DEF AllTried, TriedFor, rvars
  <2>2. CASE Next
    BY <2>2, TriedStep DEF AllTried
  <2> QED BY <2>1, <2>2
<1>3. Formed /\ Orderly /\ AllTried => QueuedRawJobIsTracked
  <2> SUFFICES ASSUME Formed, AllTried, crashes = 0, misread < MaxAttempts, NEW j \in Job, record[j] = "queued"
               PROVE  \/ pending[j] # Absent
                      \/ hand.job = j
                      \/ \E h \in Handler : call[h].at = "enqueue" /\ call[h].job = j
    BY DEF QueuedRawJobIsTracked
  <2>1. misread \in Nat /\ MaxAttempts \in Nat
    BY FormedIs, MaxAttemptsAssumption
  <2> QED BY <2>1 DEF AllTried, TriedFor
<1> QED BY <1>1, <1>2, <1>3, PTL DEF Spec
=============================================================================
