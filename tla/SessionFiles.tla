---------------------------- MODULE SessionFiles ----------------------------
(***************************************************************************)
(* The small JSON files of a Studio session: the catalog, the selection,   *)
(* the edit linkage and the investigations of dead letters.  Requests read *)
(* a file, change a copy and write it back in place, without a lock; a     *)
(* file being written cannot be read, nor one whose writer died.           *)
(*                                                                         *)
(* The AI jobs of the session appear as far as these files depend on them; *)
(* how they run is StudioQueue.                                            *)
(***************************************************************************)
EXTENDS Naturals, Sequences, FiniteSets, Functions

CONSTANTS
  Session,           \* sessions with a catalog
  Job,               \* AI jobs of the session the other files belong to
  Mask,              \* masks a selection may be made from
  Handler,           \* requests at work at the same time
  Kinds,             \* bound: sets of kinds of requests that meet in one behaviour
  None,
  MaxRequests,       \* bound: requests
  MaxChanges,        \* bound: crashes, and jobs that are made or move on
  MaxLetters         \* bound: failed entries of one job in the history

ASSUME SessionAssumption ==
  /\ None \notin Session \cup Job \cup Mask
  /\ IsFiniteSet(Session) /\ IsFiniteSet(Job)
  /\ MaxRequests \in Nat /\ MaxChanges \in Nat /\ MaxLetters \in Nat

VARIABLES
  catalog,           \* session_catalog.json of each session that exists
  selection,         \* mask and preview images, and selection_state.json
  linkage,           \* dreamgen_edit_linkage.json
  letters,           \* the dead letters' investigations
  job, failed,       \* the jobs' records, and how many failed entries of each the history has
  latest,            \* the job whose record was saved last
  decisions,         \* compare decisions: files, and lines of the aggregate
  kinds,             \* the kinds of requests of this behaviour
  call,              \* the requests
  requests, changes

cards    == <<catalog, decisions>>
edit     == <<selection, linkage>>
jobs     == <<job, failed, latest>>
scounts  == <<requests, changes>>
sfiles   == <<cards, edit, letters, jobs>>

-----------------------------------------------------------------------------
\* A file: its last whole text, which nobody can read while it is torn.
File(text)    == [torn |-> FALSE, text |-> text]
Torn(file)    == [file EXCEPT !.torn = TRUE]
Read(file, default) == IF file.torn THEN default ELSE file.text

Field == {"rating", "keywords"}

\* Each field is at its default, or as a user set it.
Untouched == [f \in Field |-> FALSE]

Source == {"original", "preview", "candidate"}

NoSelection == [mask |-> None, asset |-> None]
NoLinkage   == [source |-> None, kind |-> None, job |-> None, generated |-> FALSE,
                mask |-> None, history |-> <<>>, index |-> 0, advice |-> "collect"]

Investigation == [status : {"open", "acknowledged", "assigned", "resolved", "muted"},
                  assigned : BOOLEAN, acknowledged : BOOLEAN]
Open == [status |-> "open", assigned |-> FALSE, acknowledged |-> FALSE]

Failing == {"error", "blocked"}
Active  == {"queued", "running", "submitted"}
Status  == {"absent", "planned", "done", "cancelled"} \cup Active \cup Failing

\* A dead letter is a history file: a job and which of its failed entries.
Letter  == Job \X (1..MaxLetters)
Letters == {l \in Letter : l[2] <= failed[l[1]]}
Unopened == [l \in Letter |-> Open]

\* The queue archives the job's entry as failed, at once or when it has tried it often enough.
Archived(j) == failed[j] < MaxLetters /\ failed' = [failed EXCEPT ![j] = @ + 1]
AnyTime(j)  == Archived(j) \/ UNCHANGED failed

\* A request: what is left of its program, what it was asked, what it holds.
Idle == [kind |-> "none", rest |-> <<>>, todo |-> <<>>, ask |-> None, hold |-> None,
         chosen |-> NoSelection, blind |-> FALSE, solo |-> TRUE]

At(h, step) == call[h].rest # <<>> /\ Head(call[h].rest) = step
Stays(h, c) == call' = [call EXCEPT ![h] = c] /\ UNCHANGED kinds
Goes(h, c)  == Stays(h, IF Tail(c.rest) = <<>> THEN Idle ELSE [c EXCEPT !.rest = Tail(c.rest)])
Fails(h)    == Stays(h, Idle)

\* A request begins; from now on none at work is alone.
Begins(h, c) ==
  /\ call[h].kind = "none" /\ requests < MaxRequests
  /\ c.kind \in kinds
  /\ call' = [g \in Handler |->
       IF g = h THEN [c EXCEPT !.solo = \A o \in Handler : call[o].kind = "none"]
       ELSE [call[g] EXCEPT !.solo = @ /\ call[g].kind = "none"]]
  /\ requests' = requests + 1
  /\ UNCHANGED kinds

-----------------------------------------------------------------------------
\* The catalog.

\* Seeded fault: what the request does not name is taken for its default.
UpdatedAnew(text, given) == [f \in Field |-> f \in DOMAIN given /\ given[f]]

\* update_session_catalog: only what the request names changes.
Updated(text, given) == [f \in Field |-> IF f \in DOMAIN given THEN given[f] ELSE text[f]]

UpdateSteps == <<"load", "tear", "save">>

\* PUT /catalog/session, and /catalog/batch for each of its sessions in turn.
\* A request sets fields; none clears one here.
BeginUpdate(h) ==
  \E n \in 1..Cardinality(Session), F \in (SUBSET Field) \ {{}} :
    /\ \E order \in {o \in [1..n -> Session] : IsInjective(o)}, given \in [F -> {TRUE}] :
         Begins(h, [Idle EXCEPT !.kind = "catalog", !.rest = UpdateSteps, !.todo = order, !.ask = given])
    /\ UNCHANGED <<sfiles, changes>>

\* A session that does not exist ends the request, the sessions before it are done.
LoadCatalog(h) ==
  /\ At(h, "load")
  /\ LET s == Head(call[h].todo)
     IN  IF s \in DOMAIN catalog
         THEN Goes(h, [call[h] EXCEPT !.hold = Read(catalog[s], Untouched), !.blind = catalog[s].torn])
         ELSE Fails(h)
  /\ UNCHANGED <<sfiles, scounts>>

TearCatalog(h) ==
  /\ At(h, "tear")
  /\ catalog' = [catalog EXCEPT ![Head(call[h].todo)] = Torn(@)]
  /\ Goes(h, call[h])
  /\ UNCHANGED <<decisions, edit, letters, jobs, scounts>>

SaveCatalog(h) ==
  /\ At(h, "save")
  /\ catalog' = [catalog EXCEPT ![Head(call[h].todo)] = File(Updated(call[h].hold, call[h].ask))]
  /\ IF Len(call[h].todo) = 1 THEN Fails(h)
     ELSE Stays(h, [call[h] EXCEPT !.rest = UpdateSteps, !.todo = Tail(@)])
  /\ UNCHANGED <<decisions, edit, letters, jobs, scounts>>

-----------------------------------------------------------------------------
\* Selection and edit linkage.

LinkSteps == <<"prior", "chosen", "tearLinkage", "link">>

\* apply_session_selection_state; a mask that selects nothing is refused at once.
BeginApply(h) ==
  /\ \E m \in Mask, a \in {"original", None} :
       Begins(h, [Idle EXCEPT !.kind = "apply", !.rest = <<"images", "tearState", "state">> \o LinkSteps,
                              !.ask = [source |-> a, job |-> None, history |-> None, index |-> 0],
                              !.chosen = [mask |-> m, asset |-> a]])
  /\ UNCHANGED <<sfiles, changes>>

\* The mask and its preview, each under the name the last selection had.
WriteImages(h) ==
  /\ At(h, "images")
  /\ selection' = [selection EXCEPT !.images = call[h].chosen.mask]
  /\ Goes(h, call[h])
  /\ UNCHANGED <<cards, linkage, letters, jobs, scounts>>

TearState(h) ==
  /\ At(h, "tearState")
  /\ selection' = [selection EXCEPT !.state = Torn(@)]
  /\ Goes(h, call[h])
  /\ UNCHANGED <<cards, linkage, letters, jobs, scounts>>

WriteState(h) ==
  /\ At(h, "state")
  /\ selection' = [selection EXCEPT !.state = File(call[h].chosen)]
  /\ Goes(h, call[h])
  /\ UNCHANGED <<cards, linkage, letters, jobs, scounts>>

\* POST /edit-linkage, with the record of a job or without, with a history that came
\* back to its beginning or without.
BeginSync(h) ==
  /\ \E s \in Source \cup {None}, j \in {i \in Job : job[i] # "absent"} \cup {None},
        past \in {None, <<"original", "candidate", "original">>}, n \in {0, 2} :
       /\ past = None => n = 0
       /\ Begins(h, [Idle EXCEPT !.kind = "sync", !.rest = LinkSteps,
                                 !.ask = [source |-> s, job |-> j, history |-> past, index |-> n]])
  /\ UNCHANGED <<sfiles, changes>>

\* refresh_studio_job, for a request or for the worker, finds the outputs: the record is
\* done, then the linkage follows.
BeginRefresh(h) ==
  /\ \E j \in Job :
       /\ job[j] = "submitted"
       /\ Begins(h, [Idle EXCEPT !.kind = "refresh", !.rest = <<"finish">> \o LinkSteps,
                                 !.ask = [source |-> "original", job |-> j, history |-> None, index |-> 0]])
  /\ UNCHANGED <<sfiles, changes>>

FinishJob(h) ==
  /\ At(h, "finish")
  /\ LET j == call[h].ask.job
     IN  /\ latest' = j
         /\ \/ /\ job' = [job EXCEPT ![j] = "done"]
               /\ Goes(h, call[h]) /\ UNCHANGED failed
            \/ job' = [job EXCEPT ![j] = "error"] /\ AnyTime(j) /\ Fails(h)
  /\ UNCHANGED <<cards, edit, letters, scounts>>

\* A linkage that cannot be read counts as absent.
ReadPrior(h) ==
  /\ At(h, "prior")
  /\ Goes(h, [call[h] EXCEPT !.hold = Read(linkage, NoLinkage)])
  /\ UNCHANGED <<sfiles, scounts>>

\* Seeded fault: the linkage keeps the mask it had.
ReadChosenPrior(h) ==
  /\ At(h, "chosen")
  /\ Goes(h, [call[h] EXCEPT !.chosen.mask = IF @ = None THEN call[h].hold.mask ELSE @])
  /\ UNCHANGED <<sfiles, scounts>>

\* The selection: given by apply, else from its file, whose damage ends the request.
ReadChosen(h) ==
  /\ At(h, "chosen")
  /\ IF call[h].kind # "apply" /\ selection.state.torn THEN Fails(h)
     ELSE Goes(h, [call[h] EXCEPT !.chosen = IF call[h].kind = "apply" THEN @ ELSE selection.state.text])
  /\ UNCHANGED <<sfiles, scounts>>

TearLinkage(h) ==
  /\ At(h, "tearLinkage")
  /\ linkage' = Torn(linkage)
  /\ Goes(h, call[h])
  /\ UNCHANGED <<cards, selection, letters, jobs, scounts>>

\* _normalize_path_list: the first place of each path is kept.
Deduplicated(s) ==
  LET keeps == {i \in DOMAIN s : \A k \in 1..(i - 1) : s[k] # s[i]}
      at[n \in 1..Cardinality(keeps)] == s[CHOOSE i \in keeps : Cardinality({k \in keeps : k <= i}) = n]
  IN  at

SourceKind(source, mask, generated) ==
  CASE source = None -> None
    [] source = "preview" /\ mask # None -> "selection_preview"
    [] source = "candidate" /\ generated -> "generated_candidate"
    [] OTHER -> "working_source"

\* _build_linkage_summary: what the user should do next.
Advice(kind, mask, generated) ==
  IF mask = None THEN "collect"
  ELSE IF kind = "generated_candidate" THEN "compare"
  ELSE IF generated THEN "adopt" ELSE "generate"

\* build_or_update_session_edit_linkage: a job that is given replaces the one on file,
\* the history is the request's or stays, the source is the request's in any case.
Linked(ask, prior, chosen) ==
  LET mask      == IF chosen.mask # None THEN chosen.mask ELSE prior.mask
      generated == IF ask.job # None THEN job[ask.job] = "done" ELSE prior.generated
      past      == Deduplicated(IF ask.history # None THEN ask.history ELSE prior.history)
      place     == IF ask.history # None THEN ask.index ELSE prior.index
      kind      == SourceKind(ask.source, mask, generated)
  IN  [source |-> ask.source, kind |-> kind,
       job |-> IF ask.job # None THEN ask.job ELSE prior.job, generated |-> generated,
       mask |-> mask, history |-> past,
       index |-> IF past = <<>> THEN 0 ELSE IF place > Len(past) - 1 THEN Len(past) - 1 ELSE place,
       advice |-> Advice(kind, mask, generated)]

Link(h) ==
  /\ At(h, "link")
  /\ linkage' = File(Linked(call[h].ask, call[h].hold, call[h].chosen))
  /\ Goes(h, call[h])
  /\ UNCHANGED <<cards, selection, letters, jobs, scounts>>

-----------------------------------------------------------------------------
\* Dead letters.

BeginInvestigate(h) ==
  /\ \E l \in Letters, assign \in {None, TRUE}, ack \in BOOLEAN, status \in {None, "resolved"} :
       Begins(h, [Idle EXCEPT !.kind = "investigate", !.rest = <<"open", "tearLetters", "note">>, !.todo = <<l>>,
                              !.ask = [assigned |-> assign, acknowledged |-> ack, status |-> status]])
  /\ UNCHANGED <<sfiles, changes>>

OpenLetters(h) ==
  /\ At(h, "open")
  /\ Goes(h, [call[h] EXCEPT !.hold = Read(letters, Unopened), !.blind = letters.torn])
  /\ UNCHANGED <<sfiles, scounts>>

TearLetters(h) ==
  /\ At(h, "tearLetters")
  /\ letters' = Torn(letters)
  /\ Goes(h, call[h])
  /\ UNCHANGED <<cards, edit, jobs, scounts>>

\* update_dead_letter_investigation: naming somebody comes before acknowledging.
Investigated(old, ask) ==
  [status       |-> CASE ask.status # None -> ask.status
                      [] ask.status = None /\ old.status # "open" -> old.status
                      [] ask.status = None /\ old.status = "open" ->
                           IF ask.assigned = TRUE THEN "assigned" ELSE IF ask.acknowledged THEN "acknowledged" ELSE "open",
   assigned     |-> IF ask.assigned = None THEN old.assigned ELSE ask.assigned,
   acknowledged |-> old.acknowledged \/ ask.acknowledged]

Note(h) ==
  /\ At(h, "note")
  /\ letters' = File([call[h].hold EXCEPT ![Head(call[h].todo)] = Investigated(@, call[h].ask)])
  /\ Goes(h, call[h])
  /\ UNCHANGED <<cards, edit, jobs, scounts>>

\* Seeded fault: an entry that failed is listed whatever became of its job.
DeadLettersEver == {l \in Letters : Read(letters, Unopened)[l].status \notin {"resolved", "muted"}}

\* list_dead_letters: every failed entry that is not settled, of jobs still failing.
DeadLetters ==
  {l \in Letters : job[l[1]] \in Failing /\ Read(letters, Unopened)[l].status \notin {"resolved", "muted"}}

Orders(S) == {o \in [1..Cardinality(S) -> S] : IsInjective(o)}

\* POST /ops/dead-letters/retry: the items named, or every dead letter; the request
\* holds the results of the jobs it has answered.
BeginRetry(h) ==
  /\ \E items \in {None} \cup {<<j>> : j \in Job} :
       Begins(h, [Idle EXCEPT !.kind = "retry", !.rest = <<"list">>, !.ask = items, !.hold = {}])
  /\ UNCHANGED <<sfiles, changes>>

\* A job is on the list once for each of its letters.
ListLetters(h) ==
  /\ At(h, "list")
  /\ \E items \in IF call[h].ask # None THEN {call[h].ask}
                  ELSE {[i \in DOMAIN o |-> o[i][1]] : o \in Orders(DeadLetters)} :
       IF items = <<>> THEN Fails(h) ELSE Stays(h, [call[h] EXCEPT !.rest = <<"reset">>, !.todo = items])
  /\ UNCHANGED <<sfiles, scounts>>

NextItem(h) ==
  IF Len(call[h].todo) = 1 THEN Fails(h)
  ELSE Stays(h, [call[h] EXCEPT !.rest = <<"reset">>, !.todo = Tail(@), !.hold = @ \cup {Head(call[h].todo)}])

\* retry_studio_job; a job that is active or absent is answered as failed.
Reset(h) ==
  /\ At(h, "reset")
  /\ LET j == Head(call[h].todo)
     IN  IF job[j] \in Active \cup {"absent"}
         THEN NextItem(h) /\ UNCHANGED jobs
         ELSE /\ job' = [job EXCEPT ![j] = "planned"] /\ latest' = j
              /\ Stays(h, [call[h] EXCEPT !.rest = <<"requeue">>])
              /\ UNCHANGED failed
  /\ UNCHANGED <<cards, edit, letters, scounts>>

\* Queued again, or blocked when ComfyUI or the source is not there.
RequeueLetter(h) ==
  /\ At(h, "requeue")
  /\ \E status \in {"queued", "blocked"} : job' = [job EXCEPT ![Head(call[h].todo)] = status]
  /\ latest' = Head(call[h].todo)
  /\ NextItem(h)
  /\ UNCHANGED <<cards, edit, letters, failed, scounts>>

-----------------------------------------------------------------------------
\* Compare decisions: a file of their own, then a line of the aggregate.
BeginDecision(h) ==
  /\ Begins(h, [Idle EXCEPT !.kind = "decision", !.rest = <<"file", "line">>])
  /\ UNCHANGED <<sfiles, changes>>

\* Seeded fault: the line first.
FileLine(h) ==
  /\ At(h, "file")
  /\ decisions' = [decisions EXCEPT !.lines = @ + 1]
  /\ Goes(h, call[h])
  /\ UNCHANGED <<catalog, edit, letters, jobs, scounts>>

FileDecision(h) ==
  /\ At(h, "file")
  /\ decisions' = [decisions EXCEPT !.files = @ + 1]
  /\ Goes(h, call[h])
  /\ UNCHANGED <<catalog, edit, letters, jobs, scounts>>

AppendDecision(h) ==
  /\ At(h, "line")
  /\ decisions' = [decisions EXCEPT !.lines = @ + 1]
  /\ Goes(h, call[h])
  /\ UNCHANGED <<catalog, edit, letters, jobs, scounts>>

-----------------------------------------------------------------------------
\* Where no request looks at jobs, there are none.
Seen(some) == kinds \cap some # {}

\* The worker's own refresh of a job finds its outputs.  Where the linkage is looked at,
\* BeginRefresh is that refresh; elsewhere only the record matters.
Finished == IF "refresh" \in kinds THEN {} ELSE {"done"}

\* How far the queue and its users may have brought a job since it was last looked at.
Onward(status) ==
  CASE status = "absent"                  -> {"queued"}
    [] status = "queued"                  -> {"running", "submitted", "cancelled", "error", "blocked"} \cup Finished
    [] status \in {"running", "submitted"} -> {"submitted", "cancelled", "error"} \cup Finished
    [] status = "planned"                 -> {"cancelled"}
    [] OTHER                              -> {}

\* A job is made or moves on, or the entry of one that has failed ends in the history.
JobMoves ==
  /\ Seen({"refresh", "retry"})
  /\ changes < MaxChanges /\ changes' = changes + 1
  /\ \E j \in Job :
       \/ /\ latest' = j
          /\ \E status \in Onward(job[j]) :
               /\ job' = [job EXCEPT ![j] = status]
               /\ IF status \in Failing THEN AnyTime(j) ELSE UNCHANGED failed
       \/ job[j] \in Failing /\ Archived(j) /\ UNCHANGED <<job, latest>>
  /\ UNCHANGED <<cards, edit, letters, kinds, call, requests>>

\* The backend dies with the requests at work; the files stay as they are.
SessionCrash ==
  /\ changes < MaxChanges /\ changes' = changes + 1
  /\ \E h \in Handler : call[h].kind # "none"
  /\ call' = [h \in Handler |-> Idle]
  /\ UNCHANGED <<sfiles, kinds, requests>>

ServeCatalog(h)  == BeginUpdate(h) \/ LoadCatalog(h) \/ TearCatalog(h) \/ SaveCatalog(h)
ServeEdit(h)     == BeginApply(h) \/ WriteImages(h) \/ TearState(h) \/ WriteState(h)
                    \/ BeginSync(h) \/ BeginRefresh(h) \/ FinishJob(h)
                    \/ ReadPrior(h) \/ ReadChosen(h) \/ TearLinkage(h) \/ Link(h)
ServeLetters(h)  == BeginInvestigate(h) \/ OpenLetters(h) \/ TearLetters(h) \/ Note(h)
                    \/ BeginRetry(h) \/ ListLetters(h) \/ Reset(h) \/ RequeueLetter(h)
ServeCompare(h)  == BeginDecision(h) \/ FileDecision(h) \/ AppendDecision(h)

ServeSession(h) == ServeCatalog(h) \/ ServeEdit(h) \/ ServeLetters(h) \/ ServeCompare(h)

\* Sessions that exist; jobs that wait, failed, or are done, perhaps after they failed.
SessionInit ==
  /\ kinds \in Kinds
  /\ \E present \in IF Seen({"catalog"}) THEN SUBSET Session ELSE {{}} : catalog = [s \in present |-> File(Untouched)]
  /\ selection = [images |-> None, state |-> File(NoSelection)]
  /\ linkage = File(NoLinkage)
  /\ letters = File(Unopened)
  /\ job \in [Job -> IF Seen({"refresh", "retry"}) THEN {"absent", "submitted", "error", "done"} ELSE {"absent"}]
  /\ failed \in [Job -> IF Seen({"retry"}) THEN 0..MaxLetters ELSE {0}]
  /\ \A j \in Job : failed[j] # 0 => job[j] \in {"error", "done"}
  /\ latest \in {j \in Job : job[j] # "absent"} \cup {None}
  /\ latest = None => \A j \in Job : job[j] = "absent"
  /\ decisions = [files |-> 0, lines |-> 0]
  /\ call = [h \in Handler |-> Idle]
  /\ requests = 0 /\ changes = 0

svars == <<sfiles, kinds, call, scounts>>

-----------------------------------------------------------------------------
\* Files and requests are well formed: the latest job is one that exists, no line of the
\* aggregate lacks its decision, and the place in the history is a place of it.
SessionTypeOK ==
  /\ \A s \in DOMAIN catalog : s \in Session /\ catalog[s].text \in [Field -> BOOLEAN]
  /\ letters.text \in [Letter -> Investigation]
  /\ job \in [Job -> Status] /\ failed \in [Job -> 0..MaxLetters]
  /\ latest # None => job[latest] # "absent"
  /\ decisions.lines <= decisions.files
  /\ linkage.text.history # <<>> => linkage.text.index < Len(linkage.text.history)
  /\ \A h \in Handler : call[h].kind = "none" <=> call[h].rest = <<>>

\* An update of the catalog, or of an investigation, that nothing overlapped and that
\* could read its file leaves everything it does not name as it was.
UndisturbedEditsAreLocal ==
  [][\A h \in Handler : call[h].solo /\ ~call[h].blind =>
       /\ SaveCatalog(h) =>
            LET s == Head(call[h].todo)
            IN  \A f \in Field \ DOMAIN call[h].ask : catalog'[s].text[f] = catalog[s].text[f]
       /\ Note(h) => \A l \in Letter \ {Head(call[h].todo)} : letters'.text[l] = letters.text[l]]_svars

\* The linkage a lone request writes names the mask of the selection on file.
LinkageFollowsSelection ==
  [][\A h \in Handler : call[h].solo /\ Link(h) /\ selection.state.text.mask # None
       => linkage'.text.mask = selection.state.text.mask]_svars

\* A lone request to retry whatever is dead resets a job only because it is failing, or
\* once more because it has come to another letter of a job it has reset already; by then
\* the worker may have brought that job to a good end.  No job is reset that was not
\* failing when its turn first came, whatever the queue does meanwhile.
LoneRetryTakesFailures ==
  [][\A h \in Handler : call[h].solo /\ Reset(h) /\ call[h].ask = None /\ job' # job =>
       LET j == Head(call[h].todo)
       IN  job[j] \in Failing \/ (j \in call[h].hold /\ failed[j] >= 2)]_svars
=============================================================================
