--------------------------- MODULE StudioRecords ---------------------------
(***************************************************************************)
(* The record of a Studio job (studio_job.json) and the values the job     *)
(* service writes into it.  prompt is the position of the job's ComfyUI    *)
(* prompt among the prompts submitted for the job, 0 for none; ready is    *)
(* execution_ready together with a source image and a workflow file.       *)
(*                                                                         *)
(* request is not in the file: it numbers the user's demands for a run of  *)
(* the job (its creation and every retry), so that a property can tell a   *)
(* second submission for one demand from a submission for the next.        *)
(***************************************************************************)
EXTENDS Naturals

Active   == {"queued", "running", "submitted"}
Terminal == {"done", "error", "blocked", "cancelled"}
Status   == {"absent", "planned"} \cup Active \cup Terminal

Record == [status : Status, prompt : Nat, ready : BOOLEAN, request : Nat]

NoRecord == [status |-> "absent", prompt |-> 0, ready |-> FALSE, request |-> 0]

NewRecord(status, ready, request) ==
  [status |-> status, prompt |-> 0, ready |-> ready, request |-> request]

\* Seeded fault: a job that was found running is not polled any more.
AwaitsSubmittedOnly(rec) == rec.status = "submitted" /\ rec.prompt > 0

\* The job waits for a prompt that ComfyUI has been given.
AwaitsComfy(rec) == rec.status \in {"submitted", "running"} /\ rec.prompt > 0

\* Seeded fault: a cancelled job would be submitted too.
RunnableEvenCancelled(rec) == rec.status \notin Terminal \ {"cancelled"} /\ ~AwaitsComfy(rec)

\* execute_studio_job would submit this record.
Runnable(rec) == rec.status \notin Terminal /\ ~AwaitsComfy(rec)

WithStatus(rec, status) == [rec EXCEPT !.status = status]

\* The state of a prompt inside ComfyUI: "barren" when it ended without an image
\* and without an error, "gone" when it was deleted, "lost" when ComfyUI forgot it.
PromptState == {"active", "done", "failed", "barren", "gone", "lost"}

\* What refresh_studio_job makes of ComfyUI's answer.  The request itself may
\* fail whatever the prompt's state; an empty history means "still running".
Refreshed(rec, promptState) ==
  { WithStatus(rec, "error"),
    WithStatus(rec, CASE promptState = "done"   -> "done"
                      [] promptState = "failed" -> "error"
                      [] OTHER                  -> "running") }

\* Seeded fault: the record's status is passed on as the entry's.
ResultIsStatus(status) == status

\* What _process_studio_entry reports for a record in a given status.
ResultOf(status) ==
  CASE status = "done"      -> "done"
    [] status = "cancelled" -> "cancelled"
    [] status = "blocked"   -> "failed"
    [] status = "error"     -> "retryable"
    [] OTHER                -> "queued"
=============================================================================
