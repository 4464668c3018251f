---------------------------- MODULE StudioPromise ----------------------------
(***************************************************************************)
(* The Studio queue keeps QueuePromise.  A job has ended for its users     *)
(* when its record says so and nobody is at work on an older copy.         *)
(***************************************************************************)
EXTENDS StudioQueue

\* The demands that a sequence of prompts answered.
Requests(prompts) == [n \in DOMAIN prompts |-> prompts[n].request]

Life(j) == IF QuietlyEnded(j) THEN record[j].status ELSE "open"

Promise == INSTANCE QueuePromise WITH
  Ending  <- Terminal,
  demands <- asked,
  given   <- [j \in Job |-> Requests(comfy[j])],
  life    <- [j \in Job |-> Life(j)]

\* Every step of workers, handlers, crashes and of ComfyUI is, seen from outside, a
\* demand, a submission that answers one, a conclusion, or nothing: no entry that is
\* recovered, polled late or written back runs a job that has ended.
KeepsPromise == Promise!Spec
=============================================================================
