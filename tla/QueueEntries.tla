---------------------------- MODULE QueueEntries ----------------------------
(***************************************************************************)
(* The entries of the file queue under <output root>/_queue/pending and    *)
(* what each operation of core/studio_queue.py writes into one of them.    *)
(* A pending file that does not exist is the entry Absent.  The due time   *)
(* next_attempt_at is kept as one bit: has it passed?                      *)
(***************************************************************************)
EXTENDS Naturals

CONSTANT
  MaxAttempts        \* max_attempts, which enqueue_job writes into an entry

ASSUME MaxAttemptsAssumption == MaxAttempts \in Nat \ {0}

Entry == [status : {"absent", "queued", "running"}, attempts : Nat, due : BOOLEAN]

Absent == [status |-> "absent", attempts |-> 0, due |-> TRUE]

\* What processing an entry reports: "retryable" is a failure the queue may
\* try again, "failed" one that it may not.
Result == {"queued", "done", "cancelled", "failed", "retryable"}

\* The status under which an entry is moved to the history directory.
Outcome == {"done", "cancelled", "failed"}

\* An existing entry keeps its attempts, so a repeated enqueue does not renew
\* the retry budget.
Enqueued(e) == [status |-> "queued", attempts |-> e.attempts, due |-> TRUE]

\* Seeded fault: running entries are left alone.
NotRecovered(e) == e

\* A running entry is put back whoever runs it: an entry names no owner.
Recovered(e) == IF e.status = "running" THEN Enqueued(e) ELSE e

MarkedRunning(e, counted) ==
  [status |-> "running", attempts |-> e.attempts + (IF counted THEN 1 ELSE 0), due |-> TRUE]

\* Both a later poll and a retry put the entry back with a due time ahead.
Postponed(e) == [status |-> "queued", attempts |-> e.attempts, due |-> FALSE]

\* Seeded fault: one retry too many.
StaysPendingOnceMore(e, result) ==
  \/ result = "queued"
  \/ result = "retryable" /\ e.attempts <= MaxAttempts

StaysPending(e, result) ==
  \/ result = "queued"
  \/ result = "retryable" /\ e.attempts < MaxAttempts

ArchivedAs(result) == IF result = "retryable" THEN "failed" ELSE result

ReadyForAttempt(e) == e.status = "queued" /\ e.due
=============================================================================
