---------------------------- MODULE QueuePromise ----------------------------
(***************************************************************************)
(* What the Studio queue promises its users, whatever its workers, files   *)
(* and processes do: a job is given to ComfyUI only in answer to a demand  *)
(* of a user, it ends with an outcome, "done" only if it was given to      *)
(* ComfyUI at all, and from then on it is neither given to ComfyUI nor     *)
(* changes its outcome until a user demands it anew.                       *)
(***************************************************************************)
EXTENDS Naturals, Sequences

CONSTANTS
  Job,
  Ending             \* the outcomes of a job, among them "done" and "blocked"

VARIABLES
  demands,           \* how often a run of the job was demanded
  given,             \* the demands for which ComfyUI was given the job
  life               \* "open", or the outcome the job ended with

promise == <<demands, given, life>>

Init ==
  /\ demands = [j \in Job |-> 0]
  /\ given = [j \in Job |-> <<>>]
  /\ life = [j \in Job |-> "open"]

\* A job whose plan is not ready is blocked on creation.
Demand(j) ==
  /\ demands' = [demands EXCEPT ![j] = @ + 1]
  /\ \E l \in {"open", "blocked"} : life' = [life EXCEPT ![j] = l]
  /\ UNCHANGED given

Give(j) ==
  /\ life[j] = "open"
  /\ \E d \in 1..demands[j] : given' = [given EXCEPT ![j] = Append(@, d)]
  /\ UNCHANGED <<demands, life>>

\* A crash may end several jobs at once.
Conclude ==
  /\ life' \in [Job -> {"open"} \cup Ending]
  /\ \A j \in Job : life'[j] # life[j] =>
       /\ life[j] = "open"
       /\ life'[j] = "done" => given[j] # <<>>
  /\ UNCHANGED <<demands, given>>

Next == Conclude \/ \E j \in Job : Demand(j) \/ Give(j)

Spec == Init /\ [][Next]_promise
=============================================================================
