---------------------------- MODULE JobLifecycle ----------------------------
(***************************************************************************)
(* What the job queue of eom (src/src/eom-job-queue.c) promises to the     *)
(* code that creates jobs, with no queue, lock, thread or reference count: *)
(* a submitted job is run by one worker, at most once, never while a job   *)
(* of a more urgent class is waiting, and its creator is told on the main  *)
(* loop once it has run; a job that is withdrawn in time never runs.       *)
(***************************************************************************)
EXTENDS Naturals

CONSTANTS Jobs,     \* job objects (EomJob instances; a freed one is reused)
          Urgency   \* [Jobs -> Nat], smaller runs first

VARIABLE phase

Phases == {"none", "queued", "running", "ran", "settled"}

Init == phase = [j \in Jobs |-> "none"]

Move(j, from, to) == phase[j] \in from /\ phase' = [phase EXCEPT ![j] = to]

Submit(j) == Move(j, {"none"}, "queued")

\* One worker, which takes the most urgent job.
Start(j) == /\ \A k \in Jobs : phase[k] # "running"
            /\ \A k \in Jobs : phase[k] = "queued" => Urgency[j] <= Urgency[k]
            /\ Move(j, {"queued"}, "running")

Complete(j) == Move(j, {"running"}, "ran")

\* The creator of the job hears of it once, or nobody does any more.
Report(j) == \E to \in {"settled", "none"} : Move(j, {"ran"}, to)

Withdraw(j) == \E to \in {"settled", "none"} : Move(j, {"queued"}, to)

Free(j) == Move(j, {"settled"}, "none")

Next == \E j \in Jobs : \/ Submit(j) \/ Start(j) \/ Complete(j)
                        \/ Report(j) \/ Withdraw(j) \/ Free(j)

Spec == Init /\ [][Next]_phase
=============================================================================
