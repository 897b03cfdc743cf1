---------------------------- MODULE EomJobQueue -----------------------------
(***************************************************************************)
(* src/src/eom-job-queue.c with the parts of eom-jobs.c it calls: the six  *)
(* queues behind eom_queue_mutex, the render thread that waits on          *)
(* render_cond, the idle callbacks by which the worker hands the           *)
(* "progress" and "finished" signals to the main loop, and the reference   *)
(* counts that decide when a job object is freed.                          *)
(*                                                                         *)
(* The main thread is the creator of the jobs: it adds them, may clear     *)
(* them again (eom-window.c, eom-list-store.c) and dispatches the idle     *)
(* callbacks.  A critical section of eom_queue_mutex is one step.  A freed *)
(* job object may be reused, so the model has no last job.                 *)
(***************************************************************************)
EXTENDS Naturals, Sequences, SequencesExt

CONSTANTS Jobs,        \* job objects
          ClassOf,     \* [Jobs -> Classes], the GType of the job
          NoJob,       \* NULL
          MaxIdles     \* bound: pending idle callbacks

Classes == {"load", "transform", "thumbnail", "model", "save", "copy"}

ASSUME JobsAssumption == /\ NoJob \notin Jobs
                         /\ ClassOf \in [Jobs -> Classes]
                         /\ MaxIdles \in Nat \ {0}

\* The order in which search_for_jobs_unlocked looks at the queues.
Rank == [c \in Classes |-> CASE c = "load" -> 1 [] c = "transform" -> 2
                             [] c = "thumbnail" -> 3 [] c = "model" -> 4
                             [] c = "save" -> 5 [] c = "copy" -> 6]

VARIABLES
  queue,      \* [Classes -> Seq(Jobs)]
  worker,     \* where the render thread is
  cur,        \* its local variable job
  mainpc,     \* where the main thread is in eom_window_clear_*_job
  clearing,   \* the job it is clearing
  refs,       \* reference count of each object, 0 when it is freed
  held,       \* jobs whose creator keeps its reference
  finished,   \* job->finished
  idles       \* idle callbacks of one priority: a FIFO of the main loop

mainVars   == <<mainpc, clearing, held>>
workerVars == <<worker, cur>>
vars == <<queue, worker, cur, mainpc, clearing, refs, held, finished, idles>>

Idle(kind, j) == [kind |-> kind, job |-> j]
IdleKinds == {"progress", "finished"}
WorkerPlaces == {"top", "waiting", "awake", "popped", "running", "ran", "posted"}

Queued(j) == Contains(queue[ClassOf[j]], j)
FinishedPending(j) == Contains(idles, Idle("finished", j))

\* Mutant: the test forgets one queue.
NoJobsButThumbnails == \A c \in Classes \ {"thumbnail"} : queue[c] = <<>>

\* no_jobs_available_unlocked
NoJobsAvailable == \A c \in Classes : queue[c] = <<>>

Init == /\ queue = [c \in Classes |-> <<>>]
        /\ worker = "top" /\ cur = NoJob
        /\ mainpc = "loop" /\ clearing = NoJob
        /\ refs = [j \in Jobs |-> 0]
        /\ held = {}
        /\ finished = [j \in Jobs |-> FALSE]
        /\ idles = <<>>
-----------------------------------------------------------------------------
(* The render thread *)

\* Mutant: the queues are searched in any order.
TakeAnyJob == \E c \in Classes :
  /\ queue[c] # <<>>
  /\ cur' = Head(queue[c])
  /\ queue' = [queue EXCEPT ![c] = Tail(@)]
  /\ worker' = "popped"

\* search_for_jobs_unlocked: the head of the first queue that is not empty;
\* the queue's reference goes to the thread.
TakeJob == \E c \in Classes :
  /\ queue[c] # <<>>
  /\ \A d \in Classes : Rank[d] < Rank[c] => queue[d] = <<>>
  /\ cur' = Head(queue[c])
  /\ queue' = [queue EXCEPT ![c] = Tail(@)]
  /\ worker' = "popped"

\* The head of the loop: take a job, or wait for one.
LockQueues ==
  /\ worker = "top"
  /\ \/ NoJobsAvailable /\ worker' = "waiting" /\ UNCHANGED <<queue, cur>>
     \/ TakeJob
  /\ UNCHANGED <<mainVars, refs, finished, idles>>

\* g_cond_wait may return with nobody having signalled.
SpuriousWakeup ==
  /\ worker = "waiting" /\ worker' = "awake"
  /\ UNCHANGED <<queue, cur, mainVars, refs, finished, idles>>

\* g_cond_wait has the mutex again: the wait is an if, not a loop, so the
\* search may find nothing and the thread goes round once more.
SearchAwake ==
  /\ worker = "awake"
  /\ \/ NoJobsAvailable /\ worker' = "top" /\ UNCHANGED <<queue, cur>>
     \/ TakeJob
  /\ UNCHANGED <<mainVars, refs, finished, idles>>

\* Mutant: handle_job relies on the reference of the queue.
RefJobNoRef ==
  /\ worker = "popped" /\ worker' = "running"
  /\ UNCHANGED <<queue, cur, mainVars, refs, finished, idles>>

\* handle_job takes a reference of its own, which the idle source will own.
RefJob ==
  /\ worker = "popped" /\ worker' = "running"
  /\ refs' = [refs EXCEPT ![cur] = @ + 1]
  /\ UNCHANGED <<queue, cur, mainVars, finished, idles>>

\* Mutant: progress is still reported after the finished callback is posted.
SetProgressLate ==
  /\ worker \in {"running", "posted"}
  /\ Len(idles) < MaxIdles
  /\ idles' = Append(idles, Idle("progress", cur))
  /\ UNCHANGED <<queue, workerVars, mainVars, refs, finished>>

\* eom_job_set_progress, called by the running job: an idle callback with
\* the bare pointer, no reference taken.
SetProgress ==
  /\ worker = "running"
  /\ Len(idles) < MaxIdles
  /\ idles' = Append(idles, Idle("progress", cur))
  /\ UNCHANGED <<queue, workerVars, mainVars, refs, finished>>

\* The end of eom_job_*_run.
FinishRun ==
  /\ worker = "running" /\ worker' = "ran"
  /\ finished' = [finished EXCEPT ![cur] = TRUE]
  /\ UNCHANGED <<queue, cur, mainVars, refs, idles>>

\* Mutant: nothing is reported of a job that its creator has let go.
PostFinishedIfHeld ==
  /\ worker = "ran" /\ worker' = "posted"
  /\ idles' = IF cur \in held THEN Append(idles, Idle("finished", cur)) ELSE idles
  /\ UNCHANGED <<queue, cur, mainVars, refs, finished>>

\* g_idle_add_full (notify_finished, job, g_object_unref)
PostFinished ==
  /\ worker = "ran" /\ worker' = "posted"
  /\ idles' = Append(idles, Idle("finished", cur))
  /\ UNCHANGED <<queue, cur, mainVars, refs, finished>>

\* Mutant: the idle source's reference is dropped here too.
UnrefJobTwice ==
  /\ worker = "posted" /\ worker' = "top"
  /\ refs' = [refs EXCEPT ![cur] = @ - 2]
  /\ cur' = NoJob
  /\ UNCHANGED <<queue, mainVars, finished, idles>>

\* eom_render_thread drops the reference the queue had.
UnrefJob ==
  /\ worker = "posted" /\ worker' = "top"
  /\ refs' = [refs EXCEPT ![cur] = @ - 1]
  /\ cur' = NoJob
  /\ UNCHANGED <<queue, mainVars, finished, idles>>
-----------------------------------------------------------------------------
(* The main thread *)

\* Mutant: a job is added without a broadcast.
NoWake == UNCHANGED worker

\* add_job_to_queue_locked broadcasts the condition.
Wake == worker' = IF worker = "waiting" THEN "awake" ELSE worker

\* eom_job_*_new and eom_job_queue_add_job in one callback of the creator.
AddJob(j) ==
  /\ mainpc = "loop"
  /\ refs[j] = 0
  /\ refs' = [refs EXCEPT ![j] = 2]
  /\ finished' = [finished EXCEPT ![j] = FALSE]
  /\ held' = held \cup {j}
  /\ queue' = [queue EXCEPT ![ClassOf[j]] = Append(@, j)]
  /\ Wake
  /\ UNCHANGED <<cur, mainpc, clearing, idles>>

\* The creator drops its reference: at once (thumbnail jobs), or when the
\* finished callback has run.
ReleaseJob(j) ==
  /\ mainpc = "loop"
  /\ j \in held
  /\ held' = held \ {j}
  /\ refs' = [refs EXCEPT ![j] = @ - 1]
  /\ UNCHANGED <<queue, workerVars, mainpc, clearing, finished, idles>>

\* Mutant: the link is deleted, the reference of the queue is not dropped.
RemoveJobNoUnref(j) ==
  LET c == ClassOf[j] IN
  IF Queued(j)
  THEN \E i \in DOMAIN queue[c] :
         /\ queue[c][i] = j
         /\ queue' = [queue EXCEPT ![c] = RemoveAt(@, i)]
         /\ UNCHANGED refs
  ELSE UNCHANGED <<queue, refs>>

\* eom_job_queue_remove_job: g_queue_find, unref, g_queue_delete_link.
RemoveJob(j) ==
  LET c == ClassOf[j] IN
  IF Queued(j)
  THEN \E i \in DOMAIN queue[c] :
         /\ queue[c][i] = j
         /\ \A k \in 1 .. i - 1 : queue[c][k] # j
         /\ queue' = [queue EXCEPT ![c] = RemoveAt(@, i)]
         /\ refs' = [refs EXCEPT ![j] = @ - 1]
  ELSE UNCHANGED <<queue, refs>>

\* eom_list_store_remove_thumbnail_job: the row has only the bare pointer, and
\* has it until eom_job_thumbnail_cb clears it.
RemoveThumbnailJob(j) ==
  /\ mainpc = "loop"
  /\ ClassOf[j] = "thumbnail" /\ j \notin held
  /\ Queued(j) \/ (cur = j /\ worker # "posted") \/ FinishedPending(j)
  /\ RemoveJob(j)
  /\ UNCHANGED <<workerVars, mainVars, finished, idles>>

\* eom_window_clear_load_job and eom_window_clear_transform_job: the flag is
\* read with no lock, before the queue is locked.
ClearJob(j) ==
  /\ mainpc = "loop"
  /\ j \in held /\ ClassOf[j] \in {"load", "transform"}
  /\ mainpc' = IF finished[j] THEN "unref" ELSE "remove"
  /\ clearing' = j
  /\ UNCHANGED <<queue, workerVars, refs, held, finished, idles>>

ClearRemove ==
  /\ mainpc = "remove" /\ mainpc' = "unref"
  /\ RemoveJob(clearing)
  /\ UNCHANGED <<workerVars, clearing, held, finished, idles>>

ClearUnref ==
  /\ mainpc = "unref" /\ mainpc' = "loop"
  /\ refs' = [refs EXCEPT ![clearing] = @ - 1]
  /\ held' = held \ {clearing}
  /\ clearing' = NoJob
  /\ UNCHANGED <<queue, workerVars, finished, idles>>

\* The main loop runs the oldest idle callback: notify_progress emits and
\* returns; notify_finished emits and its source then drops its reference.
DispatchIdle ==
  /\ mainpc = "loop"
  /\ idles # <<>>
  /\ idles' = Tail(idles)
  /\ refs' = IF Head(idles).kind = "finished"
             THEN [refs EXCEPT ![Head(idles).job] = @ - 1] ELSE refs
  /\ UNCHANGED <<queue, workerVars, mainVars, finished>>
-----------------------------------------------------------------------------
WorkerNext == LockQueues \/ SpuriousWakeup \/ SearchAwake \/ RefJob
              \/ SetProgress \/ FinishRun \/ PostFinished \/ UnrefJob

ClientNext == \E j \in Jobs : AddJob(j) \/ ReleaseJob(j)
                              \/ RemoveThumbnailJob(j) \/ ClearJob(j)

MainNext == ClearRemove \/ ClearUnref \/ DispatchIdle

Next == WorkerNext \/ ClientNext \/ MainNext

Spec == Init /\ [][Next]_vars

\* The threads are scheduled and a run of a job ends; nobody has to submit,
\* clear or release a job, and a spurious wakeup may never come.  The main loop
\* gets to its idle callbacks again and again between the events it handles.
Fairness == /\ WF_vars(LockQueues) /\ WF_vars(SearchAwake) /\ WF_vars(RefJob)
            /\ WF_vars(FinishRun) /\ WF_vars(PostFinished) /\ WF_vars(UnrefJob)
            /\ WF_vars(ClearRemove) /\ WF_vars(ClearUnref)
            /\ SF_vars(DispatchIdle)

FairSpec == Spec /\ Fairness
-----------------------------------------------------------------------------
(* Properties *)

TypeOK == /\ queue \in [Classes -> Seq(Jobs)]
          /\ worker \in WorkerPlaces
          /\ cur \in Jobs \cup {NoJob}
          /\ mainpc \in {"loop", "remove", "unref"}
          /\ clearing \in Jobs \cup {NoJob}
          /\ refs \in [Jobs -> Nat]
          /\ held \in SUBSET Jobs
          /\ finished \in [Jobs -> BOOLEAN]
          /\ idles \in Seq([kind : IdleKinds, job : Jobs])

\* No idle callback the main loop will run has the pointer of a freed job.  A
\* progress callback takes no reference: it is safe only because the
\* callbacks are run in order and the last one of a job holds one.
NoCallbackOnFreedJob == \A i \in DOMAIN idles : refs[idles[i].job] > 0

\* Neither thread is about to touch a job that is freed, and no queue keeps one.
NoUseAfterFree == /\ cur # NoJob => refs[cur] > 0
                  /\ clearing # NoJob => refs[clearing] > 0
                  /\ \A j \in Jobs : Queued(j) => refs[j] > 0

One(b) == IF b THEN 1 ELSE 0

WorkerRefs(j) == IF cur # j THEN 0
                 ELSE IF worker \in {"running", "ran"} THEN 2 ELSE 1

\* Each reference is one that somebody will drop: none is leaked, none is
\* dropped twice, whichever way the job is cleared while it is taken or run.
RefsExact == \A j \in Jobs :
  refs[j] = One(j \in held) + One(Queued(j)) + WorkerRefs(j) + One(FinishedPending(j))

\* The thread never sleeps while a job waits: no wakeup is lost.
NoLostWakeup == worker = "waiting" => NoJobsAvailable

\* A creator hears "finished" after every "progress" of the run, never before.
FinishedIsLast == \A i, k \in DOMAIN idles :
  i < k /\ idles[i].kind = "finished" => idles[k].job # idles[i].job

\* What makes the references exact inductive: the queue a job is in is the one
\* of its class, no queue and no idle FIFO has it twice, and the stages of its
\* life exclude each other.
QueuedOnce == \A c \in Classes :
  /\ IsInjective(queue[c])
  /\ \A j \in Jobs : Contains(queue[c], j) => ClassOf[j] = c

FinishedOnce == \A i, k \in DOMAIN idles :
  idles[i].kind = "finished" /\ idles[k] = idles[i] => k = i

Stages ==
  /\ \A j \in Jobs : Queued(j) => cur # j /\ ~FinishedPending(j)
  /\ worker \in {"popped", "running", "ran"} => ~FinishedPending(cur)
  /\ (cur = NoJob) <=> (worker \in {"top", "waiting", "awake"})
  /\ IF mainpc = "loop" THEN clearing = NoJob ELSE clearing \in held

\* A progress callback is followed by the finished one of its job, unless the
\* worker has yet to post that one.
ProgressCovered == \A i \in DOMAIN idles : idles[i].kind = "progress" =>
  \/ cur = idles[i].job /\ worker \in {"running", "ran"}
  \/ \E k \in DOMAIN idles : k > i /\ idles[k] = Idle("finished", idles[i].job)

IInv == TypeOK /\ RefsExact /\ QueuedOnce /\ FinishedOnce /\ Stages /\ ProgressCovered

\* The implementation of JobLifecycle.
PhaseOf(j) == IF Queued(j) THEN "queued"
              ELSE IF cur = j /\ worker \in {"popped", "running"} THEN "running"
              ELSE IF (cur = j /\ worker = "ran") \/ FinishedPending(j) THEN "ran"
              ELSE IF refs[j] > 0 THEN "settled" ELSE "none"

Lifecycle == INSTANCE JobLifecycle
               WITH Urgency <- [j \in Jobs |-> Rank[ClassOf[j]]],
                    phase <- [j \in Jobs |-> PhaseOf(j)]
ImplementsLifecycle == Lifecycle!Spec

\* A job of another class waits forever only if more urgent ones keep coming.
OutrankedBy(k, j) == Queued(k) /\ Rank[ClassOf[k]] < Rank[ClassOf[j]]
StarvedOnlyByUrgent == \A j \in Jobs :
  <>[]Queued(j) => []<>(\E k \in Jobs : OutrankedBy(k, j))

\* A job that was run is reported, even if its creator cleared it meanwhile.
RunIsReported == \A j \in Jobs :
  /\ (cur = j /\ worker = "popped") ~> FinishedPending(j)
  /\ FinishedPending(j) ~> ~FinishedPending(j)
=============================================================================
