---------------------------- MODULE EomWindowLoad ----------------------------
(***************************************************************************)
(* src/src/eom-window.c, eom-image.c, eom-scroll-view.c: how the window    *)
(* follows the selection.  The main thread clears the load job of the last *)
(* selection, cancels its load, shows an image that has its pixels or asks *)
(* for a load; the render thread loads, transforms and saves.  What the    *)
(* two share is the queues, which are locked, and the fields of the image, *)
(* which but for the cancellation are not.                                 *)
(*                                                                         *)
(* A step is what one thread does between two accesses to a field of the   *)
(* other.  The queues themselves are modelled in EomJobQueue, what a load  *)
(* makes of the data in EomImage.                                          *)
(***************************************************************************)
EXTENDS Naturals, Sequences, SequencesExt

CONSTANTS Images,
          NoMetadata,  \* images without EXIF or XMP data
          Settings,    \* one is taken at the start: mayFail, images whose file may
                       \* be unreadable; operations, of AllOperations;
                       \* maxJobs, a bound: jobs at a time, transforms asked for and
                       \* not done, data references of an image that is saved
          None,        \* NULL
          MaxJobs      \* the largest of these bounds

AllOperations == {"reload", "retry", "transform", "save"}

Jobs == 1 .. MaxJobs

\* The kinds of jobs, the most urgent first (search_for_jobs_unlocked)
Kinds == <<"load", "transform", "save">>

ASSUME WindowLoadAssumption ==
  /\ NoMetadata \subseteq Images
  /\ Settings \subseteq [mayFail : SUBSET Images, operations : SUBSET AllOperations,
                         maxJobs : 0 .. MaxJobs]
  /\ None \notin Images /\ None \notin Jobs /\ MaxJobs \in Nat

VARIABLES setting,   \* of Settings
          jobs,      \* the jobs: kind, image, error
          queue,     \* the job queues
          worker,    \* render thread: where it is, its job, its locals
          answered,  \* finished jobs whose idle callback is due
          img,       \* fields of the images
          due,       \* history: transforms asked for and not applied
          selected,  \* first selected image of the thumbnail view
          current,   \* priv->image
          loadJob, transformJob,
          view,      \* the scroll view: its image and the pixels it took
          area,      \* the image whose load error is shown
          todo       \* what is left of the main thread's handler

windowVars == <<selected, current, loadJob, transformJob, view, area, todo>>
vars == <<setting, jobs, queue, worker, answered, img, due, windowVars>>

\* The pixels are not loaded, or as in the file, or transformed.
PixelStates == {"none", "raw", "ready"}

Waiting == [at |-> "idle", job |-> None, failed |-> FALSE, count |-> 0]
Blank == [image |-> None, pixels |-> "none"]

NoJob == [kind |-> "none", image |-> None, error |-> FALSE]

Init == /\ setting \in Settings
        /\ jobs = [j \in Jobs |-> NoJob] /\ answered = <<>> /\ todo = <<>>
        /\ queue = [k \in ToSet(Kinds) |-> <<>>]
        /\ worker = Waiting
        /\ img = [i \in Images |-> [status |-> "UNKNOWN", pixels |-> "none",
                                    cancel |-> FALSE, refs |-> 0]]
        /\ due = [i \in Images |-> 0]
        /\ selected = None /\ current = None /\ area = None
        /\ loadJob = None /\ transformJob = None
        /\ view = Blank

\* eom_image_free_mem_private of the image whose fields are f
Freed(f) == IF f.status = "LOADING" THEN [f EXCEPT !.cancel = TRUE]
            ELSE [f EXCEPT !.pixels = "none", !.status = "UNKNOWN"]

Up(n) == n + 1
Down(n) == IF n > 0 THEN n - 1 ELSE 0

\* The end of eom_image_data_unref
FreedIfUnused(f) == IF f.refs = 0 THEN Freed(f) ELSE f

\* eom_image_data_unref by the main thread
DataUnref(f) == FreedIfUnused([f EXCEPT !.refs = Down(@)])

\* eom_image_cancel_load
Cancelled(f) == IF f.status = "LOADING" THEN [f EXCEPT !.cancel = TRUE] ELSE f
-----------------------------------------------------------------------------
(* The render thread *)

J == jobs[worker.job]
I == J.image

At(pc) == worker.at = pc
Goto(pc) == worker' = [worker EXCEPT !.at = pc]
Runs == UNCHANGED <<setting, queue, answered, windowVars>>

\* search_for_jobs_unlocked and the call of the job's run
Pop ==
  /\ At("idle")
  /\ \E n \in DOMAIN Kinds :
       LET kind == Kinds[n]
       IN /\ queue[kind] # <<>>
          /\ \A m \in 1 .. n - 1 : queue[Kinds[m]] = <<>>
          /\ worker' = [Waiting EXCEPT !.at = IF kind = "save" THEN "ref" ELSE kind,
                                       !.job = Head(queue[kind])]
          /\ queue' = [queue EXCEPT ![kind] = Tail(@)]
  /\ UNCHANGED <<setting, jobs, answered, img, due, windowVars>>

\* Where a load returns to
After == IF J.kind = "load" THEN "end" ELSE "unref"

\* Mutant: the data at hand is not looked at.
HasNothing(i) == FALSE

\* eom_image_has_data for all data
HasAll(i) == img[i].pixels # "none" /\ i \notin NoMetadata

\* eom_image_load: all data, by a load job, or what a save job finds missing
StartLoad ==
  /\ At("load")
  /\ IF HasAll(I) \/ (J.kind = "save" /\ img[I].pixels # "none")
     THEN Goto(After) /\ UNCHANGED img
     ELSE Goto("read") /\ img' = [img EXCEPT ![I].status = "LOADING"]
  /\ Runs /\ UNCHANGED <<jobs, due>>

\* The loop of eom_image_real_load, which aborts if there are pixels, until
\* the file ends, fails or the load is cancelled; or an early return because
\* the file is not there.
Read ==
  /\ At("read") /\ img[I].pixels = "none"
  /\ \/ worker' = [worker EXCEPT !.at = "settle", !.failed = img[I].cancel]
     \/ /\ I \in setting.mayFail
        /\ worker' \in {[worker EXCEPT !.at = pc, !.failed = TRUE] :
                          pc \in {"settle", "apply"}}
  /\ Runs /\ UNCHANGED <<jobs, img, due>>

\* What eom_image_real_load makes of it
NotLoaded(f) ==
  [f EXCEPT !.status = IF f.cancel THEN "UNKNOWN" ELSE "FAILED", !.cancel = FALSE]

Settle ==
  /\ At("settle") /\ Goto("apply")
  /\ img' = [img EXCEPT ![I] = IF worker.failed THEN NotLoaded(@)
                                               ELSE [@ EXCEPT !.pixels = "raw"]]
  /\ Runs /\ UNCHANGED <<jobs, due>>

\* eom_image_load: autorotation and transforms, then the status
ApplyTransformations ==
  /\ At("apply") /\ Goto(After)
  /\ img' = [img EXCEPT ![I] =
               IF worker.failed THEN [@ EXCEPT !.status = "FAILED"]
               ELSE [@ EXCEPT !.status = "LOADED", !.pixels = "ready"]]
  /\ jobs' = [jobs EXCEPT ![worker.job].error = worker.failed]
  /\ Runs /\ UNCHANGED due

\* eom_image_real_transform: the pixels are looked at, then replaced.
StartTransform ==
  /\ At("transform")
  /\ worker' = [worker EXCEPT !.at = "transformed", !.failed = img[I].pixels = "none"]
  /\ Runs /\ UNCHANGED <<jobs, img, due>>

Transformed ==
  /\ At("transformed") /\ Goto("end")
  /\ img' = IF worker.failed THEN img ELSE [img EXCEPT ![I].pixels = "ready"]
  /\ due' = [due EXCEPT ![I] = @ - 1]
  /\ Runs /\ UNCHANGED jobs

\* A save job's data reference.  The count is read and written without a
\* lock: of two updates at a time one may be lost.
ReadCount ==
  /\ worker.at \in {"ref", "unref"}
  /\ worker' = [worker EXCEPT !.at = IF @ = "ref" THEN "refd" ELSE "unrefd",
                              !.count = img[I].refs]
  /\ Runs /\ UNCHANGED <<jobs, img, due>>

Outcomes(F(_)) ==
  IF img[I].refs = worker.count THEN {F(worker.count)}
  ELSE {F(worker.count), img[I].refs, F(img[I].refs)}

\* eom_image_data_ref and eom_image_data_unref by eom_job_save_run
WriteCount ==
  /\ \/ /\ At("refd") /\ worker' = [worker EXCEPT !.at = "load", !.count = 0]
        /\ \E n \in Outcomes(Up) : img' = [img EXCEPT ![I].refs = n]
     \/ /\ At("unrefd") /\ Goto("end")
        /\ \E n \in Outcomes(Down) :
             img' = [img EXCEPT ![I] = FreedIfUnused([@ EXCEPT !.refs = n])]
  /\ Runs /\ UNCHANGED <<jobs, due>>

\* Mutants: the job is still running when it is answered; a load that failed
\* is not answered.
EndKeepJob ==
  /\ At("end") /\ Goto("idle")
  /\ answered' = Append(answered, worker.job)
  /\ UNCHANGED <<setting, jobs, queue, img, due, windowVars>>

EndIfLoaded ==
  /\ At("end") /\ worker' = Waiting
  /\ answered' = IF J.error THEN answered ELSE Append(answered, worker.job)
  /\ UNCHANGED <<setting, jobs, queue, img, due, windowVars>>

\* notify_finished is queued as an idle callback.
End ==
  /\ At("end") /\ worker' = Waiting
  /\ answered' = Append(answered, worker.job)
  /\ UNCHANGED <<setting, jobs, queue, img, due, windowVars>>

WorkerNext == \/ Pop \/ StartLoad \/ Read \/ Settle \/ ApplyTransformations
              \/ StartTransform \/ Transformed
              \/ ReadCount \/ WriteCount \/ End
-----------------------------------------------------------------------------
(* The main thread *)

MainIdle == todo = <<>>
Main == UNCHANGED <<setting, worker>>

\* The jobs somebody still has; there is room for another one.
Queued == UNION {ToSet(queue[k]) : k \in ToSet(Kinds)}
Live == Queued \cup ToSet(answered) \cup {worker.job, loadJob, transformJob}
Room == \E j \in Jobs \ Live : j <= setting.maxJobs
NewJob == CHOOSE j \in Jobs : j \notin Live


\* g_object_unref of a job that may have other holders
Unref(table, j, holders) ==
  IF j \in holders \cup {None} THEN table ELSE [table EXCEPT ![j] = NoJob]

Made(table, kind, i) == [table EXCEPT ![NewJob] = [kind |-> kind, image |-> i, error |-> FALSE]]
Added(q, kind) == [q EXCEPT ![kind] = Append(@, NewJob)]

\* eom_job_queue_remove_job, for a job that may be gone from its queue
Removed(j) ==
  IF j \notin Queued THEN queue
  ELSE [queue EXCEPT ![jobs[j].kind] = RemoveAt(@, CHOOSE n \in DOMAIN @ : @[n] = j)]

\* handle_image_selection_changed_cb, called for every change of the
\* selection, one to the same image among them: eom_window_clear_load_job
\* takes the job from the queue, the rest is to be done.
SelectionChanged(i, rest) ==
  /\ selected' = i
  /\ queue' = Removed(loadJob)
  /\ todo' = <<"cancel", rest>>

Select ==
  /\ MainIdle /\ Room
  /\ \E i \in Images : SelectionChanged(i, "choose")
  /\ Main /\ UNCHANGED <<jobs, answered, img, due, current, loadJob, transformJob, view, area>>

\* The other half of eom_window_clear_load_job
ClearLoadJob ==
  /\ todo # <<>> /\ Head(todo) = "cancel"
  /\ img' = IF loadJob = None THEN img
            ELSE [img EXCEPT ![jobs[loadJob].image] = Cancelled(@)]
  /\ jobs' = Unref(jobs, loadJob, ToSet(answered) \cup {worker.job})
  /\ loadJob' = None
  /\ todo' = Tail(todo)
  /\ Main /\ UNCHANGED <<queue, answered, due, selected, current, transformJob, view, area>>

\* The rest of the handler: the image is current, or has pixels, or is to be
\* loaded.
Choose ==
  /\ todo # <<>> /\ Head(todo) \in {"choose", "retry"}
  /\ area' = None
  /\ \/ /\ selected = current /\ todo' = Tail(todo)
        /\ UNCHANGED <<jobs, queue, current, loadJob>>
     \/ /\ selected # current /\ img[selected].pixels # "none"
        /\ current' = selected /\ todo' = <<"display">> \o Tail(todo)
        /\ UNCHANGED <<jobs, queue, loadJob>>
     \/ /\ selected # current /\ img[selected].pixels = "none"
        /\ jobs' = Made(jobs, "load", selected)
        /\ queue' = Added(queue, "load")
        /\ loadJob' = NewJob
        /\ todo' = Tail(todo) /\ UNCHANGED current
  /\ Main /\ UNCHANGED <<answered, img, due, selected, transformJob, view>>

\* Mutant: the old image keeps its data reference.
SetImageKeepRef(i) ==
  /\ view' = IF i = None THEN Blank ELSE [image |-> i, pixels |-> img[i].pixels]
  /\ img' = IF i = None THEN img ELSE [img EXCEPT ![i].refs = @ + 1]

\* eom_scroll_view_set_image
SetImage(i) ==
  LET dropped == IF view.image = None THEN img
                 ELSE [img EXCEPT ![view.image] = DataUnref(@)]
  IN IF view.image = i THEN UNCHANGED <<view, img>>
     ELSE /\ view' = IF i = None THEN Blank
                     ELSE [image |-> i, pixels |-> dropped[i].pixels]
          /\ img' = IF i = None THEN dropped ELSE [dropped EXCEPT ![i].refs = @ + 1]

\* eom_window_display_image, which aborts if there are no pixels
Display ==
  /\ todo # <<>> /\ Head(todo) = "display"
  /\ img[current].pixels # "none"
  /\ SetImage(current)
  /\ todo' = Tail(todo)
  /\ Main /\ UNCHANGED <<jobs, queue, answered, due, selected, current, loadJob, transformJob, area>>

\* Mutant: a cleared load job is still connected.
LoadJobs == {j \in Jobs : jobs[j].kind = "load"}

\* The load jobs whose finished signal has a handler
Connected == {loadJob}

\* Mutant: the error is not looked at.
LoadFinishedAnyway(j) ==
  /\ j \in Connected
  /\ current' = jobs[j].image
  /\ todo' = <<"display", "cancel">>
  /\ UNCHANGED <<transformJob, view, img, area>>

\* eom_job_load_cb, up to the clearing of the job
LoadFinished(j) ==
  /\ j \in Connected
  /\ current' = jobs[j].image
  /\ IF jobs[j].error
     THEN SetImage(None) /\ area' = jobs[j].image /\ todo' = <<"cancel">>
     ELSE todo' = <<"display", "cancel">> /\ UNCHANGED <<view, img, area>>
  /\ UNCHANGED transformJob

\* eom_job_transform_cb
TransformFinished(j) ==
  /\ j = transformJob /\ transformJob' = None
  /\ UNCHANGED <<current, view, img, area, todo>>

\* The callback of a job that was cleared, or of a save job; the view takes
\* the new pixels of a transformed image (image_changed_cb).
OtherFinished(j) ==
  /\ j \notin Connected \cup {transformJob}
  /\ UNCHANGED <<current, transformJob, view, img, area, todo>>

Deliver ==
  /\ MainIdle /\ answered # <<>> /\ answered' = Tail(answered)
  /\ LET j == Head(answered)
     IN /\ LoadFinished(j) \/ TransformFinished(j) \/ OtherFinished(j)
        /\ jobs' = Unref(jobs, j, {loadJob})
  /\ Main /\ UNCHANGED <<queue, due, selected, loadJob>>

\* The Retry button of the error area
Retry ==
  /\ MainIdle /\ Room /\ "retry" \in setting.operations
  /\ area # None /\ selected # None
  /\ SelectionChanged(selected, "retry")
  /\ Main /\ UNCHANGED <<jobs, answered, img, due, current, loadJob, transformJob, view, area>>

\* eom_window_reload_image: somebody wrote the file, or the plugin asks
Reload ==
  /\ MainIdle /\ Room /\ "reload" \in setting.operations
  /\ current # None /\ selected # None
  /\ current' = None /\ SetImage(None)
  /\ SelectionChanged(selected, "choose")
  /\ Main /\ UNCHANGED <<jobs, answered, due, loadJob, transformJob, area>>

\* apply_transformation to the selected image
Transform ==
  /\ MainIdle /\ Room /\ "transform" \in setting.operations
  /\ selected # None /\ due[selected] < setting.maxJobs
  /\ jobs' = Made(Unref(jobs, transformJob, ToSet(answered) \cup {worker.job}),
                  "transform", selected)
  /\ queue' = Added(Removed(transformJob), "transform")
  /\ transformJob' = NewJob
  /\ due' = [due EXCEPT ![selected] = @ + 1]
  /\ Main /\ UNCHANGED <<answered, img, selected, current, loadJob, view, area, todo>>

\* eom_window_cmd_save; the window waits for one save job at a time.
Save ==
  /\ MainIdle /\ Room /\ "save" \in setting.operations
  /\ selected # None /\ img[selected].refs < setting.maxJobs
  /\ \A j \in Live \ {None} : jobs[j].kind # "save"
  /\ jobs' = Made(jobs, "save", selected)
  /\ queue' = Added(queue, "save")
  /\ Main /\ UNCHANGED <<answered, img, due, windowVars>>

MainNext == \/ Select \/ ClearLoadJob \/ Choose \/ Display \/ Deliver
            \/ Retry \/ Reload \/ Transform \/ Save

Next == WorkerNext \/ MainNext

\* The render thread runs; the main loop ends its handlers and dispatches its
\* idle callbacks.
Fairness == /\ WF_vars(WorkerNext)
            /\ WF_vars(ClearLoadJob) /\ WF_vars(Choose) /\ WF_vars(Display)
            /\ WF_vars(Deliver)

Spec == Init /\ [][Next]_vars
FairSpec == Spec /\ Fairness
-----------------------------------------------------------------------------
(* Properties *)

(* Fields have their types; a job is queued, running or answered, once.    *)
TypeOK ==
  /\ setting \in Settings
  /\ jobs \in [Jobs -> {NoJob} \cup [kind : ToSet(Kinds), image : Images, error : BOOLEAN]]
  /\ \A k \in ToSet(Kinds) : ToSet(queue[k]) \subseteq {j \in Jobs : jobs[j].kind = k}
  /\ worker.job \in Jobs \cup {None}
  /\ ToSet(answered) \subseteq Jobs \ (Queued \cup {worker.job})
  /\ img \in [Images -> [status : {"UNKNOWN", "LOADING", "LOADED", "FAILED"},
                         pixels : PixelStates, cancel : BOOLEAN, refs : Nat]]
  /\ due \in [Images -> Nat]
  /\ {selected, current, area, view.image} \subseteq Images \cup {None}
  /\ {loadJob, transformJob} \subseteq Jobs \cup {None}

(* Once nothing is to be done or awaited the window stands where the       *)
(* selection is: it shows that image or its error or nothing, never        *)
(* another one, however loads were cancelled, answered late or failed.     *)
SettledOnSelection ==
  (MainIdle /\ loadJob = None /\ selected # None) =>
    /\ current = selected
    /\ view.image \in {selected, None}
    /\ area \in {selected, None}
    /\ area # None => view.image = None

(* The help (index.docbook:361): the display area shows the image.  An     *)
(* image that can be read is shown once nothing is awaited.                *)
SelectedIsShown ==
  (MainIdle /\ loadJob = None /\ selected \in Images \ setting.mayFail)
    => view.image = selected

(* The scroll view alone holds data references, one of the image it shows, *)
(* and the pixels of that image are in memory.                             *)
ViewHoldsPixels ==
  MainIdle => \A i \in Images :
    /\ img[i].refs = IF view.image = i THEN 1 ELSE 0
    /\ view.image = i => img[i].pixels # "none"

(* The assertion at eom-image.c:903: a load of the pixels starts only      *)
(* when there are none.                                                    *)
AssertNoPixels == At("read") => img[I].pixels = "none"

(* The assertion at eom-window.c:891: what is displayed has pixels.        *)
AssertHasPixels ==
  (todo # <<>> /\ Head(todo) = "display") => img[current].pixels # "none"

(* While nothing is saved: a save job has a data reference of its own,     *)
(* which the view's updates may get lost with, and which may free what the *)
(* window is about to display (eom_job_save_run).                          *)
ViewAloneHoldsPixels == "save" \notin setting.operations => ViewHoldsPixels
DisplayedHasPixels == "save" \notin setting.operations => AssertHasPixels

(* A load the window waits for ends: it is answered, or cleared for        *)
(* another selection (eom_job_load_cb, eom_window_clear_load_job).         *)
FollowedLoadAnswered ==
  \A j \in Jobs : ("save" \notin setting.operations /\ loadJob = j) ~> (loadJob # j)

(* The help (index.docbook:741): images are rotated on loading.  The view  *)
(* never takes the pixels before the transforms were applied.              *)
ShownReady == view.pixels # "raw"

(* The comment at eom-window.c:1298: the Retry button triggers loading of  *)
(* the current image again.                                                *)
RetryLoads ==
  [][(todo # <<>> /\ Head(todo) = "retry" /\ todo' = <<>>) => loadJob' # None]_vars

(* The help (index.docbook:496): manipulations apply to all selected       *)
(* images.  When the render thread has no transform left to do, all that   *)
(* was asked for is done.                                                  *)
TransformsApplied ==
  (queue["transform"] = <<>> /\ worker.at \notin {"transform", "transformed"})
    => \A i \in Images : due[i] = 0
=============================================================================
