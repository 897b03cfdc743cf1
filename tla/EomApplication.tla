---------------------------- MODULE EomApplication ----------------------------
(***************************************************************************)
(* src/src/eom-application.c: which window a request to open files gets,   *)
(* and what a window does from there to the moment it is shown - the model *)
(* job of eom-jobs.c, eom_job_model_cb and the first load of eom-window.c. *)
(*                                                                         *)
(* All files are of one directory: a request for one file opens all of it. *)
(* Two cases are left out: a window that is closed while its model job is  *)
(* pending, which would call back with a window that is gone, and another  *)
(* image that is selected while one is loaded (EomWindowLoad has it).      *)
(***************************************************************************)
EXTENDS Integers, Sequences, SequencesExt

CONSTANTS Files,        \* the files, numbers in the order of the list store
          Svg,          \* those that librsvg renders
          Autorotate,   \* EOM_CONF_VIEW_AUTOROTATE
          Windows,      \* bound: the windows there can be
          MaxRequests   \* bound: how many requests to open files there are

VARIABLES disk,         \* the files that exist
          windows,      \* EomWindowPrivate of each window
          queue,        \* the jobs of the render thread, in order
          idles,        \* the idle callbacks of the main loop, in order
          requests      \* how many requests there were

applicationVars == <<disk, windows, queue, idles, requests>>

None == 0
NoWindow == [state |-> "none", heard |-> FALSE, init |-> FALSE, store |-> {}, image |-> None]

\* eom_window_is_empty: without a store, or with one that has no images.
IsEmpty(w) == windows[w].state \in {"hidden", "shown"} /\ windows[w].store = {}

\* eom_application_get_empty_window; which of several comes first depends on their use.
EmptyWindows == {w \in Windows : IsEmpty(w)}

\* eom_application_get_file_window
FileWindows(file) ==
  {w \in Windows : windows[w].store # {} /\ windows[w].image = file}

NewWindows == {w \in Windows : windows[w].state = "none"}

\* The signal prepared: eom_application_show_window, if it was connected.
Prepared(x) == IF x.heard THEN [x EXCEPT !.state = "shown"] ELSE x

\* A job of a window: the model of a request, or a load, which the window may wait for to
\* tell the size.
ModelJob(w, files) == [kind |-> "model", w |-> w, files |-> files, init |-> FALSE]
LoadJob(w, file, init) == [kind |-> "load", w |-> w, files |-> <<file>>, init |-> init]

\* eom_window_open_file_list
OpenFileList(x, w, files) ==
  /\ windows' = [windows EXCEPT ![w] = [x EXCEPT !.init = TRUE]]
  /\ queue' = Append(queue, ModelJob(w, files))

\* eom_application_open, eom_window_drag_data_received
Requested ==
  /\ requests < MaxRequests /\ requests' = requests + 1
  /\ UNCHANGED <<disk, idles>>

\* eom_application_open_file_list: of another process, the dialog or the recent files
ApplicationOpenFileList ==
  \E files \in {<<f>> : f \in Files} \cup {<<f, g>> : f, g \in Files} :
    /\ IsInjective(files) /\ Requested
    /\ \/ \E w \in FileWindows(Head(files)) :
            windows' = [windows EXCEPT ![w].state = "shown"] /\ UNCHANGED queue
       \/ /\ FileWindows(Head(files)) = {}
          /\ \E w \in EmptyWindows :
               OpenFileList([windows[w] EXCEPT !.heard = TRUE], w, files)
       \/ /\ FileWindows(Head(files)) = {} /\ EmptyWindows = {} /\ NewWindows # {}
          /\ LET w == CHOOSE n \in NewWindows : TRUE
             IN OpenFileList([NoWindow EXCEPT !.state = "hidden", !.heard = TRUE], w, files)

\* eom_application_open_window, when no file is named
OpenWindow ==
  /\ Requested /\ UNCHANGED queue
  /\ \/ \E w \in EmptyWindows : windows' = [windows EXCEPT ![w].state = "shown"]
     \/ /\ EmptyWindows = {} /\ NewWindows # {}
        /\ LET w == CHOOSE n \in NewWindows : TRUE
           IN windows' = [windows EXCEPT ![w].state = "shown"]

\* eom_window_drag_data_received: a file is dropped on a window.
Drop ==
  \E w \in Windows, f \in Files :
    /\ windows[w].state = "shown" /\ Requested
    /\ OpenFileList(windows[w], w, <<f>>)
-----------------------------------------------------------------------------
(* The render thread *)

\* filter_files
Filtered(files) == ToSet(files) \cap disk

\* eom_list_store_add_files: the images, and the one to begin with
Listed(files) == IF Len(files) = 1 /\ Filtered(files) # {} THEN disk ELSE Filtered(files)
InitialImage(files, store) ==
  IF Len(files) = 1 THEN Head(files) ELSE CHOOSE f \in store : \A g \in store : f <= g

RunModel(job) ==
  LET store == Listed(job.files)
  IN idles' = Append(idles, [kind |-> "model", w |-> job.w, store |-> store,
                             file |-> IF store = {} THEN None
                                      ELSE InitialImage(job.files, store)])

\* eom_image_real_load: gdk-pixbuf tells the size, or the autorotation does at the end;
\* librsvg does not.
RunLoad(job) ==
  LET file == Head(job.files)
  IN \E sized, ok \in BOOLEAN :
       /\ sized \/ ok => file \in disk
       /\ ok /\ (file \notin Svg \/ Autorotate) => sized
       /\ sized /\ file \in Svg => ok /\ Autorotate
       /\ idles' = idles
            \o (IF sized /\ job.init THEN <<[kind |-> "size", w |-> job.w]>> ELSE <<>>)
            \o <<[kind |-> "load", w |-> job.w, file |-> file, ok |-> ok]>>

Run ==
  /\ queue # <<>> /\ queue' = Tail(queue)
  /\ IF Head(queue).kind = "model" THEN RunModel(Head(queue)) ELSE RunLoad(Head(queue))
  /\ UNCHANGED <<disk, windows, requests>>
-----------------------------------------------------------------------------
(* The idle callbacks of the main thread *)

\* eom_window_clear_load_job: it is not run, or its end is not heard of.
WithoutLoad(jobs, w) == SelectSeq(jobs, LAMBDA j : ~(j.kind = "load" /\ j.w = w))

\* handle_image_selection_changed_cb for an image that has no pixels yet
Load(w, file, init) ==
  /\ queue' = Append(WithoutLoad(queue, w), LoadJob(w, file, init))
  /\ idles' = WithoutLoad(idles, w)

\* eom_job_model_cb: without images the window is shown with a message.
ModelFinished(e) ==
  LET x == [windows[e.w] EXCEPT !.store = e.store]
  IN /\ e.kind = "model"
     /\ IF e.store = {}
        THEN /\ windows' = [windows EXCEPT ![e.w] = Prepared([x EXCEPT !.init = FALSE])]
             /\ idles' = Tail(idles) /\ UNCHANGED queue
        ELSE /\ windows' = [windows EXCEPT ![e.w] = x]
             /\ queue' = Append(WithoutLoad(queue, e.w), LoadJob(e.w, e.file, x.init))
             /\ idles' = WithoutLoad(Tail(idles), e.w)

\* eom_window_obtain_desired_size
SizePrepared(e) ==
  /\ e.kind = "size" /\ idles' = Tail(idles) /\ UNCHANGED queue
  /\ windows' = IF windows[e.w].state = "closed" THEN windows
                ELSE [windows EXCEPT ![e.w] = Prepared(@)]

\* Mutant: a load that failed shows its message in a window that is not shown.
LoadFinishedSilent(e) ==
  /\ e.kind = "load" /\ idles' = Tail(idles) /\ UNCHANGED queue
  /\ windows' = [windows EXCEPT ![e.w].image = e.file, ![e.w].init = FALSE]

\* eom_job_load_cb: the first load shows the window if the image could not be loaded.
LoadFinished(e) ==
  /\ e.kind = "load" /\ idles' = Tail(idles) /\ UNCHANGED queue
  /\ LET x == [windows[e.w] EXCEPT !.image = e.file, !.init = FALSE]
     IN windows' = [windows EXCEPT ![e.w] = IF ~e.ok /\ @.init THEN Prepared(x) ELSE x]

Dispatch ==
  /\ idles # <<>>
  /\ LET e == Head(idles) IN ModelFinished(e) \/ SizePrepared(e) \/ LoadFinished(e)
  /\ UNCHANGED <<disk, requests>>
-----------------------------------------------------------------------------
(* The user and the monitor *)

NothingPending(w, kind) ==
  /\ SelectSeq(queue, LAMBDA j : j.kind = kind /\ j.w = w) = <<>>
  /\ SelectSeq(idles, LAMBDA j : j.kind = kind /\ j.w = w) = <<>>

Select ==
  \E w \in Windows :
    /\ windows[w].state = "shown" /\ NothingPending(w, "load")
    /\ \E f \in windows[w].store \ {windows[w].image} : Load(w, f, windows[w].init)
    /\ UNCHANGED <<disk, windows, requests>>

Close ==
  \E w \in Windows :
    /\ windows[w].state = "shown" /\ NothingPending(w, "model")
    /\ windows' = [windows EXCEPT ![w] = [NoWindow EXCEPT !.state = "closed"]]
    /\ queue' = WithoutLoad(queue, w) /\ idles' = WithoutLoad(idles, w)
    /\ UNCHANGED <<disk, requests>>

Delete ==
  \E f \in disk : disk' = disk \ {f} /\ UNCHANGED <<windows, queue, idles, requests>>

\* eom_window_list_store_image_removed: a window without images is ready.
Monitor ==
  \E w \in Windows : \E f \in windows[w].store \ disk :
    /\ windows' = [windows EXCEPT ![w].store = @ \ {f},
                                  ![w].init = @ /\ windows[w].store # {f}]
    /\ UNCHANGED <<disk, queue, idles, requests>>

Init ==
  /\ disk = Files /\ windows = [w \in Windows |-> NoWindow]
  /\ queue = <<>> /\ idles = <<>> /\ requests = 0

Next == \/ ApplicationOpenFileList \/ OpenWindow \/ Drop \/ Run \/ Dispatch
        \/ Select \/ Close \/ Delete \/ Monitor

\* The render thread takes the next job, the main loop calls what is idle.
Spec == /\ Init /\ [][Next]_applicationVars
        /\ WF_applicationVars(Run) /\ WF_applicationVars(Dispatch)
-----------------------------------------------------------------------------
\* Every variable has its type.
TypeOK ==
  /\ disk \subseteq Files
  /\ \A w \in Windows :
       /\ windows[w].state \in {"none", "hidden", "shown", "closed"}
       /\ windows[w].store \subseteq Files
       /\ windows[w].image \in Files \cup {None}
       /\ {windows[w].heard, windows[w].init} \subseteq BOOLEAN

Shown(w) == windows[w].state # "hidden" \/ disk # Files

\* A window that was made for files is shown in the end, whichever of them can be loaded
\* and whatever else it is asked to open in the meantime. (Unless the files go: when a
\* hidden window loses its last image, its load is answered without showing it.)
WindowIsShown ==
  \A w \in Windows : windows[w].state = "hidden" ~> Shown(w)
=============================================================================
