---------------------------- MODULE EomWindowSave ----------------------------
(***************************************************************************)
(* src/src/eom-window.c: the files of a window - Save, Save As, Move to    *)
(* Trash, Set as Desktop Background - and what happens to them when the    *)
(* window is closed; the jobs of src/src/eom-jobs.c that write them.       *)
(*                                                                         *)
(* The render thread serves one job at a time, image by image. A finished  *)
(* job calls back on the main loop. Other programs change files, too.      *)
(* The model ends when the window is gone; a job that is left runs on.     *)
(***************************************************************************)
EXTENDS Naturals, Sequences, FiniteSets, SequencesExt

CONSTANTS MaxImages,     \* images in the list store
          Jpegs,         \* the names that stand for JPEG files
          Disabled,      \* disable-close-confirmation, or saving locked down
          MaxRequests    \* bound: commands, and changes from outside

Images == 1..MaxImages
Names == 1..(MaxImages + 1)    \* image i is opened as name i

\* What a name holds: an image, or one of
None == 0
Foreign == MaxImages + 1      \* a picture of somebody else
Broken == MaxImages + 2       \* nothing that can be loaded
Contents == 0..(MaxImages + 2)

VARIABLES disk,      \* what each name holds
          image,     \* EomImage: file, modified, and whether it has a row
          w,         \* EomWindowPrivate and its dialogs
          queue,     \* the jobs that wait,
          running,   \* the one on the render thread, if any,
          ended,     \* and those whose "finished" is due
          wall,      \* the picture-filename setting: what its file holds
          h,         \* history: why changes may be gone
          requests   \* how many requests and changes are left

vars == <<disk, image, w, queue, running, ended, wall, h, requests>>

Jobs == queue \o running \o ended
Writes(job) == job.kind \in {"save", "saveas"}

\* The images of the jobs that wait or run
OnTheirWay == UNION {ToSet(job.images) : job \in ToSet(queue) \cup ToSet(running)}

Rows == {i \in Images : image[i].row}
Modified == {i \in Rows : image[i].modified}

Job(kind, images) ==
  [kind |-> kind, images |-> images, targets |-> <<>>, pos |-> 1,
   error |-> FALSE, closes |-> FALSE]
SaveAsJob(images, targets) == [Job("saveas", images) EXCEPT !.targets = targets]
CopyJob(i) == [Job("copy", <<i>>) EXCEPT !.targets = <<image[i].file>>]

\* Some rows, in their order
InOrder(rows) == CHOOSE s \in SetToSeqs(rows) : \A x, y \in DOMAIN s : x < y => s[x] < s[y]

\* EomCloseConfirmationDialog: the images in its list, all of them marked first
ConfirmationDialog(images) == [unsaved |-> images, marked |-> images]
NoDialog == ConfirmationDialog({})
SelectedImages(dialog) ==
  InOrder(IF Cardinality(dialog.unsaved) = 1 THEN dialog.unsaved ELSE dialog.marked)
NoQuestion == [kind |-> "none", images |-> <<>>]

Init ==
  /\ \E theirs \in {None, Foreign} :
       disk = [n \in Names |-> IF n \in Images THEN n ELSE theirs]
  /\ image = [i \in Images |-> [file |-> i, modified |-> FALSE, row |-> TRUE]]
  /\ w = [open |-> TRUE, sensitive |-> TRUE, saveJob |-> FALSE, copyJob |-> FALSE,
          finishing |-> FALSE, dialog |-> NoDialog, question |-> NoQuestion,
          shown |-> 1]
  /\ queue = <<>> /\ running = <<>> /\ ended = <<>>
  /\ wall = None
  /\ h = [declined |-> {}, late |-> {}, failed |-> FALSE, cancelled |-> FALSE,
          aborted |-> FALSE]
  /\ requests = MaxRequests
-----------------------------------------------------------------------------
(* The window *)

Modal == w.dialog # NoDialog \/ w.question # NoQuestion

\* The user works with the window
Usable == w.open /\ w.sensitive /\ ~Modal /\ ~w.finishing

Request == requests > 0 /\ requests' = requests - 1

\* eom_thumb_view_get_selected_images: some rows, in their order
Selections == {InOrder(s) : s \in (SUBSET Rows) \ {{}}}

Enqueue(job) == queue' = Append(queue, job)

\* A selected image is displayed, and keeps its pixels
Display(i) ==
  /\ Usable /\ Request /\ i \in Rows /\ i # w.shown
  /\ disk[image[i].file] \notin {None, Broken}
  /\ w' = [w EXCEPT !.shown = i]
  /\ UNCHANGED <<disk, image, queue, running, ended, wall, h>>

\* apply_transformation
Transform ==
  /\ Usable /\ Request
  /\ \E s \in Selections : Enqueue(Job("transform", s))
  /\ UNCHANGED <<disk, image, w, running, ended, wall, h>>

\* eom_window_save_images, and the caller's part
SaveImages(images, closes) ==
  /\ w' = [w EXCEPT !.saveJob = TRUE]
  /\ Enqueue([Job("save", images) EXCEPT !.closes = closes])

\* Mutant: save_job is not looked at
CmdSaveAgain ==
  /\ Usable /\ Request
  /\ \E s \in Selections : SaveImages(s, FALSE)
  /\ UNCHANGED <<disk, image, running, ended, wall, h>>

CmdSave ==
  /\ Usable /\ Request /\ ~w.saveJob
  /\ \E s \in Selections : SaveImages(s, FALSE)
  /\ UNCHANGED <<disk, image, running, ended, wall, h>>

\* Save As and Delete ask first, in a main loop of their own.
Ask(kind) ==
  /\ Usable /\ Request /\ (kind = "saveas" => ~w.saveJob)
  /\ \E s \in Selections : w' = [w EXCEPT !.question = [kind |-> kind, images |-> s]]
  /\ UNCHANGED <<disk, image, queue, running, ended, wall, h>>

Cancel ==
  /\ w.open /\ w.question # NoQuestion
  /\ w' = [w EXCEPT !.question = NoQuestion]
  /\ UNCHANGED <<disk, image, queue, running, ended, wall, h, requests>>

\* The file chooser gives one name and has asked before it gives a name that
\* exists; the dialog for several images gives a pattern.
CmdSaveAs ==
  /\ w.open /\ w.question.kind = "saveas"
  /\ \E targets \in [DOMAIN w.question.images -> Names] :
       Enqueue(SaveAsJob(w.question.images, targets))
  /\ w' = [w EXCEPT !.question = NoQuestion, !.saveJob = TRUE]
  /\ UNCHANGED <<disk, image, running, ended, wall, h, requests>>

\* eom_window_cmd_move_to_trash, from where it asked or told of an error: up to
\* the first image that cannot be removed, the rest after the error dialog.
MoveToTrash ==
  /\ w.open /\ w.question.kind = "trash"
  /\ LET images == w.question.images
     IN \E k \in 0..Len(images) :
          LET gone == {images[x] : x \in 1..k}
          IN /\ \A i \in gone : disk[image[i].file] # None
             /\ Cardinality({image[i].file : i \in gone}) = k
             /\ disk' = [n \in Names |->
                           IF \E i \in gone : image[i].file = n THEN None ELSE disk[n]]
             /\ image' = [i \in Images |-> [image[i] EXCEPT !.row = @ /\ i \notin gone]]
             /\ w' = [w EXCEPT !.question = IF k + 1 >= Len(images) THEN NoQuestion
                                            ELSE [@ EXCEPT !.images = SubSeq(images, k + 2, Len(images))],
                               !.shown = IF @ \in gone THEN 0 ELSE @]
  /\ UNCHANGED <<queue, running, ended, wall, h, requests>>

SetWallpaper(content) == wall' = content

\* eom_window_cmd_wallpaper: a file that is not persistent is copied first.
CmdWallpaper ==
  /\ Usable /\ Request /\ ~w.copyJob
  /\ \E i \in Rows, persistent \in BOOLEAN :
       IF persistent
       THEN SetWallpaper(disk[image[i].file]) /\ UNCHANGED <<w, queue>>
       ELSE /\ w' = [w EXCEPT !.copyJob = TRUE]
            /\ Enqueue(CopyJob(i))
            /\ UNCHANGED wall
  /\ UNCHANGED <<disk, image, running, ended, h>>
-----------------------------------------------------------------------------
(* Closing *)

Destroyed(s) == [s EXCEPT !.open = FALSE, !.dialog = NoDialog, !.question = NoQuestion,
                          !.finishing = FALSE, !.shown = 0]

\* Mutant: only the first row is asked
UnsavedFirstConfirm(s) ==
  IF Disabled \/ 1 \notin Modified THEN Destroyed(s)
  ELSE [s EXCEPT !.dialog = ConfirmationDialog(Modified)]

\* eom_window_unsaved_images_confirm, and the end of both its callers
UnsavedImagesConfirm(s) ==
  IF Disabled \/ Modified = {} THEN Destroyed(s)
  ELSE [s EXCEPT !.dialog = ConfirmationDialog(Modified)]

\* eom_window_delete, eom_window_cmd_close_window
Close ==
  /\ w.open /\ ~Modal /\ ~w.finishing
  /\ w' = IF w.saveJob THEN [w EXCEPT !.finishing = TRUE, !.sensitive = FALSE]
          ELSE UnsavedImagesConfirm(w)
  /\ h' = [h EXCEPT !.late = OnTheirWay, !.declined = IF Disabled THEN Images ELSE @]
  /\ UNCHANGED <<disk, image, queue, running, ended, wall, requests>>

\* save_toggled, in the list of several images
SaveToggled(i) ==
  /\ w.open /\ i \in w.dialog.unsaved /\ Cardinality(w.dialog.unsaved) > 1
  /\ w' = [w EXCEPT !.dialog.marked = SymDiff(@, {i})]
  /\ UNCHANGED <<disk, image, queue, running, ended, wall, h, requests>>

\* close_confirmation_dialog_response_handler. The dialog stays.
RespondYes ==
  /\ w.open /\ w.dialog # NoDialog /\ ~w.saveJob
  /\ SaveImages(SelectedImages(w.dialog), TRUE)
  /\ h' = [h EXCEPT !.declined = w.dialog.unsaved \ w.dialog.marked]
  /\ UNCHANGED <<disk, image, running, ended, wall, requests>>

RespondNo ==
  /\ w.open /\ w.dialog # NoDialog
  /\ w' = Destroyed(w)
  /\ h' = [h EXCEPT !.declined = w.dialog.unsaved]
  /\ UNCHANGED <<disk, image, queue, running, ended, wall, requests>>

RespondCancel ==
  /\ w.open /\ w.dialog # NoDialog
  /\ w' = [w EXCEPT !.dialog = NoDialog]
  /\ h' = [h EXCEPT !.cancelled = @ \/ w.saveJob, !.declined = IF w.saveJob THEN @ ELSE {}]
  /\ UNCHANGED <<disk, image, queue, running, ended, wall, requests>>

\* Mutant: who waits for the job is not told
SaveFinishedForgets(job) ==
  w' = IF job.closes THEN Destroyed([w EXCEPT !.saveJob = FALSE])
       ELSE [w EXCEPT !.saveJob = FALSE]

\* The callbacks of a job, in the order they were connected. The one on which
\* eom_window_finish_saving waits ends its loop.
SaveFinished(job) ==
  LET s == [w EXCEPT !.saveJob = FALSE]
  IN w' = IF job.closes THEN Destroyed(s)
          ELSE IF w.finishing THEN UnsavedImagesConfirm([s EXCEPT !.finishing = FALSE])
          ELSE s

\* eom_job_copy_cb: the copy becomes the background, whether there is one or not.
CopyFinished(job) ==
  /\ w' = [w EXCEPT !.copyJob = FALSE]
  /\ SetWallpaper(IF job.error THEN None ELSE job.pos)

Finished ==
  /\ w.open /\ ended # <<>> /\ ~h.aborted
  /\ ended' = Tail(ended)
  /\ LET job == Head(ended)
     IN CASE Writes(job) -> SaveFinished(job) /\ UNCHANGED wall
          [] job.kind = "copy" -> CopyFinished(job)
          [] OTHER -> UNCHANGED <<w, wall>>
  /\ h' = [h EXCEPT !.late = IF w.finishing /\ Writes(Head(ended)) THEN OnTheirWay ELSE @]
  /\ UNCHANGED <<disk, image, queue, running, requests>>
-----------------------------------------------------------------------------
(* The render thread *)

\* Mutant: a second job starts before the first has ended
DequeueTwo ==
  /\ w.open /\ queue # <<>> /\ ~h.aborted
  /\ running' = Append(running, Head(queue)) /\ queue' = Tail(queue)
  /\ UNCHANGED <<disk, image, w, ended, wall, h, requests>>

Dequeue ==
  /\ w.open /\ running = <<>> /\ queue # <<>> /\ ~h.aborted
  /\ running' = <<Head(queue)>> /\ queue' = Tail(queue)
  /\ UNCHANGED <<disk, image, w, ended, wall, h, requests>>

HasPixels(i) == i = w.shown
Loads(i) == HasPixels(i) \/ disk[image[i].file] \notin {None, Broken}
Exists(i) == disk[image[i].file] # None
IsJpeg(name) == name \in Jpegs

\* eom_image_save_by_info with an error that an earlier load may have left:
\* only the JPEG writer does not look at it first.
SaveByInfo(i, error) ==
  IF Exists(i) /\ ~image[i].modified THEN {"skipped"}
  ELSE IF Loads(i) /\ (error => IsJpeg(image[i].file) /\ Exists(i) /\ image[i].modified)
       THEN {"saved", "failed"} ELSE {"failed"}

\* eom_image_save_as_by_info: an unmodified image of the same format is copied.
DirectCopy(i, target) ==
  ~image[i].modified /\ (IsJpeg(image[i].file) <=> IsJpeg(target))
\* Mutant: the target is always replaced
SaveAsOverByInfo(i, target, overwrite) ==
  IF DirectCopy(i, target) => Exists(i) THEN {"saved", "failed"} ELSE {"failed"}

SaveAsByInfo(i, target, overwrite) ==
  IF (disk[target] # None => overwrite) /\ (DirectCopy(i, target) => Exists(i))
  THEN {"saved", "failed"} ELSE {"failed"}

\* eom_image_reset_modifications, eom_image_link_with_target
LinkWithTarget(i, target) ==
  image' = [image EXCEPT ![i].modified = FALSE, ![i].file = target]

\* One image of the job is done; the job ends with the last or with a failure.
Advance(job, error, failed) ==
  LET next == [job EXCEPT !.pos = @ + 1, !.error = error \/ failed]
  IN /\ IF failed \/ job.pos = Len(job.images)
        THEN running' = <<>> /\ ended' = Append(ended, [next EXCEPT !.pos = 1])
        ELSE running' = <<next>> /\ UNCHANGED ended
     /\ h' = [h EXCEPT !.failed = @ \/ failed]

\* eom_job_save_run
SaveStep(job, i) ==
  LET error == job.error \/ ~Loads(i)
  IN \E result \in SaveByInfo(i, error) :
       /\ IF result = "saved"
          THEN disk' = [disk EXCEPT ![image[i].file] = i] /\ LinkWithTarget(i, image[i].file)
          ELSE UNCHANGED <<disk, image>>
       /\ Advance(job, error, result = "failed")

\* eom_job_save_as_run. It asserts that the load worked.
SaveAsStep(job, i) ==
  LET target == job.targets[job.pos]
      overwrite == Len(job.images) = 1 /\ disk[target] # None
  IN IF job.error \/ ~Loads(i)
     THEN h' = [h EXCEPT !.aborted = TRUE] /\ UNCHANGED <<disk, image, running, ended>>
     ELSE \E result \in SaveAsByInfo(i, target, overwrite) :
            /\ IF result = "saved"
               THEN /\ disk' = [disk EXCEPT ![target] =
                                  IF DirectCopy(i, target) THEN disk[image[i].file] ELSE i]
                    /\ LinkWithTarget(i, target)
               ELSE UNCHANGED <<disk, image>>
            /\ Advance(job, FALSE, result = "failed")

\* eom_job_transform_run: an image that does not load stays as it is.
TransformStep(job, i) ==
  /\ image' = [image EXCEPT ![i].modified = @ \/ Loads(i)]
  /\ Advance(job, FALSE, FALSE) /\ UNCHANGED disk

\* eom_job_copy_run: "pos" says what was copied.
CopyStep(job) ==
  \E error \in BOOLEAN :
    LET content == disk[job.targets[1]]
    IN /\ running' = <<>>
       /\ ended' = Append(ended, [job EXCEPT !.error = error \/ content = None, !.pos = content])
       /\ UNCHANGED <<disk, image, h>>

Run ==
  /\ w.open /\ running # <<>> /\ ~h.aborted
  /\ LET job == running[1]
     IN CASE job.images = <<>> -> /\ running' = <<>> /\ ended' = Append(ended, job)
                                  /\ UNCHANGED <<disk, image, h>>
          [] job.kind = "copy" -> CopyStep(job)
          [] job.images # <<>> /\ job.kind = "save" -> SaveStep(job, job.images[job.pos])
          [] job.kind = "saveas" -> SaveAsStep(job, job.images[job.pos])
          [] job.kind = "transform" -> TransformStep(job, job.images[job.pos])
  /\ UNCHANGED <<w, queue, wall, requests>>

\* Other programs remove and spoil the images, and make a file of the other name.
ChangedOutside(n) ==
  /\ w.open /\ Request
  /\ \E content \in (IF n \in Images THEN {None, Broken} ELSE {None, Foreign}) \ {disk[n]} :
       disk' = [disk EXCEPT ![n] = content]
  /\ UNCHANGED <<image, w, queue, running, ended, wall, h>>

Thread == Dequeue \/ Run

Next ==
  \/ \E i \in Images : Display(i) \/ SaveToggled(i)
  \/ Transform \/ CmdSave \/ Ask("saveas") \/ Ask("trash") \/ Cancel
  \/ CmdSaveAs \/ MoveToTrash \/ CmdWallpaper
  \/ Close \/ RespondYes \/ RespondNo \/ RespondCancel
  \/ Finished \/ Thread
  \/ \E n \in Names : ChangedOutside(n)

Spec == Init /\ [][Next]_vars
-----------------------------------------------------------------------------
(* Type invariant *)

JobType == [kind : {"save", "saveas", "transform", "copy"}, images : Seq(Images),
            targets : Seq(Names), pos : Nat, error : BOOLEAN, closes : BOOLEAN]

\* Every variable has its type.
TypeOK ==
  /\ disk \in [Names -> Contents]
  /\ image \in [Images -> [file : Names, modified : BOOLEAN, row : BOOLEAN]]
  /\ w \in [open : BOOLEAN, sensitive : BOOLEAN, saveJob : BOOLEAN, copyJob : BOOLEAN,
            finishing : BOOLEAN, dialog : [unsaved : SUBSET Images, marked : SUBSET Images],
            question : [kind : {"none", "saveas", "trash"}, images : Seq(Images)],
            shown : {0} \cup Images]
  /\ \A x \in DOMAIN Jobs : Jobs[x] \in JobType
  /\ Len(running) <= 1 /\ wall \in Contents /\ requests \in 0..MaxRequests
  /\ h \in [declined : SUBSET Images, late : SUBSET Images, failed : BOOLEAN,
            cancelled : BOOLEAN, aborted : BOOLEAN]

(* Safety *)

\* save_job is set exactly while one job of the window that writes images waits,
\* runs or is about to report, through Save, Save As, both ways to close and
\* the dialog that stays up (eom_window_save_images, eom_job_save_cb).
WindowKnowsJob ==
  w.open => Cardinality({x \in DOMAIN Jobs : Writes(Jobs[x])}) = IF w.saveJob THEN 1 ELSE 0

\* A change that is lost when the window closes was declined, or its save job
\* failed, or a transform was still on its way when the question was put, or
\* the dialog was cancelled while it already saved
\* (eom_window_unsaved_images_confirm and its response handler).
LossesAreKnown ==
  ~w.open => \/ h.failed \/ h.cancelled
             \/ Modified \subseteq h.declined \cup h.late

\* Several images at once never replace a file (eom_job_save_as_run asks nobody).
SeveralReplaceNothing ==
  /\ running # <<>> /\ running # running'
  /\ running[1].kind = "saveas" /\ Len(running[1].images) > 1
  => \A n \in Names : disk[n] # None => disk'[n] = disk[n]

\* The load inside a save-as job never fails: g_assert (ejob->error == NULL).
SaveAsLoads == ~h.aborted

(* Liveness *)

\* Whoever closes a window that saves gets an answer: it is gone, or it asks
\* (eom_window_finish_saving iterates the main loop until the job is done).
Answered == ~w.open \/ w.dialog # NoDialog \/ h.aborted
CloseIsAnswered == w.finishing ~> Answered
=============================================================================
