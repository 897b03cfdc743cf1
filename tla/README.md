# Eye of MATE in TLA+

This directory holds TLA+ models of *eom*, the image viewer of the MATE desktop
(`src/src/`), with TLC configurations that check them on small instances and
TLAPS proofs of theorems that hold for every instance.

* `tlc -config X.cfg M` checks a run, `tlapm M.tla` the proofs of a module.
* `PROJECT.json` lists the components, the runs, for each property a mutant of
  the code's model that breaks it, the source lines each definition stands for,
  the hazards of the code, and the theorems.

Contents: 1 the system, 2 the modules, 3 the runs, 4 the proofs, 5 where the
code and its documentation disagree, 6 what is not modelled, 7 the plan.

## 1. The system

eom is a GTK program with two threads of its own. The **main thread** runs the
GTK main loop: windows, dialogs, the list store of images, the thumbnail bar,
the scroll view. The **render thread** (`eom_render_thread`) takes *jobs* from
six queues and runs them: loads, transforms, thumbnails, the list of images,
saves and copies. A job tells its creator what happened by idle callbacks, which
the main loop dispatches. The queues are behind a mutex. The image objects, which both
threads read and write, are not, apart from the request to cancel a load.

| component | state it keeps | operations | correct when |
|---|---|---|---|
| Job queue, `eom-job-queue.c` | six FIFO queues, a mutex, a condition | add, remove, the thread's loop, finished callbacks | a job is run once by urgency, reported once, freed when nobody has it; no wakeup is lost |
| Jobs, `eom-jobs.c` | image(s), result, error, `finished`, progress | `run` of each class | progress comes before finished; the result is the creator's |
| Transforms, `eom-transform.c` | an affine matrix | compose, reverse, type, apply to pixels | no pixel is lost; a composition does what its parts do; the type names it |
| Image, `eom-image.c` | pixels, animation, thumbnail, EXIF, orientation, `trans`, `trans_autorotate`, undo stack, `modified`, status, `cancel_loading`, data references | load, cancel, transform, undo, save, save as, set thumbnail, data ref/unref, play | what is shown and what is saved is the file with what the user did to it; a save writes the file once or not at all |
| JPEG writer, `eom-image-jpeg.c` | none | lossless transform, compression | the file shows what the screen shows |
| Thumbnails, `eom-thumbnail.c` | the cache on disk | look up, make, store | the thumbnail shows the image |
| List store, `eom-list-store.c` | rows (image, thumbnail, job), directory and file monitors | add and remove rows, thumbnail jobs, monitor callbacks | rows are those of the directory, sorted; their jobs are alive |
| Window, `eom-window.c` | status, mode, `image`, `load_job`, `transform_job`, `save_job`, `copy_job`, timers, inhibit cookie, message area, status bar | selection changed, callbacks of jobs, edit/save/trash commands, fullscreen, slideshow, close | it settles on the selection; what it tells is so; nothing the user did is lost unknown |
| Scroll view, `eom-scroll-view.c`, `zoom.c` | image, zoom, mode, offsets, bars, drag, background | set image, zoom, scroll, drag, layout, paint | size, bars and offsets agree once the layout is done; the picture ends up sharp |
| Thumbnail view and bar, `eom-thumb-view.c`, `eom-thumb-nav.c` | selection, columns, visible range, buttons, timeout | select, scroll, tooltip | a walk comes to every image; buttons and tooltips do what they promise |
| Metadata readers, `eom-metadata-reader-*.c` | parser state over buffers | consume, get chunks | the chunks do not depend on where buffers end |
| URI converter and save-as dialog | token list, counter, preview | parse, convert, preview | names are those of the preview, and distinct |
| Close dialog | list of images, marks | toggle, answer | it asks about what is not saved |
| Printing | position, scale, paper, unit, surface | twelve nested handlers, drag, paint | margins, size, preview and page agree |
| Clipboard, `eom-clipboard-handler.c` | pixbuf, owner | copy, paste, clear | it lives as long as it owns the clipboard |
| Application, `eom-application.c` | windows | open files | a window for files is shown |
| Sidebar, plugins, utilities, ... | see `PROJECT.json` | | |

How they interact. The thumbnail view tells the window that the *selection*
changed. The window clears the load job of the image before (takes it from the
queue, cancels the load if it runs, disconnects and drops it), shows the new
image if it has its pixels, or else makes a *load job*. When the
*finished* callback of that job is dispatched, the window hands the image to the
*scroll view*, which takes a *data reference*; the reference of the image before
goes, and with the last one its pixels. *Transform jobs* change the pixels and
the thumbnail on the render thread and record the transform in the image; *save
jobs* take a data reference, load what is missing, write, and drop the reference.
The *list store* asks for a thumbnail of each visible row with a thumbnail job
and its file monitors reset the image when its file changes. Closing a window
iterates the main loop until its save job is done. The application makes
a window *hidden*; a *model job* fills its list store, and the first load that tells a size, or
fails, shows it.

What is hard:

* **two threads and no lock** on the image: pixels appear before they are
  rotated, the count of data references loses updates, a cancellation comes
  after the loop it is meant for (`EomWindowLoad`), frames of an animation
  replace pixels that are being turned (`EomImageAnimation`);
* **callbacks out of time**: a job is cleared while it is queued, running, or
  finished with its callback due (`EomJobQueue`, `EomWindowLoad`); a timeout
  outlives what it belongs to (`EomWindowMode`, `EomThumbNav`);
* **two records of one history**: the undo stack and the composed transform,
  which loads, saves, undos and thumbnails use at different moments (`EomImage`);
* **rows with bare pointers to jobs**, which find their row by file, and files
  that change faster than the monitor tells (`EomListStore`);
* **main loops within a handler**: a dialog or a save that is waited for, while
  files, rows and jobs go on (`EomWindowSave`, `EomThumbView`);
* **one image of several that fails**, a file that somebody else writes, a
  program that dies while it saves (`EomWindowSave`, `EomImageSave`, `EomThumbnail`);
* **handlers within handlers**: a spin button that sets six others, a toggle
  action that runs a command, a scroll bar that takes room (`EomPrintImageSetup`,
  `EomWindowMode`, `EomScrollView`);
* **buffers that end anywhere** (`EomMetadataReaderJpg`, `EomMetadataReaderPng`);
* **geometry**: transforms do not commute, and are composed in three places,
  by libjpeg, and once more for the printer (`EomTransform`).

## 2. The modules

| module | models | its variables |
|---|---|---|
| `JobLifecycle` | the abstract promise of the queue: phases of a job | `phase` |
| `EomJobQueue` | `eom-job-queue.c`, and the idle callbacks and reference counts of `eom-jobs.c` | `queue`, `worker`/`cur` (where the render thread is, its local), `mainpc`/`clearing` (the same for `eom_window_clear_*_job`), `refs`, `held`, `finished`, `idles` |
| `EomJobQueueProofs` | theorems about it | |
| `EomTransform` | `eom-transform.c`, the autorotation table of `eom-image.c`, the table of `eom-image-jpeg.c`; operators only | |
| `EomTransformSteps` | a loaded image under series of transforms and undos, pixel by pixel, and printed (`eom-print.c`) | `file`, `orientation`, `loaded`, `image`, `trans` |
| `EomTransformProofs` | theorems about the two | |
| `EomImage` | one image through load, leave, transform, undo, thumbnail, save, save as | `setting`, `file`, `img` (the fields of `EomImagePrivate`), `viewed`, `made`, `cache`, `expected` |
| `AtomicSave` | the abstract promise of a save: other programs see the old file, then the whole new one | `target`, `phase`, `others` |
| `EomImageSave` | the steps in which one image is written, each of which may fail | `file`, `save`, `image`, `changes` |
| `EomImageAnimation` | frames, timeouts and turns of an animation | `image`, `view`, `timers`, `job` |
| `EomThumbnail` | `eom-thumbnail.c` and the thumbnail job, with the shared cache | `file`, `cache`, `image`, `job`, `row` |
| `EomListStore` | the rows, the directory monitor, the thumbnail jobs and the visible range | `disk`, `events`, `rows`, `queue`, `running`, `answered`, `start`, `end`, `top`, `rangeDue`, `calls` |
| `EomThumbView` | selection, columns, Move to Trash with its dialogs | `view`, `trash`, `disk`, `changes` |
| `EomThumbNav` | the bar's buttons and their timeouts | `nav`, `timeouts`, `held` |
| `EomThumbTooltip` | tooltips and the loads they ask for | `image`, `tip`, `jobs`, `ended` |
| `EomWindowLoad` | the window, the scroll view's reference and the render thread around the images | `setting`, `jobs`, `queue`, `worker`, `answered`, `img`, `due`, `selected`, `current`, `loadJob`, `transformJob`, `view`, `area`, `todo` |
| `EomWindowMode` | normal, fullscreen, slide show: timers, bars, actions, settings | `w`, `n`, `pos`, `listing`, `loading`, `chosen`, `quiet` |
| `EomWindowSave` | Save, Save As, trash, wallpaper, closing, and the jobs that write | `disk`, `image`, `w`, `queue`, `running`, `ended`, `wall`, `h`, `requests` |
| `EomWindowMessage` | message area, status bar, icon, menu, handlers | `w`, `img`, `events` |
| `EomApplication` | which window opens files, and when it is shown | `disk`, `windows`, `queue`, `idles`, `requests` |
| `EomScrollView` | zoom, offsets, scroll bars, layout, drag | `v`, `layout`, `events` |
| `EomScrollViewPaint` | rough and filtered drawing, the pattern behind | `p`, `seen`, `quiet` |
| `EomMetadataReaderJpg`, `EomMetadataReaderPng` | the two parsers over buffers | `file`/`chunks`, `pos`, `end`, `r`, `image` |
| `EomSaveAsDialog` | the dialog, `eom-uri-converter.c` | `dialog`, `converter`, `names` |
| `EomPrintImageSetup`, `EomPrintPreview` | the page setup of the print dialog; its preview | `setup`, `data`; `preview`, `drawn`, `idles`, `moves` |
| `EomClipboardHandler` | Copy Image and the owner of the clipboard | `image`, `refs`, `handlers`, `owner`, `pasted` |
| `EomSaves`, `EomReaders`, `EomParts`, `EomPart` | parts side by side, of which one is chosen (section 3): the two levels of saving; the two readers; eleven others | `part`, and those of the parts |
| `EomImageProofs`, `EomWindowLoadProofs`, `EomSavesProofs`, `EomReadersProofs`, `EomPartsProofs` | theorems about the modules of these names (section 4) | |
| `EomLemmas` | lemmas that they share: on queues, on sequences put one after the other, on the group of the eight transforms | |
| `MC...` | constants for TLC, and sums of instances (section 3) | |

**EomJobQueue.** A critical section of `eom_queue_mutex` is one action
(`AddJob`, `LockQueues`, `SearchAwake`, `ClearRemove`); between them the render
thread has one action per access to the job: `RefJob`, `SetProgress`,
`FinishRun`, `PostFinished`, `UnrefJob`. `g_cond_wait` is the place `"waiting"`;
`Wake` and `SpuriousWakeup` leave it. An idle callback is a record in a FIFO:
`g_idle_add` callbacks of one priority are dispatched in order. A progress
callback holds no reference of its job, a finished one does.

**EomTransform.** cairo's matrices are tuples of integers. The code computes
with doubles, but every matrix it makes is a product of rotations by multiples
of a quarter and of flips, without a translation: its entries are exactly 1, -1 or
within 1e-12 of 0, and the comparisons and the truncations of the pixel loop,
which adds a tolerance, see the integers the model has. `Apply` is the loop of
`eom_transform_apply`: the corners give the size of the destination, each
destination pixel is read through the inverse if it is inside the source.
`Painted` is what `eom_print_draw_page` puts on the page with its own matrices.

**EomImage.** A picture is the transform that takes the pixels of the first
file to it, so pixels are compared without being stored (that `Compose` does to
pixels what the steps do is what `EomTransformSteps` checks). The run of a job
is one step. `expected` is the picture the user was promised: the file upright,
with each transform and undo since. `Loaded`, `Transformed`, `Undone`,
`Written` follow the functions of the same names; a load may fail before or
after the metadata was read.

**EomWindowLoad.** Each thread is interruptible where it touches a field the other
one touches. The load is `StartLoad` (status), `Read` (the loop),
`Settle` (the pixels are set, or the cancellation is taken back),
`ApplyTransformations`; a save job is `ReadCount`, `WriteCount` (the reference
is taken by an unlocked read and write), the load of what is missing, and the
same again. The main thread's handlers are continued by `todo`: a selection is
`Select`, `ClearLoadJob`, `Choose`, `Display`. The two assertions of the code
that this depends on are guards of `Read` and `Display`, with an invariant
that says the guard holds, so that an abort is a violation and never a step
that silently does not happen. Freed job objects are reused, like the memory.

**EomListStore.** A handler of the main thread is one step on a record of
rows and thumbnail queue. The callback for a range of rows is a step for each row: between
two of them (`calls`) the render thread takes jobs, and files change, as they do while the loops of
`eom_thumb_view_clear_range` and `eom_thumb_view_add_range` run.
`Handled` follows the cases of `file_monitor_changed_cb`: which event, is the
file in the store, what is it now. A file is nothing, a picture eom can load
(`Pictures`), an image it cannot (`Foreign`), or something else; files are
numbered in the order of their collation keys. The monitor delivers events late
and in order. `Jobs` are the addresses of job objects: a freed one is used again,
as memory is, so a dangling pointer would be seen as the pointer of another job.
Beginning after the directory was read leaves out that it is read on the render
thread.

**EomWindowMode.** Setting a toggle action runs its command, which enters or
leaves a mode, which sets actions and bars; `SetActive` runs the command within
the step, as GTK does. `chosen` is what the user last chose for each bar;
`w.setting` is what the program has written. The slide show's options are
chosen once; the user's other actions stop at a `quiet` moment, after which the
liveness of the slide show is asked for.

**EomWindowSave.** A name holds an image (a number), a picture of somebody else,
a broken file or nothing. Jobs are served one at a time, an image per step, with
other programs' changes in between. `finishing` is the main loop that
`eom_window_finish_saving` iterates; the window is then neither usable nor gone.
`h` has the reasons for which a change may be lost: declined, late, failed, cancelled.

**EomImageSave.** `eom_image_save_by_info` and `eom_image_save_as_by_info` step by step: the temporary file,
the writer, the attributes, the move, the deletion. A step may fail where the
code looks at an error, the program may crash between two, others write, remove and protect files. `SaveIsAtomic` says
that every step is one of `AtomicSave` or a stutter.

**EomThumbnail.** The version of a file is its modification time, which stands
in the cache beside a thumbnail. `missed` marks a thumbnail that was made of the
pixels in memory before the monitor told of a change. `EomImage` has what
transforms do to a thumbnail, this module which file it is of.

**EomScrollView.** A change of the bars is laid out by GTK later (`layout` has
`"resize"`), the display area hears of its new size later still (`"configure"`).
Zoom factors are multiples of `1/Unit`; sizes are rounded as `compute_scaled_size`
does. `missed` marks a layout that put up a bar and left the display area as it was.

**EomThumbView.** The dialogs of Move to Trash are stages of `trash`; the
directory changes while one is up. `view.tour` records what a walk to the right has
shown since images or the user last changed the order.

**Readers.** The files are segments and chunks of a few bytes, encoded byte by byte.
`end` is how far the file has come in, and grows by any amount; a step is a round of the loop of
`consume`. `astray`, `guessed` and `cut` mark the reader where the code leaves the
file's structure (section 5).

**Dialogs.** A pattern is a sequence of characters; the converter counts
digits in `Base`. In `EomPrintImageSetup` a value that changes runs its
handlers at once (`Signal`), which set other values, to the depth the code has.

## 3. The runs

A component whose state nothing else needs is checked as one summand of a larger
module: its variables are substituted by those of the sum, and which component
is explored is chosen in the initial state. `EomSaves` is such a sum of two components and
`EomParts` of eleven, stated for all values of their constants; `MCEomParts` adds four others to
them for one run, `MCEomProgress` is one of six. A property of
the sum is the conjunction of the properties of its components, each for the
states of its component. In `EomImage` and `EomWindowLoad` a *setting*, chosen in the
initial state, says which files there are and what the user does: `MCEomImage` and
`MCEomWindowLoad` have three settings each.

| run | instance | what it shows |
|---|---|---|
| `jobqueue` | 2 loads and a thumbnail, 3 pending callbacks, fair | the references are exact, no pointer dangles, no wakeup is lost; the queues implement `JobLifecycle`; a job waits only for more urgent ones, a run is reported |
| `transform_steps` | pixbufs 1x1 to 3x3, 8 orientations, any number of steps | loop, composition, type names, EXIF table, libjpeg's transform and the printed page agree |
| `image` | plain: three files that need no rotation, two transforms, undo stack of 2; turned: upright and turned JPEG and TIFF, all operations; camera: nine orientations, no transforms of the user | what is shown and saved is what the user did; undo stack and composition agree; the size follows the picture; a thumbnail stands upright once |
| `window_load` | follows: two images that may fail, 3 jobs, reload and retry, fair; saves, transforms: 2 jobs | the window settles on the selection, the assertions hold, the view's reference keeps the pixels, loads are answered |
| `parts` | `EachTypeOK` and ten properties of seventeen components (below) | |
| `progress` | six components, fair | a window for files is shown, one that is closed while it saves is gone or asks, a slide show returns, the picture ends up sharp, an animation gets its turns, a tooltip its data |
| `image_save_rotated`, `window_assert`, `window_cancel`, `list_visible`, `window_save_assert`, `window_svg` | | *violations*, section 5 |

The properties of `parts`:

| property | components | says |
|---|---|---|
| `WindowTells` | `EomWindowMode`, `EomWindowMessage`, `EomThumbNav`, `EomScrollViewPaint` | timers, actions, bars and screen saver are those of the mode; the window hears of the image it shows; the status bar has one message; the thumbnail bar's buttons are those that have an effect, and no timeout outlives its press; the ground of a picture is that of the settings |
| `SavesAreKnown` | `EomWindowSave`, `EomImageSave` | the window knows its job; a change lost at closing was declined, failed, late or cancelled; changes are forgotten when they are in the file |
| `SavesAreAtomic` | the same | a save changes its file once or not at all; several images replace no file |
| `CopiesAreOfImage` | `EomThumbnail`, `EomClipboardHandler`, `EomImageAnimation`, `EomPrintPreview` | thumbnails are of the version they pass for, and have pixels; what is pasted was copied, and its pixels are alive; a shown animation plays; the preview of a print has the image's size and follows the pointer |
| `ScrollViewAsSet` | `EomScrollView` | zoom, bars, offsets and commands agree |
| `RowsAsListed` | `EomListStore` | rows are those of the directory and their jobs alive |
| `CollectionAsSelected` | `EomThumbView` | a walk comes to every image, a removal to the next one; one row has room for all; no file is deleted for good without the dialog's words |
| `MetadataAsWritten` | the two readers | chunks are those of the file |
| `NamesDiffer` | `EomSaveAsDialog` | names are those of the preview; numbered ones differ |
| `PrintAsSet` | `EomPrintImageSetup` | image and margins fill the page; preview, combo box and print agree |

**Bounds.** `MaxIdles`, `MaxUndo` and `MaxJobs` cap the pending callbacks, the
undo stack, and the jobs alive at a time (in `EomWindowLoad` also the transforms
asked for and not applied, and the data references of an image when a save is
asked for). They stand in the guards of the actions
that would exceed them, and job objects are reused, so behaviours are
infinite. Two jobs of one class and one of another are enough for two jobs to meet in
one queue and to compete between queues; three callbacks for a finished one
between progress ones. The matrices make a group of eight elements and an undo
stack of two reaches all of it with a turn and a flip. In `EomWindowLoad` two images suffice
for an image before and an image now, and three load jobs for one that runs
while cleared, one whose callback is due while cleared, and the one waited for. In `EomListStore` two
files make every order of two rows, one in sight shifts under the other, and two jobs are
one that was given up while it ran and the one made after it; `MaxEvents` bounds
what the monitor has not delivered, and a step that needs a third job waits (a range, until there is a job for
each of its rows: `JobsLeft`).
Pixbufs up to 3x3 have the sizes the loop distinguishes: equal or unequal sides,
one, an even and an odd number of pixels.

Of the other modules: `MaxRequests`, `MaxChanges`, `MaxEvents` (scroll view, messages), `MaxLoads`,
`MaxTurns`, `MaxVersions`, `MaxPixbufs`, `MaxCopies`, `MaxPresses`, `MaxMoves`,
`MaxShows` count what the user and other programs do, and stop it. Three requests are a save, a
change in between and a close; two images are one that is saved and one that fails.
Three versions are the one a thumbnail was made of, one that it passes for and one
after. The scroll view has a picture that fits, one that needs both bars and one so thin that it fits only
below its least zoom; six
events zoom in, move and zoom out beyond where they began. The files of the readers
have every kind of chunk, one twice, one skipped, one with a wrong CRC, and a buffer
may end after every byte. Patterns are those in which a tag stands first, last,
twice or unfinished, and a `Base` of 2 brings the carries of the counter near.
In `progress` instances are smaller, and `EomApplication` has two windows and two files,
of which one is SVG.

**Fairness.** The render thread never ends and its lock is held for short
sections: weak fairness of its steps. The main loop ends its handlers and
dispatches idle callbacks once idle: weak fairness of the dispatch and of the
continuation of a handler, none of the user's actions. In `progress` there are three such conditions,
of the render thread, of the main loop's idle functions and drawing, and of timeouts;
GLib promises the last two. Nothing says that urgent
jobs stop coming, so `StarvedOnlyByUrgent` promises other jobs no more than it says,
and a slide show has to return only when the user and the directory leave it alone (`LeftAlone`).

`parts` and `progress` have deadlock checking off: their bounds count events, a
window or a save that is over stays so, and a program that aborts or crashes stops.
In `window_load` it is off because the program stops where images are saved: at the assertion of
`eom-window.c:891` (section 5).

## 4. The proofs

`tlapm` checks the theorems of these modules, from the named assumptions on the constants
(`ASSUME` in the module of the component) and the hypotheses that the statements give, for every value
of the constants: any number of jobs, images and files, pixbufs of every size, undo stacks of every length.

| module | proves | property of a run |
|---|---|---|
| `EomJobQueueProofs` | `TypeCorrect`, `ReferencesExact`, `CallbacksOnLiveJobs`, `PointersAlive`, `FinishedComesLast`, `WakeupsKept`, `Implements` | the safety properties of `jobqueue`, with the refinement `ImplementsLifecycle` |
| `EomTransformProofs` | `TypeAlwaysNamed`, `PixelsKept`, `ComposedSequential`, `LosslessAgrees`, `PrintedShown`, `UprightShown` | all of `transform_steps` |
| `EomImageProofs` | `TypeCorrect`, `SizesMatch`, `UndoMatches`, `LoadedExpected`, `PlainSaved`, `CameraThumbnail`, `CameraSaved` | all of `image`, and that a photograph's file stays upright |
| `EomWindowLoadProofs` | `TypeCorrect`, `Settled`, `NoPixelsRead`, `ViewHolds`, `Displayed` | the safety properties of `window_load` |
| `EomSavesProofs` | `SavesKnown`, `SavesAtomic` | `SavesAreKnown`, `SavesAreAtomic` of `parts` |
| | `Invariance`, `TypeCorrect`, `LossesKnown`, `KnowsJob`, `SeveralReplace` | the window's part of them, and of `EachTypeOK` |
| | `FileTypeCorrect`, `FileAtomic`, `FileForgotten` | the part of one image's save; `FileAtomic` is the promise of `AtomicSave` |
| `EomPartsProofs` | `PartsTell`, `PartsCopy`, `PartsList`, `PartsWalk`, `PartsArrange` | `WindowTells`, `CopiesAreOfImage`, `RowsAsListed`, `CollectionAsSelected`, `ScrollViewAsSet` of `parts` |
| | `ModeTells`, `MessageTells`, `NavTells`, `PaintedOnSettings` | the parts of the first, with their types |
| | `AnimationPlays`, `ThumbnailIsCurrent`, `ClipboardOwned`, `PreviewAsDragged` | the parts of the second, with their types |
| | `CollectionListed`, `ThumbsFollowed`, `ViewArranged` | the other three, with their types |
| `EomReadersProofs` | `MetadataRead` | `MetadataAsWritten` of `parts` |
| | `JpgRead`, `PngRead` | the part of each reader, with its types |
| `EomLemmas` | lemmas on sequences that are queues or put one after the other, and on the group of the eight transforms | |

Each safety theorem follows from an inductive invariant, which was model-checked before it was proved.

**The job queue.** That the reference count is
the number of holders is not inductive alone: popping, removing and dispatching
lower the number of holders by one only if a job is once in its queue
(`QueuedOnce`) and once among the finished callbacks (`FinishedOnce`), and a job
may be queued, run or reported but not two of these (`Stages`). That the
progress callbacks, which have no reference, run on live jobs follows from
`ProgressCovered`: the finished callback of the job is behind them or still to
come. `Implements` shows that each step is one of `JobLifecycle` or none: a job that is taken is of the
class before which all queues are empty (`TakesMostUrgent`), a job that is added had no holder, and whichever of
its holders lets a job go last frees one that is in no queue, not run and not to be reported. A job object
used again is a new job of `JobLifecycle`.

**Transforms.** The composed matrix is one of eight (`Units`), closed under composition and reversal, and
`Apply` is a bijection of the pixels. `StepsInv` says in one line what is on the screen: the stored
picture under one application of `Shown`, the turn composed with the user's transforms. That `Apply` of a
composition is what the two do in turn follows from the pixel read through the inverse, a
coordinate mirrored or not on each axis; libjpeg's transform, the printer's offsets and EXIF's words
are each compared with it in the eight cases.

**The image.** `TypeOK`, `SizeMatches` and `UndoMatchesTrans` are inductive together: the sizes after a turn are
right only for a picture that is a transform of the file's. The last one is stated
by the list of what the stack gives from below, so that pushing and popping extend and cut a witness and
no induction is needed. `PlainSaved` is about settings that are `Plain` (no file has an orientation; no metadata
load and no Save As), `CameraThumbnail` about those that are `Camera` (the user's transforms are none; files with an orientation
are JPEG), `LoadedExpected` about both. They are the cases in which the code keeps its promise. Section 5 has where it does not: transforms of an
autorotated image, a TIFF file with an orientation, a metadata load over pixels in memory, and Save As.

**Loading.** `IInv` says where a job is (in the queue of its kind, run, answered: one at a time), what a
handler of the main thread may count on while its steps are interrupted (`HeldInv`, `FollowsInv`), that a
load which is asked for finds a free job object (`RoomInv`), and that the bound on transforms covers
those that wait (`DueInv`). `NoPixelsRead` assumes
`NoMetadata = {}`: without metadata the assertion fails (`window_assert`). `ViewHolds` and
`Displayed` are about the settings in which nothing is saved: save jobs change the count of data references
without a lock, and the assertion of `eom-window.c:891` then fails (section 5). `PixelsInv`
adds the count of each image, one for the view or none.

**Saving.** For one image `StepInv` is what is known at each step of a save: what the
temporary file has, whether it ended, what was remembered of the target's mode. `MaxChanges \in Nat`, the bound
on what other programs do, is needed for types only. For the window, the loss of a change is a fact
about an image that is gone; before, its reason is spread over dialog, job and history: `DialogInv` (what changed since the
dialog listed the images is late), `ClosingInv` (what the closing job has not saved yet is in its list),
`WritersInv` (one job that writes is on its way while the window knows of one). The theorems
need `MaxImages > 0`, since the window shows an image when the model begins; types also `MaxRequests \in Nat`.

**The parts.** Each has an invariant that says what its properties leave open.
*Modes:* the settings and actions of the bars agree in the normal mode, and what fullscreen hides it has in its
settings; a bar neither needs nor changes another one (`EachBar`). *Messages:* the window has a handler on the image that
the view shows, and one status message at most. *Animations:* each load brings one timeout at most, which is still to come while
its animation does not play. *Thumbnails:* what a job will save, and
what the cache and the row have, is of the time they say or later, unless the change was missed, and a scaled picture is as long as its limit (`ScaledSize`, which needs `Quotient`: a part of a
number is not more than it). *Rows:* a job has one task, which is queued once or taken by the render thread, and a file has one
row; so the job whose end clears the pointer of a row by its file is the row's own, or one that was removed while it ran,
and a pointer that is not NULL is to a live job (`Sound`). Whether a file has a row is settled by what the monitor
has yet to tell of it: an image without a row is *coming* (created or written, and not deleted after), a row
whose file is no image is *changing* or *going* (`FileKnown`, for each file; `FirstDelivered` says that
what `file_monitor_changed_cb` does about the first event makes up for its going, although it looks at what the file is now).
The rows that a range has yet to call are there, because no handler runs in between (`RangeInv`). *The collection:* the rank of an image numbers the rows without a gap (`RankIs`,
`RankThere`, by the pigeonhole principle); the ranks of a tour differ by as many steps as lie between, or by that many less the
number of rows, so that a tour as long as the rows has each of them; while images go, the position to come back to is one
more than the number of rows before the first of them, because none of those goes (`TrashInv`, `PositionFollows`). *Bar buttons:* the value is within its bounds after each of the handlers that move it, and the
held button has its timeout. *Scroll view:* a handler need not leave
the view arranged, since GTK lays out later; `ScrollerInv` says what holds before that. A fitted picture has no bars, and
the zoom that fits it unless the display area has yet to hear of its size (`Fitted`); unless bars have yet to be laid out, the
display area is what they leave of the window, and the bars are the needed ones (`Arranged`); unless the area has yet to
hear, a bar has the picture's length and offset (`BarsTell`); the commands are offered by the zoom at all times (`Offered`). No bar
that `check_scrollbar_visibility` puts up makes another one needless, since each is decided with the room the other takes. The zoom factors are
integers, multiples of `1/Unit`; that each step of the user has a next one in `Levels` is `NextLevels`, by the least and the greatest
of a finite set. *Painting:* the pattern that is kept is that of the settings whatever is shown, unless
they changed behind its back (`PatternInv`). *Preview:* the surface is that of the image unless the flag says it is old, and
what a drag rejected on an axis was rejected at an end of it. *Clipboard:* between the steps of a copy two handlers live, the owner and the
new one; `Counted` has both, and holds with the new one as nobody or as the owner. The assumptions on the
constants (`ModeAssumption` and so on) say that bounds are numbers and lengths positive; that `Bars` has the collection and `Options` the
one of no slide show; that the images of a collection are finitely many positive numbers, in the order of the store; that the files of a directory are, that NULL is neither a job nor a task, and that no content is in two of the classes `none`, `other`, loadable and not loadable (`StoreAssumption`); that no picture is taller than long in the terms of `EomThumbnail`; and that the image fits on
the page in the preview, as the dialog sees to; and, of the scroll view, that pictures are not empty and a zoom of one is
among the zoom factors (`ViewAssumption`).

**The readers.** `JpgInv` and `PngInv` say where a reader is in its file, whatever the buffer: at which byte of which segment
or chunk, what it knows of it by then (`JpgWhere`, `PngWhere`), and that it has of each kind the first one before that place and part of the
one it is reading, since a part is what the buffers had so far (`TookPart`). A chunk with a wrong CRC that was asked for is the last
thing a PNG reader has to do with (`PngSound`). That the bytes at that place are those of the segment is `JpgLayout` and `PngLayout`,
from lemmas on `FlattenSeq`: what it joins up to an element is a prefix of what it joins up to the next (`JoinedKeeps`); the definition of
`FlattenSeq` chooses a function that is one such, and the lemmas need no more of it. Both have as their hypothesis what the properties have: that the reader did not go
astray or have to guess (section 5). The assumptions on the constants: a segment is one of those the reader knows (`JpgAssumption`), `IEND` is the
last chunk, sizes are those that the formats can write, and a checksum is any function that gives four bytes (`PngAssumption`).

**What stays with TLC.** Liveness (`StarvedOnlyByUrgent`, `RunIsReported`, `FollowedLoadAnswered`, the six
properties of `progress`) needs fairness and `ENABLED`, which the provers do not have. Of `parts`, two components are model-checked
only: the names of `EomSaveAsDialog` are folds over patterns, whose values for every pattern
would need induction over data; `EomPrintImageSetup` follows its nested handlers with a recursive operator. So `NamesDiffer` and `PrintAsSet` are TLC's, and
`EachTypeOK`, which has their types among those of the proved parts. Of the sums, those of the proved parts have theorems of their own: `PartsInv`, `SavesInv` and `ReadersInv` are the invariant of the
part that was chosen, under the assumptions on the constants of all (`PartsAssumption`, `SavesAssumption`, `ReadersAssumption`). The one of all
parts, which is the module of the run, is TLC's: its constants are small values.

*Reading the modules with two tools.* `tlapm` takes `SUBSET A \ B` for `SUBSET (A \ B)`, and `UNION`
likewise, where TLC takes `(SUBSET A) \ B`; the modules have the parentheses. Selections that TLC computes with
`SetToSortSeq` are stated by `CHOOSE` (`InOrder`, `RemoveAt`), about which facts can be derived.

## 5. Where the code and its documentation disagree

Kept as runs that TLC finds violated:

* `image_save_rotated`: the screen has the autorotation first and the flip
  second, the lossless save composes them the other way round
  (`eom-image-jpeg.c:127`), so the file shows another picture.
* `window_assert`: an image without EXIF or XMP never has "all data"; selected
  again while its first load sets the pixels, the second load fails the
  assertion `eom-image.c:903`.
* `window_cancel`: `cancel_loading` set after the loop of a load stays and stops
  the next load of the image.
* `list_visible`: the thumbnail bar keeps the range it asked for as positions
  and does nothing when they are the same; after a row of a full bar was removed, the row
  that comes into sight gets no thumbnail.
* `window_save_assert`: the save-as job asserts that the load of each image
  succeeds (`eom-jobs.c:787`), which a removed or damaged file makes fail.
* `window_svg`: with autorotation off nobody tells the size of an SVG file, and the window that was made
  for it is never shown.

Stated in the modules and violated when a configuration checks them:

* `EomImage!MetadataUpdated`: a transformed photograph that is left before it is
  saved is loaded again with its old orientation tag, which is written beside
  the turned pixels.
* `EomImage!TransformedIsModified`: an image with neither pixels nor thumbnail
  takes the transform but does not count as modified (`eom-image.c:431`).
* `EomImage!MetadataLoadKeepsImage`: a load of EXIF data alone transforms the
  pixels in memory again (`eom-image.c:1281`).
* `EomImage!ShownIsExpected`, for a TIFF image whose first load failed or was
  cancelled, and after Save As of an autorotated, unmodified photograph: it is
  not rotated any more. `ThumbnailIsExpected`, for transformed images:
  a thumbnail made from the pixels in memory is transformed again.
* `EomWindowLoad!ShownReady`: an image selected again between the pixels of a
  load and their rotation is shown unrotated.
* `EomWindowLoad!AssertHasPixels` with saves: a save job that ends frees the
  pixels between the end of a load job and its callback (`eom-window.c:891`).
* `EomWindowLoad!TransformsApplied`: a second transform clears a first one that
  is still queued (`eom-window.c:1465`).
* `EomWindowLoad!RetryLoads`: the Retry button finds the failed image current
  and loads nothing, though the comment at `eom-window.c:1298` says it triggers
  loading.

Met while modelling; the models do what the code does, and the properties name the case as an exception or leave it out:

* *The collection.* Opening a directory lists every image type and no hidden file; the
  monitor adds hidden files and removes an image that eom cannot load as soon as it is
  written again (`eom-list-store.c:467`, `:400`). A refreshed thumbnail whose new job is given
  up when the row goes out of sight is set by the old job (`:935`). A held thumbnail button keeps
  the number of a timeout that has ended (`eom-thumb-nav.c:208`).
* *The window.* Entering fullscreen clears the setting of the side pane, and a collection of
  one image that of the collection (`eom-window.c:2728`). The bar that asks to reload a
  changed file is about the image of then, its answer about the image of now (`:834`).
  Closing a window while it saves leaves it insensitive if it then asks (`:4285`). A transform that is still
  queued when the window closes is lost, and an error of the copy job ignored.
* *Two windows.* A second request to open files takes the window of the first as long as
  it is empty; one file opened twice while it is loading gets two windows
  (`eom-application.c:240`). A hidden window that loses its last image is not shown.
* *Saves.* `eom_image_save_as_by_info` leaves the target with the mode of the
  temporary file if it is new (`eom-image.c:1480`).
* *Animations.* A quick leave and return leaves two timeouts (`eom-image.c:2350`), and the animation plays
  faster.
* *Scroll view.* A setting that changes while an opaque picture is shown leaves
  the old pattern for the next transparent one (`eom-scroll-view.c:1493`). A layout may put up a bar
  without telling it its range (`:1126`). A thin picture, say of 4800 by 3 pixels, may be fitted (`:795`)
  below its own least zoom (`:686`); Zoom Out, whose tooltip is "Shrink the image" (`eom-window.c:3861`), is then offered
  (`:1656`) and enlarges it, to the least zoom (`:755`). `ZoomOffered` says for zooms from the least
  one on that commands are offered if they have an effect; the proof showed that it needs this condition.
* *Readers.* A skipped APP1 segment is skipped one byte too far, an empty one two
  (`eom-metadata-reader-jpg.c:250`, `:305`); an identification that a buffer cuts in two is not
  recognised. A cHRM or gAMA chunk that a buffer cuts goes on as an iCCP chunk
  (`eom-metadata-reader-png.c:426`, `:446`).
* *Dialogs.* The preview of Save As may show fewer zeros before the number
  (`eom-uri-converter.c:819`). A width of 0 typed into the print dialog, and margins typed beyond the range of
  the page before, leave its fields apart until the next change; an image that fills
  the page dragged by nothing is nowhere (`eom-print-preview.c:827`).

## 6. What is not modelled

Toolkit and libraries (GTK, GIO, gdk-pixbuf, libjpeg, libexif, lcms) appear
only as what eom sees of them. Layout, text, colour profiles beyond which one is chosen, the rendering of SVG, menus, drag
and drop, the tool bar editor, the sidebar's panes and the dialogs that only show values are left out.
`EomImage` does not interrupt a job. In `EomWindowLoad` a transform that meets
a free may put pixels back on a freed image; that
the old pixbuf is then dropped twice, which C leaves undefined, is not followed further.
`EomListStore` begins with the directory read, `EomApplication` leaves out a window that
is closed before its model job has called back. In the sums no component acts on another: what they share
(the image, the jobs, the files) each models as its environment does.
Vendored code (`cut-n-paste`, `jpegutils`) is taken as it is. `PROJECT.json` has
the reason for each component.

## 7. The plan

The components that carry the program's own logic are modelled, and the core of them is proved about. What is
left is proof: what `EomImage` promises when the user
transforms a photograph that was autorotated and saves it as it is shown.
