------------------------------- MODULE EomParts -------------------------------
(***************************************************************************)
(* Parts of the program that keep a state of their own and share none that *)
(* another one's module would need, side by side: the modes of a window    *)
(* and what it tells, an animation, a thumbnail, the rows of the           *)
(* collection, the selection and the trash, the buttons of the thumbnail   *)
(* bar, the layout and the painting of the scroll view, the preview of a   *)
(* print and the clipboard.                                                *)
(***************************************************************************)
EXTENDS EomPart, Integers, Sequences, FiniteSets

CONSTANTS Bars, Options, MaxListed,                         \* of EomWindowMode
          Pictures, MaxEvents,                              \* of EomWindowMessage
          MaxLoads, MaxTurns,                               \* of EomImageAnimation
          Sizes, Normal, Icon, MaxVersions,                 \* of EomThumbnail
          Directory, Dotted, Loadable, Unloadable, RowsShown, JobObjects, NoJob,
          MaxReports,                                       \* of EomListStore
          Gallery, Trashable, NeverAsk, MaxTurnover,        \* of EomThumbView
          Uppers, Pages, Deltas, Every, Wheel, MaxPresses,  \* of EomThumbNav
          Shapes, Frames, Pointers, Levels, Unit, MinZoomFactor, MaxZoomFactor,
          Multiplier, Stride, BarWidth, MaxInputs,          \* of EomScrollView
          Colors,                                           \* of EomScrollViewPaint
          Areas, Papers, Scales, Page, Whole, Moves, MaxMoves,  \* of EomPrintPreview
          MaxPixbufs, MaxCopies                             \* of EomClipboardHandler

VARIABLES win, count, pos, listing, loading, chosen, quiet, \* of EomWindowMode
          told, img, events,                                \* of EomWindowMessage
          movie, view, timers, rot,                         \* of EomImageAnimation
          original, cache, photo, job, row,                 \* of EomThumbnail
          contents, reports, listed, line, worker, results, firstRow, lastRow, topRow,
          rangeDue, rangeCalls,                             \* of EomListStore
          thumbs, trash, folder, turnover,                  \* of EomThumbView
          nav, timeouts, held,                              \* of EomThumbNav
          scroller, layout, inputs,                         \* of EomScrollView
          paint, seen, settled,                             \* of EomScrollViewPaint
          preview, drawn, idles, moves,                     \* of EomPrintPreview
          bitmap, refs, handlers, owner, pasted             \* of EomClipboardHandler

Mode == INSTANCE EomWindowMode WITH w <- win, n <- count, MaxImages <- MaxListed
Message == INSTANCE EomWindowMessage WITH w <- told, Images <- Pictures
Animation == INSTANCE EomImageAnimation WITH image <- movie, job <- rot
Thumbnail == INSTANCE EomThumbnail WITH file <- original, image <- photo
Store == INSTANCE EomListStore WITH
  Files <- Directory, Width <- RowsShown, Hidden <- Dotted, Pictures <- Loadable,
  Foreign <- Unloadable, Jobs <- JobObjects, None <- NoJob, MaxEvents <- MaxReports,
  disk <- contents, events <- reports, rows <- listed, queue <- line, running <- worker,
  answered <- results, start <- firstRow, end <- lastRow, top <- topRow, calls <- rangeCalls
Thumbs == INSTANCE EomThumbView WITH
  Images <- Gallery, MaxChanges <- MaxTurnover,
  view <- thumbs, disk <- folder, changes <- turnover
Nav == INSTANCE EomThumbNav
View == INSTANCE EomScrollView WITH
  Sizes <- Shapes, Windows <- Frames, Coords <- Pointers, Step <- Stride, Bar <- BarWidth,
  MaxEvents <- MaxInputs, v <- scroller, events <- inputs
Paint == INSTANCE EomScrollViewPaint WITH p <- paint, quiet <- settled
Preview == INSTANCE EomPrintPreview
Clipboard == INSTANCE EomClipboardHandler WITH image <- bitmap
-----------------------------------------------------------------------------
(* What the parts assume of their constants *)

\* The settings of the slide show are there when the window is constructed.
ModeAssumption ==
  /\ MaxListed \in Nat
  /\ "ViewImageCollection" \in Bars
  /\ Options \subseteq [random : BOOLEAN, loop : BOOLEAN, auto : BOOLEAN]
  /\ [random |-> FALSE, loop |-> FALSE, auto |-> FALSE] \in Options

MessageAssumption == 0 \notin Pictures /\ MaxEvents \in Nat

AnimationAssumption == MaxLoads \in Nat

ThumbnailAssumption ==
  /\ \A s \in Sizes : s \in [long : Nat \ {0}, short : Nat \ {0}] /\ s.short <= s.long
  /\ Normal \in Nat \ {0} /\ Icon \in Nat \ {0} /\ MaxVersions \in Nat \ {0}

\* A row is that of one file, and the files are in the order of their names.  NULL is
\* neither a job nor the task of one.
StoreAssumption ==
  /\ Directory \subseteq Nat /\ IsFiniteSet(Directory) /\ RowsShown \in Nat \ {0}
  /\ NoJob \notin JobObjects /\ NoJob \notin [job : JobObjects, file : Directory]
  /\ {"none", "other"} \cap (Loadable \cup Unloadable) = {}
  /\ Loadable \cap Unloadable = {} /\ MaxReports \in Nat

ThumbsAssumption == /\ Gallery \subseteq Nat \ {0} /\ IsFiniteSet(Gallery)
                    /\ MaxTurnover \in Nat

NavAssumption == /\ Uppers \subseteq Nat /\ Pages \subseteq Nat /\ Wheel \in Nat
                 /\ Deltas \in Seq(Nat) /\ Every \in Nat /\ MaxPresses \in Nat

\* A zoom of one is among the zoom factors.
ViewAssumption ==
  /\ Shapes \subseteq [View!Axes -> Nat \ {0}] /\ Frames \subseteq [View!Axes -> Nat]
  /\ Pointers \subseteq Int /\ Levels \subseteq Int /\ IsFiniteSet(Levels)
  /\ Unit \in Nat \ {0} /\ MinZoomFactor \in 1 .. Unit
  /\ MaxZoomFactor \in Nat /\ Unit <= MaxZoomFactor
  /\ Multiplier \in Nat \ {0} /\ Stride \in Nat /\ BarWidth \in Nat /\ MaxInputs \in Nat

\* The image fits on the page, as the dialog sees to.
PreviewAssumption ==
  /\ Areas \subseteq Nat /\ Papers \subseteq Nat \ {0} /\ Scales \subseteq Nat
  /\ Page \in [Preview!Axes -> Nat] /\ Whole \in Nat \ {0} /\ Moves \subseteq Int
  /\ MaxMoves \in Nat
  /\ \A area \in Areas, paper \in Papers, scale \in Scales, a \in Preview!Axes :
       ((2 * area) \div paper) * scale <= 2 * area * Page[a]

ClipboardAssumption == MaxPixbufs \in Nat /\ MaxCopies \in Nat

ASSUME PartsAssumption ==
  /\ ModeAssumption /\ MessageAssumption /\ AnimationAssumption /\ ThumbnailAssumption
  /\ StoreAssumption /\ ThumbsAssumption /\ NavAssumption /\ ViewAssumption
  /\ PreviewAssumption /\ ClipboardAssumption
-----------------------------------------------------------------------------
(* One part at a time *)

modeVars == <<win, count, pos, listing, loading, chosen, quiet>>
messageVars == <<told, img, events>>
animationVars == <<movie, view, timers, rot>>
thumbnailVars == <<original, cache, photo, job, row>>
rowVars == <<contents, reports, listed, line, worker, results, firstRow, lastRow, topRow,
             rangeDue, rangeCalls>>
thumbsVars == <<thumbs, trash, folder, turnover>>
navVars == <<nav, timeouts, held>>
viewVars == <<scroller, layout, inputs>>
paintVars == <<paint, seen, settled>>
previewVars == <<preview, drawn, idles, moves>>
clipboardVars == <<bitmap, refs, handlers, owner, pasted>>

partsVars == <<part, modeVars, messageVars, animationVars, thumbnailVars, rowVars, thumbsVars,
               navVars, viewVars, paintVars, previewVars, clipboardVars>>

PartsInit ==
  /\ IF part = "mode" THEN Mode!Init
     ELSE /\ win = Off /\ count = Off /\ pos = Off /\ listing = Off /\ loading = Off
          /\ chosen = Off /\ quiet = Off
  /\ IF part = "message" THEN Message!Init ELSE told = Off /\ img = Off /\ events = Off
  /\ IF part = "animation" THEN Animation!Init
     ELSE movie = Off /\ view = Off /\ timers = Off /\ rot = Off
  /\ IF part = "thumbnail" THEN Thumbnail!Init
     ELSE original = Off /\ cache = Off /\ photo = Off /\ job = Off /\ row = Off
  /\ IF part = "store" THEN Store!Init
     ELSE /\ contents = Off /\ reports = Off /\ listed = Off /\ line = Off /\ worker = Off
          /\ results = Off /\ firstRow = Off /\ lastRow = Off /\ topRow = Off
          /\ rangeDue = Off /\ rangeCalls = Off
  /\ IF part = "thumbs" THEN Thumbs!Init
     ELSE thumbs = Off /\ trash = Off /\ folder = Off /\ turnover = Off
  /\ IF part = "nav" THEN Nav!Init ELSE nav = Off /\ timeouts = Off /\ held = Off
  /\ IF part = "view" THEN View!Init ELSE scroller = Off /\ layout = Off /\ inputs = Off
  /\ IF part = "paint" THEN Paint!Init ELSE paint = Off /\ seen = Off /\ settled = Off
  /\ IF part = "preview" THEN Preview!Init
     ELSE preview = Off /\ drawn = Off /\ idles = Off /\ moves = Off
  /\ IF part = "clipboard" THEN Clipboard!Init
     ELSE bitmap = Off /\ refs = Off /\ handlers = Off /\ owner = Off /\ pasted = Off

PartsNext ==
  \/ /\ part = "mode" /\ Mode!Next
     /\ UNCHANGED <<part, messageVars, animationVars, thumbnailVars, rowVars, thumbsVars, navVars,
                    viewVars, paintVars, previewVars, clipboardVars>>
  \/ /\ part = "message" /\ Message!Next
     /\ UNCHANGED <<part, modeVars, animationVars, thumbnailVars, rowVars, thumbsVars, navVars,
                    viewVars, paintVars, previewVars, clipboardVars>>
  \/ /\ part = "animation" /\ Animation!Next
     /\ UNCHANGED <<part, modeVars, messageVars, thumbnailVars, rowVars, thumbsVars, navVars,
                    viewVars, paintVars, previewVars, clipboardVars>>
  \/ /\ part = "thumbnail" /\ Thumbnail!Next
     /\ UNCHANGED <<part, modeVars, messageVars, animationVars, rowVars, thumbsVars, navVars,
                    viewVars, paintVars, previewVars, clipboardVars>>
  \/ /\ part = "store" /\ Store!Next
     /\ UNCHANGED <<part, modeVars, messageVars, animationVars, thumbnailVars, thumbsVars,
                    navVars, viewVars, paintVars, previewVars, clipboardVars>>
  \/ /\ part = "thumbs" /\ Thumbs!Next
     /\ UNCHANGED <<part, modeVars, messageVars, animationVars, thumbnailVars, rowVars, navVars,
                    viewVars, paintVars, previewVars, clipboardVars>>
  \/ /\ part = "nav" /\ Nav!Next
     /\ UNCHANGED <<part, modeVars, messageVars, animationVars, thumbnailVars, rowVars, thumbsVars,
                    viewVars, paintVars, previewVars, clipboardVars>>
  \/ /\ part = "view" /\ View!Next
     /\ UNCHANGED <<part, modeVars, messageVars, animationVars, thumbnailVars, rowVars, thumbsVars,
                    navVars, paintVars, previewVars, clipboardVars>>
  \/ /\ part = "paint" /\ Paint!Next
     /\ UNCHANGED <<part, modeVars, messageVars, animationVars, thumbnailVars, rowVars, thumbsVars,
                    navVars, viewVars, previewVars, clipboardVars>>
  \/ /\ part = "preview" /\ Preview!Next
     /\ UNCHANGED <<part, modeVars, messageVars, animationVars, thumbnailVars, rowVars, thumbsVars,
                    navVars, viewVars, paintVars, clipboardVars>>
  \/ /\ part = "clipboard" /\ Clipboard!Next
     /\ UNCHANGED <<part, modeVars, messageVars, animationVars, thumbnailVars, rowVars, thumbsVars,
                    navVars, viewVars, paintVars, previewVars>>

PartsSpec == PartsInit /\ [][PartsNext]_partsVars
-----------------------------------------------------------------------------
\* What the user is told is so: the timers, bars and actions of a window are those of its
\* mode (eom_window_run_fullscreen, eom_window_stop_fullscreen), it hears of the image that
\* it shows and its status bar tells what goes on (eom_job_load_cb, eom_job_save_cb), the
\* thumbnail bar has the buttons it needs (eom_thumb_nav_adj_value_changed), and the scroll
\* view paints a picture on the ground that is set (display_draw).
WindowTells ==
  /\ part = "mode" => Mode!TimersFitMode /\ Mode!ModeIsShown /\ Mode!BarsAsChosen
  /\ part = "message" => Message!ShownIsHeard /\ Message!StatusTells
  /\ part = "nav" => Nav!ButtonsTell
  /\ part = "paint" => Paint!PaintedAsSet

\* What else shows an image shows it as it is now: the cached thumbnail and the one in the
\* row (eom_thumbnail_load), a pasted copy (eom_clipboard_get_func), an animation, which
\* plays (eom_image_start_animation), the preview of a print (eom_print_preview_draw).
CopiesAreOfImage ==
  /\ part = "thumbnail" => Thumbnail!CacheIsCurrent /\ Thumbnail!ThumbnailFits
  /\ part = "clipboard" => Clipboard!HandlerWhileOwner /\ Clipboard!PastedIsCopied
  /\ part = "animation" => Animation!ShownAnimationPlays
  /\ part = "preview" => Preview!DrawnAsSet /\ Preview!StaysUnderPointer

\* The collection is that of the directory, row by row in its order
\* (file_monitor_changed_cb), and each of its rows has the job that is told of it
\* (eom_list_store_thumbnail_request).
RowsAsListed == part = "store" => Store!RowsMatchDirectory /\ Store!RowJobsAlive

\* Who walks through the collection comes to every image, and stands on the next one after a
\* removal; one row has room for all (eom_thumb_view_select_single,
\* eom_window_cmd_move_to_trash); a file is deleted for good only when the user was told so
\* (force_image_delete_real).
CollectionAsSelected ==
  part = "thumbs" => /\ Thumbs!FollowingIsSelected /\ Thumbs!TourIsComplete
                     /\ Thumbs!OneRow /\ Thumbs!NothingLostUntold

\* When the layout is done, the scroll view shows the image as its zoom mode says, has the
\* bars it needs and offers the zoom there is (eom_scroll_view_size_allocate,
\* display_size_change, set_zoom).
ScrollViewAsSet ==
  part = "view" => /\ View!FitShowsAll /\ View!BarsAsNeeded
                   /\ View!OffsetsInBounds /\ View!ZoomOffered
=============================================================================
