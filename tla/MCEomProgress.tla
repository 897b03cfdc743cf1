---------------------------- MODULE MCEomProgress ----------------------------
(***************************************************************************)
(* What must come in the end: the parts that owe the user something, on    *)
(* smaller instances than those of MCEomParts, with the fairness of the    *)
(* render thread and the main loop.  Which part is explored is chosen at   *)
(* the start; x1 to x9 are its variables, and Off if it does not need them.*)
(***************************************************************************)
EXTENDS Integers

VARIABLES part, x1, x2, x3, x4, x5, x6, x7, x8, x9

vars == <<part, x1, x2, x3, x4, x5, x6, x7, x8, x9>>

Off == FALSE

Mode == INSTANCE EomWindowMode WITH
  Bars <- {"ViewImageCollection"}, MaxImages <- 2,
  Options <- {[random |-> FALSE, loop |-> loop, auto |-> TRUE] : loop \in BOOLEAN},
  w <- x1, n <- x2, pos <- x3, listing <- x4, loading <- x5, chosen <- x6, quiet <- x7

Save == INSTANCE EomWindowSave WITH
  MaxImages <- 2, Jpegs <- {1}, Disabled <- FALSE, MaxRequests <- 2,
  disk <- x1, image <- x2, w <- x3, queue <- x4, running <- x5, ended <- x6,
  wall <- x7, h <- x8, requests <- x9

Application == INSTANCE EomApplication WITH
  Files <- 1..2, Svg <- {2}, Autorotate <- TRUE, Windows <- 1..2, MaxRequests <- 2,
  disk <- x1, windows <- x2, queue <- x3, idles <- x4, requests <- x5

Paint == INSTANCE EomScrollViewPaint WITH Colors <- {1}, p <- x1, seen <- x2, quiet <- x3

Animation == INSTANCE EomImageAnimation WITH
  MaxLoads <- 3, MaxTurns <- 3, image <- x1, view <- x2, timers <- x3, job <- x4

Tooltip == INSTANCE EomThumbTooltip WITH
  MaxShows <- 2, image <- x1, tip <- x2, jobs <- x3, ended <- x4

Off8 == x8 = Off /\ x9 = Off
Off6 == x6 = Off /\ x7 = Off /\ Off8
Off5 == x5 = Off /\ Off6
Off4 == x4 = Off /\ Off5

Init ==
  \/ part = "mode" /\ Mode!Init /\ Off8
  \/ part = "save" /\ Save!Init
  \/ part = "application" /\ Application!Init /\ Off6
  \/ part = "paint" /\ Paint!Init /\ Off4
  \/ part = "animation" /\ Animation!Init /\ Off5
  \/ part = "tooltip" /\ Tooltip!Init /\ Off5

After8 == <<part, x8, x9>>
After6 == <<x6, x7, After8>>
After5 == <<x5, After6>>
After4 == <<x4, After5>>

Next ==
  \/ part = "mode" /\ Mode!Next /\ UNCHANGED After8
  \/ part = "save" /\ Save!Next /\ UNCHANGED part
  \/ part = "application" /\ Application!Next /\ UNCHANGED After6
  \/ part = "paint" /\ Paint!Next /\ UNCHANGED After4
  \/ part = "animation" /\ Animation!Next /\ UNCHANGED After5
  \/ part = "tooltip" /\ Tooltip!Next /\ UNCHANGED After5

\* The render thread: the next job of the queue, or the two halves of a transform
RenderThread ==
  \/ part = "save" /\ Save!Thread /\ UNCHANGED part
  \/ part = "application" /\ Application!Run /\ UNCHANGED After6
  \/ part = "animation" /\ (Animation!Replace \/ Animation!Compose) /\ UNCHANGED After5
  \/ part = "tooltip" /\ Tooltip!Run /\ UNCHANGED After5

\* The main loop: an idle function, or what GTK does in one
MainLoop ==
  \/ part = "save" /\ Save!Finished /\ UNCHANGED part
  \/ part = "application" /\ Application!Dispatch /\ UNCHANGED After6
  \/ part = "paint" /\ Paint!DisplayDraw /\ UNCHANGED <<x3, After4>>
  \/ part = "animation" /\ Animation!Modified /\ UNCHANGED After5
  \/ part = "tooltip" /\ Tooltip!DataLoaded /\ UNCHANGED After5

\* Timeouts: of the slide show, the second drawing, the animation, the tooltip
Timeout ==
  \/ part = "mode" /\ Mode!SlideshowSwitch /\ UNCHANGED After8
  \/ part = "paint" /\ Paint!HqRedraw /\ UNCHANGED <<x2, x3, After4>>
  \/ part = "animation" /\ Animation!PrivateTimeout /\ UNCHANGED After5
  \/ part = "tooltip" /\ Tooltip!QueryTooltip /\ UNCHANGED After5

Spec == Init /\ [][Next]_vars /\ WF_vars(RenderThread) /\ WF_vars(MainLoop) /\ WF_vars(Timeout)
-----------------------------------------------------------------------------
\* A window that was made for files is shown, whichever of them can be loaded and whatever
\* else it is asked to open (eom_window_obtain_desired_size, eom_job_load_cb).
WindowIsShown ==
  \A n \in 1..2 : (part = "application" /\ x2[n].state = "hidden") ~>
                    (part = "application" => Application!Shown(n))

\* A window that is closed while it saves is gone or asks (eom_window_finish_saving), and
\* a slide show that does not loop ends (slideshow_switch_cb).
WindowEnds ==
  /\ (part = "save" /\ x3.finishing) ~> (part = "save" => Save!Answered)
  /\ (part = "mode" /\ Mode!LeftAlone) ~> (part = "mode" => x1.mode = "NORMAL")

\* The picture comes: it ends up sharp (_hq_redraw_cb), an animation gets the turns of the
\* user (eom_image_transform, eom_image_iter_advance), and a tooltip what it needs of the
\* file (thumbview_on_query_tooltip_cb).
PictureComes ==
  /\ (part = "paint" /\ x3 /\ x1.image # "none") ~> [](part = "paint" => Paint!Sharp)
  /\ (part = "animation" /\ x2.follows) ~> (part = "animation" => Animation!TurnIsSeen)
  /\ (part = "tooltip" /\ Tooltip!Waits) ~> (part = "tooltip" => Tooltip!Served)
=============================================================================
