--------------------------- MODULE EomImageAnimation ---------------------------
(***************************************************************************)
(* The animation of src/src/eom-image.c: the frames that a timeout of the  *)
(* main thread puts into the image while the render thread turns the image *)
(* for the user, and while the window shows it, leaves it and comes back.  *)
(*                                                                         *)
(* Of the pixels it matters how often they were turned, by a quarter; which *)
(* frame they are of does not.                                             *)
(***************************************************************************)
EXTENDS Integers

CONSTANTS MaxLoads,     \* bound: how often the image is loaded
          MaxTurns      \* bound: how often the user turns it

VARIABLES image,        \* EomImagePrivate
          view,         \* EomScrollViewPrivate
          timers,       \* the timeouts of the image that are pending
          job           \* the transform job of the render thread

animationVars == <<image, view, timers, job>>

None == -1
Turned(pixels, n) == (pixels + n) % 4

\* eom_image_free_mem_private: no timeout is removed.
FreeMem(i) == [i EXCEPT !.pixels = None, !.anim = FALSE, !.playing = FALSE]

\* eom_image_load: pixels that are there already stay, and are no animation then.
Load ==
  /\ ~view.shown /\ job.step = "none" /\ image.loads < MaxLoads
  /\ image' = IF image.pixels # None THEN [image EXCEPT !.loads = @ + 1]
              ELSE [image EXCEPT !.pixels = image.trans, !.anim = TRUE, !.loads = @ + 1]
  /\ UNCHANGED <<view, timers, job>>

\* eom_image_start_animation, unless it plays
StartAnimation ==
  IF image.anim /\ ~image.playing
  THEN image' = [image EXCEPT !.playing = TRUE] /\ timers' = timers + 1
  ELSE UNCHANGED <<image, timers>>

\* eom_scroll_view_set_image
Display ==
  /\ ~view.shown /\ image.pixels # None
  /\ view' = [shown |-> TRUE, pixels |-> image.pixels, follows |-> image.anim]
  /\ StartAnimation /\ UNCHANGED job

\* free_image_resources
Leave ==
  /\ view.shown
  /\ view' = [shown |-> FALSE, pixels |-> None, follows |-> FALSE]
  /\ image' = FreeMem(image)
  /\ UNCHANGED <<timers, job>>

\* Mutant: frames come as they are in the file.
IterAdvancePlain == 0

\* eom_image_iter_advance keeps the transformation over time.
IterAdvance == image.trans

\* Mutant: the timeout does not add itself again.
PrivateTimeoutOnce ==
  /\ timers > 0 /\ timers' = timers - 1
  /\ image' = [image EXCEPT !.playing = image.anim, !.pixels = IF image.anim THEN 0 ELSE @]
  /\ UNCHANGED <<view, job>>

\* private_timeout adds itself again as long as the image plays; next-frame tells the view.
PrivateTimeout ==
  /\ timers > 0
  /\ IF image.anim /\ image.playing
     THEN /\ image' = [image EXCEPT !.pixels = IterAdvance]
          /\ view' = IF view.follows THEN [view EXCEPT !.pixels = IterAdvance] ELSE view
          /\ UNCHANGED timers
     ELSE /\ image' = [image EXCEPT !.playing = FALSE]
          /\ timers' = timers - 1 /\ UNCHANGED view
  /\ UNCHANGED job
-----------------------------------------------------------------------------
(* eom_image_real_transform on the render thread, in the steps that others see *)

RotateOrUndo ==
  /\ job.step = "none" /\ job.turns < MaxTurns
  /\ \E turn \in {1, 3} :
       job' = [job EXCEPT !.turn = turn, !.turns = @ + 1,
                 !.step = IF image.pixels # None THEN "applied" ELSE "replaced",
                 !.pixels = IF image.pixels # None THEN Turned(image.pixels, turn) ELSE None]
  /\ UNCHANGED <<image, view, timers>>

\* The pixels replace whatever the image has now.
Replace ==
  /\ job.step = "applied" /\ job' = [job EXCEPT !.step = "replaced"]
  /\ image' = [image EXCEPT !.pixels = job.pixels]
  /\ UNCHANGED <<view, timers>>

Compose ==
  /\ job.step = "replaced" /\ job' = [job EXCEPT !.step = "none", !.pixels = None, !.idle = TRUE]
  /\ image' = [image EXCEPT !.trans = Turned(@, job.turn)]
  /\ UNCHANGED <<view, timers>>

\* eom_job_transform_image_modified in the main thread: image_changed_cb of the view
Modified ==
  /\ job.idle /\ job' = [job EXCEPT !.idle = FALSE]
  /\ view' = IF view.shown THEN [view EXCEPT !.pixels = image.pixels] ELSE view
  /\ UNCHANGED <<image, timers>>

Init ==
  /\ image = [pixels |-> None, anim |-> FALSE, playing |-> FALSE, trans |-> 0, loads |-> 0]
  /\ view = [shown |-> FALSE, pixels |-> None, follows |-> FALSE]
  /\ timers = 0
  /\ job = [step |-> "none", turn |-> 0, turns |-> 0, pixels |-> None, idle |-> FALSE]

Next == \/ Load \/ Display \/ Leave \/ PrivateTimeout
        \/ RotateOrUndo \/ Replace \/ Compose \/ Modified
-----------------------------------------------------------------------------
\* Every variable has its type.
TypeOK ==
  /\ {image.pixels, view.pixels, job.pixels} \subseteq {None} \cup 0..3
  /\ image.trans \in 0..3 /\ timers \in 0..MaxLoads
  /\ {image.anim, image.playing, view.shown, view.follows, job.idle} \subseteq BOOLEAN
  /\ job.step \in {"none", "applied", "replaced"}

\* An animation that is shown plays, and somebody will bring its next frame: however the
\* timeouts that leaving it did not remove end. (That it has one only is not so: after a
\* quick leave and return the old timeout goes on beside the new one.)
ShownAnimationPlays ==
  view.follows => image.anim /\ image.playing /\ timers > 0

\* What is shown of an animation gets the turns of the user in the end, though the pixels
\* and the turns of the image are replaced one after the other while frames come.
TurnIsSeen == ~view.follows \/ view.pixels = image.trans
TurnIsKept == view.follows ~> TurnIsSeen
=============================================================================
