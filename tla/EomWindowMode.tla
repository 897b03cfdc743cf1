---------------------------- MODULE EomWindowMode ----------------------------
(***************************************************************************)
(* src/src/eom-window.c: the mode of a window (normal, fullscreen, slide   *)
(* show), the two timeouts that belong to it, the bars that it hides, the  *)
(* toggle actions that show it and the settings they write.                *)
(*                                                                         *)
(* Everything runs on the main loop: keys, the pointer, timeouts, rows     *)
(* that come and go, and the answers of the model job and the load job.    *)
(* A toggle action that is set by the program activates its command.       *)
(***************************************************************************)
EXTENDS Naturals

CONSTANTS Bars,        \* the bars that are looked at: "ViewToolbar", "ViewStatusbar"
                       \* and the Panes
          Options,     \* the slide show's settings: [random, loop, auto], auto
                       \* when an image is shown for more than 0 seconds
          MaxImages    \* bound: images in the collection

Panes == {"ViewImageCollection", "ViewSidebar"}

VARIABLES w,         \* EomWindowPrivate and its widgets
          n,         \* the length of the list store
          pos,       \* the selected position, 0 if there is none
          listing,   \* a model job is due
          loading,   \* the load job: "none", "plain", or, while the window
                     \* waits for its first image, "init" and then "sized"
          chosen,    \* history: the settings the user asked for
          quiet      \* from now on nobody touches the window or its files

vars == <<w, n, pos, listing, loading, chosen, quiet>>

Fullscreen(s) == s.mode \in {"FULLSCREEN", "SLIDESHOW"}
-----------------------------------------------------------------------------
(* Bars *)

\* eom_window_cmd_show_hide_bar, when the action is toggled
ShowHideBar(s, bar) ==
  IF s.mode \notin {"NORMAL", "FULLSCREEN"} THEN s
  ELSE [s EXCEPT !.visible[bar] = s.active[bar],
                 !.setting[bar] = IF bar \in Panes \/ s.mode = "NORMAL"
                                  THEN s.active[bar] ELSE @]

SetActive(s, bar, active) ==
  IF s.active[bar] = active THEN s
  ELSE ShowHideBar([s EXCEPT !.active[bar] = active], bar)

UpdateBar(s, bar) ==
  LET hidden == IF bar = "ViewImageCollection" THEN s.mode = "SLIDESHOW" ELSE Fullscreen(s)
      visible == s.setting[bar] /\ ~hidden
  IN [SetActive(s, bar, visible) EXCEPT !.visible[bar] = visible]

\* One after the other; what is done to a bar neither needs nor changes another one.
EachBar(s, done) ==
  [s EXCEPT !.active = [b \in Bars |-> done[b].active[b]],
            !.visible = [b \in Bars |-> done[b].visible[b]],
            !.setting = [b \in Bars |-> done[b].setting[b]]]

\* update_ui_visibility: the popup is hidden, too.
UpdateUiVisibility(s) ==
  LET updated == [b \in Bars |-> IF b = "ViewImageCollection" /\ s.status = "INIT" THEN s
                                 ELSE UpdateBar(s, b)]
  IN [EachBar(s, updated) EXCEPT !.popup = IF @ = "none" THEN @ ELSE "hidden"]

\* update_action_groups_state for a number of images
UpdateActionGroupsState(s, images) ==
  IF images = 0
  THEN [s EXCEPT !.usable = FALSE,
                 !.status = IF @ = "INIT" THEN "NORMAL" ELSE @]
  ELSE LET bar == "ViewImageCollection"
           show == s.setting[bar] /\ images > 1 /\ s.mode # "SLIDESHOW"
           shown == [s EXCEPT !.visible[bar] = show \/ @, !.usable = TRUE]
       IN [SetActive(shown, bar, show) EXCEPT !.reachable = images > 1 /\ @]
-----------------------------------------------------------------------------
(* Fullscreen and slide show *)

FullscreenClearTimeout(s) == [s EXCEPT !.hide = FALSE]
FullscreenSetTimeout(s) == [s EXCEPT !.hide = TRUE, !.cursor = TRUE]

SlideshowClearTimeout(s) == [s EXCEPT !.timer = FALSE]
SlideshowSetTimeout(s) == [s EXCEPT !.timer = s.opt.auto]

UpdateFullscreenAction(s) == [s EXCEPT !.full = s.mode = "FULLSCREEN"]
UpdateSlideshowAction(s) == [s EXCEPT !.show = s.mode = "SLIDESHOW"]

\* A second cookie is not asked for.
InhibitScreensaver(s) == [s EXCEPT !.cookie = TRUE]
UninhibitScreensaver(s) == [s EXCEPT !.cookie = FALSE]

\* eom_window_create_fullscreen_popup
CreatePopup(s) == [s EXCEPT !.popup = IF @ = "none" THEN "hidden" ELSE @]

\* The part of eom_window_run_fullscreen that follows the change of the mode
Run(s, slideshow, options) ==
  LET s1 == [UpdateUiVisibility(CreatePopup(s)) EXCEPT !.menubar = FALSE, !.wired = TRUE]
      s2 == FullscreenSetTimeout(s1)
      s3 == IF slideshow THEN SlideshowSetTimeout([s2 EXCEPT !.opt = options]) ELSE s2
  IN UpdateFullscreenAction(UpdateSlideshowAction(InhibitScreensaver(s3)))

Mode(slideshow) == IF slideshow THEN "SLIDESHOW" ELSE "FULLSCREEN"

\* Mutants: the timer goes on when the slide show is paused; the bars are
\* hidden before the mode changes.
RunFullscreenTimer(s, slideshow, options) ==
  Run([s EXCEPT !.mode = Mode(slideshow)], slideshow, options)

RunFullscreenLate(s, slideshow, options) ==
  LET hidden == [b \in Bars |-> IF b \in Panes THEN s ELSE SetActive(s, b, FALSE)]
  IN Run([EachBar(s, hidden) EXCEPT !.mode = Mode(slideshow), !.timer = FALSE], slideshow, options)

\* eom_window_run_fullscreen
RunFullscreen(s, slideshow, options) ==
  LET s1 == IF ~slideshow /\ s.mode = "SLIDESHOW" THEN SlideshowClearTimeout(s) ELSE s
  IN Run([s1 EXCEPT !.mode = Mode(slideshow)], slideshow, options)

\* Mutant: the action of the other mode is brought up to date.
StopFullscreenSwapped(s, slideshow) ==
  IF ~Fullscreen(s) THEN s
  ELSE LET s1 == [FullscreenClearTimeout(s) EXCEPT !.mode = "NORMAL", !.wired = FALSE]
           s2 == UpdateUiVisibility(IF slideshow THEN SlideshowClearTimeout(s1) ELSE s1)
           s3 == IF slideshow THEN UpdateFullscreenAction(s2) ELSE UpdateSlideshowAction(s2)
       IN UninhibitScreensaver([s3 EXCEPT !.menubar = TRUE, !.cursor = TRUE])

\* eom_window_stop_fullscreen: the timer and the action of one mode only
StopFullscreen(s, slideshow) ==
  IF ~Fullscreen(s) THEN s
  ELSE LET s1 == [FullscreenClearTimeout(s) EXCEPT !.mode = "NORMAL", !.wired = FALSE]
           s2 == UpdateUiVisibility(IF slideshow THEN SlideshowClearTimeout(s1) ELSE s1)
           s3 == IF slideshow THEN UpdateSlideshowAction(s2) ELSE UpdateFullscreenAction(s2)
       IN UninhibitScreensaver([s3 EXCEPT !.menubar = TRUE, !.cursor = TRUE])

\* eom_window_construct_ui, without and with a startup flag
Blank(setting) ==
  [mode |-> "UNKNOWN", status |-> "UNKNOWN", open |-> TRUE,
   timer |-> FALSE, hide |-> FALSE, popup |-> "none", wired |-> FALSE,
   cookie |-> FALSE, cursor |-> TRUE, menubar |-> TRUE,
   full |-> FALSE, show |-> FALSE, usable |-> FALSE, reachable |-> TRUE,
   opt |-> [random |-> FALSE, loop |-> FALSE, auto |-> FALSE],
   active |-> [b \in Bars |-> TRUE], visible |-> [b \in Bars |-> TRUE],
   setting |-> setting]

Constructed(setting, startup, options) ==
  LET s == UpdateActionGroupsState(Blank(setting), 0)
  IN IF startup = "NORMAL" THEN UpdateUiVisibility([s EXCEPT !.mode = "NORMAL"])
     ELSE RunFullscreen(s, startup = "SLIDESHOW", options)

Init == /\ chosen \in [Bars -> BOOLEAN]
        /\ \E startup \in {"NORMAL", "FULLSCREEN", "SLIDESHOW"}, options \in Options :
             w = Constructed(chosen, startup, options)
        /\ n = 0 /\ pos = 0 /\ listing = FALSE /\ loading = "none" /\ quiet = FALSE
-----------------------------------------------------------------------------
(* The user; shortcuts work for actions that are sensitive. *)

User == w.open /\ ~quiet
Collection == <<n, pos, listing, loading>>

Become(s) == w' = s /\ UNCHANGED <<Collection, chosen, quiet>>

\* The commands of ViewFullscreen and ViewSlideshow; the latter's group is
\* sensitive when there are two images.  Pause sets the action aright.
CmdFullscreen == /\ User /\ w.usable
                 /\ IF w.full THEN Become(StopFullscreen(w, FALSE))
                    ELSE \E o \in Options : Become(RunFullscreen(w, FALSE, o))

CmdSlideshow == /\ User /\ n > 1
                /\ IF w.show THEN Become(StopFullscreen(w, TRUE))
                   ELSE \E o \in Options : Become(RunFullscreen(w, TRUE, o))

\* eom_window_cmd_pause_slideshow, and the key P, which needs no action
Pause == /\ User /\ Fullscreen(w)
         /\ \E o \in Options : Become(RunFullscreen(w, w.mode # "SLIDESHOW", o))

\* exit_fullscreen_button_clicked_cb: setting an action that is not active
\* does nothing.
ExitButton ==
  /\ User /\ w.popup = "shown"
  /\ IF w.mode = "SLIDESHOW" THEN w.show /\ Become(StopFullscreen(w, TRUE))
                             ELSE w.full /\ Become(StopFullscreen(w, FALSE))

\* eom_window_dispose
Disposed(s) ==
  LET quit == [FullscreenClearTimeout(s) EXCEPT !.open = FALSE, !.popup = "none"]
  IN UninhibitScreensaver(SlideshowClearTimeout(quit))

\* Q or Escape, and a click on the window's frame
Leave == /\ User
         /\ Become(IF Fullscreen(w) THEN StopFullscreen(w, w.mode = "SLIDESHOW")
                                    ELSE Disposed(w))
Close == User /\ Become(Disposed(w))

\* eom_window_set_mode, which the fullscreen plugin calls on a double click
SetMode ==
  /\ User
  /\ \E mode \in {"NORMAL", "FULLSCREEN", "SLIDESHOW"} \ {w.mode} :
       IF mode = "NORMAL" THEN Become(StopFullscreen(w, w.mode = "SLIDESHOW"))
       ELSE \E o \in Options : Become(RunFullscreen(w, mode = "SLIDESHOW", o))

\* The View menu
ToggleBar ==
  /\ User
  /\ \E bar \in Bars :
       /\ (bar = "ViewImageCollection" => w.reachable)
       /\ w' = SetActive(w, bar, ~w.active[bar])
       /\ chosen' = IF w.mode = "NORMAL" \/ (bar \in Panes /\ w.mode = "FULLSCREEN")
                    THEN [chosen EXCEPT ![bar] = ~w.active[bar]] ELSE chosen
  /\ UNCHANGED <<Collection, quiet>>

ShowFullscreenPopup(s) == FullscreenSetTimeout([s EXCEPT !.popup = "shown"])

\* fullscreen_motion_notify_cb, near the upper edge and elsewhere
Motion == /\ User /\ w.wired
          /\ \E s \in {ShowFullscreenPopup(w), FullscreenSetTimeout(w)} : Become(s)

\* fullscreen_leave_notify_cb, which is called when the popup is entered, too
LeaveNotify == /\ User /\ w.wired
               /\ Become(FullscreenClearTimeout(w))

FocusOut == /\ w.open /\ Fullscreen(w)
            /\ Become([w EXCEPT !.popup = "hidden"])

FallQuiet == /\ w.open /\ ~quiet /\ quiet' = TRUE
             /\ UNCHANGED <<w, Collection, chosen>>
-----------------------------------------------------------------------------
(* The collection *)

\* A position is selected: a load job, unless the image has its data.
Select(p) ==
  /\ pos' = p
  /\ loading' \in {"none", IF w.status = "INIT" THEN "init" ELSE "plain"}

\* Mutant: past the end.
RightPast == pos + 1

\* eom_thumb_view_select_single to the right, to the left, and anywhere
Right == IF pos = n THEN 1 ELSE pos + 1
Left == IF pos <= 1 THEN n ELSE pos - 1

\* A key that moves on: the timer starts again, as it did when it was set.
Navigate ==
  /\ User /\ n > 0
  /\ \E p \in {Left, Right} : Select(p)
  /\ w' = IF w.mode = "SLIDESHOW" THEN SlideshowSetTimeout(w) ELSE w
  /\ UNCHANGED <<n, listing, chosen, quiet>>

\* eom_window_open_file_list and eom_job_model_cb
OpenFileList == /\ User /\ ~listing /\ listing' = TRUE
                /\ w' = [w EXCEPT !.status = "INIT"]
                /\ UNCHANGED <<n, pos, loading, chosen, quiet>>

ModelLoaded ==
  /\ w.open /\ listing /\ listing' = FALSE
  /\ \/ /\ n' \in 1 .. MaxImages
        /\ \E p \in 1 .. n' : Select(p)
        /\ UNCHANGED w
     \/ /\ n' = 0 /\ pos' = 0
        /\ w' = UpdateActionGroupsState([w EXCEPT !.status = "NORMAL"], 0)
        /\ UNCHANGED loading
  /\ UNCHANGED <<chosen, quiet>>

\* eom_window_list_store_image_added and _removed: the monitor's, which
\* leaves nothing selected, or the trash's, which selects the next.
RowAdded == /\ User /\ n < MaxImages /\ n' = n + 1
            /\ pos' \in {pos} \cup {p + 1 : p \in {pos} \ {0}}
            /\ w' = UpdateActionGroupsState(w, n + 1)
            /\ UNCHANGED <<listing, loading, chosen, quiet>>

RowRemoved == /\ User /\ n > 0 /\ n' = n - 1
              /\ \E p \in 0 .. n - 1 :
                   \/ p \in {pos, pos - 1} /\ Select(p)
                   \/ p = 0 /\ pos' = 0 /\ UNCHANGED loading
              /\ w' = UpdateActionGroupsState(w, n - 1)
              /\ UNCHANGED <<listing, chosen, quiet>>

\* eom_window_obtain_desired_size
SizePrepared == /\ w.open /\ loading = "init" /\ loading' = "sized"
                /\ w' = UpdateActionGroupsState(w, n)
                /\ UNCHANGED <<n, pos, listing, chosen, quiet>>

\* eom_job_load_cb, for the image and for an error
LoadEnded ==
  /\ w.open /\ loading # "none" /\ loading' = "none"
  /\ \/ /\ loading # "init"
        /\ w' = [w EXCEPT !.usable = TRUE, !.status = IF @ = "INIT" THEN "NORMAL" ELSE @]
     \/ LET s == IF w.status = "INIT" THEN UpdateActionGroupsState(w, n) ELSE w
        IN w' = [s EXCEPT !.usable = FALSE, !.status = IF @ = "INIT" THEN "NORMAL" ELSE @]
  /\ UNCHANGED <<n, pos, listing, chosen, quiet>>
-----------------------------------------------------------------------------
(* The timeouts *)

\* fullscreen_timeout_cb
FullscreenTimeout == /\ w.hide
                     /\ Become(FullscreenClearTimeout([w EXCEPT !.popup = "hidden", !.cursor = FALSE]))

\* Mutant: the end is one image too far.
IsLoopEndLate == pos = n + 1

\* slideshow_is_loop_end: positions count from zero there, -1 is none.
IsLoopEnd == pos = n

\* slideshow_switch_cb
SlideshowSwitch ==
  /\ w.timer
  /\ IF ~w.opt.random /\ ~w.opt.loop /\ IsLoopEnd
     THEN Become(StopFullscreen(w, TRUE))
     ELSE /\ IF n = 0 THEN UNCHANGED <<pos, loading>>
             ELSE IF w.opt.random THEN \E p \in 1 .. n : Select(p)
             ELSE Select(Right)
          /\ UNCHANGED <<w, n, listing, chosen, quiet>>

Next == \/ CmdFullscreen \/ CmdSlideshow \/ Pause \/ ExitButton \/ Leave \/ Close
        \/ SetMode \/ ToggleBar \/ Motion \/ LeaveNotify \/ FocusOut \/ FallQuiet
        \/ Navigate \/ OpenFileList \/ ModelLoaded \/ RowAdded \/ RowRemoved
        \/ SizePrepared \/ LoadEnded
        \/ FullscreenTimeout \/ SlideshowSwitch
-----------------------------------------------------------------------------
(* Properties *)

(* Every field has its type.                                               *)
TypeOK ==
  /\ w \in [mode : {"NORMAL", "FULLSCREEN", "SLIDESHOW"},
            status : {"UNKNOWN", "INIT", "NORMAL"}, open : BOOLEAN,
            timer : BOOLEAN, hide : BOOLEAN, popup : {"none", "hidden", "shown"},
            wired : BOOLEAN, cookie : BOOLEAN, cursor : BOOLEAN, menubar : BOOLEAN,
            full : BOOLEAN, show : BOOLEAN, usable : BOOLEAN, reachable : BOOLEAN,
            opt : Options, active : [Bars -> BOOLEAN],
            visible : [Bars -> BOOLEAN], setting : [Bars -> BOOLEAN]]
  /\ n \in 0 .. MaxImages /\ pos \in 0 .. n
  /\ listing \in BOOLEAN /\ loading \in {"none", "plain", "init", "sized"}
  /\ chosen \in [Bars -> BOOLEAN] /\ quiet \in BOOLEAN

(* The slide show's timer runs in a slide show that switches by itself and *)
(* nowhere else, whatever starts, pauses, resumes and ends it; no timeout, *)
(* which has the bare pointer of the window, outlives its mode or window.  *)
TimersFitMode ==
  /\ w.timer <=> w.open /\ w.mode = "SLIDESHOW" /\ w.opt.auto
  /\ w.hide => w.open /\ Fullscreen(w)

(* What the desktop and the user see of the mode agrees with it: the two   *)
(* toggle actions (without which the button that leaves fullscreen does    *)
(* nothing), the menu, the screen saver; and a window that is back in      *)
(* normal mode has its cursor, no popup, and no handler of the pointer.    *)
ModeIsShown ==
  w.open => /\ w.full = (w.mode = "FULLSCREEN") /\ w.show = (w.mode = "SLIDESHOW")
            /\ w.cookie = Fullscreen(w) /\ w.menubar = ~Fullscreen(w)
            /\ w.wired = Fullscreen(w)
            /\ ~Fullscreen(w) => w.cursor /\ w.popup # "shown"

(* Fullscreen hides the tool bar and the status bar for its time only: the *)
(* settings are what the user chose, and so is what a normal window shows. *)
BarsAsChosen ==
  \A b \in Bars \ Panes :
    /\ w.setting[b] = chosen[b]
    /\ w.open => w.visible[b] = (chosen[b] /\ ~Fullscreen(w))
                 \/ w.mode = "FULLSCREEN"

(* The help (index.docbook:778): without loop the slide show returns to    *)
(* the collection view after the last image, rows and selection changing   *)
(* before that as they may.                                                *)
LeftAlone == /\ quiet /\ w.open /\ w.mode = "SLIDESHOW"
             /\ w.opt.auto /\ ~w.opt.random /\ ~w.opt.loop
SlideshowReturns == LeftAlone ~> w.mode = "NORMAL"
=============================================================================
