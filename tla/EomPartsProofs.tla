---------------------------- MODULE EomPartsProofs ----------------------------
(***************************************************************************)
(* Proofs about the parts of EomParts: the modes of a window, what a       *)
(* window tells, animations, thumbnails, the rows of the collection, the   *)
(* selection and the trash, the buttons of the thumbnail bar, the layout   *)
(* of the scroll view and what it paints, the preview of a print and the   *)
(* clipboard.  Each has its own specification, inductive invariant and     *)
(* theorem; the last section puts them together.                           *)
(***************************************************************************)
EXTENDS EomParts, EomLemmas, SequenceTheorems, FiniteSetTheorems, TLAPS

-----------------------------------------------------------------------------
(* The modes of the window *)

ModeSpec == Mode!Init /\ [][Mode!Next]_(Mode!vars)

Windows == [mode : {"UNKNOWN", "NORMAL", "FULLSCREEN", "SLIDESHOW"},
            status : {"UNKNOWN", "INIT", "NORMAL"}, open : BOOLEAN,
            timer : BOOLEAN, hide : BOOLEAN, popup : {"none", "hidden", "shown"},
            wired : BOOLEAN, cookie : BOOLEAN, cursor : BOOLEAN, menubar : BOOLEAN,
            full : BOOLEAN, show : BOOLEAN, usable : BOOLEAN, reachable : BOOLEAN,
            opt : Options, active : [Bars -> BOOLEAN],
            visible : [Bars -> BOOLEAN], setting : [Bars -> BOOLEAN]]

\* What the bars have nothing to do with
SameMode(s, r) ==
  /\ r.mode = s.mode /\ r.open = s.open /\ r.timer = s.timer /\ r.hide = s.hide
  /\ r.wired = s.wired /\ r.cookie = s.cookie /\ r.cursor = s.cursor
  /\ r.menubar = s.menubar /\ r.full = s.full /\ r.show = s.show /\ r.opt = s.opt
  /\ r.popup \in {s.popup, "hidden"}

SettingsKept(s, r) == \A b \in Bars \ Mode!Panes : r.setting[b] = s.setting[b]
VisibleKept(s, r) == \A b \in Bars \ Mode!Panes : r.visible[b] = s.visible[b]

\* Setting an action runs its command, which shows or hides its bar.
LEMMA SetActiveKeeps ==
  ASSUME NEW s \in Windows, NEW b \in Bars, NEW active \in BOOLEAN
  PROVE  /\ Mode!SetActive(s, b, active) \in Windows
         /\ SameMode(s, Mode!SetActive(s, b, active))
         /\ Mode!SetActive(s, b, active).status = s.status
         /\ \A c \in Bars \ {b} : /\ Mode!SetActive(s, b, active).setting[c] = s.setting[c]
                                  /\ Mode!SetActive(s, b, active).visible[c] = s.visible[c]
         /\ s.mode # "NORMAL" /\ b \notin Mode!Panes
              => Mode!SetActive(s, b, active).setting[b] = s.setting[b]
         /\ s.mode = "NORMAL" /\ active = s.setting[b]
              => Mode!SetActive(s, b, active).setting[b] = s.setting[b]
         /\ s.mode = "NORMAL" /\ active # s.active[b]
              => /\ Mode!SetActive(s, b, active).setting[b] = active
                 /\ Mode!SetActive(s, b, active).visible[b] = active
         /\ s.mode = "SLIDESHOW"
              => Mode!SetActive(s, b, active).visible[b] = s.visible[b]
<1> DEFINE t == [s EXCEPT !.active[b] = active]
           r == Mode!SetActive(s, b, active)
<1>1. /\ t \in Windows /\ SameMode(s, t) /\ t.status = s.status
      /\ t.setting = s.setting /\ t.visible = s.visible /\ t.active[b] = active
  BY DEF Windows, SameMode
<1>2. CASE s.active[b] = active
  BY <1>2 DEF SameMode, Mode!SetActive
<1>3. CASE s.active[b] # active /\ s.mode \notin {"NORMAL", "FULLSCREEN"}
  <2>1. r = t
    BY <1>1, <1>3 DEF Mode!SetActive, Mode!ShowHideBar, SameMode
  <2> HIDE DEF t, r
  <2>2. s.mode # "NORMAL"
    BY <1>3
  <2> QED BY <1>1, <2>1, <2>2 DEF r
<1>4. CASE s.active[b] # active /\ s.mode \in {"NORMAL", "FULLSCREEN"}
  <2> DEFINE set == IF b \in Mode!Panes \/ s.mode = "NORMAL" THEN active ELSE s.setting[b]
  <2>1. r = [t EXCEPT !.visible[b] = active, !.setting[b] = set]
    BY <1>1, <1>4, ZenonT(30) DEF Mode!SetActive, Mode!ShowHideBar, SameMode
  <2>2. set \in BOOLEAN
    BY DEF Windows
  <2>3. /\ s.mode # "NORMAL" /\ b \notin Mode!Panes => set = s.setting[b]
        /\ s.mode = "NORMAL" => set = active
    OBVIOUS
  <2> HIDE DEF t, r, set
  <2>4. /\ r \in Windows /\ SameMode(t, r) /\ r.status = t.status
        /\ \A c \in Bars \ {b} : r.setting[c] = t.setting[c] /\ r.visible[c] = t.visible[c]
        /\ r.setting[b] = set /\ r.visible[b] = active
    BY <1>1, <2>1, <2>2 DEF Windows, SameMode
  <2>5. s.mode # "SLIDESHOW"
    BY <1>4
  <2> QED BY <1>1, <2>3, <2>4, <2>5 DEF SameMode, r
<1> QED BY <1>2, <1>3, <1>4

LEMMA UpdateBarKeeps ==
  ASSUME NEW s \in Windows, NEW b \in Bars
  PROVE  /\ Mode!UpdateBar(s, b) \in Windows
         /\ b \notin Mode!Panes =>
              /\ Mode!UpdateBar(s, b).setting[b] = s.setting[b]
              /\ Mode!UpdateBar(s, b).visible[b] = (s.setting[b] /\ ~Mode!Fullscreen(s))
<1> DEFINE hidden == IF b = "ViewImageCollection" THEN s.mode = "SLIDESHOW" ELSE Mode!Fullscreen(s)
           visible == s.setting[b] /\ ~hidden
<1>1. visible \in BOOLEAN /\ s.setting[b] \in BOOLEAN
  BY DEF Windows, Mode!Fullscreen
<1>2. Mode!UpdateBar(s, b) = [Mode!SetActive(s, b, visible) EXCEPT !.visible[b] = visible]
  BY DEF Mode!UpdateBar
<1>3. b \notin Mode!Panes => hidden = Mode!Fullscreen(s)
  BY DEF Mode!Panes
<1>4. s.mode = "NORMAL" /\ b \notin Mode!Panes => visible = s.setting[b]
  BY <1>1, <1>3 DEF Mode!Fullscreen
<1> HIDE DEF visible
<1> DEFINE r == Mode!SetActive(s, b, visible)
<1>5. r \in Windows
      /\ (s.mode # "NORMAL" /\ b \notin Mode!Panes => r.setting[b] = s.setting[b])
      /\ (s.mode = "NORMAL" /\ visible = s.setting[b] => r.setting[b] = s.setting[b])
  BY <1>1, SetActiveKeeps
<1> HIDE DEF r
<1>6. [r EXCEPT !.visible[b] = visible] \in Windows
      /\ [r EXCEPT !.visible[b] = visible].setting[b] = r.setting[b]
      /\ [r EXCEPT !.visible[b] = visible].visible[b] = visible
  BY <1>1, <1>5 DEF Windows
<1>7. b \notin Mode!Panes => visible = (s.setting[b] /\ ~Mode!Fullscreen(s))
  BY <1>3 DEF visible
<1> QED BY <1>2, <1>4, <1>5, <1>6, <1>7 DEF r

\* Bar after bar, the window shows what the settings and the mode say.
LEMMA UiKeeps ==
  ASSUME NEW s \in Windows
  PROVE  LET r == Mode!UpdateUiVisibility(s)
         IN /\ r \in Windows /\ SameMode(s, r) /\ SettingsKept(s, r)
            /\ r.status = s.status /\ r.usable = s.usable /\ r.reachable = s.reachable
            /\ \A b \in Bars \ Mode!Panes :
                 r.visible[b] = (s.setting[b] /\ ~Mode!Fullscreen(s))
            /\ r.popup = IF s.popup = "none" THEN "none" ELSE "hidden"
<1> DEFINE Updated(b) == IF b = "ViewImageCollection" /\ s.status = "INIT" THEN s
                         ELSE Mode!UpdateBar(s, b)
<1> DEFINE a == [b \in Bars |-> Updated(b).active[b]]
           v == [b \in Bars |-> Updated(b).visible[b]]
           t == [b \in Bars |-> Updated(b).setting[b]]
<1>1. \A b \in Bars : Updated(b) \in Windows
  BY UpdateBarKeeps
<1>2. \A b \in Bars \ Mode!Panes : /\ Updated(b).setting[b] = s.setting[b]
                                   /\ Updated(b).visible[b] = (s.setting[b] /\ ~Mode!Fullscreen(s))
  BY UpdateBarKeeps DEF Mode!Panes
<1>3. Mode!UpdateUiVisibility(s)
        = [s EXCEPT !.active = a, !.visible = v, !.setting = t,
                    !.popup = IF s.popup = "none" THEN s.popup ELSE "hidden"]
  BY DEF Mode!UpdateUiVisibility, Mode!EachBar, Windows
<1> HIDE DEF Updated
<1>4. a \in [Bars -> BOOLEAN] /\ v \in [Bars -> BOOLEAN] /\ t \in [Bars -> BOOLEAN]
  BY <1>1 DEF Windows
<1>5. \A b \in Bars \ Mode!Panes : t[b] = s.setting[b] /\ v[b] = (s.setting[b] /\ ~Mode!Fullscreen(s))
  BY <1>2
<1> HIDE DEF a, v, t
<1>6. PICK p \in {"none", "hidden"} : p = IF s.popup = "none" THEN s.popup ELSE "hidden"
  OBVIOUS
<1> DEFINE r == [s EXCEPT !.active = a, !.visible = v, !.setting = t, !.popup = p]
<1>7. Mode!UpdateUiVisibility(s) = r
  BY <1>3, <1>6
<1>8. /\ r \in Windows /\ SameMode(s, r) /\ r.visible = v /\ r.setting = t /\ r.popup = p
      /\ r.status = s.status /\ r.usable = s.usable /\ r.reachable = s.reachable
  BY <1>4, <1>6 DEF Windows, SameMode
<1> HIDE DEF r
<1>9. SettingsKept(s, r)
  BY <1>5, <1>8 DEF SettingsKept
<1>10. \A b \in Bars \ Mode!Panes : r.visible[b] = (s.setting[b] /\ ~Mode!Fullscreen(s))
  BY <1>5, <1>8, Zenon
<1> QED BY <1>6, <1>7, <1>8, <1>9, <1>10, Zenon

\* Images that come and go: the bars that are no panes stay as they are.
LEMMA GroupsKeep ==
  ASSUME ModeAssumption, NEW s \in Windows, NEW k \in Nat
  PROVE  LET r == Mode!UpdateActionGroupsState(s, k)
         IN r \in Windows /\ SameMode(s, r) /\ SettingsKept(s, r) /\ VisibleKept(s, r)
<1>1. CASE k = 0
  BY <1>1 DEF Mode!UpdateActionGroupsState, Windows, SameMode, SettingsKept, VisibleKept
<1>2. CASE k # 0
  <2> DEFINE bar == "ViewImageCollection"
             show == s.setting[bar] /\ k > 1 /\ s.mode # "SLIDESHOW"
             shown == [s EXCEPT !.visible[bar] = show \/ @, !.usable = TRUE]
             r == Mode!SetActive(shown, bar, show)
  <2>0. bar \in Bars /\ bar \in Mode!Panes /\ show \in BOOLEAN /\ s.visible[bar] \in BOOLEAN
    BY DEF ModeAssumption, Mode!Panes, Windows
  <2>1. shown \in Windows /\ SameMode(s, shown)
        /\ \A c \in Bars \ {bar} : shown.setting[c] = s.setting[c] /\ shown.visible[c] = s.visible[c]
    <3> HIDE DEF show, bar
    <3> QED BY <2>0 DEF Windows, SameMode
  <2>2. Mode!UpdateActionGroupsState(s, k) = [r EXCEPT !.reachable = k > 1 /\ @]
    BY <1>2 DEF Mode!UpdateActionGroupsState
  <2> HIDE DEF shown, show, bar
  <2>3. /\ r \in Windows /\ SameMode(shown, r)
        /\ \A c \in Bars \ {bar} : r.setting[c] = shown.setting[c] /\ r.visible[c] = shown.visible[c]
    BY <2>0, <2>1, SetActiveKeeps
  <2> HIDE DEF r
  <2>4. \A c \in Bars \ {bar} : r.setting[c] = s.setting[c] /\ r.visible[c] = s.visible[c]
    BY <2>1, <2>3
  <2>5. SameMode(s, r)
    BY <2>1, <2>3 DEF SameMode
  <2>6. PICK q \in BOOLEAN : q = (k > 1 /\ r.reachable)
    BY <2>3 DEF Windows
  <2>7. Mode!UpdateActionGroupsState(s, k) = [r EXCEPT !.reachable = q]
    BY <2>2, <2>6, <2>3 DEF Windows
  <2> QED BY <2>0, <2>3, <2>4, <2>5, <2>7 DEF Windows, SameMode, SettingsKept, VisibleKept
<1> QED BY <1>1, <1>2

\* What a window is like in its mode, when c is what the user chose for the bars
Fits(s) == /\ s.timer <=> s.open /\ s.mode = "SLIDESHOW" /\ s.opt.auto
           /\ s.hide => s.open /\ Mode!Fullscreen(s)

Shows(s) ==
  s.open => /\ s.full = (s.mode = "FULLSCREEN") /\ s.show = (s.mode = "SLIDESHOW")
            /\ s.cookie = Mode!Fullscreen(s) /\ s.menubar = ~Mode!Fullscreen(s)
            /\ s.wired = Mode!Fullscreen(s)
            /\ ~Mode!Fullscreen(s) => s.cursor /\ s.popup # "shown"

HasBars(s, c) ==
  \A b \in Bars \ Mode!Panes :
    /\ s.setting[b] = c[b]
    /\ s.open => s.visible[b] = (c[b] /\ ~Mode!Fullscreen(s)) \/ s.mode = "FULLSCREEN"

Good(s, c) == s \in Windows /\ s.mode # "UNKNOWN" /\ Fits(s) /\ Shows(s) /\ HasBars(s, c)

\* The window in its new mode: the timeouts, the actions and the bars are those of it.
LEMMA RunFullscreenGood ==
  ASSUME ModeAssumption, NEW s \in Windows, NEW c, NEW slideshow \in BOOLEAN, NEW o \in Options,
         s.open, s.timer => s.mode = "SLIDESHOW",
         \A b \in Bars \ Mode!Panes : s.setting[b] = c[b]
  PROVE  Good(Mode!RunFullscreen(s, slideshow, o), c)
<1> DEFINE s0 == IF ~slideshow /\ s.mode = "SLIDESHOW" THEN Mode!SlideshowClearTimeout(s) ELSE s
           s1 == Mode!CreatePopup([s0 EXCEPT !.mode = Mode!Mode(slideshow)])
           u == Mode!UpdateUiVisibility(s1)
<1>1. /\ s1 \in Windows /\ s1.open /\ s1.mode = (IF slideshow THEN "SLIDESHOW" ELSE "FULLSCREEN")
      /\ (~slideshow => ~s1.timer) /\ s1.setting = s.setting
  BY DEF Windows, Mode!Mode, Mode!SlideshowClearTimeout, Mode!CreatePopup
<1>2. Mode!RunFullscreen(s, slideshow, o) =
        Mode!UpdateFullscreenAction(Mode!UpdateSlideshowAction(Mode!InhibitScreensaver(
          LET s2 == Mode!FullscreenSetTimeout([u EXCEPT !.menubar = FALSE, !.wired = TRUE])
          IN IF slideshow THEN Mode!SlideshowSetTimeout([s2 EXCEPT !.opt = o]) ELSE s2)))
  BY DEF Mode!RunFullscreen, Mode!Run
<1>3. Mode!Fullscreen(s1)
  BY <1>1 DEF Mode!Fullscreen
<1> HIDE DEF s1
<1>4. /\ u \in Windows /\ SameMode(s1, u) /\ SettingsKept(s1, u)
      /\ \A b \in Bars \ Mode!Panes : u.visible[b] = (s1.setting[b] /\ ~Mode!Fullscreen(s1))
  BY <1>1, UiKeeps
<1> HIDE DEF u
<1>5. PICK auto \in BOOLEAN : auto = o.auto
  BY DEF ModeAssumption
<1>6a. PICK timer \in BOOLEAN, opt \in Options :
             timer = (IF slideshow THEN auto ELSE u.timer) /\ opt = (IF slideshow THEN o ELSE u.opt)
  BY <1>4 DEF Windows
<1>6b. PICK full \in BOOLEAN : full = ~slideshow
  OBVIOUS
<1> DEFINE r == [u EXCEPT !.menubar = FALSE, !.wired = TRUE, !.hide = TRUE, !.cursor = TRUE,
                          !.timer = timer, !.opt = opt, !.cookie = TRUE,
                          !.show = slideshow, !.full = full]
<1>5a. u.mode = (IF slideshow THEN "SLIDESHOW" ELSE "FULLSCREEN")
  BY <1>1, <1>4 DEF SameMode
<1>6. Mode!RunFullscreen(s, slideshow, o) = r
  <2>1. CASE slideshow
    <3>1. timer = o.auto /\ opt = o
      BY <1>5, <1>6a, <2>1, Zenon
    <3>2. slideshow = TRUE /\ full = FALSE
      BY <2>1, <1>6b
    <3> QED BY <1>2, <1>4, <1>5a, <2>1, <3>1, <3>2
       DEF Mode!UpdateFullscreenAction, Mode!UpdateSlideshowAction, Mode!InhibitScreensaver,
           Mode!FullscreenSetTimeout, Mode!SlideshowSetTimeout, Windows
  <2>2. CASE ~slideshow
    <3>1. timer = u.timer /\ opt = u.opt
      BY <1>6a, <2>2
    <3>2. slideshow = FALSE /\ full = TRUE
      BY <2>2, <1>6b
    <3>3. r = [u EXCEPT !.menubar = FALSE, !.wired = TRUE, !.hide = TRUE, !.cursor = TRUE,
                        !.cookie = TRUE, !.show = FALSE, !.full = TRUE]
      BY <1>4, <3>1, <3>2 DEF Windows
    <3> HIDE DEF r
    <3> QED BY <1>2, <1>4, <1>5a, <2>2, <3>3
       DEF Mode!UpdateFullscreenAction, Mode!UpdateSlideshowAction, Mode!InhibitScreensaver,
           Mode!FullscreenSetTimeout, Mode!SlideshowSetTimeout, Windows
  <2> QED BY <2>1, <2>2
<1>7. /\ r \in Windows /\ r.mode = u.mode /\ r.open = u.open /\ r.hide /\ r.cookie /\ r.wired
      /\ ~r.menubar /\ r.full = full /\ r.show = slideshow
      /\ r.timer = timer /\ r.opt = opt
      /\ r.setting = u.setting /\ r.visible = u.visible
  <2>0. timer \in BOOLEAN /\ opt \in Options /\ full \in BOOLEAN
    BY <1>6a, <1>6b
  <2>1. r \in Windows
    BY <1>4, <2>0, ZenonT(30) DEF Windows
  <2>2. /\ r.mode = u.mode /\ r.open = u.open /\ r.hide = TRUE /\ r.cookie = TRUE
        /\ r.wired = TRUE /\ r.menubar = FALSE /\ r.full = full /\ r.show = slideshow
        /\ r.timer = timer /\ r.opt = opt
        /\ r.setting = u.setting /\ r.visible = u.visible
    BY <1>4 DEF Windows
  <2> QED BY <2>1, <2>2
<1> HIDE DEF r
<1>8. r.mode = (IF slideshow THEN "SLIDESHOW" ELSE "FULLSCREEN") /\ r.open /\ Mode!Fullscreen(r)
  BY <1>1, <1>4, <1>7 DEF SameMode, Mode!Fullscreen
<1>9. Fits(r)
  BY <1>1, <1>4, <1>5, <1>5a, <1>6a, <1>7, <1>8 DEF Fits, SameMode
<1>10. Shows(r)
  BY <1>6b, <1>7, <1>8 DEF Shows, Windows
<1>11. HasBars(r, c)
  <2>1. \A b \in Bars \ Mode!Panes : r.setting[b] = c[b] /\ r.visible[b] = FALSE
    BY <1>1, <1>3, <1>4, <1>7, ZenonT(30) DEF SettingsKept
  <2> QED BY <1>8, <2>1 DEF HasBars
<1> QED BY <1>6, <1>7, <1>8, <1>9, <1>10, <1>11 DEF Good

\* And back in normal mode. The caller says which of the two modes it leaves.
LEMMA StopFullscreenGood ==
  ASSUME ModeAssumption, NEW s, NEW c, Good(s, c), s.open, NEW slideshow \in BOOLEAN,
         Mode!Fullscreen(s) => (slideshow <=> s.mode = "SLIDESHOW")
  PROVE  Good(Mode!StopFullscreen(s, slideshow), c)
<1>1. CASE ~Mode!Fullscreen(s)
  BY <1>1 DEF Mode!StopFullscreen
<1>2. CASE Mode!Fullscreen(s)
  <2> DEFINE s1 == [s EXCEPT !.hide = FALSE, !.mode = "NORMAL", !.wired = FALSE]
             s2 == IF slideshow THEN [s1 EXCEPT !.timer = FALSE] ELSE s1
             u == Mode!UpdateUiVisibility(s2)
  <2>0. s \in Windows /\ (~slideshow => ~s.timer /\ ~s.show) /\ (slideshow => ~s.full)
    BY <1>2 DEF Good, Fits, Shows, Mode!Fullscreen, Windows
  <2>1. /\ s2 \in Windows /\ s2.open /\ s2.mode = "NORMAL" /\ ~s2.timer /\ ~s2.hide /\ ~s2.wired
        /\ s2.setting = s.setting /\ s2.full = s.full /\ s2.show = s.show
    BY <2>0 DEF Windows
  <2>2. Mode!StopFullscreen(s, slideshow) =
          Mode!UninhibitScreensaver(
            [(IF slideshow THEN Mode!UpdateSlideshowAction(u) ELSE Mode!UpdateFullscreenAction(u))
               EXCEPT !.menubar = TRUE, !.cursor = TRUE])
    BY <1>2, <2>0 DEF Mode!StopFullscreen, Mode!FullscreenClearTimeout, Mode!SlideshowClearTimeout,
                      Windows
  <2>3. ~Mode!Fullscreen(s2)
    BY <2>1 DEF Mode!Fullscreen
  <2> HIDE DEF s2
  <2>4. /\ u \in Windows /\ SameMode(s2, u) /\ SettingsKept(s2, u)
        /\ \A b \in Bars \ Mode!Panes : u.visible[b] = (s2.setting[b] /\ ~Mode!Fullscreen(s2))
        /\ u.popup # "shown"
    BY <2>1, UiKeeps
  <2> HIDE DEF u
  <2> DEFINE r == [u EXCEPT !.menubar = TRUE, !.cursor = TRUE, !.cookie = FALSE,
                            !.show = FALSE, !.full = FALSE]
  <2>5. Mode!StopFullscreen(s, slideshow) = r
    <3>1. CASE slideshow
      <4>1. u.full = FALSE /\ u.mode = "NORMAL"
        BY <2>0, <2>1, <2>4, <3>1 DEF SameMode, Windows
      <4>2. Mode!UpdateSlideshowAction(u) = [u EXCEPT !.show = FALSE, !.full = FALSE]
        BY <2>4, <4>1 DEF Mode!UpdateSlideshowAction, Windows
      <4>3. PICK x : x = [[u EXCEPT !.show = FALSE, !.full = FALSE]
                            EXCEPT !.menubar = TRUE, !.cursor = TRUE]
        OBVIOUS
      <4>4. Mode!StopFullscreen(s, slideshow) = [x EXCEPT !.cookie = FALSE]
        BY <2>2, <3>1, <4>2, <4>3 DEF Mode!UninhibitScreensaver
      <4> QED BY <2>4, <4>3, <4>4 DEF Windows
    <3>2. CASE ~slideshow
      <4>1. u.show = FALSE /\ u.mode = "NORMAL"
        BY <2>0, <2>1, <2>4, <3>2 DEF SameMode, Windows
      <4>2. Mode!UpdateFullscreenAction(u) = [u EXCEPT !.show = FALSE, !.full = FALSE]
        BY <2>4, <4>1 DEF Mode!UpdateFullscreenAction, Windows
      <4>3. PICK x : x = [[u EXCEPT !.show = FALSE, !.full = FALSE]
                            EXCEPT !.menubar = TRUE, !.cursor = TRUE]
        OBVIOUS
      <4>4. Mode!StopFullscreen(s, slideshow) = [x EXCEPT !.cookie = FALSE]
        BY <2>2, <3>2, <4>2, <4>3 DEF Mode!UninhibitScreensaver
      <4> QED BY <2>4, <4>3, <4>4 DEF Windows
    <3> QED BY <3>1, <3>2
  <2>6. /\ r \in Windows /\ r.mode = u.mode /\ r.open = u.open /\ r.hide = u.hide /\ ~r.cookie
        /\ r.wired = u.wired /\ r.menubar /\ r.cursor /\ ~r.full /\ ~r.show /\ r.timer = u.timer
        /\ r.popup = u.popup /\ r.setting = u.setting /\ r.visible = u.visible
    BY <2>4 DEF Windows
  <2> HIDE DEF r
  <2>7. /\ r.mode = "NORMAL" /\ r.open /\ ~Mode!Fullscreen(r) /\ ~r.timer /\ ~r.hide /\ ~r.wired
        /\ r.popup # "shown"
    BY <2>1, <2>4, <2>6 DEF SameMode, Mode!Fullscreen
  <2>8. Fits(r) /\ Shows(r)
    <3>1. Fits(r)
      BY <2>6, <2>7 DEF Fits
    <3>2. /\ r.full = FALSE /\ r.show = FALSE /\ r.cookie = FALSE /\ r.wired = FALSE
          /\ r.menubar = TRUE
      BY <2>6, <2>7 DEF Windows
    <3>3. (r.mode = "FULLSCREEN") = FALSE /\ (r.mode = "SLIDESHOW") = FALSE
          /\ Mode!Fullscreen(r) = FALSE /\ (~Mode!Fullscreen(r)) = TRUE
      BY <2>7 DEF Mode!Fullscreen
    <3>4. /\ r.full = (r.mode = "FULLSCREEN") /\ r.show = (r.mode = "SLIDESHOW")
          /\ r.cookie = Mode!Fullscreen(r) /\ r.wired = Mode!Fullscreen(r)
          /\ r.menubar = ~Mode!Fullscreen(r)
      BY <3>2, <3>3, Zenon
    <3>5. Shows(r)
      BY <2>6, <2>7, <3>4, Zenon DEF Shows
    <3> QED BY <3>1, <3>5
  <2>9. HasBars(r, c)
    <3>1. \A b \in Bars \ Mode!Panes : s.setting[b] = c[b] /\ c[b] \in BOOLEAN
      BY <2>0 DEF Good, HasBars, Windows
    <3>2. \A b \in Bars \ Mode!Panes : r.setting[b] = c[b] /\ r.visible[b] = c[b]
      BY <2>1, <2>3, <2>4, <2>6, <3>1 DEF SettingsKept
    <3> QED BY <2>7, <3>1, <3>2 DEF HasBars
  <2> QED BY <2>5, <2>6, <2>7, <2>8, <2>9 DEF Good
<1> QED BY <1>1, <1>2

LEMMA DisposedGood ==
  ASSUME NEW s, NEW c, Good(s, c)
  PROVE  Good(Mode!Disposed(s), c)
<1> DEFINE r == [s EXCEPT !.hide = FALSE, !.open = FALSE, !.popup = "none", !.timer = FALSE,
                          !.cookie = FALSE]
<1>1. Mode!Disposed(s) = r
  BY DEF Mode!Disposed, Mode!FullscreenClearTimeout, Mode!SlideshowClearTimeout,
         Mode!UninhibitScreensaver, Good, Windows
<1>2. /\ r \in Windows /\ r.mode = s.mode /\ ~r.open /\ ~r.timer /\ ~r.hide
      /\ r.setting = s.setting
  BY DEF Good, Windows
<1> HIDE DEF r
<1> QED BY <1>1, <1>2 DEF Good, Fits, Shows, HasBars

LEMMA KeptGood ==
  ASSUME NEW s, NEW r \in Windows, NEW c, Good(s, c),
         SameMode(s, r), SettingsKept(s, r), VisibleKept(s, r)
  PROVE  Good(r, c)
<1>1. Mode!Fullscreen(r) = Mode!Fullscreen(s)
  BY DEF SameMode, Mode!Fullscreen
<1>2. r.mode # "UNKNOWN" /\ Fits(r)
  BY <1>1 DEF Good, Fits, SameMode
<1>3. Shows(r)
  BY <1>1 DEF Good, Shows, SameMode
<1>4. HasBars(r, c)
  BY <1>1 DEF Good, HasBars, SameMode, SettingsKept, VisibleKept
<1> QED BY <1>2, <1>3, <1>4 DEF Good

\* Pointer, popup and the timeouts
LEMMA PointerGood ==
  ASSUME ModeAssumption, NEW s, NEW c, Good(s, c)
  PROVE  /\ s.open /\ s.wired =>
              /\ Good(Mode!FullscreenSetTimeout(s), c)
              /\ Good(Mode!ShowFullscreenPopup(s), c)
              /\ Good(Mode!FullscreenClearTimeout(s), c)
         /\ s.open /\ Mode!Fullscreen(s) => Good([s EXCEPT !.popup = "hidden"], c)
         /\ s.hide =>
              Good(Mode!FullscreenClearTimeout([s EXCEPT !.popup = "hidden", !.cursor = FALSE]), c)
         /\ s.open /\ s.mode = "SLIDESHOW" => Good(Mode!SlideshowSetTimeout(s), c)
<1>0. s \in Windows
  BY DEF Good
<1>1. \A popup \in {"none", "hidden", "shown"}, hide, cursor \in BOOLEAN :
        LET r == [s EXCEPT !.popup = popup, !.hide = hide, !.cursor = cursor]
        IN s.open /\ Mode!Fullscreen(s) => Good(r, c)
  <2> SUFFICES ASSUME NEW popup \in {"none", "hidden", "shown"}, NEW hide \in BOOLEAN,
                      NEW cursor \in BOOLEAN, s.open, Mode!Fullscreen(s)
               PROVE  Good([s EXCEPT !.popup = popup, !.hide = hide, !.cursor = cursor], c)
    OBVIOUS
  <2> DEFINE r == [s EXCEPT !.popup = popup, !.hide = hide, !.cursor = cursor]
  <2>1. /\ r \in Windows /\ r.mode = s.mode /\ r.open = s.open /\ r.timer = s.timer
        /\ r.wired = s.wired /\ r.cookie = s.cookie /\ r.menubar = s.menubar /\ r.full = s.full
        /\ r.show = s.show /\ r.opt = s.opt /\ r.visible = s.visible /\ r.setting = s.setting
    BY <1>0 DEF Windows
  <2> HIDE DEF r
  <2>2. Mode!Fullscreen(r) = Mode!Fullscreen(s) /\ Mode!Fullscreen(r)
    BY <2>1 DEF Mode!Fullscreen
  <2>3. r.mode # "UNKNOWN" /\ Fits(r)
    BY <2>1, <2>2 DEF Good, Fits
  <2>4. Shows(r)
    BY <2>1, <2>2 DEF Good, Shows
  <2>5. HasBars(r, c)
    BY <2>1, <2>2 DEF Good, HasBars
  <2>6. Good(r, c)
    BY <2>1, <2>3, <2>4, <2>5 DEF Good
  <2> QED BY <2>6 DEF r
<1>2. /\ s.open => s.wired = Mode!Fullscreen(s)
      /\ s.hide => s.open /\ Mode!Fullscreen(s)
      /\ s.popup \in {"none", "hidden", "shown"} /\ s.hide \in BOOLEAN /\ s.cursor \in BOOLEAN
  BY <1>0 DEF Good, Fits, Shows, Windows
<1>3. s.open /\ s.wired => Good(Mode!FullscreenSetTimeout(s), c)
  <2>1. Mode!FullscreenSetTimeout(s)
          = [s EXCEPT !.popup = s.popup, !.hide = TRUE, !.cursor = TRUE]
    BY <1>0 DEF Mode!FullscreenSetTimeout, Windows
  <2> QED BY <1>1, <1>2, <2>1
<1>4. s.open /\ s.wired => Good(Mode!ShowFullscreenPopup(s), c)
  <2>1. Mode!ShowFullscreenPopup(s)
          = [s EXCEPT !.popup = "shown", !.hide = TRUE, !.cursor = TRUE]
    BY <1>0 DEF Mode!ShowFullscreenPopup, Mode!FullscreenSetTimeout, Windows
  <2> QED BY <1>1, <1>2, <2>1
<1>5. s.open /\ s.wired => Good(Mode!FullscreenClearTimeout(s), c)
  <2>1. Mode!FullscreenClearTimeout(s)
          = [s EXCEPT !.popup = s.popup, !.hide = FALSE, !.cursor = s.cursor]
    BY <1>0 DEF Mode!FullscreenClearTimeout, Windows
  <2> QED BY <1>1, <1>2, <2>1
<1>6. s.open /\ Mode!Fullscreen(s) => Good([s EXCEPT !.popup = "hidden"], c)
  <2>1. [s EXCEPT !.popup = "hidden"]
          = [s EXCEPT !.popup = "hidden", !.hide = s.hide, !.cursor = s.cursor]
    BY <1>0 DEF Windows
  <2> QED BY <1>1, <1>2, <2>1
<1>7. s.hide =>
        Good(Mode!FullscreenClearTimeout([s EXCEPT !.popup = "hidden", !.cursor = FALSE]), c)
  <2>1. Mode!FullscreenClearTimeout([s EXCEPT !.popup = "hidden", !.cursor = FALSE])
          = [s EXCEPT !.popup = "hidden", !.hide = FALSE, !.cursor = FALSE]
    BY <1>0 DEF Mode!FullscreenClearTimeout, Windows
  <2> QED BY <1>1, <1>2, <2>1
<1>8. s.open /\ s.mode = "SLIDESHOW" => Good(Mode!SlideshowSetTimeout(s), c)
  <2>1. s.open /\ s.mode = "SLIDESHOW" => s.timer = s.opt.auto
    <3>1. s.timer \in BOOLEAN /\ s.opt.auto \in BOOLEAN
      BY <1>0 DEF Windows, ModeAssumption
    <3> QED BY <3>1 DEF Good, Fits
  <2>2. s.open /\ s.mode = "SLIDESHOW" => Mode!SlideshowSetTimeout(s) = s
    BY <1>0, <2>1 DEF Mode!SlideshowSetTimeout, Windows
  <2> QED BY <2>2
<1> QED BY <1>3, <1>4, <1>5, <1>6, <1>7, <1>8

\* The user shows or hides a bar.
LEMMA ToggledGood ==
  ASSUME NEW s, NEW c \in [Bars -> BOOLEAN], Good(s, c), s.open, NEW bar \in Bars, NEW d,
         d = IF s.mode = "NORMAL" \/ (bar \in Mode!Panes /\ s.mode = "FULLSCREEN")
             THEN [c EXCEPT ![bar] = ~s.active[bar]] ELSE c
  PROVE  d \in [Bars -> BOOLEAN] /\ Good(Mode!SetActive(s, bar, ~s.active[bar]), d)
<1>0. s \in Windows /\ s.active[bar] \in BOOLEAN
  BY DEF Good, Windows
<1>1. PICK active \in BOOLEAN : active = ~s.active[bar]
  OBVIOUS
<1>2. active # s.active[bar]
  BY <1>0, <1>1
<1> DEFINE r == Mode!SetActive(s, bar, active)
<1>3. /\ r \in Windows /\ SameMode(s, r)
      /\ \A b \in Bars \ {bar} : r.setting[b] = s.setting[b] /\ r.visible[b] = s.visible[b]
      /\ s.mode # "NORMAL" /\ bar \notin Mode!Panes => r.setting[bar] = s.setting[bar]
      /\ s.mode = "NORMAL" => r.setting[bar] = active /\ r.visible[bar] = active
      /\ s.mode = "SLIDESHOW" => r.visible[bar] = s.visible[bar]
  BY <1>0, <1>2, SetActiveKeeps
<1> HIDE DEF r
<1>4. /\ d \in [Bars -> BOOLEAN]
      /\ \A b \in Bars \ {bar} : d[b] = c[b]
      /\ s.mode = "NORMAL" => d[bar] = active
      /\ s.mode # "NORMAL" /\ bar \notin Mode!Panes => d[bar] = c[bar]
  <2>1. d = c \/ d = [c EXCEPT ![bar] = active]
    BY <1>1
  <2>2. s.mode = "NORMAL" => d = [c EXCEPT ![bar] = active]
    BY <1>1
  <2>3. s.mode # "NORMAL" /\ bar \notin Mode!Panes => d = c
    OBVIOUS
  <2> QED BY <2>1, <2>2, <2>3
<1>5. Mode!Fullscreen(r) = Mode!Fullscreen(s)
  BY <1>3 DEF SameMode, Mode!Fullscreen
<1>6. r.mode # "UNKNOWN" /\ Fits(r)
  BY <1>3, <1>5 DEF Good, Fits, SameMode
<1>7. Shows(r)
  BY <1>3, <1>5 DEF Good, Shows, SameMode
<1>8. HasBars(r, d)
  <2> SUFFICES ASSUME NEW b \in Bars \ Mode!Panes
               PROVE  /\ r.setting[b] = d[b]
                      /\ r.visible[b] = (d[b] /\ ~Mode!Fullscreen(r)) \/ r.mode = "FULLSCREEN"
    BY DEF HasBars
  <2>1. /\ s.setting[b] = c[b] /\ r.mode = s.mode
        /\ s.visible[b] = (c[b] /\ ~Mode!Fullscreen(s)) \/ s.mode = "FULLSCREEN"
    BY <1>3 DEF Good, HasBars, SameMode
  <2>2. CASE b # bar
    BY <1>3, <1>4, <1>5, <2>1, <2>2
  <2>3. CASE b = bar /\ s.mode = "NORMAL"
    <3>1. ~Mode!Fullscreen(r) /\ d[b] \in BOOLEAN
      BY <1>4, <1>5, <2>3 DEF Mode!Fullscreen
    <3> QED BY <1>3, <1>4, <2>3, <3>1
  <2>4. CASE b = bar /\ s.mode # "NORMAL"
    <3>1. r.setting[b] = d[b] /\ d[b] = c[b]
      BY <1>3, <1>4, <2>1, <2>4
    <3>2. s.mode = "FULLSCREEN" \/ s.mode = "SLIDESHOW"
      BY <2>4 DEF Good, Windows
    <3> QED BY <1>3, <1>5, <2>1, <2>4, <3>1, <3>2
  <2> QED BY <2>2, <2>3, <2>4
<1>9. Good(r, d)
  BY <1>3, <1>6, <1>7, <1>8 DEF Good
<1> QED BY <1>1, <1>4, <1>9 DEF r

ModeInv ==
  /\ Good(win, chosen) /\ chosen \in [Bars -> BOOLEAN]
  /\ count \in 0 .. MaxListed /\ pos \in 0 .. count
  /\ listing \in BOOLEAN /\ loading \in {"none", "plain", "init", "sized"} /\ quiet \in BOOLEAN

LEMMA ConstructedGood ==
  ASSUME ModeAssumption, NEW c \in [Bars -> BOOLEAN],
         NEW startup \in {"NORMAL", "FULLSCREEN", "SLIDESHOW"}, NEW o \in Options
  PROVE  Good(Mode!Constructed(c, startup, o), c)
<1> DEFINE blank == Mode!Blank(c)
           s == Mode!UpdateActionGroupsState(blank, 0)
<1>1. /\ blank \in Windows /\ blank.open /\ ~blank.timer /\ ~blank.hide /\ ~blank.wired
      /\ ~blank.cookie /\ blank.cursor /\ blank.menubar /\ ~blank.full /\ ~blank.show
      /\ blank.popup = "none" /\ blank.setting = c
  <2>1. blank = [mode |-> "UNKNOWN", status |-> "UNKNOWN", open |-> TRUE,
                 timer |-> FALSE, hide |-> FALSE, popup |-> "none", wired |-> FALSE,
                 cookie |-> FALSE, cursor |-> TRUE, menubar |-> TRUE,
                 full |-> FALSE, show |-> FALSE, usable |-> FALSE, reachable |-> TRUE,
                 opt |-> [random |-> FALSE, loop |-> FALSE, auto |-> FALSE],
                 active |-> [b \in Bars |-> TRUE], visible |-> [b \in Bars |-> TRUE],
                 setting |-> c]
    BY DEF Mode!Blank
  <2> HIDE DEF blank
  <2>2. blank \in Windows
    BY <2>1 DEF Windows, ModeAssumption
  <2> QED BY <2>1, <2>2
<1> HIDE DEF blank
<1>2. /\ s \in Windows /\ s.open /\ ~s.timer /\ ~s.hide /\ ~s.wired
      /\ ~s.cookie /\ s.cursor /\ s.menubar /\ ~s.full /\ ~s.show
      /\ s.popup = "none" /\ s.setting = c
  BY <1>1 DEF Mode!UpdateActionGroupsState, Windows
<1> HIDE DEF s
<1>3. CASE startup # "NORMAL"
  <2>1. PICK slideshow \in BOOLEAN : slideshow = (startup = "SLIDESHOW")
    OBVIOUS
  <2>2. Mode!Constructed(c, startup, o) = Mode!RunFullscreen(s, slideshow, o)
    BY <1>3, <2>1 DEF Mode!Constructed, s, blank
  <2>3. Good(Mode!RunFullscreen(s, slideshow, o), c)
    BY <1>2, RunFullscreenGood
  <2> QED BY <2>2, <2>3
<1>4. CASE startup = "NORMAL"
  <2> DEFINE t == [s EXCEPT !.mode = "NORMAL"]
             r == Mode!UpdateUiVisibility(t)
  <2>1. Mode!Constructed(c, startup, o) = r
    BY <1>4 DEF Mode!Constructed, s, blank
  <2>2. /\ t \in Windows /\ t.mode = "NORMAL" /\ t.open /\ ~t.timer /\ ~t.hide /\ ~t.wired
        /\ ~t.cookie /\ t.cursor /\ t.menubar /\ ~t.full /\ ~t.show
        /\ t.popup = "none" /\ t.setting = c
    BY <1>2 DEF Windows
  <2> HIDE DEF t
  <2>3. ~Mode!Fullscreen(t)
    BY <2>2 DEF Mode!Fullscreen
  <2>4. /\ r \in Windows /\ SameMode(t, r) /\ SettingsKept(t, r)
        /\ \A b \in Bars \ Mode!Panes : r.visible[b] = (t.setting[b] /\ ~Mode!Fullscreen(t))
        /\ r.popup = "none"
    BY <2>2, UiKeeps
  <2> HIDE DEF r
  <2>5. /\ r.mode = "NORMAL" /\ r.open /\ ~Mode!Fullscreen(r) /\ ~r.timer /\ ~r.hide /\ ~r.wired
        /\ ~r.cookie /\ r.cursor /\ r.menubar /\ ~r.full /\ ~r.show
    BY <2>2, <2>4 DEF SameMode, Mode!Fullscreen
  <2>6. Fits(r)
    BY <2>5 DEF Fits
  <2>7. Shows(r)
    <3>2. /\ r.full = FALSE /\ r.show = FALSE /\ r.cookie = FALSE /\ r.wired = FALSE
          /\ r.menubar = TRUE
      BY <2>4, <2>5 DEF Windows
    <3>3. (r.mode = "FULLSCREEN") = FALSE /\ (r.mode = "SLIDESHOW") = FALSE
          /\ Mode!Fullscreen(r) = FALSE /\ (~Mode!Fullscreen(r)) = TRUE
      BY <2>5 DEF Mode!Fullscreen
    <3>4. /\ r.full = (r.mode = "FULLSCREEN") /\ r.show = (r.mode = "SLIDESHOW")
          /\ r.cookie = Mode!Fullscreen(r) /\ r.wired = Mode!Fullscreen(r)
          /\ r.menubar = ~Mode!Fullscreen(r)
      BY <3>2, <3>3, Zenon
    <3>5. r.popup # "shown"
      BY <2>4
    <3> QED BY <2>5, <3>4, <3>5, Zenon DEF Shows
  <2>8. HasBars(r, c)
    <3>1. \A b \in Bars \ Mode!Panes : r.setting[b] = c[b] /\ r.visible[b] = c[b]
      BY <2>2, <2>3, <2>4 DEF SettingsKept
    <3> QED BY <2>5, <3>1 DEF HasBars
  <2> QED BY <2>1, <2>4, <2>5, <2>6, <2>7, <2>8 DEF Good
<1> QED BY <1>3, <1>4

LEMMA ModeInit == ASSUME ModeAssumption, Mode!Init PROVE ModeInv
<1>1. PICK startup \in {"NORMAL", "FULLSCREEN", "SLIDESHOW"}, o \in Options :
        win = Mode!Constructed(chosen, startup, o)
  BY DEF Mode!Init
<1>2. chosen \in [Bars -> BOOLEAN]
  BY DEF Mode!Init
<1>3. Good(win, chosen)
  BY <1>1, <1>2, ConstructedGood
<1>4. count = 0 /\ pos = 0 /\ listing = FALSE /\ loading = "none" /\ quiet = FALSE
  BY DEF Mode!Init
<1>5. count \in 0 .. MaxListed /\ pos \in 0 .. count
  BY <1>4 DEF ModeAssumption
<1> QED BY <1>2, <1>3, <1>4, <1>5 DEF ModeInv

\* Changing fields that have to do with the collection only
LEMMA StatusGood ==
  ASSUME NEW s, NEW c, Good(s, c), NEW usable \in BOOLEAN, NEW status \in {"INIT", "NORMAL", "UNKNOWN"}
  PROVE  Good([s EXCEPT !.usable = usable, !.status = status], c)
<1> DEFINE r == [s EXCEPT !.usable = usable, !.status = status]
<1>1. r \in Windows /\ SameMode(s, r) /\ SettingsKept(s, r) /\ VisibleKept(s, r)
  BY DEF Good, Windows, SameMode, SettingsKept, VisibleKept
<1> HIDE DEF r
<1>2. Good(r, c)
  BY <1>1, KeptGood
<1> QED BY <1>2 DEF r

LEMMA GroupsGood ==
  ASSUME ModeAssumption, NEW s, NEW c, Good(s, c), NEW k \in Nat
  PROVE  Good(Mode!UpdateActionGroupsState(s, k), c)
<1>1. s \in Windows
  BY DEF Good
<1> DEFINE r == Mode!UpdateActionGroupsState(s, k)
<1>2. r \in Windows /\ SameMode(s, r) /\ SettingsKept(s, r) /\ VisibleKept(s, r)
  BY <1>1, GroupsKeep
<1> HIDE DEF r
<1>3. Good(r, c)
  BY <1>2, KeptGood
<1> QED BY <1>3 DEF r

LEMMA ModeStep ==
  ASSUME ModeAssumption, ModeInv, [Mode!Next]_(Mode!vars)
  PROVE  ModeInv'
<1> USE ModeAssumption
<1>0. /\ Good(win, chosen) /\ win \in Windows /\ chosen \in [Bars -> BOOLEAN]
      /\ count \in 0 .. MaxListed /\ pos \in 0 .. count /\ MaxListed \in Nat
      /\ listing \in BOOLEAN /\ loading \in {"none", "plain", "init", "sized"} /\ quiet \in BOOLEAN
      /\ win.open => win.full = (win.mode = "FULLSCREEN") /\ win.show = (win.mode = "SLIDESHOW")
      /\ win.timer => win.open /\ win.mode = "SLIDESHOW"
      /\ \A b \in Bars \ Mode!Panes : win.setting[b] = chosen[b]
  BY DEF ModeInv, Good, ModeAssumption, Fits, Shows, HasBars
<1>a. ASSUME NEW s, Good(s, chosen), Mode!Become(s)
      PROVE  ModeInv'
  BY <1>0, <1>a DEF ModeInv, Mode!Become, Mode!Collection
<1>b. ASSUME NEW slideshow \in BOOLEAN, NEW o \in Options, win.open
      PROVE  Good(Mode!RunFullscreen(win, slideshow, o), chosen)
  BY <1>0, <1>b, RunFullscreenGood
<1>c. ASSUME NEW slideshow \in BOOLEAN, win.open,
             Mode!Fullscreen(win) => (slideshow <=> win.mode = "SLIDESHOW")
      PROVE  Good(Mode!StopFullscreen(win, slideshow), chosen)
  BY <1>0, <1>c, StopFullscreenGood
<1>d. ASSUME NEW p, Mode!Select(p) PROVE pos' = p /\ loading' \in {"none", "plain", "init", "sized"}
  BY <1>d DEF Mode!Select
<1>e. Mode!User => win.open
  BY DEF Mode!User
<1>f. Good(Mode!Disposed(win), chosen)
  BY <1>0, DisposedGood
<1>1. CASE Mode!CmdFullscreen
  <2>1. win.open
    BY <1>1, <1>e DEF Mode!CmdFullscreen
  <2>2. CASE win.full
    <3>1. Good(Mode!StopFullscreen(win, FALSE), chosen)
      BY <1>0, <1>c, <2>1, <2>2
    <3> QED BY <1>1, <1>a, <2>2, <3>1 DEF Mode!CmdFullscreen
  <2>3. CASE ~win.full
    BY <1>1, <1>a, <1>b, <2>1, <2>3 DEF Mode!CmdFullscreen
  <2> QED BY <2>2, <2>3
<1>2. CASE Mode!CmdSlideshow
  <2>1. win.open
    BY <1>2, <1>e DEF Mode!CmdSlideshow
  <2>2. CASE win.show
    <3>1. Good(Mode!StopFullscreen(win, TRUE), chosen)
      BY <1>0, <1>c, <2>1, <2>2
    <3> QED BY <1>2, <1>a, <2>2, <3>1 DEF Mode!CmdSlideshow
  <2>3. CASE ~win.show
    BY <1>2, <1>a, <1>b, <2>1, <2>3 DEF Mode!CmdSlideshow
  <2> QED BY <2>2, <2>3
<1>3. CASE Mode!Pause
  <2>1. win.open
    BY <1>3, <1>e DEF Mode!Pause
  <2>2. PICK o \in Options : Mode!Become(Mode!RunFullscreen(win, win.mode # "SLIDESHOW", o))
    BY <1>3 DEF Mode!Pause
  <2>3. PICK slideshow \in BOOLEAN : slideshow = (win.mode # "SLIDESHOW")
    OBVIOUS
  <2> QED BY <1>a, <1>b, <2>1, <2>2, <2>3
<1>g. ASSUME win.open PROVE Good(Mode!StopFullscreen(win, win.mode = "SLIDESHOW"), chosen)
  <2>1. PICK slideshow \in BOOLEAN : slideshow = (win.mode = "SLIDESHOW")
    OBVIOUS
  <2>2. Good(Mode!StopFullscreen(win, slideshow), chosen)
    BY <1>c, <1>g, <2>1
  <2> QED BY <2>1, <2>2
<1>4. CASE Mode!ExitButton
  <2>1. win.open
    BY <1>4, <1>e DEF Mode!ExitButton
  <2>2. CASE win.mode = "SLIDESHOW"
    <3>1. Good(Mode!StopFullscreen(win, TRUE), chosen)
      BY <1>c, <2>1, <2>2
    <3> QED BY <1>4, <1>a, <2>2, <3>1 DEF Mode!ExitButton
  <2>3. CASE win.mode # "SLIDESHOW"
    <3>1. Good(Mode!StopFullscreen(win, FALSE), chosen)
      BY <1>c, <2>1, <2>3
    <3> QED BY <1>4, <1>a, <2>3, <3>1 DEF Mode!ExitButton
  <2> QED BY <2>2, <2>3
<1>5. CASE Mode!Leave
  <2>1. win.open
    BY <1>5, <1>e DEF Mode!Leave
  <2>2. CASE Mode!Fullscreen(win)
    BY <1>5, <1>a, <1>g, <2>1, <2>2 DEF Mode!Leave
  <2>3. CASE ~Mode!Fullscreen(win)
    BY <1>5, <1>a, <1>f, <2>3 DEF Mode!Leave
  <2> QED BY <2>2, <2>3
<1>6. CASE Mode!Close
  BY <1>6, <1>a, <1>f DEF Mode!Close
<1>7. CASE Mode!SetMode
  <2>1. win.open
    BY <1>7, <1>e DEF Mode!SetMode
  <2>2. PICK mode \in {"NORMAL", "FULLSCREEN", "SLIDESHOW"} \ {win.mode} :
          IF mode = "NORMAL" THEN Mode!Become(Mode!StopFullscreen(win, win.mode = "SLIDESHOW"))
          ELSE \E o \in Options : Mode!Become(Mode!RunFullscreen(win, mode = "SLIDESHOW", o))
    BY <1>7 DEF Mode!SetMode
  <2>3. CASE mode = "NORMAL"
    BY <1>a, <1>g, <2>1, <2>2, <2>3
  <2>4. CASE mode # "NORMAL"
    <3>1. PICK slideshow \in BOOLEAN : slideshow = (mode = "SLIDESHOW")
      OBVIOUS
    <3>2. PICK o \in Options : Mode!Become(Mode!RunFullscreen(win, slideshow, o))
      BY <2>2, <2>4, <3>1
    <3> QED BY <1>a, <1>b, <2>1, <3>2
  <2> QED BY <2>3, <2>4
<1>8. CASE Mode!ToggleBar
  <2>1. win.open
    BY <1>8, <1>e DEF Mode!ToggleBar
  <2>2. PICK bar \in Bars :
          /\ win' = Mode!SetActive(win, bar, ~win.active[bar])
          /\ chosen' = IF win.mode = "NORMAL" \/ (bar \in Mode!Panes /\ win.mode = "FULLSCREEN")
                       THEN [chosen EXCEPT ![bar] = ~win.active[bar]] ELSE chosen
    BY <1>8 DEF Mode!ToggleBar
  <2>3. chosen' \in [Bars -> BOOLEAN] /\ Good(Mode!SetActive(win, bar, ~win.active[bar]), chosen')
    BY <1>0, <2>1, <2>2, ToggledGood
  <2> QED BY <1>0, <1>8, <2>2, <2>3 DEF Mode!ToggleBar, Mode!Collection, ModeInv
<1>9. CASE Mode!Motion
  BY <1>0, <1>9, <1>a, <1>e, PointerGood DEF Mode!Motion
<1>10. CASE Mode!LeaveNotify
  BY <1>0, <1>10, <1>a, <1>e, PointerGood DEF Mode!LeaveNotify
<1>11. CASE Mode!FocusOut
  BY <1>0, <1>11, <1>a, PointerGood DEF Mode!FocusOut
<1>12. CASE Mode!FallQuiet
  BY <1>0, <1>12 DEF Mode!FallQuiet, Mode!Collection, ModeInv
<1>13. CASE Mode!Navigate
  <2>1. Good(win', chosen')
    BY <1>0, <1>13, <1>e, PointerGood DEF Mode!Navigate
  <2>2. PICK p \in {Mode!Left, Mode!Right} : Mode!Select(p)
    BY <1>13 DEF Mode!Navigate
  <2>3. p \in 0 .. count
    BY <1>0, <1>13 DEF Mode!Left, Mode!Right, Mode!Navigate
  <2> QED BY <1>0, <1>13, <1>d, <2>1, <2>2, <2>3 DEF Mode!Navigate, ModeInv
<1>14. CASE Mode!OpenFileList
  <2>1. win' = [win EXCEPT !.usable = win.usable, !.status = "INIT"] /\ win.usable \in BOOLEAN
    BY <1>0, <1>14 DEF Mode!OpenFileList, Windows
  <2>2. Good(win', chosen)
    BY <1>0, <2>1, StatusGood
  <2> QED BY <1>0, <1>14, <2>2 DEF Mode!OpenFileList, ModeInv
<1>15. CASE Mode!ModelLoaded
  <2>1. CASE count' \in 1 .. MaxListed /\ (\E p \in 1 .. count' : Mode!Select(p)) /\ UNCHANGED win
    <3>1. PICK p \in 1 .. count' : Mode!Select(p)
      BY <2>1
    <3>2. count' \in 0 .. MaxListed /\ p \in 0 .. count'
      BY <1>0, <2>1, <3>1
    <3>3. pos' \in 0 .. count' /\ loading' \in {"none", "plain", "init", "sized"}
      BY <1>d, <3>1, <3>2
    <3>4. listing' = FALSE /\ UNCHANGED <<chosen, quiet>>
      BY <1>15 DEF Mode!ModelLoaded
    <3> QED BY <1>0, <2>1, <3>2, <3>3, <3>4 DEF ModeInv
  <2>2. CASE /\ count' = 0 /\ pos' = 0 /\ UNCHANGED loading
             /\ win' = Mode!UpdateActionGroupsState([win EXCEPT !.status = "NORMAL"], 0)
    <3> DEFINE s == [win EXCEPT !.status = "NORMAL"]
    <3>1. s = [win EXCEPT !.usable = win.usable, !.status = "NORMAL"] /\ win.usable \in BOOLEAN
      BY <1>0 DEF Windows
    <3>2. Good(s, chosen)
      BY <1>0, <3>1, StatusGood, ZenonT(30)
    <3> HIDE DEF s
    <3>3. Good(Mode!UpdateActionGroupsState(s, 0), chosen)
      BY <3>2, GroupsGood
    <3>4. Good(win', chosen)
      BY <2>2, <3>3 DEF s
    <3>5. listing' = FALSE /\ UNCHANGED <<chosen, quiet>>
      BY <1>15 DEF Mode!ModelLoaded
    <3>6. count' \in 0 .. MaxListed /\ pos' \in 0 .. count'
      BY <1>0, <2>2
    <3> QED BY <1>0, <2>2, <3>4, <3>5, <3>6 DEF ModeInv
  <2> QED BY <1>15, <2>1, <2>2 DEF Mode!ModelLoaded
<1>16. CASE Mode!RowAdded
  <2>1. count + 1 \in Nat /\ count' = count + 1
    BY <1>0, <1>16 DEF Mode!RowAdded
  <2>2. Good(win', chosen)
    BY <1>0, <1>16, <2>1, GroupsGood DEF Mode!RowAdded
  <2>3. pos' \in 0 .. count' /\ count' \in 0 .. MaxListed
    BY <1>0, <1>16 DEF Mode!RowAdded
  <2> QED BY <1>0, <1>16, <2>2, <2>3 DEF Mode!RowAdded, ModeInv
<1>17. CASE Mode!RowRemoved
  <2>1. count - 1 \in Nat /\ count' = count - 1
    BY <1>0, <1>17 DEF Mode!RowRemoved
  <2>2. Good(win', chosen)
    BY <1>0, <1>17, <2>1, GroupsGood DEF Mode!RowRemoved
  <2>3. pos' \in 0 .. count' /\ count' \in 0 .. MaxListed
        /\ loading' \in {"none", "plain", "init", "sized"}
    BY <1>0, <1>17, <1>d, <2>1 DEF Mode!RowRemoved
  <2> QED BY <1>0, <1>17, <2>2, <2>3 DEF Mode!RowRemoved, ModeInv
<1>18. CASE Mode!SizePrepared
  <2>1. Good(win', chosen)
    BY <1>0, <1>18, GroupsGood DEF Mode!SizePrepared
  <2> QED BY <1>0, <1>18, <2>1 DEF Mode!SizePrepared, ModeInv
<1>19. CASE Mode!LoadEnded
  <2> DEFINE s == IF win.status = "INIT" THEN Mode!UpdateActionGroupsState(win, count) ELSE win
  <2>1. Good(s, chosen)
    BY <1>0, GroupsGood
  <2> HIDE DEF s
  <2>2. \/ win' = [win EXCEPT !.usable = TRUE, !.status = IF @ = "INIT" THEN "NORMAL" ELSE @]
        \/ win' = [s EXCEPT !.usable = FALSE, !.status = IF @ = "INIT" THEN "NORMAL" ELSE @]
    BY <1>19 DEF Mode!LoadEnded, s
  <2>3. ASSUME NEW t, Good(t, chosen), NEW usable \in BOOLEAN,
               win' = [t EXCEPT !.usable = usable, !.status = IF @ = "INIT" THEN "NORMAL" ELSE @]
        PROVE  Good(win', chosen)
    <3>1. PICK status \in {"INIT", "NORMAL", "UNKNOWN"} :
            status = IF t.status = "INIT" THEN "NORMAL" ELSE t.status
      BY <2>3 DEF Good, Windows
    <3>2. win' = [t EXCEPT !.usable = usable, !.status = status]
      BY <2>3, <3>1 DEF Good, Windows
    <3>3. Good([t EXCEPT !.usable = usable, !.status = status], chosen)
      BY <2>3, <3>1, StatusGood
    <3> QED BY <3>2, <3>3
  <2>4. Good(win', chosen)
    BY <1>0, <2>1, <2>2, <2>3
  <2> QED BY <1>0, <1>19, <2>4 DEF Mode!LoadEnded, ModeInv
<1>20. CASE Mode!FullscreenTimeout
  BY <1>0, <1>20, <1>a, PointerGood DEF Mode!FullscreenTimeout
<1>21. CASE Mode!SlideshowSwitch
  <2>1. win.open /\ win.mode = "SLIDESHOW"
    BY <1>0, <1>21 DEF Mode!SlideshowSwitch
  <2>2. CASE ~win.opt.random /\ ~win.opt.loop /\ Mode!IsLoopEnd
    <3>1. Good(Mode!StopFullscreen(win, TRUE), chosen)
      BY <1>c, <2>1
    <3> QED BY <1>21, <1>a, <2>2, <3>1 DEF Mode!SlideshowSwitch
  <2>3. CASE ~(~win.opt.random /\ ~win.opt.loop /\ Mode!IsLoopEnd)
    <3>1. UNCHANGED <<win, count, listing, chosen, quiet>>
          /\ IF count = 0 THEN UNCHANGED <<pos, loading>>
             ELSE IF win.opt.random THEN \E p \in 1 .. count : Mode!Select(p)
             ELSE Mode!Select(Mode!Right)
      BY <1>21, <2>3 DEF Mode!SlideshowSwitch
    <3>2. pos' \in 0 .. count /\ loading' \in {"none", "plain", "init", "sized"}
      <4>1. count # 0 => Mode!Right \in 0 .. count
        BY <1>0 DEF Mode!Right
      <4> QED BY <1>0, <1>d, <3>1, <4>1
    <3> QED BY <1>0, <3>1, <3>2 DEF ModeInv
  <2> QED BY <2>2, <2>3
<1>22. CASE UNCHANGED Mode!vars
  BY <1>0, <1>22 DEF Mode!vars, ModeInv
<1> QED
  BY <1>1, <1>2, <1>3, <1>4, <1>5, <1>6, <1>7, <1>8, <1>9, <1>10, <1>11, <1>12, <1>13, <1>14,
     <1>15, <1>16, <1>17, <1>18, <1>19, <1>20, <1>21, <1>22 DEF Mode!Next

LEMMA ModeMeaning ==
  ASSUME ModeAssumption
  PROVE  ModeInv => Mode!TypeOK /\ Mode!TimersFitMode /\ Mode!ModeIsShown /\ Mode!BarsAsChosen
BY DEF ModeInv, Good, Windows, Fits, Shows, HasBars,
       Mode!TypeOK, Mode!TimersFitMode, Mode!ModeIsShown, Mode!BarsAsChosen

\* The timeouts, the actions, the menu, the screen saver and the bars of a window are those
\* of its mode, whatever starts, pauses, resumes and ends it (eom_window_run_fullscreen,
\* eom_window_stop_fullscreen), for any bars, settings and numbers of images.
THEOREM ModeTells ==
  ASSUME ModeAssumption
  PROVE  ModeSpec => [](Mode!TypeOK /\ Mode!TimersFitMode /\ Mode!ModeIsShown /\ Mode!BarsAsChosen)
<1> USE ModeAssumption
<1>1. Mode!Init => ModeInv
  BY ModeInit
<1>2. ModeInv /\ [Mode!Next]_(Mode!vars) => ModeInv'
  BY ModeStep
<1>3. ModeInv => Mode!TypeOK /\ Mode!TimersFitMode /\ Mode!ModeIsShown /\ Mode!BarsAsChosen
  BY ModeMeaning
<1> QED BY <1>1, <1>2, <1>3, PTL DEF ModeSpec
-----------------------------------------------------------------------------
(* What a window tells *)

MessageSpec == Message!Init /\ [][Message!Next]_(Message!messageVars)

ImageOrNone == Pictures \cup {0}
Questions == [kind : {"none", "error", "changed", "wallpaper"}, of : ImageOrNone]
Statuses == {<<>>} \cup {<<t>> : t \in [kind : {"blank", "info", "opening", "saving"},
                                        of : ImageOrNone]}
Tellers == [image : ImageOrNone, view : ImageOrNone, selected : ImageOrNone, load : ImageOrNone,
            area : Questions, confirms : BOOLEAN, handlers : [Pictures -> 0 .. 2],
            status : Statuses, icon : ImageOrNone, properties : ImageOrNone, menu : ImageOrNone,
            wallpaper : BOOLEAN, copying : ImageOrNone, saving : BOOLEAN]
ImageRecords == [held : BOOLEAN, modified : BOOLEAN, exists : BOOLEAN]

Heard(s) == s.view # 0 => s.handlers[s.view] > 0 /\ s.image = s.view
Told(s) == s.load = 0 /\ ~s.saving /\ s.image # 0 => s.status = <<Message!Area("info", s.image)>>
Tells(s) == s \in Tellers /\ Heard(s) /\ Told(s)

\* There is one message at most, which gives way to the next.
LEMMA StatusReplaced ==
  ASSUME NEW s \in Tellers, NEW kind \in {"blank", "info", "opening", "saving"},
         NEW i \in ImageOrNone
  PROVE  /\ Message!Pop(s) = [s EXCEPT !.status = <<>>] /\ Message!Pop(s) \in Tellers
         /\ Message!Push(Message!Pop(s), kind, i) = [s EXCEPT !.status = <<Message!Area(kind, i)>>]
         /\ Message!Push(Message!Pop(s), kind, i) \in Tellers
<1>1. s.status \in Statuses
  BY DEF Tellers
<1> DEFINE a == Message!Area(kind, i)
<1>3. Tail(s.status) = <<>> \/ s.status = <<>>
  <2>1. CASE s.status # <<>>
    <3>1. PICK t \in [kind : {"blank", "info", "opening", "saving"}, of : ImageOrNone] : s.status = <<t>>
      BY <1>1, <2>1 DEF Statuses
    <3> QED BY <3>1
  <2> QED BY <2>1
<1>4. Message!Pop(s) = [s EXCEPT !.status = <<>>]
  BY <1>3 DEF Message!Pop
<1>5. a \in [kind : {"blank", "info", "opening", "saving"}, of : ImageOrNone]
  BY DEF Message!Area
<1> HIDE DEF a
<1>6. <<a>> \o <<>> = <<a>>
  BY <1>5
<1>7. <<>> \in Statuses /\ <<a>> \in Statuses
  BY <1>5 DEF Statuses
<1> DEFINE e == <<>>
           x == <<a>>
<1>8. e \in Statuses /\ x \in Statuses /\ x \o e = x
  BY <1>6, <1>7
<1>9. Message!Pop(s) = [s EXCEPT !.status = e]
  BY <1>4
<1>10. Message!Push(Message!Pop(s), kind, i) = [Message!Pop(s) EXCEPT !.status = x \o @]
  BY DEF Message!Push, a
<1> HIDE DEF e, x
<1>11. [s EXCEPT !.status = e] \in Tellers /\ [s EXCEPT !.status = e].status = e
  BY <1>8 DEF Tellers
<1>12. Message!Push(Message!Pop(s), kind, i) = [[s EXCEPT !.status = e] EXCEPT !.status = x]
  BY <1>8, <1>9, <1>10, <1>11
<1>13. [[s EXCEPT !.status = e] EXCEPT !.status = x] = [s EXCEPT !.status = x]
       /\ [s EXCEPT !.status = x] \in Tellers
  BY <1>8 DEF Tellers
<1> QED BY <1>9, <1>11, <1>12, <1>13 DEF e, x, a

LEMMA StatusUpdated ==
  ASSUME NEW s \in Tellers
  PROVE  LET r == Message!UpdateStatusBar(s)
         IN /\ r \in Tellers
            /\ r.image # 0 => r.status = <<Message!Area("info", r.image)>>
            /\ r.view = s.view /\ r.image = s.image /\ r.handlers = s.handlers
            /\ r.selected = s.selected /\ r.load = s.load /\ r.saving = s.saving
<1>1. PICK kind \in {"blank", "info", "opening", "saving"} :
        kind = IF s.image = Message!None THEN "blank" ELSE "info"
  OBVIOUS
<1>2. s.image \in ImageOrNone
  BY DEF Tellers
<1> DEFINE x == <<Message!Area(kind, s.image)>>
           r == [s EXCEPT !.status = x]
<1>3. Message!UpdateStatusBar(s) = r /\ r \in Tellers
  BY <1>1, <1>2, StatusReplaced DEF Message!UpdateStatusBar
<1>4. s.image # 0 => x = <<Message!Area("info", s.image)>>
  BY <1>1 DEF Message!None
<1> HIDE DEF x
<1>5. /\ r.status = x /\ r.view = s.view /\ r.image = s.image /\ r.handlers = s.handlers
      /\ r.selected = s.selected /\ r.load = s.load /\ r.saving = s.saving
  BY DEF Tellers
<1> HIDE DEF r
<1> QED BY <1>3, <1>4, <1>5

\* An image that comes into the view is the window's, and the window hears of its file.
LEMMA DisplayTells ==
  ASSUME NEW s \in Tellers, NEW i \in Pictures, s.image = i, 0 \notin Pictures
  PROVE  LET r == Message!DisplayImage(s, i)
         IN r \in Tellers /\ r.view = i /\ r.image = i /\ r.handlers[i] > 0
            /\ r.status = <<Message!Area("info", i)>>
<1>1. PICK h \in 1 .. 2 : h = Message!Least(s.handlers[i] + 1, Message!Most)
  BY DEF Tellers, Message!Least, Message!Most
<1>2. PICK p \in ImageOrNone : p = IF s.properties = Message!None THEN Message!None ELSE i
  BY DEF ImageOrNone, Message!None
<1> DEFINE t == [s EXCEPT !.handlers[i] = h, !.icon = i, !.properties = p, !.confirms = TRUE,
                          !.view = i]
           u == Message!UpdateStatusBar(t)
<1>3. [Message!ThumbChanged([s EXCEPT !.handlers[i] = Message!Least(@ + 1, Message!Most)], i)
          EXCEPT !.confirms = TRUE, !.view = i] = t
  BY <1>1, <1>2 DEF Message!ThumbChanged, Tellers
<1>4. Message!DisplayImage(s, i) = Message!UpdateOpenWithMenu(u, i)
  BY <1>3 DEF Message!DisplayImage
<1>5. i \in ImageOrNone
  BY DEF ImageOrNone
<1>6. t \in Tellers /\ t.view = i /\ t.image = i /\ t.handlers[i] = h
  <2>1. PICK hs \in [Pictures -> 0 .. 2] : hs = [s.handlers EXCEPT ![i] = h]
    <3>1. s.handlers \in [Pictures -> 0 .. 2] /\ h \in 0 .. 2
      BY DEF Tellers
    <3>2. [s.handlers EXCEPT ![i] = h] \in [Pictures -> 0 .. 2]
      BY <3>1
    <3> QED BY <3>2, Zenon
  <2>2. hs[i] = h
    BY <2>1 DEF Tellers
  <2>3. t = [s EXCEPT !.handlers = hs, !.icon = i, !.properties = p, !.confirms = TRUE, !.view = i]
    BY <2>1 DEF Tellers
  <2> QED BY <1>2, <1>5, <2>2, <2>3, ZenonT(30) DEF Tellers
<1> HIDE DEF t
<1>7. u \in Tellers /\ u.view = i /\ u.image = i /\ u.handlers[i] = h
      /\ u.status = <<Message!Area("info", i)>>
  BY <1>6, StatusUpdated
<1> HIDE DEF u
<1> DEFINE v == [u EXCEPT !.menu = i]
<1>8. v \in Tellers /\ v.view = u.view /\ v.image = u.image /\ v.handlers = u.handlers
      /\ v.status = u.status
  BY <1>5, <1>7 DEF Tellers
<1>9. Message!DisplayImage(s, i) = u \/ Message!DisplayImage(s, i) = v
  BY <1>4 DEF Message!UpdateOpenWithMenu
<1> HIDE DEF v
<1> QED BY <1>1, <1>7, <1>8, <1>9

LEMMA DisplayedTells ==
  ASSUME NEW s \in Tellers, NEW i \in Pictures, s.image = i, 0 \notin Pictures
  PROVE  Tells(Message!DisplayImage(s, i))
<1> DEFINE r == Message!DisplayImage(s, i)
<1>1. /\ r \in Tellers /\ r.view = i /\ r.image = i /\ r.handlers[i] > 0
      /\ r.status = <<Message!Area("info", i)>>
  BY DisplayTells
<1> HIDE DEF r
<1>2. Tells(r)
  BY <1>1 DEF Tells, Heard, Told
<1> QED BY <1>2 DEF r

LEMMA SelectionTells ==
  ASSUME MessageAssumption, NEW s, Tells(s), NEW i \in ImageOrNone
  PROVE  Tells(Message!SelectionChanged(s, i))
<1>0. s \in Tellers /\ Heard(s) /\ Told(s) /\ 0 \notin Pictures
  BY DEF Tells, MessageAssumption
<1>1. CASE i = 0
  <2> DEFINE r == [s EXCEPT !.selected = 0]
  <2>1. Message!SelectionChanged(s, i) = r
    BY <1>1 DEF Message!SelectionChanged, Message!None
  <2>2. /\ r \in Tellers /\ r.view = s.view /\ r.image = s.image /\ r.handlers = s.handlers
        /\ r.status = s.status /\ r.load = s.load /\ r.saving = s.saving
    BY <1>0, <1>1 DEF Tellers
  <2> HIDE DEF r
  <2> QED BY <1>0, <2>1, <2>2 DEF Tells, Heard, Told
<1>2. CASE i # 0
  <2> DEFINE s0 == [s EXCEPT !.selected = i, !.load = 0, !.area = Message!NoArea,
                             !.wallpaper = TRUE]
             c == Message!Pop(s0)
             d == [c EXCEPT !.image = i]
  <2>1. i \in Pictures
    BY <1>2 DEF ImageOrNone
  <2>2. Message!NoArea \in Questions /\ 0 \in ImageOrNone
    BY DEF Message!NoArea, Message!None, Questions, ImageOrNone
  <2>3. /\ s0 \in Tellers /\ s0.view = s.view /\ s0.image = s.image /\ s0.handlers = s.handlers
        /\ s0.load = 0
    BY <1>0, <2>2 DEF Tellers
  <2>4. Message!SelectionChanged(s, i) =
          IF i = c.image THEN Message!UpdateStatusBar(c)
          ELSE IF Message!HasPixels(c, i) THEN Message!DisplayImage(d, i)
          ELSE Message!Push([c EXCEPT !.load = i], "opening", i)
    BY <1>2 DEF Message!SelectionChanged, Message!None
  <2> HIDE DEF s0
  <2>5. c \in Tellers /\ c = [s0 EXCEPT !.status = <<>>]
    BY <2>3, <2>2, StatusReplaced
  <2>6. /\ c.view = s.view /\ c.image = s.image /\ c.handlers = s.handlers /\ c.load = 0
    BY <2>3, <2>5 DEF Tellers
  <2>7. CASE i = c.image
    <3> DEFINE r == Message!UpdateStatusBar(c)
    <3>1. /\ r \in Tellers
          /\ r.image # 0 => r.status = <<Message!Area("info", r.image)>>
          /\ r.view = c.view /\ r.image = c.image /\ r.handlers = c.handlers
      BY <2>5, StatusUpdated
    <3>2. Message!SelectionChanged(s, i) = r
      BY <2>4, <2>7
    <3> HIDE DEF r, c
    <3> QED BY <1>0, <2>6, <3>1, <3>2 DEF Tells, Heard, Told
  <2>8. CASE i # c.image /\ Message!HasPixels(c, i)
    <3>1. d \in Tellers /\ d.image = i
      <4> HIDE DEF c
      <4> QED BY <2>5 DEF Tellers
    <3>2. Message!SelectionChanged(s, i) = Message!DisplayImage(d, i)
      BY <2>4, <2>8
    <3> HIDE DEF d
    <3> QED BY <1>0, <2>1, <3>1, <3>2, DisplayedTells
  <2>9. CASE i # c.image /\ ~Message!HasPixels(c, i)
    <3> DEFINE l == [s0 EXCEPT !.load = i]
               r == Message!Push(Message!Pop(l), "opening", i)
    <3>1. l \in Tellers /\ l.view = s.view /\ l.image = s.image /\ l.handlers = s.handlers
          /\ l.load = i /\ l.status = s0.status
      BY <2>3 DEF Tellers
    <3>2. [c EXCEPT !.load = i] = Message!Pop(l)
      <4>1. Message!Pop(l) = [l EXCEPT !.status = <<>>]
        <5> HIDE DEF l
        <5> QED BY <3>1, <2>2, StatusReplaced
      <4> HIDE DEF c
      <4> QED BY <2>3, <2>5, <4>1 DEF Tellers
    <3>3. Message!SelectionChanged(s, i) = r
      BY <2>4, <2>9, <3>2
    <3> HIDE DEF l
    <3>4. r = [l EXCEPT !.status = <<Message!Area("opening", i)>>] /\ r \in Tellers
      BY <3>1, StatusReplaced
    <3>5. r.view = s.view /\ r.image = s.image /\ r.handlers = s.handlers /\ r.load = i
      BY <3>1, <3>4 DEF Tellers
    <3> HIDE DEF r
    <3> QED BY <1>0, <1>2, <3>3, <3>4, <3>5 DEF Tells, Heard, Told
  <2> QED BY <2>7, <2>8, <2>9
<1> QED BY <1>1, <1>2

LEMMA CurrentTells ==
  ASSUME MessageAssumption, NEW s, Tells(s)
  PROVE  Tells(Message!SelectCurrent(s)) /\ Tells(Message!ReloadImage(s))
<1>0. s \in Tellers /\ Heard(s) /\ Told(s) /\ 0 \in ImageOrNone
  BY DEF Tells, ImageOrNone
<1>1. ASSUME NEW t, Tells(t) PROVE Tells(Message!SelectCurrent(t))
  <2>1. t.selected \in ImageOrNone
    BY <1>1 DEF Tells, Tellers
  <2>2. Tells(Message!SelectionChanged(Message!SelectionChanged(t, 0), t.selected))
    BY <1>0, <1>1, <2>1, SelectionTells
  <2> QED BY <1>1, <2>2 DEF Message!SelectCurrent, Message!None
<1>2. Tells(Message!ReloadImage(s))
  <2> DEFINE t == [s EXCEPT !.image = 0, !.view = 0]
  <2>1. t \in Tellers /\ t.image = 0 /\ t.view = 0
    BY <1>0 DEF Tellers
  <2>2. Message!ReloadImage(s) = s \/ Message!ReloadImage(s) = Message!SelectCurrent(t)
    BY DEF Message!ReloadImage, Message!None
  <2> HIDE DEF t
  <2>3. Tells(t)
    BY <2>1 DEF Tells, Heard, Told
  <2> QED BY <1>1, <2>2, <2>3
<1> QED BY <1>1, <1>2

LEMMA FileChangedTells ==
  ASSUME MessageAssumption, NEW s, Tells(s), NEW i \in Pictures
  PROVE  Tells(Message!FileChanged(s, i))
<1>0. s \in Tellers /\ Heard(s) /\ Told(s)
  BY DEF Tells
<1> DEFINE t == [s EXCEPT !.confirms = FALSE, !.area = Message!Area("changed", i)]
<1>1. Message!Area("changed", i) \in Questions
  BY DEF Message!Area, Questions, ImageOrNone
<1>2. /\ t \in Tellers /\ t.view = s.view /\ t.image = s.image /\ t.handlers = s.handlers
      /\ t.status = s.status /\ t.load = s.load /\ t.saving = s.saving
  BY <1>0, <1>1 DEF Tellers
<1>3. \/ Message!FileChanged(s, i) = s \/ Message!FileChanged(s, i) = Message!ReloadImage(s)
      \/ Message!FileChanged(s, i) = t
  BY DEF Message!FileChanged
<1> HIDE DEF t
<1>4. Tells(t)
  BY <1>0, <1>2 DEF Tells, Heard, Told
<1> QED BY <1>3, <1>4, CurrentTells

\* What changes no image that is shown, loaded or told of
LEMMA TellsKept ==
  ASSUME NEW s, Tells(s), NEW t \in Tellers, t.view = s.view, t.image = s.image,
         t.handlers = s.handlers, t.status = s.status, t.load = s.load, t.saving = s.saving
  PROVE  Tells(t)
BY DEF Tells, Heard, Told

MessageInv == Tells(told) /\ img \in [Pictures -> ImageRecords] /\ events \in 0 .. MaxEvents

LEMMA MessageStep ==
  ASSUME MessageAssumption, MessageInv, [Message!Next]_(Message!messageVars)
  PROVE  MessageInv'
<1>0. /\ Tells(told) /\ told \in Tellers /\ Heard(told) /\ Told(told) /\ 0 \notin Pictures /\ 0 \in ImageOrNone
      /\ Pictures \subseteq ImageOrNone
      /\ img \in [Pictures -> ImageRecords] /\ events \in 0 .. MaxEvents /\ MaxEvents \in Nat
  BY DEF MessageInv, Tells, MessageAssumption, ImageOrNone
<1>a. ASSUME NEW s, Tells(s), Message!Becomes(s) PROVE MessageInv'
  BY <1>0, <1>a DEF Message!Becomes, MessageInv
<1>b. ASSUME Tells(told'), Message!Event, UNCHANGED img PROVE MessageInv'
  BY <1>0, <1>b DEF Message!Event, MessageInv
<1>c. Message!Event => events' \in 0 .. MaxEvents
  BY <1>0 DEF Message!Event
<1>d. \A kind \in {"none", "error", "changed", "wallpaper"}, i \in ImageOrNone :
        Message!Area(kind, i) \in Questions
  BY DEF Message!Area, Questions
<1>e. Message!NoArea \in Questions
  BY DEF Message!NoArea, Message!None, Questions, ImageOrNone
<1>1. ASSUME NEW i \in ImageOrNone, Message!Select(i) PROVE MessageInv'
  BY <1>0, <1>1, <1>b, SelectionTells DEF Message!Select
<1>2. ASSUME NEW i \in Pictures, Message!FileEvent(i) PROVE MessageInv'
  <2>1. Tells(Message!FileChanged(told, i)) /\ Tells(Message!FileChanged(Message!FileChanged(told, i), i))
    BY <1>0, FileChangedTells
  <2>2. Tells(Message!Emitted(told, i))
    BY <1>0, <2>1 DEF Message!Emitted
  <2> QED BY <1>2, <1>b, <2>2 DEF Message!FileEvent
<1>3. ASSUME NEW i \in Pictures, Message!ThumbEvent(i) PROVE MessageInv'
  <2>1. PICK p \in ImageOrNone : p = IF told.properties = Message!None THEN Message!None ELSE i
    BY <1>0 DEF Message!None
  <2> DEFINE t == [told EXCEPT !.icon = i, !.properties = p]
  <2>2. Message!Becomes(t)
    BY <1>3, <2>1 DEF Message!ThumbEvent, Message!ThumbChanged
  <2>3. /\ t \in Tellers /\ t.view = told.view /\ t.image = told.image /\ t.handlers = told.handlers
        /\ t.status = told.status /\ t.load = told.load /\ t.saving = told.saving
    BY <1>0, <2>1 DEF Tellers
  <2> HIDE DEF t
  <2> QED BY <1>0, <1>a, <2>2, <2>3, TellsKept
<1>4. ASSUME NEW i \in Pictures, Message!FileGoes(i) PROVE MessageInv'
  <2>1. img' = [img EXCEPT ![i].exists = FALSE] /\ UNCHANGED told
    BY <1>4 DEF Message!FileGoes
  <2>2. img' \in [Pictures -> ImageRecords]
    BY <1>0, <2>1 DEF ImageRecords
  <2> QED BY <1>0, <1>4, <1>c, <2>1, <2>2 DEF Message!FileGoes, MessageInv
<1>5. ASSUME NEW i \in Pictures, Message!Save(i) PROVE MessageInv'
  <2> DEFINE t == [told EXCEPT !.saving = TRUE]
             r == Message!Push(Message!Pop(t), "saving", i)
  <2>1. told' = r /\ img' = [img EXCEPT ![i].held = TRUE]
    BY <1>5 DEF Message!Save
  <2>2. img' \in [Pictures -> ImageRecords]
    BY <1>0, <2>1 DEF ImageRecords
  <2>3. /\ t \in Tellers /\ t.view = told.view /\ t.image = told.image /\ t.handlers = told.handlers
        /\ t.saving = TRUE
    BY <1>0 DEF Tellers
  <2> HIDE DEF t
  <2>4. r = [t EXCEPT !.status = <<Message!Area("saving", i)>>] /\ r \in Tellers
    BY <1>0, <2>3, StatusReplaced
  <2>5. r.view = told.view /\ r.image = told.image /\ r.handlers = told.handlers /\ r.saving = TRUE
    BY <2>3, <2>4 DEF Tellers
  <2> HIDE DEF r
  <2>6. Tells(r)
    BY <1>0, <2>4, <2>5 DEF Tells, Heard, Told
  <2> QED BY <1>5, <1>c, <2>1, <2>2, <2>6 DEF Message!Save, MessageInv
<1>6. CASE Message!LoadFinished
  <2> DEFINE old == [h \in Pictures |-> IF h = told.image THEN 0 ELSE told.handlers[h]]
             c == [Message!Pop(told) EXCEPT !.image = told.load, !.handlers = old]
             d == Message!DisplayImage(c, told.load)
             u == Message!UpdateStatusBar(c)
  <2>1. /\ told.load # 0
        /\ \/ Message!Becomes([d EXCEPT !.load = 0])
           \/ Message!Becomes([u EXCEPT !.area = Message!Area("error", told.load), !.view = 0,
                                        !.icon = 0, !.load = 0])
    BY <1>6 DEF Message!LoadFinished, Message!None
  <2>2. told.load \in Pictures
    BY <1>0, <2>1 DEF Tellers, ImageOrNone
  <2>3. old \in [Pictures -> 0 .. 2]
    BY <1>0 DEF Tellers
  <2>4. Message!Pop(told) \in Tellers
    BY <1>0, StatusReplaced
  <2>5. c \in Tellers /\ c.image = told.load
    <3> HIDE DEF old
    <3> QED BY <1>0, <2>2, <2>3, <2>4 DEF Tellers
  <2> HIDE DEF c
  <2>6. /\ d \in Tellers /\ d.view = told.load /\ d.image = told.load /\ d.handlers[told.load] > 0
        /\ d.status = <<Message!Area("info", told.load)>>
    BY <1>0, <2>2, <2>5, DisplayTells
  <2>7. u \in Tellers /\ u.image = told.load /\ u.status = <<Message!Area("info", told.load)>>
    BY <2>1, <2>5, StatusUpdated
  <2> HIDE DEF d, u
  <2>8. CASE Message!Becomes([d EXCEPT !.load = 0])
    <3> DEFINE r == [d EXCEPT !.load = 0]
    <3>1. r \in Tellers /\ r.view = d.view /\ r.image = d.image /\ r.handlers = d.handlers
          /\ r.status = d.status
      BY <1>0, <2>6 DEF Tellers
    <3>2. Message!Becomes(r)
      BY <2>8
    <3> HIDE DEF r
    <3>3. Tells(r)
      BY <2>6, <3>1 DEF Tells, Heard, Told
    <3> QED BY <1>a, <3>2, <3>3
  <2>9. CASE Message!Becomes([u EXCEPT !.area = Message!Area("error", told.load), !.view = 0,
                                       !.icon = 0, !.load = 0])
    <3> DEFINE r == [u EXCEPT !.area = Message!Area("error", told.load), !.view = 0,
                              !.icon = 0, !.load = 0]
    <3>1. Message!Area("error", told.load) \in Questions
      BY <1>0, <1>d, <2>2
    <3>2. r \in Tellers /\ r.view = 0 /\ r.image = u.image /\ r.status = u.status
      BY <1>0, <2>7, <3>1 DEF Tellers
    <3>3. Message!Becomes(r)
      BY <2>9
    <3> HIDE DEF r
    <3>4. Tells(r)
      BY <2>7, <3>2 DEF Tells, Heard, Told
    <3> QED BY <1>a, <3>3, <3>4
  <2> QED BY <2>1, <2>8, <2>9
<1>7. ASSUME NEW s, Tells(s), NEW area \in Questions, NEW confirms \in BOOLEAN,
             NEW wallpaper \in BOOLEAN, NEW copying \in ImageOrNone
      PROVE  Tells([s EXCEPT !.area = area, !.confirms = confirms, !.wallpaper = wallpaper,
                             !.copying = copying])
  <2> DEFINE t == [s EXCEPT !.area = area, !.confirms = confirms, !.wallpaper = wallpaper,
                            !.copying = copying]
  <2>1. s \in Tellers
    BY <1>7 DEF Tells
  <2>2. /\ t \in Tellers /\ t.view = s.view /\ t.image = s.image /\ t.handlers = s.handlers
        /\ t.status = s.status /\ t.load = s.load /\ t.saving = s.saving
    BY <2>1 DEF Tellers
  <2> HIDE DEF t
  <2>3. Tells(t)
    BY <1>7, <2>2, TellsKept
  <2> QED BY <2>3 DEF t
<1>f. ASSUME NEW s, Tells(s)
      PROVE  /\ s \in Tellers /\ s.confirms \in BOOLEAN /\ s.wallpaper \in BOOLEAN
             /\ s.copying \in ImageOrNone /\ s.area \in Questions /\ s.selected \in ImageOrNone
  BY <1>f DEF Tells, Tellers
<1>8. CASE Message!ErrorResponse
  <2>1. Tells(Message!SelectCurrent(told))
    BY <1>0, CurrentTells
  <2>2. [told EXCEPT !.area = Message!NoArea]
          = [told EXCEPT !.area = Message!NoArea, !.confirms = told.confirms,
                      !.wallpaper = told.wallpaper, !.copying = told.copying]
    BY <1>0 DEF Tellers
  <2>3. Tells([told EXCEPT !.area = Message!NoArea])
    <3>1. Tells([told EXCEPT !.area = Message!NoArea, !.confirms = told.confirms,
                          !.wallpaper = told.wallpaper, !.copying = told.copying])
      BY <1>0, <1>7, <1>e, <1>f
    <3> QED BY <2>2, <3>1
  <2> QED BY <1>8, <1>a, <2>1, <2>3 DEF Message!ErrorResponse
<1>9. CASE Message!FileChangedResponse
  <2>1. Tells(Message!ReloadImage(told))
    BY <1>0, CurrentTells
  <2>2. PICK s \in {told, Message!ReloadImage(told)} :
          Message!Becomes([s EXCEPT !.confirms = TRUE, !.area = Message!NoArea])
    BY <1>9 DEF Message!FileChangedResponse
  <2>3. Tells(s)
    BY <1>0, <2>1
  <2>4. [s EXCEPT !.confirms = TRUE, !.area = Message!NoArea]
          = [s EXCEPT !.area = Message!NoArea, !.confirms = TRUE,
                      !.wallpaper = s.wallpaper, !.copying = s.copying]
    BY <2>3, <1>f DEF Tellers
  <2>5. Tells([s EXCEPT !.confirms = TRUE, !.area = Message!NoArea])
    <3>1. Tells([s EXCEPT !.area = Message!NoArea, !.confirms = TRUE,
                          !.wallpaper = s.wallpaper, !.copying = s.copying])
      BY <1>7, <1>e, <1>f, <2>3
    <3> QED BY <2>4, <3>1
  <2> QED BY <1>a, <2>2, <2>5
<1>10. CASE Message!WallpaperResponse
  <2>2. [told EXCEPT !.area = Message!NoArea]
          = [told EXCEPT !.area = Message!NoArea, !.confirms = told.confirms,
                      !.wallpaper = told.wallpaper, !.copying = told.copying]
    BY <1>0 DEF Tellers
  <2>3. Tells([told EXCEPT !.area = Message!NoArea])
    <3>1. Tells([told EXCEPT !.area = Message!NoArea, !.confirms = told.confirms,
                          !.wallpaper = told.wallpaper, !.copying = told.copying])
      BY <1>0, <1>7, <1>e, <1>f
    <3> QED BY <2>2, <3>1
  <2> QED BY <1>10, <1>a, <2>3 DEF Message!WallpaperResponse
<1>11. CASE Message!SetAsWallpaper
  <2>1. Message!Event /\ UNCHANGED img
    BY <1>11 DEF Message!SetAsWallpaper
  <2>2. \/ told' = told
        \/ told' = [told EXCEPT !.area = Message!Area("wallpaper", told.selected)]
        \/ told' = [told EXCEPT !.wallpaper = FALSE, !.copying = told.selected]
    BY <1>11 DEF Message!SetAsWallpaper
  <2>3. CASE told' = [told EXCEPT !.area = Message!Area("wallpaper", told.selected)]
    <3>1. PICK a \in Questions : a = Message!Area("wallpaper", told.selected)
      BY <1>0, <1>d, <1>f
    <3>2. told' = [told EXCEPT !.area = a, !.confirms = told.confirms,
                         !.wallpaper = told.wallpaper, !.copying = told.copying]
      BY <1>0, <2>3, <3>1 DEF Tellers
    <3>3. Tells(told')
      BY <1>0, <1>7, <1>f, <3>2
    <3> QED BY <1>b, <2>1, <3>3
  <2>4. CASE told' = [told EXCEPT !.wallpaper = FALSE, !.copying = told.selected]
    <3>1. told' = [told EXCEPT !.area = told.area, !.confirms = told.confirms,
                         !.wallpaper = FALSE, !.copying = told.selected]
      BY <1>0, <2>4 DEF Tellers
    <3>2. Tells(told')
      BY <1>0, <1>7, <1>f, <3>1
    <3> QED BY <1>b, <2>1, <3>2
  <2>5. CASE told' = told
    BY <1>0, <1>b, <2>1, <2>5
  <2> QED BY <2>2, <2>3, <2>4, <2>5
<1>12. CASE Message!CopyFinished
  <2>1. PICK a \in Questions : a = Message!Area("wallpaper", told.copying)
    BY <1>0, <1>d, <1>f
  <2>2. Message!Becomes([told EXCEPT !.area = a, !.wallpaper = TRUE, !.copying = 0])
    BY <1>12, <2>1 DEF Message!CopyFinished, Message!None
  <2>3. [told EXCEPT !.area = a, !.wallpaper = TRUE, !.copying = 0]
          = [told EXCEPT !.area = a, !.confirms = told.confirms, !.wallpaper = TRUE, !.copying = 0]
    BY <1>0 DEF Tellers
  <2>4. Tells([told EXCEPT !.area = a, !.wallpaper = TRUE, !.copying = 0])
    BY <1>0, <1>7, <1>f, <2>3, ZenonT(30)
  <2> QED BY <1>a, <2>2, <2>4
<1>13. CASE Message!SaveFinished
  <2> DEFINE t == [told EXCEPT !.saving = FALSE]
             r == Message!UpdateStatusBar(t)
  <2>1. told' = r /\ UNCHANGED events /\ img' = [i \in Pictures |-> [img[i] EXCEPT !.held = FALSE]]
    BY <1>13 DEF Message!SaveFinished
  <2>2. img' \in [Pictures -> ImageRecords]
    BY <1>0, <2>1 DEF ImageRecords
  <2>3. t \in Tellers /\ t.view = told.view /\ t.image = told.image /\ t.handlers = told.handlers
    BY <1>0 DEF Tellers
  <2> HIDE DEF t
  <2>4. /\ r \in Tellers
        /\ r.image # 0 => r.status = <<Message!Area("info", r.image)>>
        /\ r.view = t.view /\ r.image = t.image /\ r.handlers = t.handlers
    BY <2>3, StatusUpdated
  <2> HIDE DEF r
  <2>5. Tells(r)
    BY <1>0, <2>3, <2>4 DEF Tells, Heard, Told
  <2> QED BY <1>0, <2>1, <2>2, <2>5 DEF MessageInv
<1>14. CASE Message!Transform
  <2>1. /\ told.image # 0 /\ Message!Event /\ UNCHANGED told
        /\ img' = [img EXCEPT ![told.image].modified = ~@]
    BY <1>14 DEF Message!Transform, Message!None
  <2>2. told.image \in Pictures
    BY <1>0, <2>1 DEF Tellers, ImageOrNone
  <2>3. PICK m \in BOOLEAN : m = ~img[told.image].modified
    OBVIOUS
  <2>4. img' = [img EXCEPT ![told.image].modified = m]
    BY <1>0, <2>1, <2>2, <2>3
  <2>5. img' \in [Pictures -> ImageRecords]
    BY <1>0, <2>2, <2>4 DEF ImageRecords
  <2> QED BY <1>0, <1>c, <2>1, <2>5 DEF MessageInv
<1>15. CASE Message!Properties
  <2> DEFINE t == [told EXCEPT !.properties = told.image]
  <2>1. Message!Becomes(t)
    BY <1>15 DEF Message!Properties
  <2>2. /\ t \in Tellers /\ t.view = told.view /\ t.image = told.image /\ t.handlers = told.handlers
        /\ t.status = told.status /\ t.load = told.load /\ t.saving = told.saving
    BY <1>0 DEF Tellers
  <2> HIDE DEF t
  <2> QED BY <1>0, <1>a, <2>1, <2>2, TellsKept
<1>16. CASE UNCHANGED Message!messageVars
  BY <1>0, <1>16 DEF Message!messageVars, MessageInv
<1>17. CASE Message!Select(Message!None)
  BY <1>0, <1>1, <1>17 DEF Message!None
<1>18. CASE \E i \in Pictures : Message!Select(i) \/ Message!FileEvent(i) \/ Message!ThumbEvent(i)
                               \/ Message!FileGoes(i) \/ Message!Save(i)
  BY <1>0, <1>1, <1>2, <1>3, <1>4, <1>5, <1>18
<1> QED BY <1>6, <1>8, <1>9, <1>10, <1>11, <1>12, <1>13, <1>14, <1>15, <1>16, <1>17, <1>18
           DEF Message!Next

LEMMA MessageInit == ASSUME MessageAssumption, Message!Init PROVE MessageInv
<1>1. /\ told \in Tellers /\ told.view = 0 /\ told.image = 0
  <2>1. Message!NoArea \in Questions /\ 0 \in ImageOrNone /\ <<>> \in Statuses
    BY DEF Message!NoArea, Message!None, Questions, ImageOrNone, Statuses
  <2>2. PICK a \in Questions, e \in Statuses, h \in [Pictures -> 0 .. 2] :
          a = Message!NoArea /\ e = <<>> /\ h = [i \in Pictures |-> 0]
    <3>1. [i \in Pictures |-> 0] \in [Pictures -> 0 .. 2]
      OBVIOUS
    <3> QED BY <2>1, <3>1, Zenon
  <2>3. told = [image |-> 0, view |-> 0, selected |-> 0, load |-> 0, area |-> a,
             confirms |-> FALSE, handlers |-> h, status |-> e,
             icon |-> 0, properties |-> 0, menu |-> 0, wallpaper |-> FALSE,
             copying |-> 0, saving |-> FALSE]
    BY <2>2 DEF Message!Init, Message!None
  <2> QED BY <2>1, <2>3 DEF Tellers
<1>2. img \in [Pictures -> ImageRecords] /\ events = 0
  BY DEF Message!Init, ImageRecords
<1> QED BY <1>1, <1>2 DEF MessageInv, MessageAssumption, Tells, Heard, Told

LEMMA MessageMeaning ==
  ASSUME MessageAssumption
  PROVE  MessageInv => Message!TypeOK /\ Message!ShownIsHeard /\ Message!StatusTells
<1> SUFFICES ASSUME MessageInv
             PROVE  Message!TypeOK /\ Message!ShownIsHeard /\ Message!StatusTells
  OBVIOUS
<1>1. told \in Tellers /\ Heard(told) /\ Told(told)
  BY DEF MessageInv, Tells
<1>2. \A i \in {told.image, told.view, told.selected, told.load, told.icon, told.properties, told.menu, told.copying} :
        i \in Pictures \cup {0}
  BY <1>1 DEF Tellers, ImageOrNone
<1>3. told.area.kind \in {"none", "error", "changed", "wallpaper"}
      /\ told.handlers \in [Pictures -> 0 .. 2]
      /\ {told.confirms, told.wallpaper, told.saving} \subseteq BOOLEAN
  BY <1>1 DEF Tellers, Questions
<1>4. Message!TypeOK
  BY <1>2, <1>3 DEF Message!TypeOK, MessageInv, ImageRecords, Message!None, Message!Most
<1> QED BY <1>1, <1>4 DEF Heard, Told, Message!ShownIsHeard, Message!StatusTells, Message!None

\* The window hears of the file of the image it shows, which is the one its commands apply
\* to, and with no job at work its status bar tells of that image (eom_window_display_image,
\* handle_image_selection_changed_cb, eom_job_load_cb, eom_job_save_cb), for any images and
\* any number of events.
THEOREM MessageTells ==
  ASSUME MessageAssumption
  PROVE  MessageSpec => [](Message!TypeOK /\ Message!ShownIsHeard /\ Message!StatusTells)
<1> USE MessageAssumption
<1>1. Message!Init => MessageInv
  BY MessageInit
<1>2. MessageInv /\ [Message!Next]_(Message!messageVars) => MessageInv'
  BY MessageStep
<1>3. MessageInv => Message!TypeOK /\ Message!ShownIsHeard /\ Message!StatusTells
  BY MessageMeaning
<1> QED BY <1>1, <1>2, <1>3, PTL DEF MessageSpec
-----------------------------------------------------------------------------
(* The animation of an image *)

AnimationSpec == Animation!Init /\ [][Animation!Next]_(Animation!animationVars)

Shades == {-1} \cup 0 .. 3
AnimationImages == [pixels : Shades, anim : BOOLEAN, playing : BOOLEAN, trans : 0 .. 3, loads : Nat]
AnimationViews == [shown : BOOLEAN, pixels : Shades, follows : BOOLEAN]
AnimationJobs == [step : {"none", "applied", "replaced"}, turn : Nat, turns : Nat,
                  pixels : Shades, idle : BOOLEAN]

\* An image that plays has a timeout; each load brings one timeout at most, which is still
\* to come while its animation does not play.
AnimationInv ==
  /\ movie \in AnimationImages /\ view \in AnimationViews /\ rot \in AnimationJobs
  /\ timers \in Nat
  /\ view.follows => view.shown /\ movie.playing
  /\ movie.playing => movie.anim /\ timers > 0
  /\ timers + (IF movie.anim /\ ~movie.playing THEN 1 ELSE 0) <= movie.loads
  /\ movie.loads <= MaxLoads

LEMMA TurnedShade ==
  ASSUME NEW x \in Nat, NEW n \in Nat
  PROVE  Animation!Turned(x, n) \in 0 .. 3
<1>1. PICK y \in Nat : y = x + n
  OBVIOUS
<1>2. y % 4 \in 0 .. 3
  OBVIOUS
<1> QED BY <1>1, <1>2 DEF Animation!Turned

LEMMA AnimationStep ==
  ASSUME AnimationAssumption, AnimationInv, [Animation!Next]_(Animation!animationVars)
  PROVE  AnimationInv'
<1> USE DEF AnimationInv
<1>1. CASE Animation!Load
  <2>1. movie.loads < MaxLoads /\ ~view.shown /\ ~view.follows /\ UNCHANGED <<view, timers, rot>>
    BY <1>1 DEF Animation!Load, AnimationViews
  <2>2. CASE movie.pixels # -1
    <3>1. movie' = [movie EXCEPT !.loads = @ + 1]
      BY <1>1, <2>2 DEF Animation!Load, Animation!None
    <3>2. /\ movie' \in AnimationImages /\ movie'.loads = movie.loads + 1
          /\ movie'.anim = movie.anim /\ movie'.playing = movie.playing
      BY <3>1 DEF AnimationImages
    <3>3. PICK b \in {0, 1} : b = IF movie.anim /\ ~movie.playing THEN 1 ELSE 0
      OBVIOUS
    <3>4. b = IF movie'.anim /\ ~movie'.playing THEN 1 ELSE 0
      BY <3>2, <3>3
    <3>5. timers + b <= movie.loads /\ movie.loads \in Nat
      BY <3>3 DEF AnimationImages
    <3>6. timers' + b <= movie'.loads /\ movie'.loads <= MaxLoads
      BY <2>1, <3>2, <3>5 DEF AnimationAssumption
    <3>7. timers' + (IF movie'.anim /\ ~movie'.playing THEN 1 ELSE 0) <= movie'.loads
      BY <3>4, <3>6
    <3> QED BY <2>1, <3>2, <3>6, <3>7
  <2>3. CASE movie.pixels = -1
    <3>0. PICK l \in Nat : l = movie.loads + 1
      BY DEF AnimationImages
    <3>a. movie.trans \in Shades
      BY DEF AnimationImages, Shades
    <3>1. movie' = [movie EXCEPT !.pixels = movie.trans, !.anim = TRUE, !.loads = l]
      BY <1>1, <2>3, <3>0 DEF Animation!Load, Animation!None
    <3>2. /\ movie' \in AnimationImages /\ movie'.loads = movie.loads + 1
          /\ movie'.anim = TRUE /\ movie'.playing = movie.playing
      BY <3>0, <3>a, <3>1 DEF AnimationImages
    <3> QED BY <2>1, <3>2 DEF AnimationAssumption, AnimationImages
  <2> QED BY <2>2, <2>3
<1>2. CASE Animation!Display
  <2>1. /\ view' = [shown |-> TRUE, pixels |-> movie.pixels, follows |-> movie.anim]
        /\ UNCHANGED rot
    BY <1>2 DEF Animation!Display
  <2>2. view' \in AnimationViews /\ view'.shown = TRUE /\ view'.follows = movie.anim
    BY <2>1 DEF AnimationViews, AnimationImages
  <2>3. CASE movie.anim /\ ~movie.playing
    <3>1. movie' = [movie EXCEPT !.playing = TRUE] /\ timers' = timers + 1
      BY <1>2, <2>3 DEF Animation!Display, Animation!StartAnimation
    <3>2. /\ movie' \in AnimationImages /\ movie'.loads = movie.loads
          /\ movie'.anim = movie.anim /\ movie'.playing = TRUE
      BY <3>1 DEF AnimationImages
    <3> QED BY <2>1, <2>2, <2>3, <3>1, <3>2 DEF AnimationImages
  <2>4. CASE ~(movie.anim /\ ~movie.playing)
    <3>1. UNCHANGED <<movie, timers>>
      BY <1>2, <2>4 DEF Animation!Display, Animation!StartAnimation
    <3> QED BY <2>1, <2>2, <2>4, <3>1
  <2> QED BY <2>3, <2>4
<1>3. CASE Animation!Leave
  <2>1. /\ view' = [shown |-> FALSE, pixels |-> -1, follows |-> FALSE]
        /\ movie' = [movie EXCEPT !.pixels = -1, !.anim = FALSE, !.playing = FALSE]
        /\ UNCHANGED <<timers, rot>>
    BY <1>3 DEF Animation!Leave, Animation!None, Animation!FreeMem
  <2>2. view' \in AnimationViews /\ view'.follows = FALSE
    BY <2>1 DEF AnimationViews, Shades
  <2>3. /\ movie' \in AnimationImages /\ movie'.loads = movie.loads
        /\ movie'.anim = FALSE /\ movie'.playing = FALSE
    BY <2>1 DEF AnimationImages, Shades
  <2> QED BY <2>1, <2>2, <2>3 DEF AnimationImages
<1>4. CASE Animation!PrivateTimeout
  <2>1. timers > 0 /\ UNCHANGED rot
    BY <1>4 DEF Animation!PrivateTimeout
  <2>2. CASE movie.anim /\ movie.playing
    <3>1. /\ movie' = [movie EXCEPT !.pixels = movie.trans]
          /\ view' = IF view.follows THEN [view EXCEPT !.pixels = movie.trans] ELSE view
          /\ UNCHANGED timers
      BY <1>4, <2>2 DEF Animation!PrivateTimeout, Animation!IterAdvance
    <3>2. /\ movie' \in AnimationImages /\ movie'.loads = movie.loads
          /\ movie'.anim = movie.anim /\ movie'.playing = movie.playing
      BY <3>1 DEF AnimationImages, Shades
    <3>3. view' \in AnimationViews /\ view'.shown = view.shown /\ view'.follows = view.follows
      BY <3>1 DEF AnimationViews, AnimationImages, Shades
    <3> QED BY <2>1, <3>1, <3>2, <3>3
  <2>3. CASE ~(movie.anim /\ movie.playing)
    <3>1. /\ movie' = [movie EXCEPT !.playing = FALSE]
          /\ timers' = timers - 1 /\ UNCHANGED view
      BY <1>4, <2>3 DEF Animation!PrivateTimeout
    <3>2. /\ movie' \in AnimationImages /\ movie'.loads = movie.loads
          /\ movie'.anim = movie.anim /\ movie'.playing = FALSE
      BY <3>1 DEF AnimationImages
    <3> QED BY <2>1, <2>3, <3>1, <3>2 DEF AnimationImages
  <2> QED BY <2>2, <2>3
<1>5. CASE Animation!RotateOrUndo
  <2>1. PICK turn \in {1, 3} :
          rot' = [rot EXCEPT !.turn = turn, !.turns = @ + 1,
                    !.step = IF movie.pixels # -1 THEN "applied" ELSE "replaced",
                    !.pixels = IF movie.pixels # -1 THEN Animation!Turned(movie.pixels, turn)
                               ELSE -1]
    BY <1>5 DEF Animation!RotateOrUndo, Animation!None
  <2>2. PICK pixels \in Shades :
          pixels = IF movie.pixels # -1 THEN Animation!Turned(movie.pixels, turn) ELSE -1
    BY TurnedShade DEF AnimationImages, Shades
  <2>3. PICK step \in {"applied", "replaced"} :
          step = IF movie.pixels # -1 THEN "applied" ELSE "replaced"
    OBVIOUS
  <2>4. rot' = [rot EXCEPT !.turn = turn, !.turns = @ + 1, !.step = step, !.pixels = pixels]
    BY <2>1, <2>2, <2>3
  <2>5. rot' \in AnimationJobs
    <3>1. PICK t \in Nat : t = rot.turns + 1
      BY DEF AnimationJobs
    <3>2. rot' = [rot EXCEPT !.turn = turn, !.turns = t, !.step = step, !.pixels = pixels]
      BY <2>4, <3>1
    <3>3. turn \in Nat /\ step \in {"none", "applied", "replaced"}
      OBVIOUS
    <3> QED BY <3>2, <3>3 DEF AnimationJobs
  <2> QED BY <1>5, <2>5 DEF Animation!RotateOrUndo
<1>6. CASE Animation!Replace
  <2>1. /\ rot' = [rot EXCEPT !.step = "replaced"]
        /\ movie' = [movie EXCEPT !.pixels = rot.pixels]
        /\ UNCHANGED <<view, timers>>
    BY <1>6 DEF Animation!Replace
  <2>2. rot' \in AnimationJobs
    BY <2>1 DEF AnimationJobs
  <2>3. /\ movie' \in AnimationImages /\ movie'.loads = movie.loads
        /\ movie'.anim = movie.anim /\ movie'.playing = movie.playing
    BY <2>1 DEF AnimationImages, AnimationJobs
  <2> QED BY <2>1, <2>2, <2>3
<1>7. CASE Animation!Compose
  <2>1. /\ rot' = [rot EXCEPT !.step = "none", !.pixels = -1, !.idle = TRUE]
        /\ movie' = [movie EXCEPT !.trans = Animation!Turned(movie.trans, rot.turn)]
        /\ UNCHANGED <<view, timers>>
    BY <1>7 DEF Animation!Compose, Animation!None
  <2>2. rot' \in AnimationJobs
    BY <2>1 DEF AnimationJobs, Shades
  <2>3. Animation!Turned(movie.trans, rot.turn) \in 0 .. 3
    BY TurnedShade DEF AnimationImages, AnimationJobs
  <2>4. /\ movie' \in AnimationImages /\ movie'.loads = movie.loads
        /\ movie'.anim = movie.anim /\ movie'.playing = movie.playing
    BY <2>1, <2>3 DEF AnimationImages
  <2> QED BY <2>1, <2>2, <2>4
<1>8. CASE Animation!Modified
  <2>1. /\ rot' = [rot EXCEPT !.idle = FALSE] /\ UNCHANGED <<movie, timers>>
        /\ view' = IF view.shown THEN [view EXCEPT !.pixels = movie.pixels] ELSE view
    BY <1>8 DEF Animation!Modified
  <2>2. rot' \in AnimationJobs
    BY <2>1 DEF AnimationJobs
  <2>3. view' \in AnimationViews /\ view'.shown = view.shown /\ view'.follows = view.follows
    BY <2>1 DEF AnimationViews, AnimationImages
  <2> QED BY <2>1, <2>2, <2>3
<1>9. CASE UNCHANGED Animation!animationVars
  BY <1>9 DEF Animation!animationVars
<1> QED BY <1>1, <1>2, <1>3, <1>4, <1>5, <1>6, <1>7, <1>8, <1>9 DEF Animation!Next

LEMMA AnimationInit == ASSUME AnimationAssumption, Animation!Init PROVE AnimationInv
<1>1. movie \in AnimationImages /\ view \in AnimationViews /\ rot \in AnimationJobs
  BY DEF Animation!Init, Animation!None, AnimationImages, AnimationViews, AnimationJobs, Shades
<1> QED BY <1>1 DEF Animation!Init, AnimationInv, AnimationAssumption

LEMMA AnimationMeaning ==
  ASSUME AnimationAssumption
  PROVE  AnimationInv => Animation!TypeOK /\ Animation!ShownAnimationPlays
<1> SUFFICES ASSUME AnimationInv PROVE Animation!TypeOK /\ Animation!ShownAnimationPlays
  OBVIOUS
<1>1. {movie.pixels, view.pixels, rot.pixels} \subseteq {-1} \cup 0 .. 3
  BY DEF AnimationInv, AnimationImages, AnimationViews, AnimationJobs, Shades
<1>2. movie.trans \in 0 .. 3 /\ rot.step \in {"none", "applied", "replaced"}
      /\ {movie.anim, movie.playing, view.shown, view.follows, rot.idle} \subseteq BOOLEAN
  BY DEF AnimationInv, AnimationImages, AnimationViews, AnimationJobs
<1>3. timers \in 0 .. MaxLoads
  BY DEF AnimationInv, AnimationImages, AnimationAssumption
<1> QED BY <1>1, <1>2, <1>3
           DEF AnimationInv, Animation!TypeOK, Animation!ShownAnimationPlays, Animation!None

\* An animation that is shown plays and has a timeout that brings its next frame
\* (eom_image_start_animation, private_timeout), however quickly the window leaves it and
\* comes back, and for any number of loads.
THEOREM AnimationPlays ==
  ASSUME AnimationAssumption
  PROVE  AnimationSpec => [](Animation!TypeOK /\ Animation!ShownAnimationPlays)
<1> USE AnimationAssumption
<1>1. Animation!Init => AnimationInv
  BY AnimationInit
<1>2. AnimationInv /\ [Animation!Next]_(Animation!animationVars) => AnimationInv'
  BY AnimationStep
<1>3. AnimationInv => Animation!TypeOK /\ Animation!ShownAnimationPlays
  BY AnimationMeaning
<1> QED BY <1>1, <1>2, <1>3, PTL DEF AnimationSpec
-----------------------------------------------------------------------------
(* Thumbnails *)

ThumbnailSpec == Thumbnail!Init /\ [][Thumbnail!Next]_(Thumbnail!thumbnailVars)

\* A picture that can be seen
Seen == {s \in [long : Nat \ {0}, short : Nat \ {0}] : s.short <= s.long}

LEMMA Quotient ==
  ASSUME NEW a \in Nat, NEW b \in Nat, NEW c \in Nat \ {0}, a <= c
  PROVE  (a * b) \div c \in 0 .. b
<1> DEFINE p == a * b
           q == p \div c
<1>1. p \in Nat
  OBVIOUS
<1>2. p <= c * b
  <2>1. PICK d \in Nat : c = a + d
    <3>1. c - a \in Nat /\ c = a + (c - a)
      OBVIOUS
    <3> QED BY <3>1
  <2>2. (a + d) * b = a * b + d * b
    OBVIOUS
  <2>3. d * b \in Nat
    OBVIOUS
  <2> QED BY <2>1, <2>2, <2>3
<1> HIDE DEF p
<1>3. q \in Nat /\ c * q <= p
  BY <1>1
<1> HIDE DEF q
<1>4. q <= b
  <2> SUFFICES ASSUME q > b PROVE FALSE
    BY <1>3
  <2>1. PICK e \in Nat : q = b + 1 + e
    <3>1. q - (b + 1) \in Nat /\ q = b + 1 + (q - (b + 1))
      BY <1>3
    <3> QED BY <3>1
  <2>2. c * (b + 1 + e) = c * b + c + c * e
    OBVIOUS
  <2>3. c * e \in Nat /\ c * b \in Nat
    OBVIOUS
  <2> QED BY <1>1, <1>2, <1>3, <2>1, <2>2, <2>3
<1> QED BY <1>3, <1>4 DEF q, p

LEMMA ScaledSize ==
  ASSUME NEW s \in Seen, NEW limit \in Nat \ {0}
  PROVE  /\ Thumbnail!Scaled(s, limit) \in [long : Nat, short : Nat]
         /\ Thumbnail!Scaled(s, limit).long = limit
         /\ Thumbnail!Scaled(s, limit).short \in 0 .. limit
<1>1. s.short \in Nat /\ s.long \in Nat \ {0} /\ s.short <= s.long
  BY DEF Seen
<1>2. PICK q \in 0 .. limit : q = (s.short * limit) \div s.long
  BY <1>1, Quotient
<1>3. Thumbnail!Scaled(s, limit) = [long |-> limit, short |-> q]
  BY <1>2 DEF Thumbnail!Scaled
<1> QED BY <1>3

\* A size that was fitted is within the limit, and no side of it is gone.
LEMMA FitToSizeFits ==
  ASSUME NEW s \in Seen, NEW limit \in Nat \ {0}
  PROVE  Thumbnail!FitToSize(s, limit) \in Seen /\ Thumbnail!FitToSize(s, limit).long <= limit
<1>1. CASE s.long > limit
  <2>1. /\ Thumbnail!Scaled(s, limit).long = limit
        /\ Thumbnail!Scaled(s, limit).short \in 0 .. limit
    BY ScaledSize
  <2>2. Thumbnail!Greatest(Thumbnail!Scaled(s, limit).long, 1) = limit
    BY <2>1 DEF Thumbnail!Greatest
  <2>3. PICK m \in 1 .. limit : m = Thumbnail!Greatest(Thumbnail!Scaled(s, limit).short, 1)
    BY <2>1 DEF Thumbnail!Greatest
  <2>4. Thumbnail!FitToSize(s, limit) = [long |-> limit, short |-> m]
    BY <1>1, <2>2, <2>3 DEF Thumbnail!FitToSize
  <2> QED BY <2>4 DEF Seen
<1>2. CASE ~(s.long > limit)
  BY <1>2 DEF Thumbnail!FitToSize, Seen
<1> QED BY <1>1, <1>2

LEMMA FromPixbufSeen ==
  ASSUME ThumbnailAssumption, NEW s \in Seen, Thumbnail!FromPixbuf(s).short # 0
  PROVE  Thumbnail!FromPixbuf(s) \in Seen
<1>1. CASE s.long > Normal
  <2> DEFINE t == Thumbnail!Scaled(s, Normal)
  <2>1. Normal \in Nat \ {0}
    BY DEF ThumbnailAssumption
  <2>2. t \in [long : Nat, short : Nat] /\ t.long = Normal /\ t.short \in 0 .. Normal
    BY <2>1, ScaledSize
  <2>3. Thumbnail!FromPixbuf(s) = t
    BY <1>1 DEF Thumbnail!FromPixbuf
  <2> HIDE DEF t
  <2> QED BY <2>1, <2>2, <2>3 DEF Seen
<1>2. CASE ~(s.long > Normal)
  BY <1>2 DEF Thumbnail!FromPixbuf
<1> QED BY <1>1, <1>2

FileRecords == [exists : BOOLEAN, version : 1 .. MaxVersions, size : Sizes]
Entries == [kind : {"none", "thumb", "failed"}, of : Thumbnail!Versions, mtime : Thumbnail!Versions,
            size : Seen \cup {0}, missed : BOOLEAN]
PictureRecords == [pixels : Thumbnail!Versions, size : Seen \cup {0}, changed : BOOLEAN,
                   heard : 1 .. MaxVersions]
ThumbJobs == [step : {"none", "cache", "make", "save"}, mtime : Thumbnail!Versions,
              exists : BOOLEAN, failed : BOOLEAN, of : Thumbnail!Versions,
              size : [long : Nat, short : Nat] \cup {0}, missed : BOOLEAN]
Rows == [of : Thumbnail!Versions, size : [long : Nat, short : Nat] \cup {0},
         mtime : Thumbnail!Versions, missed : BOOLEAN]

\* What a job made is as late as the time it looked up, as long as the image knows whether
\* its pixels are the file's.
ThumbnailInv ==
  /\ original \in FileRecords /\ cache \in Entries /\ photo \in PictureRecords
  /\ job \in ThumbJobs /\ row \in Rows
  /\ job.mtime <= original.version /\ photo.heard <= original.version
  /\ photo.pixels # 0 => photo.size \in Seen /\ (photo.changed \/ photo.pixels >= photo.heard)
  /\ job.step = "save" /\ job.of # 0 => job.size \in Seen /\ (job.missed \/ job.of >= job.mtime)
  /\ cache.kind = "thumb" => cache.size \in Seen /\ (cache.missed \/ cache.of >= cache.mtime)
  /\ row.of # 0 => /\ row.missed \/ row.of >= row.mtime
                   /\ row.size.long \in Nat /\ row.size.long <= Icon + 9
                   /\ row.size.short \in 10 .. row.size.long

\* The end of a job: what it is about was said before.
LEMMA EndsInv ==
  ASSUME ThumbnailAssumption, ThumbnailInv, NEW of \in Thumbnail!Versions, NEW size,
         NEW missed \in BOOLEAN, Thumbnail!Ends(of, size, missed), cache' \in Entries,
         cache'.kind = "thumb" => cache'.size \in Seen /\ (cache'.missed \/ cache'.of >= cache'.mtime),
         of # 0 => size \in Seen /\ (missed \/ of >= job.mtime)
  PROVE  ThumbnailInv'
<1>1. /\ job' = [job EXCEPT !.step = "none"] /\ UNCHANGED <<original, photo>>
      /\ row' = IF of = 0 THEN [row EXCEPT !.of = 0]
                ELSE [of |-> of, size |-> Thumbnail!AddFrame(Thumbnail!FitToSize(size, Icon)),
                      mtime |-> job.mtime, missed |-> missed]
  BY DEF Thumbnail!Ends, Thumbnail!None
<1>2. job' \in ThumbJobs /\ job'.step = "none" /\ job'.mtime = job.mtime
  BY <1>1 DEF ThumbnailInv, ThumbJobs
<1>3. CASE of = 0
  <2>1. row' = [row EXCEPT !.of = 0]
    BY <1>1, <1>3
  <2>2. row' \in Rows /\ row'.of = 0
    BY <1>3, <2>1 DEF ThumbnailInv, Rows
  <2> QED BY <1>1, <1>2, <2>2 DEF ThumbnailInv
<1>4. CASE of # 0
  <2> DEFINE t == Thumbnail!FitToSize(size, Icon)
             u == Thumbnail!AddFrame(t)
  <2>1. Icon \in Nat \ {0}
    BY DEF ThumbnailAssumption
  <2>2. t \in Seen /\ t.long <= Icon
    BY <1>4, <2>1, FitToSizeFits
  <2> HIDE DEF t
  <2>3. /\ u \in [long : Nat, short : Nat] /\ u.long <= Icon + 9 /\ u.short \in 10 .. u.long
    BY <2>1, <2>2 DEF Seen, Thumbnail!AddFrame, Thumbnail!Frame
  <2> HIDE DEF u
  <2>4. row' = [of |-> of, size |-> u, mtime |-> job.mtime, missed |-> missed]
    BY <1>1, <1>4 DEF u, t
  <2>5. job.mtime \in Thumbnail!Versions
    BY DEF ThumbnailInv, ThumbJobs
  <2>6. row' \in Rows
    BY <2>3, <2>4, <2>5 DEF Rows
  <2>7. /\ row'.missed \/ row'.of >= row'.mtime
        /\ row'.size.long \in Nat /\ row'.size.long <= Icon + 9
        /\ row'.size.short \in 10 .. row'.size.long
    BY <1>4, <2>3, <2>4
  <2> QED BY <1>1, <1>2, <2>6, <2>7 DEF ThumbnailInv
<1> QED BY <1>3, <1>4

LEMMA ThumbnailStep ==
  ASSUME ThumbnailAssumption, ThumbnailInv, [Thumbnail!Next]_(Thumbnail!thumbnailVars)
  PROVE  ThumbnailInv'
<1>0. /\ original \in FileRecords /\ cache \in Entries /\ photo \in PictureRecords
      /\ job \in ThumbJobs /\ row \in Rows
      /\ job.mtime <= original.version /\ photo.heard <= original.version
      /\ cache.kind = "thumb" => cache.size \in Seen /\ (cache.missed \/ cache.of >= cache.mtime)
      /\ 0 \in Thumbnail!Versions /\ 1 .. MaxVersions \subseteq Thumbnail!Versions
      /\ original.version \in 1 .. MaxVersions /\ MaxVersions \in Nat
  BY DEF ThumbnailInv, ThumbnailAssumption, Thumbnail!Versions, FileRecords
<1>1. CASE Thumbnail!Start
  <2>1. CASE original.exists
    <3>1. PICK e \in BOOLEAN, f \in BOOLEAN : e = (cache.kind = "thumb") /\ f = (cache.kind = "failed")
      OBVIOUS
    <3>2. /\ job' = [job EXCEPT !.step = "cache", !.mtime = original.version,
                                !.exists = e, !.failed = f]
          /\ row' = row /\ UNCHANGED <<original, cache, photo>>
      BY <1>1, <2>1, <3>1 DEF Thumbnail!Start
    <3>3. original.version \in Thumbnail!Versions
      BY <1>0
    <3>4. job' \in ThumbJobs /\ job'.step = "cache" /\ job'.mtime = original.version
      BY <1>0, <3>2, <3>3 DEF ThumbJobs
    <3> QED BY <1>0, <3>2, <3>4 DEF ThumbnailInv
  <2>2. CASE ~original.exists
    <3>1. row' = [row EXCEPT !.of = 0] /\ UNCHANGED <<original, cache, photo, job>>
      BY <1>1, <2>2 DEF Thumbnail!Start, Thumbnail!None
    <3>2. row' \in Rows /\ row'.of = 0
      BY <1>0, <3>1 DEF Rows
    <3> QED BY <3>1, <3>2 DEF ThumbnailInv
  <2> QED BY <2>1, <2>2
<1>2. CASE Thumbnail!FromCache
  <2>1. CASE Thumbnail!Ends(0, 0, FALSE) /\ UNCHANGED cache
    BY <1>0, <2>1, EndsInv
  <2>2. CASE Thumbnail!UpToDate /\ Thumbnail!Ends(cache.of, cache.size, cache.missed) /\ UNCHANGED cache
    <3>1. cache.kind = "thumb" /\ cache.mtime = job.mtime
      BY <2>2 DEF Thumbnail!UpToDate
    <3>2. cache.of \in Thumbnail!Versions /\ cache.missed \in BOOLEAN
      BY <1>0 DEF Entries
    <3>3. cache' \in Entries /\ (cache'.kind = "thumb" => cache'.size \in Seen /\ (cache'.missed \/ cache'.of >= cache'.mtime))
      BY <1>0, <2>2
    <3>4. cache.of # 0 => cache.size \in Seen /\ (cache.missed \/ cache.of >= job.mtime)
      BY <1>0, <3>1
    <3> QED BY <2>2, <3>2, <3>3, <3>4, EndsInv
  <2>3. CASE Thumbnail!Goes("make") /\ Thumbnail!Loading /\ UNCHANGED cache
    <3>1. job' = [job EXCEPT !.step = "make"] /\ UNCHANGED <<original, photo, row, cache>>
      BY <2>3 DEF Thumbnail!Goes, Thumbnail!Loading
    <3>2. job' \in ThumbJobs /\ job'.step = "make" /\ job'.mtime = job.mtime
      BY <1>0, <3>1 DEF ThumbJobs
    <3> QED BY <3>1, <3>2 DEF ThumbnailInv
  <2> QED BY <1>2, <2>1, <2>2, <2>3 DEF Thumbnail!FromCache, Thumbnail!None
<1>3. CASE Thumbnail!Make
  <2> DEFINE size == Thumbnail!FromPixbuf(photo.size)
  <2>a. (photo.heard < original.version) \in BOOLEAN
    OBVIOUS
  <2>1. PICK missed \in BOOLEAN : missed = (photo.heard < original.version)
    BY <2>a, Zenon
  <2>2. UNCHANGED <<original, photo, row, cache>>
    BY <1>3 DEF Thumbnail!Make, Thumbnail!Loading
  <2>3. ASSUME NEW of \in Thumbnail!Versions, NEW s \in [long : Nat, short : Nat] \cup {0},
               job' = [job EXCEPT !.step = "save", !.of = of, !.size = s, !.missed = missed],
               of # 0 => s \in Seen /\ (missed \/ of >= job.mtime)
        PROVE  ThumbnailInv'
    <3>1. /\ job' \in ThumbJobs /\ job'.mtime = job.mtime /\ job'.of = of /\ job'.size = s
          /\ job'.missed = missed
      BY <1>0, <2>3 DEF ThumbJobs
    <3> QED BY <2>2, <2>3, <3>1 DEF ThumbnailInv
  <2>4. CASE Thumbnail!UsesPixels
    <3>1. photo.pixels # 0 /\ ~photo.changed
      BY <2>4 DEF Thumbnail!UsesPixels, Thumbnail!None
    <3>2. photo.size \in Seen /\ photo.pixels >= photo.heard
      BY <3>1 DEF ThumbnailInv
    <3>3. size \in [long : Nat, short : Nat]
      <4>1. Normal \in Nat \ {0}
        BY DEF ThumbnailAssumption
      <4> QED BY <3>2, <4>1, ScaledSize DEF Thumbnail!FromPixbuf, Seen
    <3>4. PICK of \in Thumbnail!Versions : of = IF size.short = 0 THEN 0 ELSE photo.pixels
      BY <1>0 DEF PictureRecords
    <3>5. job' = [job EXCEPT !.step = "save", !.of = of, !.size = size, !.missed = missed]
      BY <1>3, <2>1, <2>4, <3>4 DEF Thumbnail!Make, Thumbnail!None
    <3>6. of # 0 => size \in Seen
      BY <3>2, <3>4, FromPixbufSeen
    <3>7. of # 0 => missed \/ of >= job.mtime
      <4>1. /\ photo.heard \in Nat /\ original.version \in Nat /\ photo.pixels \in Nat
            /\ job.mtime \in Nat
        BY <1>0 DEF PictureRecords, ThumbJobs, Thumbnail!Versions
      <4>2. ~missed => ~(photo.heard < original.version)
        BY <2>1, Zenon
      <4>3. ~missed => photo.pixels >= job.mtime
        BY <1>0, <3>2, <4>1, <4>2
      <4> QED BY <3>4, <4>3
    <3> QED BY <2>3, <3>3, <3>5, <3>6, <3>7
  <2>5. CASE job' = [job EXCEPT !.step = "save", !.of = original.version,
                       !.size = Thumbnail!FitToSize(original.size, Normal), !.missed = missed]
    <3> DEFINE s == Thumbnail!FitToSize(original.size, Normal)
    <3>1. original.size \in Seen /\ Normal \in Nat \ {0}
      BY <1>0 DEF FileRecords, ThumbnailAssumption, Seen
    <3>2. s \in Seen
      BY <3>1, FitToSizeFits
    <3> HIDE DEF s
    <3>3. s \in [long : Nat, short : Nat] \cup {0}
      BY <3>2 DEF Seen
    <3>4. job' = [job EXCEPT !.step = "save", !.of = original.version, !.size = s, !.missed = missed]
      BY <2>5 DEF s
    <3>5. original.version \in Thumbnail!Versions /\ original.version >= job.mtime
      BY <1>0 DEF ThumbJobs, Thumbnail!Versions
    <3> QED BY <2>3, <3>2, <3>3, <3>4, <3>5
  <2>6. CASE job' = [job EXCEPT !.step = "save", !.of = 0, !.size = 0, !.missed = missed]
    BY <1>0, <2>3, <2>6
  <2> QED BY <1>3, <2>1, <2>4, <2>5, <2>6 DEF Thumbnail!Make, Thumbnail!None
<1>4. CASE Thumbnail!Save
  <2>0. /\ job.of \in Thumbnail!Versions /\ job.missed \in BOOLEAN /\ job.mtime \in Thumbnail!Versions
        /\ job.of # 0 => job.size \in Seen /\ (job.missed \/ job.of >= job.mtime)
    BY <1>4 DEF ThumbnailInv, ThumbJobs, Thumbnail!Save
  <2>1. Thumbnail!Ends(job.of, job.size, job.missed)
    BY <1>4 DEF Thumbnail!Save
  <2>2. CASE job.of = 0
    <3>1. cache' = [kind |-> "failed", of |-> 0, mtime |-> job.mtime, size |-> 0, missed |-> FALSE]
      BY <1>4, <2>2 DEF Thumbnail!Save, Thumbnail!Entry, Thumbnail!None
    <3>2. cache' \in Entries /\ cache'.kind = "failed"
      BY <1>0, <2>0, <3>1 DEF Entries
    <3> QED BY <2>0, <2>1, <3>2, EndsInv
  <2>3. CASE job.of # 0
    <3>1. cache' = [kind |-> "thumb", of |-> job.of, mtime |-> job.mtime, size |-> job.size,
                    missed |-> job.missed]
      BY <1>4, <2>3 DEF Thumbnail!Save, Thumbnail!Entry, Thumbnail!None
    <3>2. cache' \in Entries
      BY <2>0, <2>3, <3>1 DEF Entries
    <3>3. cache'.size \in Seen /\ (cache'.missed \/ cache'.of >= cache'.mtime)
      BY <2>0, <2>3, <3>1
    <3> QED BY <2>0, <2>1, <3>2, <3>3, EndsInv
  <2> QED BY <2>2, <2>3
<1>5. CASE Thumbnail!Write
  <2>1. PICK size \in Sizes : original' = [exists |-> TRUE, version |-> original.version + 1, size |-> size]
    BY <1>5 DEF Thumbnail!Write
  <2>2. original.version + 1 \in 1 .. MaxVersions
    BY <1>0, <1>5 DEF Thumbnail!Write
  <2>3. original' \in FileRecords /\ original'.version = original.version + 1
    BY <2>1, <2>2 DEF FileRecords
  <2>4. job.mtime <= original'.version /\ photo.heard <= original'.version
    BY <1>0, <2>3 DEF ThumbJobs, PictureRecords, Thumbnail!Versions
  <2> QED BY <1>5, <2>3, <2>4 DEF Thumbnail!Write, ThumbnailInv
<1>6. CASE Thumbnail!Delete
  <2>1. original' = [original EXCEPT !.exists = FALSE] /\ UNCHANGED <<cache, photo, job, row>>
    BY <1>6 DEF Thumbnail!Delete
  <2>2. original' \in FileRecords /\ original'.version = original.version
    BY <1>0, <2>1 DEF FileRecords
  <2> QED BY <2>1, <2>2 DEF ThumbnailInv
<1>7. CASE Thumbnail!Monitor
  <2>1. photo' = [photo EXCEPT !.heard = original.version, !.changed = TRUE]
        /\ UNCHANGED <<original, cache, job, row>>
    BY <1>7 DEF Thumbnail!Monitor
  <2>2. /\ photo' \in PictureRecords /\ photo'.heard = original.version /\ photo'.changed = TRUE
        /\ photo'.pixels = photo.pixels /\ photo'.size = photo.size
    BY <1>0, <2>1 DEF PictureRecords
  <2> QED BY <1>0, <2>1, <2>2 DEF ThumbnailInv
<1>8. CASE Thumbnail!Load
  <2>1. photo' = [photo EXCEPT !.pixels = original.version, !.size = original.size, !.changed = FALSE]
        /\ UNCHANGED <<original, cache, job, row>>
    BY <1>8 DEF Thumbnail!Load
  <2>2. original.size \in Seen /\ original.version \in Thumbnail!Versions
    BY <1>0 DEF FileRecords, ThumbnailAssumption, Seen
  <2>3. /\ photo' \in PictureRecords /\ photo'.heard = photo.heard
        /\ photo'.pixels = original.version /\ photo'.size = original.size
    BY <1>0, <2>1, <2>2 DEF PictureRecords
  <2>4. original.version >= photo.heard
    BY <1>0 DEF PictureRecords
  <2> QED BY <1>0, <2>1, <2>2, <2>3, <2>4 DEF ThumbnailInv
<1>9. CASE Thumbnail!Leave
  <2>1. photo' = [photo EXCEPT !.pixels = 0, !.size = 0] /\ UNCHANGED <<original, cache, job, row>>
    BY <1>9 DEF Thumbnail!Leave, Thumbnail!None
  <2>2. /\ photo' \in PictureRecords /\ photo'.heard = photo.heard /\ photo'.pixels = 0
    BY <1>0, <2>1 DEF PictureRecords
  <2> QED BY <2>1, <2>2 DEF ThumbnailInv
<1>10. CASE UNCHANGED Thumbnail!thumbnailVars
  BY <1>10 DEF Thumbnail!thumbnailVars, ThumbnailInv
<1> QED BY <1>1, <1>2, <1>3, <1>4, <1>5, <1>6, <1>7, <1>8, <1>9, <1>10 DEF Thumbnail!Next

LEMMA ThumbnailInit == ASSUME ThumbnailAssumption, Thumbnail!Init PROVE ThumbnailInv
<1>1. PICK size \in Sizes : original = [exists |-> TRUE, version |-> 1, size |-> size]
  BY DEF Thumbnail!Init
<1>2. 1 \in 1 .. MaxVersions /\ 0 \in Thumbnail!Versions
  BY DEF ThumbnailAssumption, Thumbnail!Versions
<1>3. original \in FileRecords /\ original.version = 1
  BY <1>1, <1>2 DEF FileRecords
<1>4. cache \in Entries /\ cache.kind = "none"
  BY <1>2 DEF Thumbnail!Init, Thumbnail!NoEntry, Thumbnail!None, Entries
<1>5. photo \in PictureRecords /\ photo.pixels = 0 /\ photo.heard = 1
  BY <1>2 DEF Thumbnail!Init, Thumbnail!None, PictureRecords
<1>6. job \in ThumbJobs /\ job.mtime = 0 /\ job.step = "none"
  BY <1>2 DEF Thumbnail!Init, Thumbnail!None, ThumbJobs
<1>7. row \in Rows /\ row.of = 0
  BY <1>2 DEF Thumbnail!Init, Thumbnail!None, Rows
<1> QED BY <1>3, <1>4, <1>5, <1>6, <1>7 DEF ThumbnailInv

LEMMA ThumbnailMeaning ==
  ASSUME ThumbnailAssumption
  PROVE  ThumbnailInv => Thumbnail!TypeOK /\ Thumbnail!CacheIsCurrent /\ Thumbnail!ThumbnailFits
<1> SUFFICES ASSUME ThumbnailInv
             PROVE  Thumbnail!TypeOK /\ Thumbnail!CacheIsCurrent /\ Thumbnail!ThumbnailFits
  OBVIOUS
<1>0. 1 .. MaxVersions \subseteq Thumbnail!Versions
  BY DEF ThumbnailAssumption, Thumbnail!Versions
<1>1. original.exists \in BOOLEAN /\ original.version \in Thumbnail!Versions /\ original.size \in Sizes
  BY <1>0 DEF ThumbnailInv, FileRecords
<1>2. {cache.of, cache.mtime, photo.pixels, photo.heard, job.mtime, job.of, row.of, row.mtime}
        \subseteq Thumbnail!Versions
  BY <1>0 DEF ThumbnailInv, Entries, PictureRecords, ThumbJobs, Rows
<1>3. /\ cache.kind \in {"none", "thumb", "failed"}
      /\ job.step \in {"none", "cache", "make", "save"}
      /\ {job.exists, job.failed, job.missed, photo.changed} \subseteq BOOLEAN
  BY DEF ThumbnailInv, Entries, PictureRecords, ThumbJobs
<1>4. Thumbnail!TypeOK
  BY <1>1, <1>2, <1>3 DEF Thumbnail!TypeOK
<1>5. Thumbnail!CacheIsCurrent
  BY DEF ThumbnailInv, Thumbnail!CacheIsCurrent, Thumbnail!None
<1>6. Thumbnail!ThumbnailFits
  BY DEF ThumbnailInv, Thumbnail!ThumbnailFits, Thumbnail!None, Thumbnail!Frame
<1> QED BY <1>4, <1>5, <1>6

\* A thumbnail that passes for that of the file shows the file as it was at that time or
\* later, and what a row shows can be seen and has the size of the icons
\* (eom_thumbnail_load, eom_thumbnail_fit_to_size), for any sizes and any number of writes.
THEOREM ThumbnailIsCurrent ==
  ASSUME ThumbnailAssumption
  PROVE  ThumbnailSpec =>
           [](Thumbnail!TypeOK /\ Thumbnail!CacheIsCurrent /\ Thumbnail!ThumbnailFits)
<1> USE ThumbnailAssumption
<1>1. Thumbnail!Init => ThumbnailInv
  BY ThumbnailInit
<1>2. ThumbnailInv /\ [Thumbnail!Next]_(Thumbnail!thumbnailVars) => ThumbnailInv'
  BY ThumbnailStep
<1>3. ThumbnailInv => Thumbnail!TypeOK /\ Thumbnail!CacheIsCurrent /\ Thumbnail!ThumbnailFits
  BY ThumbnailMeaning
<1> QED BY <1>1, <1>2, <1>3, PTL DEF ThumbnailSpec
-----------------------------------------------------------------------------
(* The rows of the collection: a store of rows and a queue of jobs *)

StoreSpec == Store!Init /\ [][Store!Next]_(Store!vars)

Tasks == [job : JobObjects, file : Directory]
RowThumbs == {"busy", "missing"} \cup Loadable
RowRecords == [file : Directory, thumb : RowThumbs, set : BOOLEAN, job : JobObjects \cup {NoJob}]
Stores == [rows : Seq(RowRecords), queue : Seq(Tasks), short : BOOLEAN]

\* A file has one row, and the rows are in order.
Ordered(rows) == \A k, n \in DOMAIN rows : k < n => rows[k].file < rows[n].file

\* A job has one task, queued once, or taken.
OneTask(tasks, taken) ==
  /\ \A k, n \in DOMAIN tasks : tasks[k].job = tasks[n].job => k = n
  /\ \A k \in DOMAIN tasks, task \in taken : tasks[k].job # task.job

\* The pointer of a row is to a job for its file that is queued or taken.
TaskOf(r) == [job |-> r.job, file |-> r.file]
Alive(rows, tasks, taken) ==
  \A k \in DOMAIN rows : rows[k].job # NoJob =>
    TaskOf(rows[k]) \in taken \/ \E n \in DOMAIN tasks : tasks[n] = TaskOf(rows[k])

Sound(s, taken) ==
  s \in Stores /\ Ordered(s.rows) /\ OneTask(s.queue, taken) /\ Alive(s.rows, s.queue, taken)

FilesOf(rows) == {rows[k].file : k \in DOMAIN rows}
SameFiles(s, r) ==
  /\ DOMAIN r.rows = DOMAIN s.rows
  /\ \A k \in DOMAIN s.rows : r.rows[k].file = s.rows[k].file

\* What the render thread has taken
Takings(taken) == taken \in SUBSET Tasks /\ \A s, t \in taken : s.job = t.job => s = t

\* The operators of the sequences of EomListStore are those of this module.
LEMMA StoreSequences ==
  /\ \A s, n : Store!RemoveAt(s, n) = RemoveAt(s, n)
  /\ \A s, n, e : Store!InsertAt(s, n, e) = InsertAt(s, n, e)
  /\ \A s : Store!ToSet(s) = ToSet(s)
  /\ \A S : Store!SetToSeqs(S) = SetToSeqs(S)
  /\ \A S : Store!Min(S) = Min(S)
  /\ \A s : Store!IsInjective(s) = IsInjective(s)
<1>1. \A S : Store!Cardinality(S) = Cardinality(S)
  BY DEF Store!Cardinality, Cardinality
<1> QED
  BY <1>1 DEF Store!RemoveAt, RemoveAt, Store!InsertAt, InsertAt, Store!ToSet, ToSet,
     Store!SetToSeqs, SetToSeqs, Store!Min, Min, Store!IsInjective, IsInjective

\* A row of records has its files in its domain.
LEMMA StoreFields ==
  ASSUME NEW s \in Stores
  PROVE  /\ s.rows \in Seq(RowRecords) /\ s.queue \in Seq(Tasks) /\ s.short \in BOOLEAN
         /\ Len(s.rows) \in Nat /\ DOMAIN s.rows = 1 .. Len(s.rows)
         /\ Len(s.queue) \in Nat /\ DOMAIN s.queue = 1 .. Len(s.queue)
         /\ \A k \in DOMAIN s.rows : s.rows[k] \in RowRecords
         /\ \A n \in DOMAIN s.queue : s.queue[n] \in Tasks
<1>1. s.rows \in Seq(RowRecords) /\ s.queue \in Seq(Tasks) /\ s.short \in BOOLEAN
  BY DEF Stores
<1> QED BY <1>1, LenProperties, ElementOfSeq

\* Two rows of an ordered store that have one file are one row.
LEMMA OneRow ==
  ASSUME NEW s \in Stores, StoreAssumption, Ordered(s.rows),
         NEW k \in DOMAIN s.rows, NEW n \in DOMAIN s.rows, s.rows[k].file = s.rows[n].file
  PROVE  k = n
<1>1. k \in Nat /\ n \in Nat
  BY StoreFields
<1>2. s.rows[k].file \in Nat /\ s.rows[n].file \in Nat
  BY StoreFields DEF RowRecords, StoreAssumption
<1>3. ~(k < n) /\ ~(n < k)
  BY <1>2 DEF Ordered
<1> QED BY <1>1, <1>3

\* eom_job_queue_remove_job takes the job out of the queue, and no other.
LEMMA WithoutIs ==
  ASSUME NEW tasks \in Seq(Tasks), NEW taken, OneTask(tasks, taken), NEW j,
         NEW r, r = Store!Without(tasks, j)
  PROVE  /\ r \in Seq(Tasks) /\ OneTask(r, taken)
         /\ \A n \in DOMAIN tasks : tasks[n].job # j => \E m \in DOMAIN r : r[m] = tasks[n]
         /\ \A m \in DOMAIN r : \E n \in DOMAIN tasks : r[m] = tasks[n]
<1> DEFINE I == {n \in 1 .. Len(tasks) : tasks[n].job = j}
<1>1. Len(tasks) \in Nat /\ DOMAIN tasks = 1 .. Len(tasks)
  BY LenProperties
<1>2. r = IF (IF I # {} THEN Min(I) ELSE 0) = 0 THEN tasks
          ELSE RemoveAt(tasks, IF I # {} THEN Min(I) ELSE 0)
  BY StoreSequences DEF Store!Without, Store!SelectInSeq
<1>3. CASE I = {}
  <2>1. r = tasks
    BY <1>2, <1>3
  <2> QED BY <1>1, <2>1
<1>4. CASE I # {}
  <2>1. PICK p : p = Min(I)
    OBVIOUS
  <2>2. p \in 1 .. Len(tasks) /\ tasks[p].job = j
    <3>1. I \in SUBSET Nat
      BY <1>1
    <3>2. p \in I
      BY <1>4, <2>1, <3>1, LeastIs
    <3> QED BY <3>2
  <2>3. r = RemoveAt(tasks, p)
    BY <1>1, <1>2, <1>4, <2>1, <2>2
  <2>4. /\ r \in Seq(Tasks) /\ Len(r) = Len(tasks) - 1
        /\ \A m \in 1 .. Len(tasks) - 1 : r[m] = IF m < p THEN tasks[m] ELSE tasks[m + 1]
    BY <2>2, <2>3, RemoveAtElements
  <2> HIDE DEF I
  <2>5. DOMAIN r = 1 .. Len(tasks) - 1
    BY <2>4, LenProperties
  <2>6. \A m \in DOMAIN r : \E n \in DOMAIN tasks :
           r[m] = tasks[n] /\ n = IF m < p THEN m ELSE m + 1
    BY <1>1, <2>2, <2>4, <2>5
  <2>7. OneTask(r, taken)
    BY <1>1, <2>2, <2>5, <2>6 DEF OneTask
  <2>8. ASSUME NEW n \in DOMAIN tasks, tasks[n].job # j PROVE \E m \in DOMAIN r : r[m] = tasks[n]
    <3>1. n # p /\ n \in Nat /\ p \in Nat
      BY <1>1, <2>2, <2>8
    <3>2. CASE n < p
      BY <1>1, <2>2, <2>4, <2>5, <3>1, <3>2
    <3>3. CASE n > p
      <4>1. n - 1 \in DOMAIN r /\ ~(n - 1 < p) /\ (n - 1) + 1 = n
        BY <1>1, <2>2, <2>5, <3>1, <3>3
      <4>2. r[n - 1] = tasks[n]
        BY <2>4, <2>5, <4>1
      <4> QED BY <4>1, <4>2
    <3> QED BY <3>1, <3>2, <3>3
  <2> QED BY <2>4, <2>6, <2>7, <2>8
<1> QED BY <1>3, <1>4


\* A store whose rows are for the same files and have the same jobs, or none, is sound.
LEMMA SameJobs ==
  ASSUME NEW s, NEW r \in Stores, NEW taken, Sound(s, taken), SameFiles(s, r), r.queue = s.queue,
         \A k \in DOMAIN s.rows : r.rows[k].job \in {s.rows[k].job, NoJob}
  PROVE  Sound(r, taken)
<1>1. s \in Stores /\ Ordered(s.rows) /\ OneTask(s.queue, taken) /\ Alive(s.rows, s.queue, taken)
  BY DEF Sound
<1>2. Ordered(r.rows)
  BY <1>1 DEF Ordered, SameFiles
<1>3. Alive(r.rows, r.queue, taken)
  <2> SUFFICES ASSUME NEW k \in DOMAIN r.rows, r.rows[k].job # NoJob
               PROVE  TaskOf(r.rows[k]) \in taken
                        \/ \E n \in DOMAIN r.queue : r.queue[n] = TaskOf(r.rows[k])
    BY DEF Alive
  <2>1. k \in DOMAIN s.rows /\ r.rows[k].job = s.rows[k].job /\ TaskOf(r.rows[k]) = TaskOf(s.rows[k])
    BY DEF SameFiles, TaskOf
  <2> QED BY <1>1, <2>1 DEF Alive
<1> QED BY <1>1, <1>2, <1>3 DEF Sound

\* remove_thumbnail_job leaves the jobs of the other rows alone.
LEMMA JobRemoved ==
  ASSUME StoreAssumption, NEW s, NEW taken, Takings(taken), Sound(s, taken),
         NEW k \in DOMAIN s.rows
  PROVE  LET r == Store!RemoveThumbnailJob(s, k)
         IN /\ Sound(r, taken) /\ SameFiles(s, r)
            /\ r.short = s.short /\ r.rows[k].job = NoJob
            /\ \A n \in DOMAIN s.rows : n # k => r.rows[n] = s.rows[n]
<1>1. s \in Stores /\ Ordered(s.rows) /\ OneTask(s.queue, taken) /\ Alive(s.rows, s.queue, taken)
  BY DEF Sound
<1> DEFINE j == s.rows[k].job
           rows == [s.rows EXCEPT ![k].job = NoJob]
           r == Store!RemoveThumbnailJob(s, k)
<1>2. PICK q : q = Store!Without(s.queue, j) /\ r = [s EXCEPT !.queue = q, !.rows = rows]
  BY <1>1 DEF Store!RemoveThumbnailJob, Stores
<1>3. /\ q \in Seq(Tasks) /\ OneTask(q, taken)
      /\ \A n \in DOMAIN s.queue : s.queue[n].job # j => \E m \in DOMAIN q : q[m] = s.queue[n]
  <2>1. s.queue \in Seq(Tasks)
    BY <1>1, StoreFields
  <2> QED BY <1>1, <1>2, <2>1, WithoutIs
<1>4. /\ rows \in Seq(RowRecords) /\ DOMAIN rows = DOMAIN s.rows
      /\ \A n \in DOMAIN s.rows : n # k => rows[n] = s.rows[n]
      /\ rows[k] = [s.rows[k] EXCEPT !.job = NoJob]
  <2>1. s.rows \in Seq(RowRecords) /\ k \in 1 .. Len(s.rows) /\ s.rows[k] \in RowRecords
    BY <1>1, StoreFields
  <2>2. [s.rows[k] EXCEPT !.job = NoJob] \in RowRecords
    BY <2>1 DEF RowRecords
  <2>3. rows = [s.rows EXCEPT ![k] = [s.rows[k] EXCEPT !.job = NoJob]]
    BY <2>1
  <2> QED BY <2>1, <2>2, <2>3, ExceptSeq
<1>5. rows[k].job = NoJob /\ rows[k].file = s.rows[k].file
  BY <1>1, <1>4, StoreFields DEF RowRecords
<1> HIDE DEF rows
<1>6. r \in Stores /\ r.queue = q /\ r.rows = rows /\ r.short = s.short
  BY <1>1, <1>2, <1>3, <1>4 DEF Stores
<1>7. SameFiles(s, r)
  BY <1>4, <1>5, <1>6 DEF SameFiles
<1>8. Ordered(rows)
  BY <1>1, <1>6, <1>7 DEF Ordered, SameFiles
<1>9. Alive(rows, q, taken)
  <2> SUFFICES ASSUME NEW n \in DOMAIN rows, rows[n].job # NoJob
               PROVE  TaskOf(rows[n]) \in taken \/ \E m \in DOMAIN q : q[m] = TaskOf(rows[n])
    BY DEF Alive
  <2>1. n # k /\ n \in DOMAIN s.rows /\ rows[n] = s.rows[n]
    BY <1>4, <1>5
  <2>2. TaskOf(s.rows[n]) \in taken \/ \E m \in DOMAIN s.queue : s.queue[m] = TaskOf(s.rows[n])
    BY <1>1, <2>1 DEF Alive
  <2>3. CASE TaskOf(s.rows[n]) \in taken
    BY <2>1, <2>3
  <2>4. CASE \E m \in DOMAIN s.queue : s.queue[m] = TaskOf(s.rows[n])
    <3>1. PICK m \in DOMAIN s.queue : s.queue[m] = TaskOf(s.rows[n])
      BY <2>4
    <3>2. s.queue[m].job = s.rows[n].job /\ s.queue[m].file = s.rows[n].file
      BY <3>1 DEF TaskOf
    <3>3. s.queue[m].job # j
      <4> SUFFICES ASSUME s.queue[m].job = j PROVE FALSE
        OBVIOUS
      <4>1. j # NoJob
        BY <2>1, <3>2
      <4>2. TaskOf(s.rows[k]) \in taken \/ \E x \in DOMAIN s.queue : s.queue[x] = TaskOf(s.rows[k])
        BY <1>1, <4>1 DEF Alive
      <4>3. TaskOf(s.rows[k]).job = j /\ TaskOf(s.rows[k]).file = s.rows[k].file
        BY DEF TaskOf
      <4>4. TaskOf(s.rows[k]) \notin taken
        BY <1>1, <4>3 DEF OneTask
      <4>5. PICK x \in DOMAIN s.queue : s.queue[x] = TaskOf(s.rows[k])
        BY <4>2, <4>4
      <4>6. x = m
        BY <1>1, <4>3, <4>5 DEF OneTask
      <4>7. s.rows[k].file = s.rows[n].file
        BY <3>2, <4>3, <4>5, <4>6
      <4> QED BY <1>1, <2>1, <4>7, OneRow
    <3> QED BY <1>3, <2>1, <3>1, <3>3
  <2> QED BY <2>2, <2>3, <2>4
<1>10. Sound(r, taken)
  BY <1>3, <1>6, <1>8, <1>9 DEF Sound
<1> QED BY <1>4, <1>5, <1>6, <1>7, <1>10

\* add_thumbnail_job takes a job object that no task has.
LEMMA JobAdded ==
  ASSUME StoreAssumption, NEW s, Sound(s, Store!Taken), NEW k \in DOMAIN s.rows
  PROVE  /\ Sound(Store!AddThumbnailJob(s, k), Store!Taken)
         /\ SameFiles(s, Store!AddThumbnailJob(s, k))
<1> DEFINE taken == Store!Taken
           r == Store!AddThumbnailJob(s, k)
<1>1. s \in Stores /\ Ordered(s.rows) /\ OneTask(s.queue, taken) /\ Alive(s.rows, s.queue, taken)
  BY DEF Sound
<1>2. CASE s.rows[k].job # NoJob
  <2>1. r = s
    BY <1>2 DEF Store!AddThumbnailJob
  <2> QED BY <2>1 DEF SameFiles
<1>3. CASE s.rows[k].job = NoJob /\ Store!Free(s) = {}
  <2>1. r = [s EXCEPT !.short = TRUE]
    BY <1>3 DEF Store!AddThumbnailJob
  <2>2. r \in Stores /\ r.rows = s.rows /\ r.queue = s.queue
    BY <1>1, <2>1 DEF Stores
  <2> QED BY <1>1, <2>2 DEF Sound, SameFiles
<1>4. CASE s.rows[k].job = NoJob /\ Store!Free(s) # {}
  <2>1. PICK j : j = CHOOSE x \in Store!Free(s) : TRUE
    OBVIOUS
  <2>2. j \in Store!Free(s)
    BY <1>4, <2>1
  <2>3. /\ j \in JobObjects /\ \A task \in taken : task.job # j
        /\ \A n \in DOMAIN s.queue : s.queue[n].job # j
    <3>1. j \in JobObjects /\ j \notin {task.job : task \in ToSet(s.queue) \cup taken}
      BY <2>2, StoreSequences DEF Store!Free
    <3> HIDE DEF taken
    <3> QED BY <3>1 DEF ToSet
  <2> DEFINE task == [job |-> j, file |-> s.rows[k].file]
             q == Append(s.queue, task)
             rows == [s.rows EXCEPT ![k].job = j]
  <2>4. r = [s EXCEPT !.queue = q, !.rows = rows]
    BY <1>1, <1>4, <2>1 DEF Store!AddThumbnailJob, Stores
  <2> HIDE DEF taken
  <2>5. task \in Tasks /\ s.rows[k] \in RowRecords
    BY <1>1, <2>3, StoreFields DEF Tasks, RowRecords
  <2>6. /\ q \in Seq(Tasks) /\ DOMAIN q = 1 .. Len(s.queue) + 1 /\ Len(s.queue) \in Nat
        /\ DOMAIN s.queue = 1 .. Len(s.queue)
        /\ q[Len(s.queue) + 1] = task /\ \A n \in DOMAIN s.queue : q[n] = s.queue[n]
    <3>1. s.queue \in Seq(Tasks)
      BY <1>1, StoreFields
    <3> HIDE DEF task
    <3> QED BY <2>5, <3>1, AppendElements
  <2>7. /\ rows \in Seq(RowRecords) /\ DOMAIN rows = DOMAIN s.rows
        /\ \A n \in DOMAIN s.rows : n # k => rows[n] = s.rows[n]
        /\ rows[k] = [s.rows[k] EXCEPT !.job = j]
    <3>1. s.rows \in Seq(RowRecords) /\ k \in 1 .. Len(s.rows) /\ s.rows[k] \in RowRecords
      BY <1>1, StoreFields
    <3>2. [s.rows[k] EXCEPT !.job = j] \in RowRecords
      BY <2>3, <3>1 DEF RowRecords
    <3>3. rows = [s.rows EXCEPT ![k] = [s.rows[k] EXCEPT !.job = j]]
      BY <3>1
    <3> QED BY <3>1, <3>2, <3>3, ExceptSeq
  <2>8. rows[k].job = j /\ rows[k].file = s.rows[k].file /\ task.job = j
    BY <2>5, <2>7 DEF RowRecords
  <2>9. TaskOf(rows[k]) = task
    BY <2>8 DEF TaskOf
  <2> HIDE DEF q, rows, task
  <2>10. r \in Stores /\ r.queue = q /\ r.rows = rows
    BY <1>1, <2>4, <2>6, <2>7 DEF Stores
  <2>11. SameFiles(s, r) /\ Ordered(rows)
    BY <1>1, <2>7, <2>8, <2>10 DEF SameFiles, Ordered
  <2>12. OneTask(q, taken)
    BY <1>1, <2>3, <2>6, <2>8 DEF OneTask
  <2>13. Alive(rows, q, taken)
    <3> SUFFICES ASSUME NEW n \in DOMAIN rows, rows[n].job # NoJob
                 PROVE  TaskOf(rows[n]) \in taken \/ \E m \in DOMAIN q : q[m] = TaskOf(rows[n])
      BY DEF Alive
    <3>1. CASE n = k
      BY <2>6, <2>9, <3>1
    <3>2. CASE n # k
      <4>1. n \in DOMAIN s.rows /\ rows[n] = s.rows[n]
        BY <2>7, <3>2
      <4> QED BY <1>1, <2>6, <4>1 DEF Alive
    <3> QED BY <3>1, <3>2
  <2> QED BY <2>10, <2>11, <2>12, <2>13 DEF Sound, taken
<1> QED BY <1>2, <1>3, <1>4


\* What is changed twice has the files it had.
LEMMA SameFilesAgain ==
  ASSUME NEW s, NEW r, NEW t, SameFiles(s, r), SameFiles(r, t)
  PROVE  SameFiles(s, t)
  BY DEF SameFiles

\* What is called for a row that comes into sight or goes out of it keeps the store sound.
LEMMA ThumbnailSetKeeps ==
  ASSUME StoreAssumption, NEW s, Sound(s, Store!Taken), NEW k \in DOMAIN s.rows
  PROVE  /\ Sound(Store!ThumbnailSet(s, k), Store!Taken)
         /\ SameFiles(s, Store!ThumbnailSet(s, k))
<1>1. SameFiles(s, s)
  BY DEF SameFiles
<1> QED BY <1>1, JobAdded DEF Store!ThumbnailSet

\* A row that goes out of sight gives its job up.
LEMMA ThumbnailUnsetKeeps ==
  ASSUME StoreAssumption, NEW s, NEW taken, Takings(taken), Sound(s, taken),
         NEW k \in DOMAIN s.rows
  PROVE  /\ Sound(Store!ThumbnailUnset(s, k), taken)
         /\ SameFiles(s, Store!ThumbnailUnset(s, k))
<1>1. PICK r : r = Store!RemoveThumbnailJob(s, k)
  OBVIOUS
<1>2. Sound(r, taken) /\ SameFiles(s, r)
  BY <1>1, JobRemoved
<1>3. r \in Stores
  BY <1>2 DEF Sound
<1> DEFINE rows == [r.rows EXCEPT ![k] = [r.rows[k] EXCEPT !.thumb = "busy", !.set = FALSE]]
           t == Store!ThumbnailUnset(s, k)
<1>4. k \in 1 .. Len(r.rows) /\ r.rows \in Seq(RowRecords) /\ r.rows[k] \in RowRecords
  BY <1>2, <1>3, StoreFields DEF SameFiles
<1>5. t = [r EXCEPT !.rows = rows]
  BY <1>1, <1>3, <1>4 DEF Store!ThumbnailUnset, Stores
<1>6. [r.rows[k] EXCEPT !.thumb = "busy", !.set = FALSE] \in RowRecords
  BY <1>4 DEF RowRecords, RowThumbs
<1>7. /\ rows \in Seq(RowRecords) /\ DOMAIN rows = DOMAIN r.rows
      /\ \A n \in DOMAIN r.rows : n # k => rows[n] = r.rows[n]
      /\ rows[k] = [r.rows[k] EXCEPT !.thumb = "busy", !.set = FALSE]
  BY <1>4, <1>6, ExceptSeq
<1>8. rows[k].file = r.rows[k].file /\ rows[k].job = r.rows[k].job
  BY <1>4, <1>7 DEF RowRecords
<1> HIDE DEF rows
<1>9. t \in Stores /\ t.rows = rows /\ t.queue = r.queue
  BY <1>3, <1>5, <1>7 DEF Stores
<1>10. SameFiles(r, t) /\ \A n \in DOMAIN r.rows : t.rows[n].job \in {r.rows[n].job, NoJob}
  BY <1>7, <1>8, <1>9 DEF SameFiles
<1> HIDE DEF t
<1>11. Sound(t, taken)
  BY <1>2, <1>9, <1>10, SameJobs
<1>12. SameFiles(s, t)
  BY <1>2, <1>10, SameFilesAgain
<1> QED BY <1>11, <1>12 DEF t

\* A row whose file changed gets another job.
LEMMA ThumbnailRefreshKeeps ==
  ASSUME StoreAssumption, NEW s, Takings(Store!Taken), Sound(s, Store!Taken),
         NEW k \in DOMAIN s.rows
  PROVE  /\ Sound(Store!ThumbnailRefresh(s, k), Store!Taken)
         /\ SameFiles(s, Store!ThumbnailRefresh(s, k))
<1>1. PICK r : r = Store!RemoveThumbnailJob(s, k)
  OBVIOUS
<1>2. Sound(r, Store!Taken) /\ SameFiles(s, r)
  BY <1>1, JobRemoved
<1>3. k \in DOMAIN r.rows
  BY <1>2 DEF SameFiles
<1>4. PICK t : t = Store!AddThumbnailJob(r, k)
  OBVIOUS
<1>5. Sound(t, Store!Taken) /\ SameFiles(r, t)
  BY <1>2, <1>3, <1>4, JobAdded
<1>6. SameFiles(s, t)
  BY <1>2, <1>5, SameFilesAgain
<1> QED BY <1>1, <1>4, <1>5, <1>6 DEF Store!ThumbnailRefresh

-----------------------------------------------------------------------------
(* The rows of the collection: the rows that come and go *)

\* is_file_in_list_store finds the row of a file, if there is one.
LEMMA FindIs ==
  ASSUME listed \in Seq(RowRecords), NEW f
  PROVE  /\ Store!Find(f) = 0 => f \notin FilesOf(listed)
         /\ Store!Find(f) # 0 => /\ Store!Find(f) \in DOMAIN listed
                                 /\ listed[Store!Find(f)].file = f /\ f \in FilesOf(listed)
<1> DEFINE I == {n \in 1 .. Len(listed) : listed[n].file = f}
<1>1. Len(listed) \in Nat /\ DOMAIN listed = 1 .. Len(listed)
  BY LenProperties
<1>2. Store!Find(f) = IF I # {} THEN Min(I) ELSE 0
  BY StoreSequences DEF Store!Find, Store!SelectInSeq
<1>3. CASE I = {}
  BY <1>1, <1>2, <1>3 DEF FilesOf
<1>4. CASE I # {}
  <2>1. I \in SUBSET Nat
    BY <1>1
  <2>2. Min(I) \in I
    BY <1>4, <2>1, LeastIs
  <2> QED BY <1>1, <1>2, <1>4, <2>2 DEF FilesOf
<1> QED BY <1>3, <1>4

\* A store that has some of the rows, in their order, is sound.
LEMMA RowRemovedKeeps ==
  ASSUME StoreAssumption, NEW taken, Sound(Store!Store, taken), NEW p \in DOMAIN listed
  PROVE  /\ Sound(Store!RowRemoved(p), taken)
         /\ FilesOf(Store!RowRemoved(p).rows) = FilesOf(listed) \ {listed[p].file}
         /\ Len(Store!RowRemoved(p).rows) = Len(listed) - 1
<1> DEFINE s == Store!Store
           rows == RemoveAt(listed, p)
           r == Store!RowRemoved(p)
<1>1. /\ s \in Stores /\ s.rows = listed /\ s.queue = line
      /\ Ordered(listed) /\ OneTask(line, taken) /\ Alive(listed, line, taken)
  BY DEF Sound, Store!Store
<1>2. /\ listed \in Seq(RowRecords) /\ Len(listed) \in Nat /\ DOMAIN listed = 1 .. Len(listed)
      /\ line \in Seq(Tasks)
  BY <1>1, StoreFields
<1>3. r = [s EXCEPT !.rows = rows]
  BY <1>1, StoreSequences DEF Store!RowRemoved, Stores
<1>4. /\ rows \in Seq(RowRecords) /\ Len(rows) = Len(listed) - 1
      /\ \A k \in 1 .. Len(listed) - 1 : rows[k] = IF k < p THEN listed[k] ELSE listed[k + 1]
  BY <1>2, RemoveAtElements
<1> HIDE DEF rows
<1>5. DOMAIN rows = 1 .. Len(listed) - 1
  BY <1>4, LenProperties
<1>6. r \in Stores /\ r.rows = rows /\ r.queue = line
  BY <1>1, <1>3, <1>4 DEF Stores
<1>7. \A k \in DOMAIN rows : \E n \in DOMAIN listed :
         rows[k] = listed[n] /\ n # p /\ n = IF k < p THEN k ELSE k + 1
  BY <1>2, <1>4, <1>5
<1>8. ASSUME NEW n \in DOMAIN listed, n # p PROVE \E k \in DOMAIN rows : rows[k] = listed[n]
  <2>1. CASE n < p
    BY <1>2, <1>4, <1>5, <2>1
  <2>2. CASE n > p
    <3>1. n - 1 \in DOMAIN rows /\ ~(n - 1 < p) /\ (n - 1) + 1 = n
      BY <1>2, <1>5, <2>2
    <3> QED BY <1>4, <1>5, <3>1
  <2> QED BY <1>2, <1>8, <2>1, <2>2
<1>9. Ordered(rows)
  <2> SUFFICES ASSUME NEW k \in DOMAIN rows, NEW n \in DOMAIN rows, k < n
               PROVE  rows[k].file < rows[n].file
    BY DEF Ordered
  <2>1. PICK x \in DOMAIN listed : rows[k] = listed[x] /\ x = IF k < p THEN k ELSE k + 1
    BY <1>7
  <2>2. PICK y \in DOMAIN listed : rows[n] = listed[y] /\ y = IF n < p THEN n ELSE n + 1
    BY <1>7
  <2>3. x < y
    BY <1>2, <1>5, <2>1, <2>2
  <2> QED BY <1>1, <2>1, <2>2, <2>3 DEF Ordered
<1>10. Alive(rows, line, taken)
  BY <1>1, <1>7 DEF Alive
<1>11. \A n \in DOMAIN listed : n # p => listed[n].file # listed[p].file
  BY <1>1, OneRow
<1>12. FilesOf(rows) = FilesOf(listed) \ {listed[p].file}
  BY <1>7, <1>8, <1>11 DEF FilesOf
<1> QED BY <1>1, <1>4, <1>6, <1>9, <1>10, <1>12 DEF Sound

\* A row that is appended goes to its place, and has no job yet.
LEMMA AppendedKeeps ==
  ASSUME StoreAssumption, NEW taken, Sound(Store!Store, taken),
         NEW f \in Directory, f \notin FilesOf(listed)
  PROVE  /\ Sound(Store!Appended(f), taken)
         /\ FilesOf(Store!Appended(f).rows) = FilesOf(listed) \cup {f}
         /\ Len(Store!Appended(f).rows) = Len(listed) + 1
<1> DEFINE s == Store!Store
           r == Store!Appended(f)
<1>1. /\ s \in Stores /\ s.rows = listed /\ s.queue = line
      /\ Ordered(listed) /\ OneTask(line, taken) /\ Alive(listed, line, taken)
  BY DEF Sound, Store!Store
<1>2. /\ listed \in Seq(RowRecords) /\ Len(listed) \in Nat /\ DOMAIN listed = 1 .. Len(listed)
      /\ line \in Seq(Tasks) /\ \A n \in DOMAIN listed : listed[n] \in RowRecords
  BY <1>1, StoreFields
<1>3. PICK I, later, e, rows :
        /\ I = {n \in 1 .. Len(listed) : listed[n].file > f}
        /\ later = IF I # {} THEN Min(I) ELSE 0
        /\ e = Store!Row(f)
        /\ rows = IF later = 0 THEN Append(listed, e) ELSE InsertAt(listed, later, e)
        /\ r = [s EXCEPT !.rows = rows]
  BY <1>1, StoreSequences DEF Store!Appended, Store!SelectInSeq, Stores
<1>4. e \in RowRecords /\ e.file = f /\ e.job = NoJob
  BY <1>3 DEF Store!Row, RowRecords, RowThumbs
<1>5. f \in Nat /\ \A n \in DOMAIN listed : listed[n].file \in Nat /\ listed[n].file # f
  BY <1>2 DEF FilesOf, StoreAssumption, RowRecords
<1>6. PICK p \in 1 .. Len(listed) + 1 :
        /\ rows \in Seq(RowRecords) /\ Len(rows) = Len(listed) + 1
        /\ \A k \in 1 .. Len(listed) + 1 :
             rows[k] = IF k < p THEN listed[k] ELSE IF k = p THEN e ELSE listed[k - 1]
        /\ \A n \in DOMAIN listed : IF n < p THEN listed[n].file < f ELSE f < listed[n].file
  <2>1. CASE I = {}
    <3>1. rows = Append(listed, e)
      BY <1>3, <2>1
    <3>2. /\ rows \in Seq(RowRecords) /\ Len(rows) = Len(listed) + 1
          /\ rows[Len(listed) + 1] = e
          /\ \A k \in 1 .. Len(listed) : rows[k] = listed[k]
      BY <1>2, <1>4, <3>1, AppendElements
    <3>3. \A n \in DOMAIN listed : listed[n].file < f
      BY <1>2, <1>3, <1>5, <2>1
    <3>4. /\ Len(listed) + 1 \in 1 .. Len(listed) + 1
          /\ \A k \in 1 .. Len(listed) + 1 :
               rows[k] = IF k < Len(listed) + 1 THEN listed[k]
                         ELSE IF k = Len(listed) + 1 THEN e ELSE listed[k - 1]
          /\ \A n \in DOMAIN listed :
               IF n < Len(listed) + 1 THEN listed[n].file < f ELSE f < listed[n].file
      BY <1>2, <3>2, <3>3
    <3> QED BY <3>2, <3>4
  <2>2. CASE I # {}
    <3>1. I \in SUBSET Nat
      BY <1>2, <1>3
    <3>2. PICK p : p = Min(I)
      OBVIOUS
    <3>3. p \in I /\ \A n \in I : p <= n
      BY <2>2, <3>1, <3>2, LeastIs
    <3>4. p \in 1 .. Len(listed) /\ listed[p].file > f /\ later = p /\ p # 0
      BY <1>2, <1>3, <2>2, <3>2, <3>3
    <3>5. rows = InsertAt(listed, p, e)
      BY <1>3, <3>4
    <3>6. /\ rows \in Seq(RowRecords) /\ Len(rows) = Len(listed) + 1
          /\ \A k \in 1 .. Len(listed) + 1 :
               rows[k] = IF k < p THEN listed[k] ELSE IF k = p THEN e ELSE listed[k - 1]
      <4>1. listed \in Seq(RowRecords) /\ p \in 1 .. Len(listed) /\ e \in RowRecords
        BY <1>2, <1>4, <3>4
      <4> QED BY <3>5, <4>1, InsertAtElements
    <3>7. ASSUME NEW n \in DOMAIN listed, n < p PROVE listed[n].file < f
      <4>1. n \in 1 .. Len(listed) /\ n \in Nat /\ p \in Nat
        BY <1>2, <3>4
      <4>2. n \notin I
        BY <3>3, <3>7, <4>1
      <4>3. ~(listed[n].file > f)
        BY <1>3, <4>1, <4>2
      <4> QED BY <1>5, <4>3
    <3>8. ASSUME NEW n \in DOMAIN listed, ~(n < p) PROVE f < listed[n].file
      <4>1. p < n \/ p = n
        BY <1>2, <3>4, <3>8
      <4>2. p < n => listed[p].file < listed[n].file
        BY <1>1, <1>2, <3>4 DEF Ordered
      <4> QED BY <1>2, <1>5, <3>4, <4>1, <4>2
    <3>9. p \in 1 .. Len(listed) + 1
      BY <1>2, <3>4
    <3>10. \A n \in DOMAIN listed : IF n < p THEN listed[n].file < f ELSE f < listed[n].file
      BY <3>7, <3>8
    <3> QED BY <3>6, <3>9, <3>10
  <2> QED BY <2>1, <2>2
<1>7. DOMAIN rows = 1 .. Len(listed) + 1
  BY <1>6, LenProperties
<1>8. r \in Stores /\ r.rows = rows /\ r.queue = line
  BY <1>1, <1>3, <1>6 DEF Stores
<1>9. \A k \in DOMAIN rows : k # p =>
        \E n \in DOMAIN listed : rows[k] = listed[n] /\ n = IF k < p THEN k ELSE k - 1
  BY <1>2, <1>6, <1>7
<1>10. rows[p] = e /\ p \in DOMAIN rows
  BY <1>2, <1>6, <1>7
<1>11. ASSUME NEW n \in DOMAIN listed PROVE \E k \in DOMAIN rows : rows[k] = listed[n]
  <2>1. CASE n < p
    BY <1>2, <1>6, <1>7, <2>1
  <2>2. CASE ~(n < p)
    <3>1. n + 1 \in DOMAIN rows /\ ~(n + 1 < p) /\ n + 1 # p /\ (n + 1) - 1 = n
      BY <1>2, <1>6, <1>7, <2>2
    <3> QED BY <1>6, <1>7, <3>1
  <2> QED BY <2>1, <2>2
<1>12. Ordered(rows)
  <2> SUFFICES ASSUME NEW k \in DOMAIN rows, NEW n \in DOMAIN rows, k < n
               PROVE  rows[k].file < rows[n].file
    BY DEF Ordered
  <2>1. CASE k = p
    <3>1. n # p /\ ~(n < p)
      BY <1>6, <1>7, <2>1
    <3>2. PICK y \in DOMAIN listed : rows[n] = listed[y] /\ y = n - 1
      BY <1>9, <3>1
    <3>3. ~(y < p)
      BY <1>6, <1>7, <2>1, <3>2
    <3> QED BY <1>4, <1>6, <1>10, <2>1, <3>2, <3>3
  <2>2. CASE n = p
    <3>1. k # p /\ k < p
      BY <1>6, <1>7, <2>2
    <3>2. PICK x \in DOMAIN listed : rows[k] = listed[x] /\ x = k
      BY <1>9, <3>1
    <3> QED BY <1>4, <1>6, <1>10, <2>2, <3>1, <3>2
  <2>3. CASE k # p /\ n # p
    <3>1. PICK x \in DOMAIN listed : rows[k] = listed[x] /\ x = IF k < p THEN k ELSE k - 1
      BY <1>9, <2>3
    <3>2. PICK y \in DOMAIN listed : rows[n] = listed[y] /\ y = IF n < p THEN n ELSE n - 1
      BY <1>9, <2>3
    <3>3. x < y
      BY <1>2, <1>6, <1>7, <2>3, <3>1, <3>2
    <3> QED BY <1>1, <3>1, <3>2, <3>3 DEF Ordered
  <2> QED BY <2>1, <2>2, <2>3
<1>13. Alive(rows, line, taken)
  <2> SUFFICES ASSUME NEW k \in DOMAIN rows, rows[k].job # NoJob
               PROVE  TaskOf(rows[k]) \in taken \/ \E n \in DOMAIN line : line[n] = TaskOf(rows[k])
    BY DEF Alive
  <2>1. k # p
    BY <1>4, <1>10
  <2> QED BY <1>1, <1>9, <2>1 DEF Alive
<1>14. FilesOf(rows) = FilesOf(listed) \cup {f}
  <2>1. \A x : x \in FilesOf(rows) => x \in FilesOf(listed) \/ x = f
    BY <1>4, <1>9, <1>10 DEF FilesOf
  <2>2. \A x : x \in FilesOf(listed) \/ x = f => x \in FilesOf(rows)
    BY <1>4, <1>10, <1>11 DEF FilesOf
  <2> QED BY <2>1, <2>2
<1> QED BY <1>1, <1>6, <1>8, <1>12, <1>13, <1>14 DEF Sound

-----------------------------------------------------------------------------
(* The rows of the collection: what the monitor has yet to tell *)

Reports == [kind : {"created", "changed", "attribute", "deleted"}, file : Directory]
Disks == [Directory -> {"none", "other"} \cup Loadable \cup Unloadable]

Is(e, kind, f) == e.kind = kind /\ e.file = f
Going(news, f) == \E n \in DOMAIN news : Is(news[n], "deleted", f)
Changing(news, f) == \E n \in DOMAIN news : Is(news[n], "changed", f)

\* The monitor will tell of the file and not take it back.
Coming(news, f) ==
  \E n \in DOMAIN news :
    /\ Is(news[n], "created", f) \/ Is(news[n], "changed", f)
    /\ \A m \in DOMAIN news : n < m => ~Is(news[m], "deleted", f)

\* An image without a row will get one, if it is neither hidden nor gone again; a row of a
\* file that is gone, or no image any more, will go.
FileKnown(news, disk, files, f) ==
  /\ f \notin Dotted /\ disk[f] \in Loadable =>
       Coming(news, f) \/ (f \in files /\ ~Going(news, f))
  /\ f \in files => /\ disk[f] = "none" => Going(news, f)
                    /\ disk[f] = "other" => Changing(news, f)
DirectoryKnown(news, disk, files) ==
  /\ news \in Seq(Reports) /\ disk \in Disks /\ files \in SUBSET Directory
  /\ \A f \in Directory : FileKnown(news, disk, files, f)

\* Whatever is told last does not change what is told of another file.
LEMMA ToldOfOthers ==
  ASSUME NEW s \in Seq(Reports), NEW e \in Reports, NEW f, e.file # f
  PROVE  /\ Going(Append(s, e), f) <=> Going(s, f)
         /\ Changing(Append(s, e), f) <=> Changing(s, f)
         /\ Coming(s, f) => Coming(Append(s, e), f)
<1>1. PICK r : r = Append(s, e)
  OBVIOUS
<1>2. /\ Len(s) \in Nat /\ DOMAIN s = 1 .. Len(s) /\ DOMAIN r = 1 .. Len(s) + 1
      /\ r[Len(s) + 1] = e /\ \A k \in 1 .. Len(s) : r[k] = s[k]
  BY <1>1, AppendElements
<1>3. \A kind : ~Is(e, kind, f)
  BY DEF Is
<1>4. Going(r, f) <=> Going(s, f)
  BY <1>2, <1>3 DEF Going
<1>5. Changing(r, f) <=> Changing(s, f)
  BY <1>2, <1>3 DEF Changing
<1>6. Coming(s, f) => Coming(r, f)
  BY <1>2, <1>3 DEF Coming
<1> QED BY <1>1, <1>4, <1>5, <1>6

\* What is told last is told.
LEMMA ToldLast ==
  ASSUME NEW s \in Seq(Reports), NEW e \in Reports
  PROVE  LET r == Append(s, e) f == e.file
         IN /\ Going(r, f) <=> Going(s, f) \/ e.kind = "deleted"
            /\ Changing(r, f) <=> Changing(s, f) \/ e.kind = "changed"
            /\ e.kind \in {"created", "changed"} => Coming(r, f)
            /\ e.kind # "deleted" /\ Coming(s, f) => Coming(r, f)
<1>1. PICK r, f : r = Append(s, e) /\ f = e.file
  OBVIOUS
<1>2. /\ Len(s) \in Nat /\ DOMAIN s = 1 .. Len(s) /\ DOMAIN r = 1 .. Len(s) + 1
      /\ r[Len(s) + 1] = e /\ \A k \in 1 .. Len(s) : r[k] = s[k]
  BY <1>1, AppendElements
<1>3. \A kind : Is(e, kind, f) <=> e.kind = kind
  BY <1>1 DEF Is
<1>4. Going(r, f) <=> Going(s, f) \/ e.kind = "deleted"
  BY <1>2, <1>3 DEF Going
<1>5. Changing(r, f) <=> Changing(s, f) \/ e.kind = "changed"
  BY <1>2, <1>3 DEF Changing
<1>6. ASSUME e.kind \in {"created", "changed"} PROVE Coming(r, f)
  <2>1. Len(s) + 1 \in DOMAIN r /\ \A m \in DOMAIN r : ~(Len(s) + 1 < m)
    BY <1>2
  <2> QED BY <1>2, <1>3, <1>6, <2>1 DEF Coming
<1>7. ASSUME e.kind # "deleted", Coming(s, f) PROVE Coming(r, f)
  BY <1>2, <1>3, <1>7 DEF Coming
<1> QED BY <1>1, <1>4, <1>5, <1>6, <1>7

\* Writing, touching or deleting a file keeps what is known of the directory.
LEMMA FileTold ==
  ASSUME NEW s, NEW disk, NEW files, DirectoryKnown(s, disk, files),
         NEW e \in Reports, NEW content \in {"none", "other"} \cup Loadable \cup Unloadable,
         StoreAssumption,
         \/ e.kind = "attribute" /\ content = disk[e.file]
         \/ e.kind = "changed" /\ content # "none"
         \/ e.kind = "deleted" /\ content = "none"
  PROVE  DirectoryKnown(Append(s, e), [disk EXCEPT ![e.file] = content], files)
<1>1. /\ s \in Seq(Reports) /\ disk \in Disks /\ files \in SUBSET Directory
      /\ \A f \in Directory : FileKnown(s, disk, files, f)
  BY DEF DirectoryKnown
<1>2. PICK r, d : r = Append(s, e) /\ d = [disk EXCEPT ![e.file] = content]
  OBVIOUS
<1>3. r \in Seq(Reports) /\ e.file \in Directory
  BY <1>1, <1>2, AppendElements DEF Reports
<1>4. d \in Disks /\ d[e.file] = content /\ \A f \in Directory : f # e.file => d[f] = disk[f]
  BY <1>1, <1>2, <1>3 DEF Disks
<1>5. ASSUME NEW f \in Directory PROVE FileKnown(r, d, files, f)
  <2>1. FileKnown(s, disk, files, f)
    BY <1>1
  <2>2. CASE f # e.file
    <3>1. /\ Going(r, f) <=> Going(s, f)
          /\ Changing(r, f) <=> Changing(s, f)
          /\ Coming(s, f) => Coming(r, f)
      BY <1>1, <1>2, <2>2, ToldOfOthers
    <3> QED BY <1>4, <2>1, <2>2, <3>1 DEF FileKnown
  <2>3. CASE f = e.file
    <3>1. /\ Going(r, f) <=> Going(s, f) \/ e.kind = "deleted"
          /\ Changing(r, f) <=> Changing(s, f) \/ e.kind = "changed"
          /\ e.kind \in {"created", "changed"} => Coming(r, f)
          /\ e.kind # "deleted" /\ Coming(s, f) => Coming(r, f)
      BY <1>1, <1>2, <2>3, ToldLast
    <3>2. "none" \notin Loadable /\ "other" \notin Loadable
      BY DEF StoreAssumption
    <3>3. d[f] = content
      BY <1>4, <2>3
    <3>4. CASE e.kind = "attribute" /\ content = disk[e.file]
      BY <2>1, <2>3, <3>1, <3>3, <3>4 DEF FileKnown
    <3>5. CASE e.kind = "changed" /\ content # "none"
      BY <3>1, <3>3, <3>5 DEF FileKnown
    <3>6. CASE e.kind = "deleted" /\ content = "none"
      BY <3>1, <3>2, <3>3, <3>6 DEF FileKnown
    <3> QED BY <3>4, <3>5, <3>6
  <2> QED BY <2>2, <2>3
<1> QED BY <1>2, <1>3, <1>4, <1>5 DEF DirectoryKnown

\* Creating a file says nothing that is wrong before it is told that it has changed.
LEMMA FileCreated ==
  ASSUME NEW s, NEW disk, NEW files, DirectoryKnown(s, disk, files),
         NEW e \in Reports, e.kind = "created"
  PROVE  DirectoryKnown(Append(s, e), disk, files)
<1>1. /\ s \in Seq(Reports) /\ disk \in Disks /\ files \in SUBSET Directory
      /\ \A f \in Directory : FileKnown(s, disk, files, f)
  BY DEF DirectoryKnown
<1>2. PICK r : r = Append(s, e)
  OBVIOUS
<1>3. r \in Seq(Reports)
  BY <1>1, <1>2, AppendElements
<1>5. ASSUME NEW f \in Directory PROVE FileKnown(r, disk, files, f)
  <2>1. FileKnown(s, disk, files, f)
    BY <1>1
  <2>2. CASE f # e.file
    <3>1. /\ Going(r, f) <=> Going(s, f)
          /\ Changing(r, f) <=> Changing(s, f)
          /\ Coming(s, f) => Coming(r, f)
      BY <1>1, <1>2, <2>2, ToldOfOthers
    <3> QED BY <2>1, <3>1 DEF FileKnown
  <2>3. CASE f = e.file
    <3>1. /\ Going(r, f) <=> Going(s, f) \/ e.kind = "deleted"
          /\ Changing(r, f) <=> Changing(s, f) \/ e.kind = "changed"
          /\ e.kind \in {"created", "changed"} => Coming(r, f)
      BY <1>1, <1>2, <2>3, ToldLast
    <3> QED BY <2>1, <3>1 DEF FileKnown
  <2> QED BY <2>2, <2>3
<1> QED BY <1>1, <1>2, <1>3, <1>5 DEF DirectoryKnown

\* A row may go when its file is gone.
LEMMA RowTrashed ==
  ASSUME NEW s, NEW disk, NEW files, DirectoryKnown(s, disk, files), StoreAssumption,
         NEW f \in Directory, disk[f] = "none"
  PROVE  DirectoryKnown(s, disk, files \ {f})
<1>1. /\ s \in Seq(Reports) /\ disk \in Disks /\ files \in SUBSET Directory
      /\ \A x \in Directory : FileKnown(s, disk, files, x)
  BY DEF DirectoryKnown
<1>2. "none" \notin Loadable
  BY DEF StoreAssumption
<1>3. \A x \in Directory : FileKnown(s, disk, files \ {f}, x)
  BY <1>1, <1>2 DEF FileKnown
<1> QED BY <1>1, <1>3 DEF DirectoryKnown

\* What the monitor tells first is dealt with: files is what has a row then.
LEMMA FirstDelivered ==
  ASSUME NEW s, NEW disk, NEW files, DirectoryKnown(s, disk, files), s # <<>>, StoreAssumption,
         NEW e, e = Head(s),
         NEW after,
         after = IF e.kind \in {"changed", "created"} /\ e.file \notin files /\ disk[e.file] \in Loadable
                 THEN files \cup {e.file}
                 ELSE IF /\ e.file \in files
                         /\ \/ e.kind = "changed" /\ disk[e.file] # "none" /\ disk[e.file] \notin Loadable
                            \/ e.kind = "deleted"
                 THEN files \ {e.file} ELSE files
  PROVE  DirectoryKnown(Tail(s), disk, after)
<1>1. /\ s \in Seq(Reports) /\ disk \in Disks /\ files \in SUBSET Directory
      /\ \A f \in Directory : FileKnown(s, disk, files, f)
  BY DEF DirectoryKnown
<1>2. PICK r : r = Tail(s)
  OBVIOUS
<1>3. /\ e \in Reports /\ e = s[1] /\ Len(s) \in Nat \ {0} /\ DOMAIN s = 1 .. Len(s)
      /\ r \in Seq(Reports) /\ DOMAIN r = 1 .. Len(s) - 1
      /\ \A k \in 1 .. Len(s) - 1 : r[k] = s[k + 1]
  BY <1>1, <1>2, TailElements
<1>4. e.file \in Directory /\ e.kind \in {"created", "changed", "attribute", "deleted"}
  BY <1>3 DEF Reports
<1>5. \A n \in DOMAIN s : n # 1 => n - 1 \in DOMAIN r /\ r[n - 1] = s[n]
  BY <1>3
<1>6. ASSUME NEW f \in Directory PROVE FileKnown(r, disk, after, f)
  <2>1. FileKnown(s, disk, files, f)
    BY <1>1
  <2>2. "none" \notin Loadable /\ "other" \notin Loadable
    BY DEF StoreAssumption
  <2>3. Going(s, f) <=> Going(r, f) \/ Is(e, "deleted", f)
    <3>1. Going(r, f) => Going(s, f)
      BY <1>3 DEF Going
    <3>2. Is(e, "deleted", f) => Going(s, f)
      BY <1>3 DEF Going
    <3>3. Going(s, f) => Going(r, f) \/ Is(e, "deleted", f)
      BY <1>3, <1>5 DEF Going
    <3> QED BY <3>1, <3>2, <3>3
  <2>4. Changing(s, f) => Changing(r, f) \/ Is(e, "changed", f)
    BY <1>3, <1>5 DEF Changing
  <2>5. Coming(s, f) => \/ Coming(r, f)
                        \/ (Is(e, "created", f) \/ Is(e, "changed", f)) /\ ~Going(r, f)
    <3> SUFFICES ASSUME Coming(s, f)
                 PROVE  \/ Coming(r, f)
                        \/ (Is(e, "created", f) \/ Is(e, "changed", f)) /\ ~Going(r, f)
      OBVIOUS
    <3>1. PICK n \in DOMAIN s :
            /\ Is(s[n], "created", f) \/ Is(s[n], "changed", f)
            /\ \A m \in DOMAIN s : n < m => ~Is(s[m], "deleted", f)
      BY DEF Coming
    <3>2. \A m \in DOMAIN r : r[m] = s[m + 1] /\ m + 1 \in DOMAIN s
      BY <1>3
    <3>3. CASE n = 1
      <4>1. \A m \in DOMAIN r : 1 < m + 1
        BY <1>3
      <4>2. ~Going(r, f)
        BY <3>1, <3>2, <3>3, <4>1 DEF Going
      <4> QED BY <1>3, <3>1, <3>3, <4>2
    <3>4. CASE n # 1
      <4>1. n - 1 \in DOMAIN r /\ r[n - 1] = s[n]
        BY <1>5, <3>4
      <4>2. \A m \in DOMAIN r : n - 1 < m => n < m + 1
        BY <1>3, <3>1
      <4>3. Coming(r, f)
        BY <3>1, <3>2, <4>1, <4>2 DEF Coming
      <4> QED BY <4>3
    <3> QED BY <3>3, <3>4
  <2>6. CASE f # e.file
    <3>1. f \in after <=> f \in files
      BY <2>6
    <3>2. \A kind : ~Is(e, kind, f)
      BY <2>6 DEF Is
    <3> QED BY <2>1, <2>3, <2>4, <2>5, <3>1, <3>2 DEF FileKnown
  <2>7. CASE f = e.file
    <3>1. \A kind : Is(e, kind, f) <=> e.kind = kind
      BY <2>7 DEF Is
    <3>2. CASE e.kind = "attribute"
      <4>1. after = files
        BY <3>2
      <4> QED BY <2>1, <2>3, <2>4, <2>5, <3>1, <3>2, <4>1 DEF FileKnown
    <3>3. CASE e.kind = "deleted"
      <4>1. f \notin after
        BY <2>7, <3>3
      <4> QED BY <2>1, <2>3, <2>5, <3>1, <3>3, <4>1 DEF FileKnown
    <3>4. CASE e.kind \in {"created", "changed"} /\ disk[f] \in Loadable
      <4>1. f \in after
        BY <2>7, <3>4
      <4> QED BY <2>1, <2>2, <2>3, <2>5, <3>1, <3>4, <4>1 DEF FileKnown
    <3>5. CASE e.kind = "created" /\ disk[f] \notin Loadable
      <4>1. after = files
        BY <2>7, <3>5
      <4> QED BY <2>1, <2>3, <2>4, <3>1, <3>5, <4>1 DEF FileKnown
    <3>6. CASE e.kind = "changed" /\ disk[f] \notin Loadable
      <4>1. f \in after => f \in files /\ disk[f] = "none"
        BY <2>7, <3>6
      <4> QED BY <2>1, <2>3, <3>1, <3>6, <4>1 DEF FileKnown
    <3> QED BY <1>4, <3>2, <3>3, <3>4, <3>5, <3>6
  <2> QED BY <2>6, <2>7
<1>7. after \in SUBSET Directory
  BY <1>1, <1>4
<1> QED BY <1>1, <1>2, <1>3, <1>6, <1>7 DEF DirectoryKnown

-----------------------------------------------------------------------------
(* The rows of the collection: the invariant *)

Results == [task : Tasks, thumb : RowThumbs]
RowCalls == [call : {"set", "unset"}, row : DOMAIN listed]

TakenInv ==
  worker \in Tasks \cup {NoJob} /\ results \in Seq(Results) /\ Takings(Store!Taken)

\* The rows that are yet to be called are there: none comes or goes meanwhile.
RangeInv ==
  /\ firstRow \in Nat \ {0} /\ lastRow \in Nat /\ firstRow <= lastRow
  /\ topRow \in Nat \ {0} /\ rangeDue \in BOOLEAN /\ rangeCalls \in Seq(RowCalls)

StoreInv ==
  /\ Sound(Store!Store, Store!Taken) /\ TakenInv
  /\ DirectoryKnown(reports, contents, FilesOf(listed)) /\ RangeInv

\* What the invariant says of the rows and of the queue
LEMMA StoreTypes ==
  ASSUME StoreInv
  PROVE  /\ listed \in Seq(RowRecords) /\ Len(listed) \in Nat /\ DOMAIN listed = 1 .. Len(listed)
         /\ line \in Seq(Tasks) /\ Store!Store.rows = listed /\ Store!Store.queue = line
         /\ reports \in Seq(Reports) /\ contents \in Disks
         /\ \A k \in DOMAIN listed : listed[k] \in RowRecords /\ listed[k].file \in Directory
         /\ Store!Store \in Stores
<1>1. Store!Store \in Stores /\ Store!Store.rows = listed /\ Store!Store.queue = line
  BY DEF StoreInv, Sound, Store!Store
<1>2. /\ listed \in Seq(RowRecords) /\ Len(listed) \in Nat /\ DOMAIN listed = 1 .. Len(listed)
      /\ line \in Seq(Tasks) /\ \A k \in DOMAIN listed : listed[k] \in RowRecords
  BY <1>1, StoreFields
<1>3. \A k \in DOMAIN listed : listed[k].file \in Directory
  BY <1>2 DEF RowRecords
<1> QED BY <1>1, <1>2, <1>3 DEF StoreInv, DirectoryKnown

\* The tasks of the render thread change with its jobs only.
LEMMA StoreBecomes ==
  ASSUME NEW s, Sound(s, Store!Taken), listed' = s.rows, line' = s.queue,
         UNCHANGED <<worker, results>>
  PROVE  Sound(Store!Store, Store!Taken)'
<1>1. Store!Taken' = Store!Taken
  BY DEF Store!Taken
<1>2. /\ Store!Store' \in Stores /\ Store!Store'.rows = s.rows /\ Store!Store'.queue = s.queue
  BY DEF Store!Store, Stores, Sound
<1>3. /\ s \in Stores /\ Ordered(s.rows) /\ OneTask(s.queue, Store!Taken)
      /\ Alive(s.rows, s.queue, Store!Taken)
  BY DEF Sound
<1>4. Sound(Store!Store', Store!Taken')
  BY <1>1, <1>2, <1>3 DEF Sound
<1> QED BY <1>4

\* Nothing happens to the rows and the jobs.
LEMMA SoundStays ==
  ASSUME StoreInv, UNCHANGED <<listed, line, worker, results>>
  PROVE  Sound(Store!Store, Store!Taken)'
<1>1. Store!Taken' = Store!Taken /\ Store!Store' = Store!Store
  BY DEF Store!Taken, Store!Store
<1>2. Sound(Store!Store', Store!Taken')
  BY <1>1 DEF StoreInv
<1> QED BY <1>2

\* Nothing happens on the render thread.
LEMMA TakenStays ==
  ASSUME TakenInv, UNCHANGED <<worker, results>>
  PROVE  TakenInv'
<1>1. Store!Taken' = Store!Taken
  BY DEF Store!Taken
<1> QED BY <1>1 DEF TakenInv

\* The rows of a store with the same files
LEMMA SameFilesOf ==
  ASSUME NEW s, NEW r, SameFiles(s, r)
  PROVE  FilesOf(r.rows) = FilesOf(s.rows)
  BY DEF SameFiles, FilesOf

\* The rows are as many as they were, and the range is where it was.
LEMMA RangeStays ==
  ASSUME RangeInv, DOMAIN listed' = DOMAIN listed,
         UNCHANGED <<firstRow, lastRow, topRow, rangeCalls>>, rangeDue' \in BOOLEAN
  PROVE  RangeInv'
<1>1. RowCalls' = RowCalls
  BY DEF RowCalls
<1> QED BY <1>1 DEF RangeInv

\* Nothing is called of the rows when rows come and go.
LEMMA RangeIdle ==
  ASSUME RangeInv, Store!Idle, rangeDue' \in BOOLEAN,
         UNCHANGED <<firstRow, lastRow, topRow, rangeCalls>>
  PROVE  RangeInv'
<1>1. rangeCalls' = <<>>
  BY DEF Store!Idle
<1>2. rangeCalls' \in Seq(RowCalls')
  BY <1>1
<1> QED BY <1>2 DEF RangeInv

\* What is done about an event of the monitor
LEMMA HandledIs ==
  ASSUME StoreAssumption, StoreInv, NEW e \in Reports, NEW r, r = Store!Handled(e),
         NEW after,
         after = IF e.kind \in {"changed", "created"} /\ e.file \notin FilesOf(listed)
                       /\ contents[e.file] \in Loadable
                 THEN FilesOf(listed) \cup {e.file}
                 ELSE IF /\ e.file \in FilesOf(listed)
                         /\ \/ /\ e.kind = "changed" /\ contents[e.file] # "none"
                               /\ contents[e.file] \notin Loadable
                            \/ e.kind = "deleted"
                 THEN FilesOf(listed) \ {e.file} ELSE FilesOf(listed)
  PROVE  Sound(r, Store!Taken) /\ FilesOf(r.rows) = after
<1>1. /\ e.file \in Directory /\ e.kind \in {"created", "changed", "attribute", "deleted"}
      /\ Takings(Store!Taken) /\ Sound(Store!Store, Store!Taken)
  BY DEF Reports, StoreInv, TakenInv
<1>2. PICK k : k = Store!Find(e.file)
  OBVIOUS
<1>3. /\ k = 0 => e.file \notin FilesOf(listed)
      /\ k # 0 => k \in DOMAIN listed /\ listed[k].file = e.file /\ e.file \in FilesOf(listed)
  BY <1>2, StoreTypes, FindIs
<1>4. Store!Supported(e.file) <=> contents[e.file] \in Loadable
  BY DEF Store!Supported
<1>5. Store!Unsupported(e.file) <=> contents[e.file] # "none" /\ contents[e.file] \notin Loadable
  BY <1>4 DEF Store!Unsupported
<1>6. CASE e.kind \in {"changed", "created"} /\ k = 0 /\ Store!Supported(e.file)
  <2>1. r = Store!Appended(e.file)
    BY <1>2, <1>6 DEF Store!Handled
  <2>2. after = FilesOf(listed) \cup {e.file}
    BY <1>3, <1>4, <1>6
  <2>3. PICK f : f = e.file
    OBVIOUS
  <2>4. f \in Directory /\ f \notin FilesOf(listed) /\ r = Store!Appended(f)
    BY <1>1, <1>3, <1>6, <2>1, <2>3
  <2>5. PICK taken : taken = Store!Taken
    OBVIOUS
  <2>6. Sound(Store!Store, taken)
    BY <1>1, <2>5
  <2>7. /\ Sound(Store!Appended(f), taken)
        /\ FilesOf(Store!Appended(f).rows) = FilesOf(listed) \cup {f}
    BY <2>4, <2>6, AppendedKeeps
  <2> QED BY <2>2, <2>3, <2>4, <2>5, <2>7
<1>7. CASE e.kind \in {"changed", "attribute"} /\ k # 0 /\ Store!Supported(e.file)
  <2>1. r = Store!ThumbnailRefresh(Store!Store, k)
    BY <1>2, <1>4, <1>5, <1>7, Zenon DEF Store!Handled
  <2>2. after = FilesOf(listed)
    BY <1>3, <1>4, <1>7
  <2>3. PICK s : s = Store!Store
    OBVIOUS
  <2>4. Sound(r, Store!Taken) /\ SameFiles(s, r)
    BY <1>1, <1>3, <1>7, <2>1, <2>3, StoreTypes, ThumbnailRefreshKeeps
  <2>5. FilesOf(r.rows) = FilesOf(s.rows)
    BY <2>4, SameFilesOf
  <2> QED BY <2>2, <2>3, <2>4, <2>5, StoreTypes
<1>8. CASE e.kind = "changed" /\ k # 0 /\ Store!Unsupported(e.file)
  <2>1. r = Store!RowRemoved(k)
    BY <1>2, <1>4, <1>5, <1>8 DEF Store!Handled
  <2>2. after = FilesOf(listed) \ {e.file}
    BY <1>3, <1>5, <1>8
  <2> QED BY <1>1, <1>3, <1>8, <2>1, <2>2, RowRemovedKeeps
<1>9. CASE e.kind = "deleted" /\ k # 0
  <2>1. r = Store!RowRemoved(k)
    BY <1>2, <1>9 DEF Store!Handled
  <2>2. after = FilesOf(listed) \ {e.file}
    BY <1>3, <1>9
  <2> QED BY <1>1, <1>3, <1>9, <2>1, <2>2, RowRemovedKeeps
<1>10. CASE /\ ~(e.kind \in {"changed", "created"} /\ k = 0 /\ Store!Supported(e.file))
            /\ ~(e.kind \in {"changed", "attribute"} /\ k # 0 /\ Store!Supported(e.file))
            /\ ~(e.kind = "changed" /\ k # 0 /\ Store!Unsupported(e.file))
            /\ ~(e.kind = "deleted" /\ k # 0)
  <2>1. r = Store!Store
    BY <1>2, <1>10 DEF Store!Handled
  <2>2. after = FilesOf(listed)
    BY <1>3, <1>4, <1>5, <1>10
  <2> QED BY <1>1, <2>1, <2>2, StoreTypes
<1> QED BY <1>6, <1>7, <1>8, <1>9, <1>10

\* An event is delivered: what it tells is no longer to be told, but done.
LEMMA MonitorStep ==
  ASSUME StoreAssumption, StoreInv, Store!FileMonitorChanged
  PROVE  StoreInv'
<1>1. PICK e, r : e = Head(reports) /\ r = Store!Handled(e)
  OBVIOUS
<1>2. /\ Store!Idle /\ reports # <<>> /\ reports' = Tail(reports) /\ listed' = r.rows /\ line' = r.queue
      /\ rangeDue' = (rangeDue \/ Len(listed') # Len(listed))
      /\ UNCHANGED <<contents, worker, results, firstRow, lastRow, topRow, rangeCalls>>
  BY <1>1 DEF Store!FileMonitorChanged, Store!Become
<1>3. e \in Reports
  BY <1>1, <1>2, StoreTypes, TailElements
<1>4. PICK after :
        after = IF e.kind \in {"changed", "created"} /\ e.file \notin FilesOf(listed)
                      /\ contents[e.file] \in Loadable
                THEN FilesOf(listed) \cup {e.file}
                ELSE IF /\ e.file \in FilesOf(listed)
                        /\ \/ /\ e.kind = "changed" /\ contents[e.file] # "none"
                              /\ contents[e.file] \notin Loadable
                           \/ e.kind = "deleted"
                THEN FilesOf(listed) \ {e.file} ELSE FilesOf(listed)
  OBVIOUS
<1>5. Sound(r, Store!Taken) /\ FilesOf(r.rows) = after
  BY <1>1, <1>3, <1>4, HandledIs
<1>6. Sound(Store!Store, Store!Taken)'
  BY <1>2, <1>5, StoreBecomes
<1>7. TakenInv'
  BY <1>2, TakenStays DEF StoreInv
<1>8. RangeInv'
  BY <1>2, RangeIdle DEF StoreInv
<1>9. PICK s, disk, files : s = reports /\ disk = contents /\ files = FilesOf(listed)
  OBVIOUS
<1>10. DirectoryKnown(Tail(s), disk, after)
  <2>1. DirectoryKnown(s, disk, files) /\ s # <<>> /\ e = Head(s)
    BY <1>1, <1>2, <1>9 DEF StoreInv
  <2>2. after = IF e.kind \in {"changed", "created"} /\ e.file \notin files /\ disk[e.file] \in Loadable
                THEN files \cup {e.file}
                ELSE IF /\ e.file \in files
                        /\ \/ e.kind = "changed" /\ disk[e.file] # "none" /\ disk[e.file] \notin Loadable
                           \/ e.kind = "deleted"
                THEN files \ {e.file} ELSE files
    BY <1>4, <1>9
  <2> QED BY <2>1, <2>2, FirstDelivered
<1>11. DirectoryKnown(reports', contents', FilesOf(listed'))
  BY <1>2, <1>5, <1>9, <1>10
<1> QED BY <1>6, <1>7, <1>8, <1>11 DEF StoreInv

-----------------------------------------------------------------------------
(* The rows of the collection: the steps *)

\* The file system adds events at the end.
LEMMA ToldIs ==
  ASSUME NEW s \in Seq(Reports), NEW x, NEW y, NEW f,
         [kind |-> x, file |-> f] \in Reports, [kind |-> y, file |-> f] \in Reports
  PROVE  LET r(kinds) == [n \in DOMAIN kinds |-> [kind |-> kinds[n], file |-> f]]
         IN /\ s \o r(<<x>>) = Append(s, [kind |-> x, file |-> f])
            /\ s \o r(<<x, y>>) =
                 Append(Append(s, [kind |-> x, file |-> f]), [kind |-> y, file |-> f])
<1> DEFINE r(kinds) == [n \in DOMAIN kinds |-> [kind |-> kinds[n], file |-> f]]
<1>1. PICK a, b : a = [kind |-> x, file |-> f] /\ b = [kind |-> y, file |-> f]
  OBVIOUS
<1>2. a \in Reports /\ b \in Reports
  BY <1>1
<1>3. r(<<x>>) = <<a>>
  BY <1>1
<1>4. r(<<x, y>>) = <<a, b>>
  BY <1>1
<1>5. s \o <<a>> = Append(s, a)
  BY <1>2
<1>6. s \o <<a, b>> = Append(Append(s, a), b)
  BY <1>2
<1> QED BY <1>1, <1>3, <1>4, <1>5, <1>6

\* A file is written, and the monitor will tell.
LEMMA WriteStep ==
  ASSUME StoreAssumption, StoreInv, Store!Write
  PROVE  StoreInv'
<1>1. PICK f \in Directory, content \in {"other"} \cup Loadable \cup Unloadable :
        /\ contents' = [contents EXCEPT ![f] = content]
        /\ Store!Told(IF contents[f] = "none" THEN <<"created", "changed">> ELSE <<"changed">>, f)
  BY DEF Store!Write
<1>2. UNCHANGED <<listed, line, worker, results, firstRow, lastRow, topRow, rangeDue, rangeCalls>>
  BY DEF Store!Write, Store!storeVars, Store!viewVars
<1>3. content # "none"
  BY DEF StoreAssumption
<1>4. PICK a, b, s, disk, files :
        /\ a = [kind |-> "created", file |-> f] /\ b = [kind |-> "changed", file |-> f]
        /\ s = reports /\ disk = contents /\ files = FilesOf(listed)
  OBVIOUS
<1>5. a \in Reports /\ b \in Reports /\ a.kind = "created" /\ b.kind = "changed" /\ b.file = f
  BY <1>4 DEF Reports
<1>6. s \in Seq(Reports) /\ DirectoryKnown(s, disk, files)
  BY <1>4, StoreTypes DEF StoreInv
<1>7. DirectoryKnown(reports', contents', files)
  <2>1. content \in {"none", "other"} \cup Loadable \cup Unloadable
    OBVIOUS
  <2>2. CASE contents[f] = "none"
    <3>1. reports' = Append(Append(s, a), b)
      <4>1. reports' = s \o [n \in DOMAIN <<"created", "changed">> |->
                               [kind |-> <<"created", "changed">>[n], file |-> f]]
        BY <1>1, <1>4, <2>2 DEF Store!Told
      <4> QED BY <1>4, <1>5, <1>6, <4>1, ToldIs
    <3>2. DirectoryKnown(Append(s, a), disk, files)
      BY <1>5, <1>6, FileCreated
    <3>3. DirectoryKnown(Append(Append(s, a), b), [disk EXCEPT ![b.file] = content], files)
      <4>1. PICK t : t = Append(s, a)
        OBVIOUS
      <4>2. DirectoryKnown(t, disk, files)
        BY <3>2, <4>1
      <4>3. DirectoryKnown(Append(t, b), [disk EXCEPT ![b.file] = content], files)
        BY <1>3, <1>5, <2>1, <4>2, FileTold
      <4> QED BY <4>1, <4>3
    <3> QED BY <1>1, <1>4, <1>5, <3>1, <3>3
  <2>3. CASE contents[f] # "none"
    <3>1. reports' = Append(s, b)
      <4>1. reports' = s \o [n \in DOMAIN <<"changed">> |->
                               [kind |-> <<"changed">>[n], file |-> f]]
        BY <1>1, <1>4, <2>3 DEF Store!Told
      <4> QED BY <1>4, <1>5, <1>6, <4>1, ToldIs
    <3>2. DirectoryKnown(Append(s, b), [disk EXCEPT ![b.file] = content], files)
      BY <1>3, <1>5, <1>6, <2>1, FileTold
    <3> QED BY <1>1, <1>4, <1>5, <3>1, <3>2
  <2> QED BY <2>2, <2>3
<1>8. Sound(Store!Store, Store!Taken)' /\ TakenInv' /\ RangeInv'
  BY <1>2, SoundStays, TakenStays, RangeStays DEF StoreInv, RangeInv
<1>9. FilesOf(listed') = files
  BY <1>2, <1>4
<1> QED BY <1>7, <1>8, <1>9 DEF StoreInv

\* A single event is told.
LEMMA OneTold ==
  ASSUME StoreInv, NEW f \in Directory, NEW kind \in {"created", "changed", "attribute", "deleted"},
         Store!Told(<<kind>>, f)
  PROVE  /\ [kind |-> kind, file |-> f] \in Reports
         /\ reports' = Append(reports, [kind |-> kind, file |-> f])
<1>1. [kind |-> kind, file |-> f] \in Reports
  BY DEF Reports
<1>2. reports' = reports \o [n \in DOMAIN <<kind>> |-> [kind |-> <<kind>>[n], file |-> f]]
  BY DEF Store!Told
<1> QED BY <1>1, <1>2, StoreTypes, ToldIs

\* A file is touched, and the monitor will tell.
LEMMA TouchStep ==
  ASSUME StoreAssumption, StoreInv, Store!Touch
  PROVE  StoreInv'
<1>1. PICK f \in Directory : Store!Told(<<"attribute">>, f)
  BY DEF Store!Touch
<1>2. UNCHANGED <<contents, listed, line, worker, results, firstRow, lastRow, topRow, rangeDue,
                  rangeCalls>>
  BY DEF Store!Touch, Store!storeVars, Store!viewVars
<1>3. PICK e, s, disk, files :
        /\ e = [kind |-> "attribute", file |-> f]
        /\ s = reports /\ disk = contents /\ files = FilesOf(listed)
  OBVIOUS
<1>4. e \in Reports /\ reports' = Append(s, e) /\ e.kind = "attribute" /\ e.file = f
  BY <1>1, <1>3, OneTold
<1>5. DirectoryKnown(s, disk, files) /\ disk \in Disks
  BY <1>3, StoreTypes DEF StoreInv
<1>6. PICK content : content = disk[f]
  OBVIOUS
<1>7. content \in {"none", "other"} \cup Loadable \cup Unloadable
  BY <1>5, <1>6 DEF Disks
<1>8. [disk EXCEPT ![e.file] = content] = disk
  BY <1>4, <1>5, <1>6 DEF Disks
<1>9. DirectoryKnown(Append(s, e), [disk EXCEPT ![e.file] = content], files)
  BY <1>4, <1>5, <1>6, <1>7, FileTold
<1>10. DirectoryKnown(reports', contents', FilesOf(listed'))
  BY <1>2, <1>3, <1>4, <1>8, <1>9
<1>11. Sound(Store!Store, Store!Taken)' /\ TakenInv' /\ RangeInv'
  BY <1>2, SoundStays, TakenStays, RangeStays DEF StoreInv, RangeInv
<1> QED BY <1>10, <1>11 DEF StoreInv

\* The file is gone, and the monitor will tell.
LEMMA GoneTold ==
  ASSUME StoreAssumption, StoreInv, NEW f \in Directory, Store!Told(<<"deleted">>, f),
         contents' = [contents EXCEPT ![f] = "none"], NEW files, files = FilesOf(listed)
  PROVE  DirectoryKnown(reports', contents', files) /\ contents'[f] = "none"
<1>1. PICK e, s, disk, content :
        /\ e = [kind |-> "deleted", file |-> f] /\ s = reports /\ disk = contents
        /\ content = "none"
  OBVIOUS
<1>2. e \in Reports /\ reports' = Append(s, e) /\ e.kind = "deleted" /\ e.file = f
  BY <1>1, OneTold
<1>3. DirectoryKnown(s, disk, files) /\ disk \in Disks
  BY <1>1, StoreTypes DEF StoreInv
<1>4. content \in {"none", "other"} \cup Loadable \cup Unloadable
  BY <1>1
<1>5. DirectoryKnown(Append(s, e), [disk EXCEPT ![e.file] = content], files)
  BY <1>1, <1>2, <1>3, <1>4, FileTold
<1> QED BY <1>1, <1>2, <1>3, <1>5 DEF Disks

\* A file is deleted, and the monitor will tell.
LEMMA DeleteStep ==
  ASSUME StoreAssumption, StoreInv, Store!Delete
  PROVE  StoreInv'
<1>1. PICK f \in Directory : /\ contents' = [contents EXCEPT ![f] = "none"]
                             /\ Store!Told(<<"deleted">>, f)
  BY DEF Store!Delete
<1>2. UNCHANGED <<listed, line, worker, results, firstRow, lastRow, topRow, rangeDue, rangeCalls>>
  BY DEF Store!Delete, Store!storeVars, Store!viewVars
<1>3. DirectoryKnown(reports', contents', FilesOf(listed'))
  BY <1>1, <1>2, GoneTold
<1>4. Sound(Store!Store, Store!Taken)' /\ TakenInv' /\ RangeInv'
  BY <1>2, SoundStays, TakenStays, RangeStays DEF StoreInv, RangeInv
<1> QED BY <1>3, <1>4 DEF StoreInv

\* The row goes before the monitor tells that the file has gone.
LEMMA TrashStep ==
  ASSUME StoreAssumption, StoreInv, Store!Trash
  PROVE  StoreInv'
<1>1. PICK k \in DOMAIN listed :
        /\ contents' = [contents EXCEPT ![listed[k].file] = "none"]
        /\ Store!Told(<<"deleted">>, listed[k].file)
        /\ Store!Become(Store!RowRemoved(Store!Find(listed[k].file)))
  BY DEF Store!Trash
<1>2. /\ Store!Idle /\ rangeDue' = TRUE
      /\ UNCHANGED <<worker, results, firstRow, lastRow, topRow, rangeCalls>>
  BY DEF Store!Trash
<1>3. PICK f, p, r : f = listed[k].file /\ p = Store!Find(f) /\ r = Store!RowRemoved(p)
  OBVIOUS
<1>4. f \in Directory /\ listed \in Seq(RowRecords)
  BY <1>3, StoreTypes
<1>5. f \in FilesOf(listed)
  BY <1>3 DEF FilesOf
<1>6. p \in DOMAIN listed /\ listed[p].file = f
  BY <1>3, <1>4, <1>5, FindIs
<1>7. Sound(r, Store!Taken) /\ FilesOf(r.rows) = FilesOf(listed) \ {f}
  BY <1>3, <1>6, RowRemovedKeeps DEF StoreInv
<1>8. listed' = r.rows /\ line' = r.queue
  BY <1>1, <1>3 DEF Store!Become
<1>9. Sound(Store!Store, Store!Taken)'
  BY <1>2, <1>7, <1>8, StoreBecomes
<1>10. PICK s, disk, files : s = reports' /\ disk = contents' /\ files = FilesOf(listed)
  OBVIOUS
<1>11. DirectoryKnown(s, disk, files) /\ disk[f] = "none"
  BY <1>1, <1>3, <1>4, <1>10, GoneTold
<1>12. DirectoryKnown(s, disk, files \ {f})
  BY <1>4, <1>11, RowTrashed
<1>13. DirectoryKnown(reports', contents', FilesOf(listed'))
  BY <1>7, <1>8, <1>10, <1>12
<1>14. TakenInv' /\ RangeInv'
  BY <1>2, TakenStays, RangeIdle DEF StoreInv
<1> QED BY <1>9, <1>13, <1>14 DEF StoreInv

\* A step that changes the jobs and pictures of rows only
LEMMA RowsStay ==
  ASSUME StoreInv, NEW r, Sound(r, Store!Taken), SameFiles(Store!Store, r),
         listed' = r.rows, line' = r.queue, UNCHANGED <<contents, reports, worker, results>>
  PROVE  /\ Sound(Store!Store, Store!Taken)' /\ TakenInv' /\ DOMAIN listed' = DOMAIN listed
         /\ DirectoryKnown(reports, contents, FilesOf(listed))'
<1>1. PICK s : s = Store!Store
  OBVIOUS
<1>2. FilesOf(r.rows) = FilesOf(s.rows) /\ s.rows = listed /\ DOMAIN r.rows = DOMAIN s.rows
  BY <1>1, StoreTypes, SameFilesOf DEF SameFiles
<1>3. DirectoryKnown(reports', contents', FilesOf(listed'))
  BY <1>2 DEF StoreInv
<1>4. Sound(Store!Store, Store!Taken)' /\ TakenInv'
  BY StoreBecomes, TakenStays DEF StoreInv
<1> QED BY <1>2, <1>3, <1>4

\* An image is transformed, and its thumbnail made again.
LEMMA ImageStep ==
  ASSUME StoreAssumption, StoreInv, Store!ImageChanged
  PROVE  StoreInv'
<1>1. PICK k \in DOMAIN listed :
        Store!Become(Store!ThumbnailRefresh(Store!Store, Store!Find(listed[k].file)))
  BY DEF Store!ImageChanged
<1>2. UNCHANGED <<contents, reports, worker, results, firstRow, lastRow, topRow, rangeDue,
                  rangeCalls>>
  BY DEF Store!ImageChanged, Store!viewVars
<1>3. PICK p, s, r : /\ p = Store!Find(listed[k].file) /\ s = Store!Store
                     /\ r = Store!ThumbnailRefresh(s, p)
  OBVIOUS
<1>4. p \in DOMAIN listed
  <2>1. listed[k].file \in FilesOf(listed)
    BY DEF FilesOf
  <2> QED BY <1>3, <2>1, StoreTypes, FindIs
<1>5. Sound(r, Store!Taken) /\ SameFiles(s, r)
  BY <1>3, <1>4, StoreTypes, ThumbnailRefreshKeeps DEF StoreInv, TakenInv
<1>6. listed' = r.rows /\ line' = r.queue
  BY <1>1, <1>3 DEF Store!Become
<1>7. /\ Sound(Store!Store, Store!Taken)' /\ TakenInv' /\ DOMAIN listed' = DOMAIN listed
      /\ DirectoryKnown(reports, contents, FilesOf(listed))'
  BY <1>2, <1>3, <1>5, <1>6, RowsStay
<1>8. RangeInv'
  BY <1>2, <1>7, RangeStays DEF StoreInv, RangeInv
<1> QED BY <1>7, <1>8 DEF StoreInv

\* The next row of the range is called.
LEMMA RangeCallStep ==
  ASSUME StoreAssumption, StoreInv, Store!RangeCall
  PROVE  StoreInv'
<1>1. PICK call, k, s, r :
        /\ call = Head(rangeCalls).call /\ k = Head(rangeCalls).row /\ s = Store!Store
        /\ r = IF call = "unset" THEN Store!ThumbnailUnset(s, k) ELSE Store!ThumbnailSet(s, k)
  OBVIOUS
<1>2. /\ rangeCalls # <<>> /\ rangeCalls' = Tail(rangeCalls)
      /\ listed' = r.rows /\ line' = r.queue
      /\ UNCHANGED <<contents, reports, worker, results, firstRow, lastRow, topRow, rangeDue>>
  BY <1>1 DEF Store!RangeCall, Store!Become
<1>3. Head(rangeCalls) \in RowCalls /\ Tail(rangeCalls) \in Seq(RowCalls)
  BY <1>2, TailElements DEF StoreInv, RangeInv
<1>4. k \in DOMAIN listed
  BY <1>1, <1>3 DEF RowCalls
<1>5. Sound(s, Store!Taken) /\ s.rows = listed /\ Takings(Store!Taken)
  BY <1>1, StoreTypes DEF StoreInv, TakenInv
<1>6. Sound(r, Store!Taken) /\ SameFiles(s, r)
  <2>1. CASE call = "unset"
    BY <1>1, <1>4, <1>5, <2>1, ThumbnailUnsetKeeps
  <2>2. CASE call # "unset"
    BY <1>1, <1>4, <1>5, <2>2, ThumbnailSetKeeps
  <2> QED BY <2>1, <2>2
<1>7. /\ Sound(Store!Store, Store!Taken)' /\ TakenInv' /\ DOMAIN listed' = DOMAIN listed
      /\ DirectoryKnown(reports, contents, FilesOf(listed))'
  BY <1>1, <1>2, <1>6, RowsStay
<1>8. RowCalls' = RowCalls
  BY <1>7 DEF RowCalls
<1>9. RangeInv'
  BY <1>2, <1>3, <1>8 DEF StoreInv, RangeInv
<1> QED BY <1>7, <1>9 DEF StoreInv

\* A step that is about the range only
LEMMA RangeOnly ==
  ASSUME StoreInv, UNCHANGED <<contents, reports, listed, line, worker, results>>, RangeInv'
  PROVE  StoreInv'
<1>1. Sound(Store!Store, Store!Taken)' /\ TakenInv'
  BY SoundStays, TakenStays DEF StoreInv
<1>2. DirectoryKnown(reports', contents', FilesOf(listed'))
  BY DEF StoreInv
<1> QED BY <1>1, <1>2 DEF StoreInv

\* The view is scrolled.
LEMMA StoreScrollStep ==
  ASSUME StoreInv, Store!Scroll
  PROVE  StoreInv'
<1>1. /\ topRow' \in DOMAIN listed /\ rangeDue' = TRUE
      /\ UNCHANGED <<contents, reports, listed, line, worker, results, firstRow, lastRow,
                     rangeCalls>>
  BY DEF Store!Scroll, Store!storeVars
<1>2. topRow' \in Nat \ {0}
  BY <1>1, StoreTypes
<1>3. RowCalls' = RowCalls
  BY <1>1 DEF RowCalls
<1>4. RangeInv'
  BY <1>1, <1>2, <1>3 DEF StoreInv, RangeInv
<1> QED BY <1>1, <1>4, RangeOnly

\* The rows of a range are rows that there are.
LEMMA CallsAre ==
  ASSUME StoreInv, NEW call \in {"set", "unset"}, NEW from \in Nat \ {0}, NEW to \in Nat
  PROVE  Store!Calls(call, from, to) \in Seq(RowCalls)
<1>1. Len(listed) \in Nat /\ DOMAIN listed = 1 .. Len(listed)
  BY StoreTypes
<1>2. PICK n : n = (Store!Least(to, Len(listed)) + 1) - from
  OBVIOUS
<1>3. n \in Int /\ from + n - 1 <= Len(listed)
  BY <1>1, <1>2 DEF Store!Least
<1>4. \A k \in 1 .. n : [call |-> call, row |-> from + k - 1] \in RowCalls
  BY <1>1, <1>3 DEF RowCalls
<1>5. Store!Calls(call, from, to) = [k \in 1 .. n |-> [call |-> call, row |-> from + k - 1]]
  BY <1>2 DEF Store!Calls
<1>6. PICK m \in Nat : 1 .. n = 1 .. m
  <2>1. CASE n \in Nat
    BY <2>1
  <2>2. CASE n \notin Nat
    BY <1>3, <2>2
  <2> QED BY <2>1, <2>2
<1>7. Store!Calls(call, from, to) \in [1 .. m -> RowCalls]
  BY <1>4, <1>5, <1>6
<1> QED BY <1>7

\* The range is set, and its rows are to be called.
LEMMA RangeChangedStep ==
  ASSUME StoreAssumption, StoreInv, Store!VisibleRangeChanged
  PROVE  StoreInv'
<1>1. UNCHANGED <<contents, reports, listed, line, worker, results, topRow>> /\ rangeDue' = FALSE
  BY DEF Store!VisibleRangeChanged, Store!storeVars
<1>2. CASE UNCHANGED <<firstRow, lastRow, rangeCalls>>
  <2>1. RangeInv'
    BY <1>1, <1>2, RangeStays DEF StoreInv
  <2> QED BY <1>1, <2>1, RangeOnly
<1>3. CASE ~UNCHANGED <<firstRow, lastRow, rangeCalls>>
  <2>1. PICK first, last : first = Store!FirstSeen /\ last = Store!LastSeen
    OBVIOUS
  <2>2. /\ listed # <<>> /\ firstRow' = first /\ lastRow' = last
        /\ rangeCalls' = Store!RangeCalls(first, last)
    BY <1>3, <2>1 DEF Store!VisibleRangeChanged
  <2>3. Len(listed) \in Nat \ {0}
    BY <2>2, StoreTypes
  <2>4. /\ topRow \in Nat \ {0} /\ firstRow \in Nat \ {0} /\ lastRow \in Nat
        /\ RowsShown \in Nat \ {0}
    BY DEF StoreInv, RangeInv, StoreAssumption
  <2>5. first \in 1 .. Len(listed) /\ last \in 1 .. Len(listed) /\ first <= last
    <3>1. PICK n, wide, least : /\ n = Len(listed) /\ wide = Store!Least(RowsShown, n)
                                /\ least = Store!Most(1, (n + 1) - wide)
      OBVIOUS
    <3>2. n \in Nat \ {0} /\ wide \in 1 .. n
      BY <2>3, <2>4, <3>1 DEF Store!Least
    <3>3. least \in 1 .. n
      BY <3>1, <3>2 DEF Store!Most
    <3>4. first = Store!Least(topRow, least)
      BY <2>1, <3>1 DEF Store!FirstSeen
    <3>5. first \in 1 .. n
      BY <2>4, <3>2, <3>3, <3>4 DEF Store!Least
    <3>6. last = Store!Least(n, first + RowsShown - 1)
      BY <2>1, <3>1 DEF Store!LastSeen
    <3>7. last \in 1 .. n /\ first <= last
      BY <2>4, <3>2, <3>5, <3>6 DEF Store!Least
    <3> QED BY <3>1, <3>5, <3>7
  <2>6. PICK a, b, c :
          /\ a = Store!Calls("unset", firstRow, Store!Least(first - 1, lastRow))
          /\ b = Store!Calls("unset", Store!Most(last + 1, firstRow), lastRow)
          /\ c = Store!Calls("set", first, last)
          /\ rangeCalls' = (IF firstRow < first THEN a ELSE <<>>)
                             \o (IF lastRow > last THEN b ELSE <<>>) \o c
    BY <2>2 DEF Store!RangeCalls
  <2>7. a \in Seq(RowCalls)
    <3>1. PICK to : to = Store!Least(first - 1, lastRow)
      OBVIOUS
    <3>2. to \in Nat
      BY <2>3, <2>4, <2>5, <3>1 DEF Store!Least
    <3> QED BY <2>4, <2>6, <3>1, <3>2, CallsAre
  <2>8. b \in Seq(RowCalls)
    <3>1. PICK from : from = Store!Most(last + 1, firstRow)
      OBVIOUS
    <3>2. from \in Nat \ {0}
      BY <2>3, <2>4, <2>5, <3>1 DEF Store!Most
    <3> QED BY <2>4, <2>6, <3>1, <3>2, CallsAre
  <2>9. c \in Seq(RowCalls)
    <3>1. first \in Nat \ {0} /\ last \in Nat
      BY <2>3, <2>5
    <3> QED BY <2>6, <3>1, CallsAre
  <2>10. rangeCalls' \in Seq(RowCalls)
    BY <2>6, <2>7, <2>8, <2>9
  <2>11. RowCalls' = RowCalls
    BY <1>1 DEF RowCalls
  <2>12. RangeInv'
    <3>1. /\ firstRow' \in Nat \ {0} /\ lastRow' \in Nat /\ firstRow' <= lastRow'
          /\ topRow' \in Nat \ {0}
      BY <1>1, <2>2, <2>3, <2>4, <2>5
    <3>2. rangeCalls' \in Seq(RowCalls')
      BY <2>10, <2>11
    <3> QED BY <1>1, <3>1, <3>2 DEF RangeInv
  <2> QED BY <1>1, <2>12, RangeOnly
<1> QED BY <1>2, <1>3

\* The tasks of the answers, and of the job that runs
LEMMA TakenIs ==
  ASSUME StoreAssumption, TakenInv
  PROVE  \A t : t \in Store!Taken <=> \/ worker # NoJob /\ t = worker
                                      \/ \E n \in DOMAIN results : t = results[n].task
  BY DEF Store!Taken

\* The render thread takes a job out of the queue: it is taken, and queued no more.
LEMMA TakeStep ==
  ASSUME StoreAssumption, StoreInv, Store!Take
  PROVE  StoreInv'
<1>1. PICK task : task = Head(line)
  OBVIOUS
<1>2. /\ worker = NoJob /\ line # <<>> /\ worker' = task /\ line' = Tail(line)
      /\ UNCHANGED <<contents, reports, listed, results, firstRow, lastRow, topRow, rangeDue,
                     rangeCalls>>
  BY <1>1 DEF Store!Take, Store!viewVars
<1>3. /\ task \in Tasks /\ task = line[1] /\ Len(line) \in Nat \ {0} /\ DOMAIN line = 1 .. Len(line)
      /\ line' \in Seq(Tasks) /\ DOMAIN line' = 1 .. Len(line) - 1
      /\ \A k \in 1 .. Len(line) - 1 : line'[k] = line[k + 1]
  BY <1>1, <1>2, StoreTypes, TailElements
<1>4. PICK taken, now : taken = Store!Taken /\ now = Store!Taken'
  OBVIOUS
<1>5. task # NoJob
  BY <1>3 DEF Tasks, StoreAssumption
<1>6. now = taken \cup {task}
  BY <1>2, <1>4, <1>5 DEF Store!Taken
<1>7. /\ Ordered(listed) /\ OneTask(line, taken) /\ Alive(listed, line, taken) /\ Takings(taken)
  BY <1>4, StoreTypes DEF StoreInv, Sound, TakenInv
<1>8. Takings(now)
  <2>1. \A t \in taken : t.job # task.job
    BY <1>3, <1>7 DEF OneTask
  <2> QED BY <1>3, <1>6, <1>7, <2>1 DEF Takings
<1>9. OneTask(line', now)
  <2> SUFFICES ASSUME NEW k \in DOMAIN line'
               PROVE  /\ \A n \in DOMAIN line' : line'[k].job = line'[n].job => k = n
                      /\ \A t \in now : line'[k].job # t.job
    BY DEF OneTask
  <2>1. k + 1 \in DOMAIN line /\ line'[k] = line[k + 1] /\ k + 1 # 1 /\ k \in Nat
    BY <1>3
  <2>2. \A n \in DOMAIN line' : n \in Nat /\ n + 1 \in DOMAIN line /\ line'[n] = line[n + 1]
    BY <1>3
  <2>3. ASSUME NEW n \in DOMAIN line', line'[k].job = line'[n].job PROVE k = n
    <3>1. k + 1 = n + 1
      BY <1>7, <2>1, <2>2, <2>3 DEF OneTask
    <3> QED BY <2>1, <2>2, <3>1
  <2>4. \A t \in taken : line'[k].job # t.job
    BY <1>7, <2>1 DEF OneTask
  <2>5. line'[k].job # task.job
    BY <1>3, <1>7, <2>1 DEF OneTask
  <2> QED BY <1>6, <2>3, <2>4, <2>5
<1>10. Alive(listed, line', now)
  <2> SUFFICES ASSUME NEW k \in DOMAIN listed, listed[k].job # NoJob
               PROVE  TaskOf(listed[k]) \in now \/ \E n \in DOMAIN line' : line'[n] = TaskOf(listed[k])
    BY DEF Alive
  <2>1. CASE TaskOf(listed[k]) \in taken
    BY <1>6, <2>1
  <2>2. CASE TaskOf(listed[k]) \notin taken
    <3>1. PICK n \in DOMAIN line : line[n] = TaskOf(listed[k])
      BY <1>7, <2>2 DEF Alive
    <3>2. CASE n = 1
      BY <1>3, <1>6, <3>1, <3>2
    <3>3. CASE n # 1
      <4>1. n - 1 \in DOMAIN line' /\ line'[n - 1] = line[n]
        BY <1>3, <3>3
      <4> QED BY <3>1, <4>1
    <3> QED BY <3>2, <3>3
  <2> QED BY <2>1, <2>2
<1>11. /\ Store!Store' \in Stores /\ Store!Store'.rows = listed /\ Store!Store'.queue = line'
  BY <1>2, <1>3, StoreTypes DEF Store!Store, Stores
<1>12. Sound(Store!Store, Store!Taken)'
  <2>1. Sound(Store!Store', Store!Taken')
    BY <1>4, <1>7, <1>9, <1>10, <1>11 DEF Sound
  <2> QED BY <2>1
<1>13. TakenInv'
  BY <1>2, <1>3, <1>4, <1>8 DEF StoreInv, TakenInv
<1>14. DirectoryKnown(reports', contents', FilesOf(listed'))
  BY <1>2 DEF StoreInv
<1>15. RangeInv'
  BY <1>2, RangeStays DEF StoreInv, RangeInv
<1> QED BY <1>12, <1>13, <1>14, <1>15 DEF StoreInv

\* A job is done, and taken until it is answered.
LEMMA FinishStep ==
  ASSUME StoreAssumption, StoreInv, Store!Finish
  PROVE  StoreInv'
<1>1. PICK a : a = [task |-> worker,
                    thumb |-> IF Store!Supported(worker.file) THEN contents[worker.file]
                                                              ELSE "missing"]
  OBVIOUS
<1>2. /\ worker # NoJob /\ worker' = NoJob /\ results' = Append(results, a)
      /\ UNCHANGED <<contents, reports, listed, line, firstRow, lastRow, topRow, rangeDue,
                     rangeCalls>>
  BY <1>1 DEF Store!Finish, Store!storeVars, Store!viewVars
<1>3. worker \in Tasks /\ results \in Seq(Results) /\ Takings(Store!Taken)
  BY <1>2 DEF StoreInv, TakenInv
<1>4. a \in Results /\ a.task = worker
  BY <1>1, <1>3 DEF Results, RowThumbs, Store!Supported
<1>5. /\ results' \in Seq(Results) /\ Len(results) \in Nat /\ DOMAIN results = 1 .. Len(results)
      /\ DOMAIN results' = 1 .. Len(results) + 1 /\ results'[Len(results) + 1] = a
      /\ \A k \in 1 .. Len(results) : results'[k] = results[k]
  BY <1>2, <1>3, <1>4, AppendElements
<1>6. Store!Taken' = Store!Taken
  <2>1. \A t : t \in Store!Taken' <=> \E n \in DOMAIN results' : t = results'[n].task
    BY <1>2 DEF Store!Taken
  <2>2. \A t : t \in Store!Taken <=> t = worker \/ \E n \in DOMAIN results : t = results[n].task
    BY <1>2, TakenIs DEF StoreInv
  <2>3. \A t : (\E n \in DOMAIN results' : t = results'[n].task)
                 <=> t = worker \/ \E n \in DOMAIN results : t = results[n].task
    BY <1>4, <1>5
  <2>4. \A t : t \in Store!Taken' <=> t \in Store!Taken
    BY <2>1, <2>2, <2>3
  <2> QED BY <2>4
<1>7. TakenInv'
  BY <1>2, <1>3, <1>5, <1>6 DEF TakenInv
<1>8. Store!Store' = Store!Store
  BY <1>2 DEF Store!Store
<1>9. Sound(Store!Store, Store!Taken)'
  <2>1. Sound(Store!Store', Store!Taken')
    BY <1>6, <1>8 DEF StoreInv
  <2> QED BY <2>1
<1>10. DirectoryKnown(reports', contents', FilesOf(listed'))
  BY <1>2 DEF StoreInv
<1>11. RangeInv'
  BY <1>2, RangeStays DEF StoreInv, RangeInv
<1> QED BY <1>7, <1>9, <1>10, <1>11 DEF StoreInv

\* A job is answered and freed: no row has its pointer any more.
LEMMA AnswerStep ==
  ASSUME StoreAssumption, StoreInv, Store!ThumbnailFinished
  PROVE  StoreInv'
<1>1. PICK a, p : a = Head(results) /\ p = Store!Find(a.task.file)
  OBVIOUS
<1>2. /\ results # <<>> /\ results' = Tail(results)
      /\ listed' = IF p = 0 THEN listed ELSE Store!Done(p, a)
      /\ UNCHANGED <<contents, reports, line, worker, firstRow, lastRow, topRow, rangeDue,
                     rangeCalls>>
  BY <1>1 DEF Store!ThumbnailFinished, Store!viewVars
<1>3. results \in Seq(Results) /\ Takings(Store!Taken) /\ worker \in Tasks \cup {NoJob}
  BY DEF StoreInv, TakenInv
<1>4. /\ a \in Results /\ a = results[1] /\ Len(results) \in Nat \ {0}
      /\ DOMAIN results = 1 .. Len(results)
      /\ results' \in Seq(Results) /\ DOMAIN results' = 1 .. Len(results) - 1
      /\ \A k \in 1 .. Len(results) - 1 : results'[k] = results[k + 1]
  BY <1>1, <1>2, <1>3, TailElements
<1>5. a.task \in Tasks /\ a.task.file \in Directory /\ a.thumb \in RowThumbs
  BY <1>4 DEF Results, Tasks
<1>6. PICK taken, now : taken = Store!Taken /\ now = Store!Taken'
  OBVIOUS
<1>7. /\ \A t \in now : t \in taken
      /\ \A t \in taken : t # a.task => t \in now
  <2>1. \A t : t \in now <=> \/ worker # NoJob /\ t = worker
                             \/ \E n \in DOMAIN results' : t = results'[n].task
    BY <1>2, <1>6 DEF Store!Taken
  <2>2. \A t : t \in taken <=> \/ worker # NoJob /\ t = worker
                               \/ \E n \in DOMAIN results : t = results[n].task
    BY <1>6, TakenIs DEF StoreInv
  <2>3. \A n \in DOMAIN results' : n + 1 \in DOMAIN results /\ results'[n] = results[n + 1]
    BY <1>4
  <2>4. \A n \in DOMAIN results : n # 1 => n - 1 \in DOMAIN results' /\ results'[n - 1] = results[n]
    BY <1>4
  <2> QED BY <1>4, <2>1, <2>2, <2>3, <2>4
<1>8. /\ Ordered(listed) /\ OneTask(line, taken) /\ Alive(listed, line, taken) /\ Takings(taken)
      /\ listed \in Seq(RowRecords) /\ line \in Seq(Tasks) /\ DOMAIN listed = 1 .. Len(listed)
      /\ \A k \in DOMAIN listed : listed[k] \in RowRecords
  BY <1>6, StoreTypes DEF StoreInv, Sound, TakenInv
<1>9. Takings(now)
  BY <1>7, <1>8 DEF Takings
<1>10. OneTask(line, now)
  BY <1>7, <1>8 DEF OneTask
<1>11. p = 0 => a.task.file \notin FilesOf(listed)
  BY <1>1, <1>8, FindIs
<1>12. p # 0 => p \in DOMAIN listed /\ listed[p].file = a.task.file
  BY <1>1, <1>8, FindIs
<1>13. /\ listed' \in Seq(RowRecords) /\ DOMAIN listed' = DOMAIN listed
       /\ \A k \in DOMAIN listed : /\ listed'[k].file = listed[k].file
                                   /\ k # p => listed'[k] = listed[k]
                                   /\ k = p => listed'[k].job = NoJob
  <2>1. CASE p = 0
    BY <1>2, <1>8, <2>1
  <2>2. CASE p # 0
    <3>1. p \in 1 .. Len(listed) /\ listed[p] \in RowRecords
      BY <1>8, <1>12, <2>2
    <3>2. PICK e : e = [listed[p] EXCEPT !.thumb = a.thumb, !.set = TRUE, !.job = NoJob]
      OBVIOUS
    <3>3. e \in RowRecords /\ e.file = listed[p].file /\ e.job = NoJob
      BY <1>5, <3>1, <3>2 DEF RowRecords
    <3>4. listed' = [listed EXCEPT ![p] = e]
      BY <1>2, <1>8, <2>2, <3>1, <3>2 DEF Store!Done
    <3> QED BY <1>8, <3>1, <3>3, <3>4, ExceptSeq
  <2> QED BY <2>1, <2>2
<1>14. Ordered(listed')
  BY <1>8, <1>13 DEF Ordered
<1>15. Alive(listed', line, now)
  <2> SUFFICES ASSUME NEW k \in DOMAIN listed', listed'[k].job # NoJob
               PROVE  \/ TaskOf(listed'[k]) \in now
                      \/ \E n \in DOMAIN line : line[n] = TaskOf(listed'[k])
    BY DEF Alive
  <2>1. k # p /\ k \in DOMAIN listed /\ listed'[k] = listed[k]
    BY <1>13
  <2>2. TaskOf(listed[k]) # a.task
    <3>1. TaskOf(listed[k]).file = listed[k].file
      BY DEF TaskOf
    <3>2. listed[k].file # a.task.file
      <4>1. CASE p = 0
        BY <1>11, <2>1, <4>1 DEF FilesOf
      <4>2. CASE p # 0
        BY <1>8, <1>12, <2>1, <4>2, StoreTypes, OneRow
      <4> QED BY <4>1, <4>2
    <3> QED BY <3>1, <3>2
  <2>3. TaskOf(listed[k]) \in taken \/ \E n \in DOMAIN line : line[n] = TaskOf(listed[k])
    BY <1>8, <2>1 DEF Alive
  <2> QED BY <1>7, <2>1, <2>2, <2>3
<1>16. /\ Store!Store' \in Stores /\ Store!Store'.rows = listed' /\ Store!Store'.queue = line
  BY <1>2, <1>8, <1>13 DEF Store!Store, Stores
<1>17. Sound(Store!Store, Store!Taken)'
  <2>1. Sound(Store!Store', Store!Taken')
    BY <1>6, <1>10, <1>14, <1>15, <1>16 DEF Sound
  <2> QED BY <2>1
<1>18. TakenInv'
  BY <1>2, <1>3, <1>4, <1>6, <1>9 DEF TakenInv
<1>19. FilesOf(listed') = FilesOf(listed)
  BY <1>13 DEF FilesOf
<1>20. DirectoryKnown(reports', contents', FilesOf(listed'))
  BY <1>2, <1>19 DEF StoreInv
<1>21. RangeInv'
  BY <1>2, <1>13, RangeStays DEF StoreInv, RangeInv
<1> QED BY <1>17, <1>18, <1>20, <1>21 DEF StoreInv

\* Every step of the collection keeps the invariant.
LEMMA StoreStep ==
  ASSUME StoreAssumption, StoreInv, [Store!Next]_(Store!vars)
  PROVE  StoreInv'
<1>1. CASE UNCHANGED Store!vars
  <2>1. /\ UNCHANGED <<contents, reports, listed, line, worker, results, firstRow, lastRow, topRow,
                       rangeDue, rangeCalls>>
    BY <1>1 DEF Store!vars, Store!storeVars, Store!viewVars
  <2>2. RangeInv'
    BY <2>1, RangeStays DEF StoreInv, RangeInv
  <2> QED BY <2>1, <2>2, RangeOnly
<1>2. CASE Store!Next
  BY <1>2, MonitorStep, WriteStep, TouchStep, DeleteStep, TrashStep, ImageStep, StoreScrollStep,
     RangeChangedStep, RangeCallStep, TakeStep, FinishStep, AnswerStep DEF Store!Next
<1> QED BY <1>1, <1>2

\* The directory has been read, and every row is that of an image in it.
LEMMA StoreInit == ASSUME StoreAssumption, Store!Init PROVE StoreInv
<1>1. PICK S : S = {f \in Directory : Store!Visited(f)}
  OBVIOUS
<1>2. S \subseteq Int /\ IsFiniteSet(S) /\ S \subseteq Directory
  <2>1. S \in SUBSET Directory /\ Directory \subseteq Nat /\ IsFiniteSet(Directory)
    BY <1>1 DEF StoreAssumption
  <2>2. IsFiniteSet(S)
    BY <2>1, FS_Subset
  <2> QED BY <2>1, <2>2
<1>3. PICK r : r = Store!Listed
  OBVIOUS
<1>4. r \in SetToSeqs(S) /\ \A k, n \in DOMAIN r : k < n => r[k] < r[n]
  <2>1. r = CHOOSE s \in SetToSeqs(S) : \A k, n \in DOMAIN s : k < n => s[k] < s[n]
    BY <1>1, <1>3, StoreSequences DEF Store!Listed
  <2>2. \E s \in SetToSeqs(S) : \A k, n \in DOMAIN s : k < n => s[k] < s[n]
    BY <1>2, OrderExists
  <2> QED BY <2>1, <2>2
<1>5. r \in Seq(S) /\ ToSet(r) = S
  BY <1>2, <1>4, OrderElements
<1>6. Len(r) \in Nat /\ DOMAIN r = 1 .. Len(r) /\ \A k \in DOMAIN r : r[k] \in S
  BY <1>5, LenProperties, ElementOfSeq
<1>7. /\ contents \in Disks /\ reports = <<>> /\ listed = [k \in DOMAIN r |-> Store!Row(r[k])]
      /\ line = <<>> /\ results = <<>> /\ worker = NoJob
      /\ firstRow = 1 /\ lastRow = 1 /\ topRow = 1 /\ rangeDue = TRUE /\ rangeCalls = <<>>
  BY <1>3 DEF Store!Init, Disks
<1>8. \A f \in Directory : /\ Store!Row(f) \in RowRecords
                           /\ Store!Row(f).file = f /\ Store!Row(f).job = NoJob
  BY DEF Store!Row, RowRecords, RowThumbs
<1>9. /\ DOMAIN listed = 1 .. Len(r) /\ listed \in Seq(RowRecords)
      /\ \A k \in DOMAIN listed : listed[k].file = r[k] /\ listed[k].job = NoJob
  <2>1. \A k \in 1 .. Len(r) : Store!Row(r[k]) \in RowRecords
    BY <1>2, <1>6, <1>8
  <2>2. listed \in [1 .. Len(r) -> RowRecords] /\ \A k \in 1 .. Len(r) : listed[k] = Store!Row(r[k])
    BY <1>6, <1>7, <2>1
  <2>3. \A k \in 1 .. Len(r) : r[k] \in Directory
    BY <1>2, <1>6
  <2> QED BY <1>6, <1>8, <2>2, <2>3
<1>10. Ordered(listed)
  BY <1>4, <1>6, <1>9 DEF Ordered
<1>11. Store!Taken = {}
  BY <1>7 DEF Store!Taken
<1>12. OneTask(line, Store!Taken) /\ Alive(listed, line, Store!Taken)
  BY <1>7, <1>9 DEF OneTask, Alive
<1>13. Store!Store \in Stores /\ Store!Store.rows = listed /\ Store!Store.queue = line
  <2>1. line \in Seq(Tasks)
    BY <1>7
  <2> QED BY <1>9, <2>1 DEF Store!Store, Stores
<1>14. Sound(Store!Store, Store!Taken)
  BY <1>10, <1>12, <1>13 DEF Sound
<1>15. TakenInv
  <2>1. results \in Seq(Results) /\ Takings(Store!Taken)
    BY <1>7, <1>11 DEF Takings
  <2> QED BY <1>7, <2>1 DEF TakenInv
<1>16. FilesOf(listed) = S
  BY <1>5, <1>6, <1>9 DEF FilesOf, ToSet
<1>17. DirectoryKnown(reports, contents, FilesOf(listed))
  <2>1. \A f \in Directory : f \in S <=> f \notin Dotted /\ contents[f] \in Loadable \cup Unloadable
    BY <1>1 DEF Store!Visited
  <2>2. \A f \in Directory : ~Going(<<>>, f)
    BY DEF Going
  <2>3. \A f \in S : contents[f] \notin {"none", "other"}
    BY <1>2, <2>1 DEF StoreAssumption
  <2>4. \A f \in Directory : FileKnown(reports, contents, S, f)
    BY <1>7, <2>1, <2>2, <2>3 DEF FileKnown
  <2>5. reports \in Seq(Reports)
    BY <1>7
  <2> QED BY <1>2, <1>7, <1>16, <2>4, <2>5 DEF DirectoryKnown
<1>18. RangeInv
  <2>1. rangeCalls \in Seq(RowCalls)
    BY <1>7
  <2> QED BY <1>7, <2>1 DEF RangeInv
<1> QED BY <1>14, <1>15, <1>17, <1>18 DEF StoreInv

\* When the monitor has nothing to tell, what is known of the directory is true of it.
LEMMA StoreMeaning ==
  ASSUME StoreAssumption, StoreInv
  PROVE  Store!TypeOK /\ Store!RowsMatchDirectory /\ Store!RowJobsAlive
<1>1. PICK taken : taken = Store!Taken
  OBVIOUS
<1>2. /\ Ordered(listed) /\ OneTask(line, taken) /\ Alive(listed, line, taken) /\ Takings(taken)
      /\ listed \in Seq(RowRecords) /\ line \in Seq(Tasks)
      /\ \A k \in DOMAIN listed : listed[k] \in RowRecords
      /\ reports \in Seq(Reports) /\ contents \in Disks
  BY <1>1, StoreTypes DEF StoreInv, Sound, TakenInv
<1>3. DOMAIN line = 1 .. Len(line) /\ \A n \in DOMAIN line : line[n] \in Tasks
  BY <1>2, LenProperties, ElementOfSeq
<1>4. Store!ToSet(line) = {line[n] : n \in DOMAIN line}
  BY DEF Store!ToSet
<1>5. Store!RowJobsAlive
  <2> SUFFICES ASSUME NEW k \in DOMAIN listed, listed[k].job # NoJob
               PROVE  [job |-> listed[k].job, file |-> listed[k].file]
                        \in Store!ToSet(line) \cup Store!Taken
    BY DEF Store!RowJobsAlive
  <2> QED BY <1>1, <1>2, <1>4 DEF Alive, TaskOf
<1>6. Store!RowsMatchDirectory
  <2> SUFFICES ASSUME reports = <<>>
               PROVE  /\ \A k, n \in DOMAIN listed : k < n => listed[k].file < listed[n].file
                      /\ {f \in Directory \ Dotted : Store!Supported(f)}
                           \subseteq {r.file : r \in Store!ToSet(listed)}
                      /\ \A r \in Store!ToSet(listed) : contents[r.file] \in Loadable \cup Unloadable
    BY DEF Store!RowsMatchDirectory
  <2>1. \A f \in Directory : FileKnown(reports, contents, FilesOf(listed), f)
    BY DEF StoreInv, DirectoryKnown
  <2>2. \A f : ~Going(reports, f) /\ ~Coming(reports, f) /\ ~Changing(reports, f)
    BY DEF Going, Coming, Changing
  <2>3. Store!ToSet(listed) = {listed[k] : k \in DOMAIN listed}
    BY DEF Store!ToSet
  <2>4. FilesOf(listed) = {r.file : r \in Store!ToSet(listed)}
    BY <2>3 DEF FilesOf
  <2>5. \A f \in Directory \ Dotted : Store!Supported(f) => f \in FilesOf(listed)
    BY <2>1, <2>2 DEF FileKnown, Store!Supported
  <2>6. ASSUME NEW k \in DOMAIN listed PROVE contents[listed[k].file] \in Loadable \cup Unloadable
    <3>1. listed[k].file \in Directory /\ listed[k].file \in FilesOf(listed)
      BY <1>2 DEF RowRecords, FilesOf
    <3>2. contents[listed[k].file] # "none" /\ contents[listed[k].file] # "other"
      BY <2>1, <2>2, <3>1 DEF FileKnown
    <3>3. contents[listed[k].file] \in {"none", "other"} \cup Loadable \cup Unloadable
      BY <1>2, <3>1 DEF Disks
    <3> QED BY <3>2, <3>3
  <2> QED BY <1>2, <2>3, <2>4, <2>5, <2>6 DEF Ordered
<1>7. Store!TypeOK
  <2>1. contents \in [Directory -> {"none", "other"} \cup Loadable \cup Unloadable]
    BY <1>2 DEF Disks
  <2>2. \A n \in DOMAIN reports :
          reports[n] \in [kind : {"created", "changed", "attribute", "deleted"}, file : Directory]
    <3>1. \A n \in DOMAIN reports : reports[n] \in Reports
      BY <1>2, LenProperties, ElementOfSeq
    <3> QED BY <3>1 DEF Reports
  <2>3. \A k \in DOMAIN listed :
          listed[k] \in [file : Directory, thumb : {"busy", "missing"} \cup Loadable,
                         set : BOOLEAN, job : JobObjects \cup {NoJob}]
    BY <1>2 DEF RowRecords, RowThumbs
  <2>4. \A task \in Store!ToSet(line) \cup Store!Taken : task \in [job : JobObjects, file : Directory]
    BY <1>1, <1>2, <1>3, <1>4 DEF Takings, Tasks
  <2>5. Store!IsInjective(line)
    BY <1>2 DEF OneTask, Store!IsInjective
  <2>6. Store!ToSet(line) \cap Store!Taken = {}
    BY <1>1, <1>2, <1>4 DEF OneTask
  <2>7. /\ firstRow \in Nat /\ lastRow \in Nat /\ topRow \in Nat /\ rangeDue \in BOOLEAN
        /\ firstRow <= lastRow
    BY DEF StoreInv, RangeInv
  <2>8. \A n \in DOMAIN rangeCalls : rangeCalls[n] \in [call : {"set", "unset"}, row : DOMAIN listed]
    <3>1. rangeCalls \in Seq(RowCalls)
      BY DEF StoreInv, RangeInv
    <3>2. \A n \in DOMAIN rangeCalls : rangeCalls[n] \in RowCalls
      BY <3>1, LenProperties, ElementOfSeq
    <3> QED BY <3>2 DEF RowCalls
  <2> QED BY <2>1, <2>2, <2>3, <2>4, <2>5, <2>6, <2>7, <2>8 DEF Store!TypeOK
<1> QED BY <1>5, <1>6, <1>7

\* The collection: in whatever order files are written, replaced, deleted and trashed, events
\* delivered, thumbnails asked for, made and given up, its rows are those of the directory when
\* the monitor has told everything (file_monitor_changed_cb), and the pointer that a row has of
\* its job is to one that is queued, run or answered (eom_list_store_remove_thumbnail_job).
THEOREM CollectionListed ==
  ASSUME StoreAssumption
  PROVE  StoreSpec => [](Store!TypeOK /\ Store!RowsMatchDirectory /\ Store!RowJobsAlive)
<1> USE StoreAssumption
<1>1. Store!Init => StoreInv
  BY StoreInit
<1>2. StoreInv /\ [Store!Next]_(Store!vars) => StoreInv'
  BY StoreStep
<1>3. StoreInv => Store!TypeOK /\ Store!RowsMatchDirectory /\ Store!RowJobsAlive
  BY StoreMeaning
<1> QED BY <1>1, <1>2, <1>3, PTL DEF StoreSpec
-----------------------------------------------------------------------------
(* The selection and the trash: the rank of an image in a set of images *)

ThumbsSpec == Thumbs!Init /\ [][Thumbs!Next]_(Thumbs!thumbVars)

LEMMA CountIs == \A S : Thumbs!Cardinality(S) = Cardinality(S)
BY DEF Thumbs!Cardinality, Cardinality

LEMMA SubCount ==
  ASSUME NEW S, IsFiniteSet(S), NEW T \in SUBSET S
  PROVE  /\ IsFiniteSet(T) /\ Cardinality(T) \in Nat /\ Cardinality(S) \in Nat
         /\ Cardinality(T) <= Cardinality(S)
         /\ T # S => Cardinality(T) < Cardinality(S)
<1>1. IsFiniteSet(T) /\ Cardinality(T) <= Cardinality(S) /\ (T # S => Cardinality(T) # Cardinality(S))
  BY FS_Subset
<1>2. Cardinality(T) \in Nat /\ Cardinality(S) \in Nat
  BY <1>1, FS_CardinalityType
<1> QED BY <1>1, <1>2

LEMMA OneMore ==
  ASSUME NEW S, IsFiniteSet(S), NEW x, x \notin S
  PROVE  /\ IsFiniteSet(S \cup {x}) /\ Cardinality(S) \in Nat
         /\ Cardinality(S \cup {x}) = Cardinality(S) + 1
BY FS_AddElement, FS_CardinalityType

LEMMA RankIs ==
  ASSUME NEW S \in SUBSET Nat, IsFiniteSet(S), NEW i \in S
  PROVE  /\ Thumbs!Rank(S, i) \in 1 .. Cardinality(S) /\ Cardinality(S) \in Nat
         /\ \A j \in S : i < j => Thumbs!Rank(S, i) < Thumbs!Rank(S, j)
         /\ Thumbs!Rank(S, i) = Cardinality({k \in S : k < i}) + 1
<1>1. /\ Cardinality({k \in S : k <= i}) \in Nat /\ Cardinality(S) \in Nat
      /\ Cardinality({k \in S : k <= i}) <= Cardinality(S)
  <2> DEFINE T == {k \in S : k <= i}
  <2>1. T \in SUBSET S
    OBVIOUS
  <2> HIDE DEF T
  <2>2. Cardinality(T) \in Nat /\ Cardinality(S) \in Nat /\ Cardinality(T) <= Cardinality(S)
    BY <2>1, SubCount
  <2> QED BY <2>2 DEF T
<1>2. /\ Cardinality({k \in S : k < i}) \in Nat
      /\ Cardinality({k \in S : k <= i}) = Cardinality({k \in S : k < i}) + 1
  <2> DEFINE T == {k \in S : k < i}
  <2>1. T \in SUBSET S /\ i \notin T
    OBVIOUS
  <2>2. T \cup {i} = {k \in S : k <= i}
    <3>1. \A k \in S : k \in Nat
      OBVIOUS
    <3>2. \A k \in S : k <= i <=> k < i \/ k = i
      BY <3>1
    <3> QED BY <3>2, Zenon
  <2> HIDE DEF T
  <2>3. IsFiniteSet(T)
    BY <2>1, SubCount
  <2>4. Cardinality(T) \in Nat /\ Cardinality(T \cup {i}) = Cardinality(T) + 1
    BY <2>1, <2>3, OneMore
  <2> QED BY <2>2, <2>4 DEF T
<1>3. ASSUME NEW j \in S, i < j
      PROVE  /\ Cardinality({k \in S : k <= i}) < Cardinality({k \in S : k <= j})
             /\ Cardinality({k \in S : k <= j}) \in Nat
  <2> DEFINE T == {k \in S : k <= i}
             U == {k \in S : k <= j}
  <2>1. U \in SUBSET S /\ T \in SUBSET U /\ j \in U /\ j \notin T
    <3>1. \A k \in S : k \in Nat
      OBVIOUS
    <3>2. (\A k \in S : k <= i => k <= j) /\ j <= j /\ ~(j <= i)
      BY <1>3, <3>1
    <3> QED BY <3>2
  <2> HIDE DEF T, U
  <2>2. IsFiniteSet(U) /\ T # U
    BY <2>1, SubCount
  <2>3. Cardinality(T) < Cardinality(U) /\ Cardinality(U) \in Nat
    BY <2>1, <2>2, SubCount
  <2> QED BY <2>3 DEF T, U
<1>4. \A j : Thumbs!Rank(S, j) = Cardinality({k \in S : k <= j})
  BY CountIs DEF Thumbs!Rank
<1>5. \A j \in S : i < j => Thumbs!Rank(S, i) < Thumbs!Rank(S, j)
  <2> SUFFICES ASSUME NEW j \in S, i < j PROVE Thumbs!Rank(S, i) < Thumbs!Rank(S, j)
    OBVIOUS
  <2>1. Cardinality({k \in S : k <= i}) < Cardinality({k \in S : k <= j})
    BY <1>3
  <2> QED BY <1>4, <2>1
<1>6. /\ Thumbs!Rank(S, i) \in Nat /\ Thumbs!Rank(S, i) <= Cardinality(S)
      /\ Thumbs!Rank(S, i) = Cardinality({k \in S : k < i}) + 1
  BY <1>1, <1>2, <1>4
<1>7. Thumbs!Rank(S, i) \in 1 .. Cardinality(S)
  BY <1>1, <1>2, <1>6
<1> QED BY <1>1, <1>5, <1>6, <1>7

LEMMA RankOne ==
  ASSUME NEW S \in SUBSET Nat, IsFiniteSet(S), NEW i \in S, NEW j \in S,
         Thumbs!Rank(S, i) = Thumbs!Rank(S, j)
  PROVE  i = j
<1>1. i \in Nat /\ j \in Nat
  OBVIOUS
<1>2. ASSUME NEW k \in S, NEW m \in S, k < m PROVE Thumbs!Rank(S, k) # Thumbs!Rank(S, m)
  <2>1. Thumbs!Rank(S, k) < Thumbs!Rank(S, m) /\ Thumbs!Rank(S, k) \in 1 .. Cardinality(S)
    BY <1>2, RankIs
  <2>2. Cardinality(S) \in Nat
    BY RankIs
  <2> QED BY <2>1, <2>2
<1>3. ~(i < j) /\ ~(j < i)
  BY <1>2
<1> QED BY <1>1, <1>3

LEMMA RankThere ==
  ASSUME NEW S \in SUBSET Nat, IsFiniteSet(S), NEW n \in 1 .. Cardinality(S)
  PROVE  \E i \in S : Thumbs!Rank(S, i) = n
<1> SUFFICES ASSUME \A i \in S : Thumbs!Rank(S, i) # n PROVE FALSE
  OBVIOUS
<1> DEFINE T == (1 .. Cardinality(S)) \ {n}
           f == [i \in S |-> Thumbs!Rank(S, i)]
<1>1. Cardinality(S) \in Nat
  BY FS_CardinalityType
<1>2. IsFiniteSet(T) /\ Cardinality(T) < Cardinality(S)
  <2> DEFINE all == 1 .. Cardinality(S)
  <2>1. IsFiniteSet(all) /\ Cardinality(all) = Cardinality(S) /\ n \in all
    BY <1>1, FS_Interval
  <2> HIDE DEF all
  <2>2. IsFiniteSet(all \ {n}) /\ Cardinality(all \ {n}) = Cardinality(all) - 1
    BY <2>1, FS_RemoveElement
  <2> QED BY <1>1, <2>1, <2>2 DEF all
<1>3. f \in [S -> T]
  <2>1. \A i \in S : Thumbs!Rank(S, i) \in T
    BY RankIs
  <2> QED BY <2>1
<1>4. PICK i \in S, j \in S : i # j /\ f[i] = f[j]
  <2> HIDE DEF T, f
  <2> QED BY <1>2, <1>3, FS_PigeonHole
<1> QED BY <1>4, RankOne

LEMMA SortedIs ==
  ASSUME NEW S \in SUBSET Nat, IsFiniteSet(S)
  PROVE  /\ Thumbs!Sorted(S) \in Seq(S) /\ Len(Thumbs!Sorted(S)) = Cardinality(S)
         /\ Cardinality(S) \in Nat
         /\ \A n \in 1 .. Cardinality(S) : /\ Thumbs!Sorted(S)[n] \in S
                                           /\ Thumbs!Rank(S, Thumbs!Sorted(S)[n]) = n
         /\ S # {} => Cardinality(S) > 0
<1>1. Cardinality(S) \in Nat /\ (S # {} => Cardinality(S) > 0)
  BY FS_CardinalityType, FS_EmptySet
<1>2. Thumbs!Sorted(S) = [n \in 1 .. Cardinality(S) |-> CHOOSE i \in S : Thumbs!Rank(S, i) = n]
  BY CountIs DEF Thumbs!Sorted
<1>3. \A n \in 1 .. Cardinality(S) :
        /\ (CHOOSE i \in S : Thumbs!Rank(S, i) = n) \in S
        /\ Thumbs!Rank(S, CHOOSE i \in S : Thumbs!Rank(S, i) = n) = n
  BY RankThere
<1> DEFINE s == [n \in 1 .. Cardinality(S) |-> CHOOSE i \in S : Thumbs!Rank(S, i) = n]
<1>4. s \in [1 .. Cardinality(S) -> S]
  BY <1>3
<1>5. \A n \in 1 .. Cardinality(S) : s[n] \in S /\ Thumbs!Rank(S, s[n]) = n
  BY <1>3
<1> HIDE DEF s
<1>6. s \in Seq(S) /\ Len(s) = Cardinality(S)
  BY <1>1, <1>4, LenProperties, IsASeq
<1> QED BY <1>1, <1>2, <1>5, <1>6 DEF s

-----------------------------------------------------------------------------
(* The selection and the trash: what the view keeps *)

Views == [rows : SUBSET Gallery, selected : SUBSET Gallery, nImages : Int, columns : Int,
          mode : Thumbs!Modes, tour : Seq(Gallery)]

\* What is selected is shown, and one row has as many columns as images.
ViewInv(w) ==
  /\ w \in Views /\ w.selected \subseteq w.rows /\ w.nImages = Cardinality(w.rows)
  /\ w.mode = "ONE_ROW" => w.columns = Cardinality(w.rows)

\* Steps to the right go up by one in the order of the rows, and around at its end.
TourInv(w) ==
  /\ w.tour \in Seq(w.rows) /\ Len(w.tour) <= Cardinality(w.rows)
  /\ w.tour # <<>> => w.selected = {w.tour[Len(w.tour)]}
  /\ \A j, k \in 1 .. Len(w.tour) :
       j < k => Thumbs!Rank(w.rows, w.tour[k]) - Thumbs!Rank(w.rows, w.tour[j])
                  \in {k - j, k - j - Cardinality(w.rows)}

LEMMA RowsAreFinite ==
  ASSUME ThumbsAssumption, NEW rows \in SUBSET Gallery
  PROVE  IsFiniteSet(rows) /\ Cardinality(rows) \in Nat /\ rows \in SUBSET Nat
BY SubCount DEF ThumbsAssumption

LEMMA NoTour ==
  ASSUME ThumbsAssumption, NEW w \in Views, w.tour = <<>>
  PROVE  TourInv(w)
<1>1. Len(<<>>) = 0 /\ <<>> \in Seq(w.rows)
  OBVIOUS
<1>2. Cardinality(w.rows) \in Nat
  BY RowsAreFinite DEF Views
<1> QED BY <1>1, <1>2 DEF TourInv

LEMMA UpdateColumnsKeeps ==
  ASSUME NEW w \in Views, w.nImages = Cardinality(w.rows), NEW r, r = Thumbs!UpdateColumns(w)
  PROVE  /\ r \in Views /\ r.rows = w.rows /\ r.selected = w.selected /\ r.tour = w.tour
         /\ r.nImages = Cardinality(r.rows)
         /\ r.mode = "ONE_ROW" => r.columns = Cardinality(r.rows)
<1>1. CASE w.mode = "ONE_ROW"
  <2>1. r = [w EXCEPT !.columns = w.nImages]
    BY <1>1 DEF Thumbs!UpdateColumns
  <2> QED BY <2>1 DEF Views
<1>2. CASE w.mode # "ONE_ROW"
  <2>1. r = w
    BY <1>2 DEF Thumbs!UpdateColumns
  <2> QED BY <2>1, <1>2
<1> QED BY <1>1, <1>2

\* A view in which rows came or went
Anew(w, rows, selected, n) ==
  [w EXCEPT !.rows = rows, !.selected = selected, !.nImages = n, !.tour = <<>>]

LEMMA RowsAnew ==
  ASSUME NEW w \in Views, NEW rows \in SUBSET Gallery, NEW selected \in SUBSET Gallery,
         NEW n \in Int
  PROVE  /\ Anew(w, rows, selected, n) \in Views /\ Anew(w, rows, selected, n).rows = rows
         /\ Anew(w, rows, selected, n).selected = selected
         /\ Anew(w, rows, selected, n).nImages = n /\ Anew(w, rows, selected, n).tour = <<>>
<1>1. PICK none \in Seq(Gallery) : none = <<>>
  <2>1. <<>> \in Seq(Gallery)
    OBVIOUS
  <2> QED BY <2>1, Zenon
<1>2. Anew(w, rows, selected, n)
        = [w EXCEPT !.rows = rows, !.selected = selected, !.nImages = n, !.tour = none]
  BY <1>1 DEF Anew
<1>3. ASSUME NEW t,
             t = [w EXCEPT !.rows = rows, !.selected = selected, !.nImages = n, !.tour = none]
      PROVE  /\ t \in Views /\ t.rows = rows /\ t.selected = selected /\ t.nImages = n
             /\ t.tour = none
  <2> HIDE <1>1
  <2> QED BY <1>3 DEF Views
<1> HIDE DEF Anew
<1> QED BY <1>1, <1>2, <1>3

LEMMA ViewIs ==
  ASSUME NEW w, ViewInv(w)
  PROVE  /\ w \in Views /\ w.rows \in SUBSET Gallery /\ w.selected \in SUBSET w.rows
         /\ w.nImages = Cardinality(w.rows) /\ <<>> \in Seq(Gallery)
BY DEF ViewInv, Views

LEMMA RowInsertedKeeps ==
  ASSUME ThumbsAssumption, NEW w, ViewInv(w), NEW i \in Gallery \ w.rows
  PROVE  ViewInv(Thumbs!RowInserted(w, i)) /\ TourInv(Thumbs!RowInserted(w, i))
<1> DEFINE t == [w EXCEPT !.rows = @ \cup {i}, !.nImages = @ + 1, !.tour = <<>>]
<1>0. /\ w \in Views /\ w.rows \in SUBSET Gallery /\ w.selected \in SUBSET w.rows
      /\ w.nImages = Cardinality(w.rows) /\ <<>> \in Seq(Gallery)
  BY ViewIs
<1>1. /\ IsFiniteSet(w.rows)
      /\ Cardinality(w.rows) \in Nat /\ Cardinality(w.rows \cup {i}) = Cardinality(w.rows) + 1
  BY RowsAreFinite, OneMore DEF ViewInv, Views
<1>2. /\ t \in Views /\ t.selected \subseteq t.rows /\ t.tour = <<>>
      /\ t.nImages = Cardinality(t.rows)
  <2>1. t = Anew(w, w.rows \cup {i}, w.selected, w.nImages + 1)
    BY <1>0 DEF Anew, Views
  <2>2. w.rows \cup {i} \in SUBSET Gallery /\ w.nImages + 1 \in Int
    BY <1>0, <1>1
  <2> HIDE DEF t
  <2> QED BY <1>1, <2>1, <2>2, <1>0, RowsAnew
<1>3. Thumbs!RowInserted(w, i) = Thumbs!UpdateColumns(t)
  BY DEF Thumbs!RowInserted
<1> HIDE DEF t
<1> QED BY <1>2, <1>3, UpdateColumnsKeeps, NoTour DEF ViewInv

LEMMA RowDeletedKeeps ==
  ASSUME ThumbsAssumption, NEW w, ViewInv(w), NEW i \in w.rows
  PROVE  /\ ViewInv(Thumbs!RowDeleted(w, i)) /\ TourInv(Thumbs!RowDeleted(w, i))
         /\ Thumbs!RowDeleted(w, i).rows = w.rows \ {i}
<1> DEFINE t == [w EXCEPT !.rows = @ \ {i}, !.selected = @ \ {i}, !.nImages = @ - 1,
                          !.tour = <<>>]
<1>0. /\ w \in Views /\ w.rows \in SUBSET Gallery /\ w.selected \in SUBSET w.rows
      /\ w.nImages = Cardinality(w.rows) /\ <<>> \in Seq(Gallery)
  BY ViewIs
<1>1. IsFiniteSet(w.rows) /\ Cardinality(w.rows) \in Nat
  BY RowsAreFinite DEF ViewInv, Views
<1>2. Cardinality(w.rows \ {i}) = Cardinality(w.rows) - 1
  BY <1>1, FS_RemoveElement
<1>3. /\ t \in Views /\ t.selected \subseteq t.rows /\ t.tour = <<>>
      /\ t.nImages = Cardinality(t.rows) /\ t.rows = w.rows \ {i}
  <2>1. t = Anew(w, w.rows \ {i}, w.selected \ {i}, w.nImages - 1)
    BY DEF Anew
  <2>2. w.rows \ {i} \in SUBSET Gallery /\ w.nImages - 1 \in Int
    BY <1>0, <1>1
  <2>3. w.selected \ {i} \in SUBSET (w.rows \ {i}) /\ w.selected \ {i} \in SUBSET Gallery
    BY <1>0
  <2> HIDE DEF t
  <2> QED BY <1>1, <1>2, <2>1, <2>2, <2>3, <1>0, RowsAnew
<1>4. Thumbs!RowDeleted(w, i) = Thumbs!UpdateColumns(t)
  BY DEF Thumbs!RowDeleted
<1> HIDE DEF t
<1> QED BY <1>3, <1>4, UpdateColumnsKeeps, NoTour DEF ViewInv

LEMMA SetModeKeeps ==
  ASSUME ThumbsAssumption, NEW w, ViewInv(w), TourInv(w), NEW mode \in Thumbs!Modes
  PROVE  ViewInv(Thumbs!SetMode(w, mode)) /\ TourInv(Thumbs!SetMode(w, mode))
<1> DEFINE t == [w EXCEPT !.mode = mode]
<1>1. /\ t \in Views /\ t.selected = w.selected /\ t.tour = w.tour /\ t.rows = w.rows
      /\ t.nImages = w.nImages
  BY DEF ViewInv, Views
<1>2. Thumbs!SetMode(w, mode) = Thumbs!UpdateColumns(t)
  BY DEF Thumbs!SetMode
<1> HIDE DEF t
<1>3. /\ ViewInv(Thumbs!UpdateColumns(t)) /\ Thumbs!UpdateColumns(t).rows = w.rows
      /\ Thumbs!UpdateColumns(t).selected = w.selected /\ Thumbs!UpdateColumns(t).tour = w.tour
  BY <1>1, UpdateColumnsKeeps DEF ViewInv
<1> QED BY <1>2, <1>3 DEF TourInv

LEMMA SetModelKeeps ==
  ASSUME ThumbsAssumption, NEW w, ViewInv(w), NEW rows \in SUBSET Gallery, NEW initial
  PROVE  ViewInv(Thumbs!SetModel(w, rows, initial)) /\ TourInv(Thumbs!SetModel(w, rows, initial))
<1> DEFINE none == [w EXCEPT !.rows = rows, !.nImages = Thumbs!Cardinality(rows), !.tour = <<>>]
           r == Thumbs!UpdateColumns(none)
           t == [r EXCEPT !.selected = {initial} \cap rows]
<1>0. /\ w \in Views /\ w.rows \in SUBSET Gallery /\ w.selected \in SUBSET w.rows
      /\ w.nImages = Cardinality(w.rows) /\ <<>> \in Seq(Gallery)
  BY ViewIs
<1>1. Cardinality(rows) \in Nat /\ Thumbs!Cardinality(rows) = Cardinality(rows)
  BY RowsAreFinite, CountIs
<1>2. /\ none \in Views /\ none.nImages = Cardinality(none.rows) /\ none.rows = rows
      /\ none.tour = <<>>
  <2>1. none = Anew(w, rows, w.selected, Cardinality(rows))
    BY <1>0, <1>1 DEF Anew, Views
  <2>2. w.selected \in SUBSET Gallery
    BY <1>0
  <2> HIDE DEF none
  <2> QED BY <1>1, <2>1, <2>2, <1>0, RowsAnew
<1>3. /\ r \in Views /\ r.rows = rows /\ r.tour = <<>> /\ r.nImages = Cardinality(r.rows)
      /\ r.mode = "ONE_ROW" => r.columns = Cardinality(r.rows)
  <2> HIDE DEF none
  <2> QED BY <1>2, UpdateColumnsKeeps
<1>4. Thumbs!SetModel(w, rows, initial) = t
  BY DEF Thumbs!SetModel
<1>5. /\ ViewInv(t) /\ t \in Views /\ t.tour = <<>>
  <2> HIDE DEF r
  <2> QED BY <1>3 DEF ViewInv, Views
<1> HIDE DEF t
<1> QED BY <1>4, <1>5, NoTour

-----------------------------------------------------------------------------
(* The selection and the trash: steps through the images *)

LEMMA AtIs ==
  ASSUME ThumbsAssumption, NEW w, ViewInv(w), NEW at \in 1 .. Cardinality(w.rows)
  PROVE  Thumbs!At(w, at) \in w.rows /\ Thumbs!Rank(w.rows, Thumbs!At(w, at)) = at
<1>1. w.rows \in SUBSET Nat /\ IsFiniteSet(w.rows)
  BY ViewIs, RowsAreFinite
<1> QED BY <1>1, SortedIs DEF Thumbs!At

LEMMA HeadOfReversed ==
  ASSUME NEW S, NEW s \in Seq(S), Len(s) > 0
  PROVE  /\ Thumbs!Reverse(s) \in Seq(S) /\ Len(Thumbs!Reverse(s)) = Len(s)
         /\ Head(Thumbs!Reverse(s)) = s[Len(s)]
         /\ Thumbs!Reverse(Thumbs!Reverse(s)) = s
<1> DEFINE r == [i \in 1 .. Len(s) |-> s[(Len(s) - i) + 1]]
<1>1. Len(s) \in Nat /\ s \in [1 .. Len(s) -> S]
  OBVIOUS
<1>2. \A i \in 1 .. Len(s) : (Len(s) - i) + 1 \in 1 .. Len(s)
  BY <1>1
<1>3. r \in [1 .. Len(s) -> S] /\ \A i \in 1 .. Len(s) : r[i] = s[(Len(s) - i) + 1]
  BY <1>1, <1>2
<1>4. Thumbs!Reverse(s) = r
  BY DEF Thumbs!Reverse
<1> HIDE DEF r
<1>5. r \in Seq(S) /\ Len(r) = Len(s)
  BY <1>1, <1>3, LenProperties, IsASeq
<1>6. Head(r) = s[Len(s)]
  BY <1>1, <1>3, <1>5
<1>7. Thumbs!Reverse(r) = s
  <2>1. Thumbs!Reverse(r) = [i \in 1 .. Len(s) |-> r[(Len(s) - i) + 1]]
    BY <1>5 DEF Thumbs!Reverse
  <2>2. \A i \in 1 .. Len(s) : r[(Len(s) - i) + 1] = s[i]
    BY <1>1, <1>2, <1>3
  <2> QED BY <1>1, <2>1, <2>2
<1> QED BY <1>4, <1>5, <1>6, <1>7

\* The images to remove are in the order of their rows; the last one is the first selected item.
LEMMA SelectedIs ==
  ASSUME ThumbsAssumption, ViewInv(thumbs), thumbs.selected # {}
  PROVE  /\ Head(Thumbs!SelectedItems) \in thumbs.selected
         /\ Thumbs!ToRemove = Thumbs!Sorted(thumbs.selected)
<1>1. thumbs.selected \in SUBSET Nat /\ IsFiniteSet(thumbs.selected)
  BY ViewIs, RowsAreFinite
<1> DEFINE s == Thumbs!Sorted(thumbs.selected)
<1>2. s \in Seq(thumbs.selected) /\ Len(s) > 0
  BY <1>1, SortedIs
<1> HIDE DEF s
<1>3. s[Len(s)] \in thumbs.selected
  BY <1>2
<1>4. Thumbs!SelectedItems = Thumbs!Reverse(s)
  BY DEF Thumbs!SelectedItems, s
<1>5. Thumbs!ToRemove = Thumbs!Reverse(Thumbs!Reverse(s))
  BY <1>4 DEF Thumbs!ToRemove
<1> QED BY <1>2, <1>3, <1>4, <1>5, HeadOfReversed DEF s

\* One after the other to the right, in a collection of n images whose ranks are r
Successive(s, r, n) ==
  \A j, k \in 1 .. Len(s) : j < k => r[s[k]] - r[s[j]] \in {k - j, k - j - n}

LEMMA SuccessiveTail ==
  ASSUME NEW S, NEW s \in Seq(S), s # <<>>, NEW r, NEW n, Successive(s, r, n)
  PROVE  Successive(Tail(s), r, n)
<1>1. Len(s) \in Nat \ {0} /\ Len(Tail(s)) = Len(s) - 1
      /\ \A j \in 1 .. Len(s) - 1 : Tail(s)[j] = s[j + 1]
  OBVIOUS
<1> SUFFICES ASSUME NEW j \in 1 .. Len(s) - 1, NEW k \in 1 .. Len(s) - 1, j < k
             PROVE  r[Tail(s)[k]] - r[Tail(s)[j]] \in {k - j, k - j - n}
  BY <1>1 DEF Successive
<1>2. r[s[k + 1]] - r[s[j + 1]] \in {(k + 1) - (j + 1), (k + 1) - (j + 1) - n}
  BY <1>1 DEF Successive
<1>3. (k + 1) - (j + 1) = k - j
  BY <1>1
<1> QED BY <1>1, <1>2, <1>3

LEMMA SuccessiveAppend ==
  ASSUME NEW S, NEW s \in Seq(S), NEW i \in S, NEW n \in Nat, NEW r \in [S -> 1 .. n],
         Successive(s, r, n), Len(s) < n,
         s # <<>> => r[i] = IF r[s[Len(s)]] = n THEN 1 ELSE r[s[Len(s)]] + 1
  PROVE  Successive(Append(s, i), r, n)
<1> DEFINE L == Len(s)
<1>1. /\ L \in Nat /\ Len(Append(s, i)) = L + 1 /\ Append(s, i)[L + 1] = i
      /\ \A j \in 1 .. L : s[j] \in S /\ Append(s, i)[j] = s[j]
  OBVIOUS
<1>2. ASSUME NEW j \in 1 .. L PROVE r[i] - r[s[j]] \in {L + 1 - j, L + 1 - j - n}
  <2>1. s # <<>> /\ L \in 1 .. L /\ s[L] \in S /\ s[j] \in S
    BY <1>1
  <2>2. PICK p \in 1 .. n, q \in 1 .. n, m \in 1 .. n : p = r[s[L]] /\ q = r[s[j]] /\ m = r[i]
    BY <2>1
  <2>3. m = IF p = n THEN 1 ELSE p + 1
    BY <2>1, <2>2
  <2>4. j = L => p = q
    BY <2>2
  <2>5. j < L => p - q \in {L - j, L - j - n}
    BY <2>1, <2>2 DEF Successive
  <2> HIDE DEF L
  <2>6. m - q \in {L + 1 - j, L + 1 - j - n}
    <3>1. L < n
      BY DEF L
    <3> QED BY <1>1, <2>3, <2>4, <2>5, <3>1
  <2> QED BY <2>2, <2>6
<1> SUFFICES ASSUME NEW j \in 1 .. L + 1, NEW k \in 1 .. L + 1, j < k
             PROVE  r[Append(s, i)[k]] - r[Append(s, i)[j]] \in {k - j, k - j - n}
  BY <1>1 DEF Successive
<1>3. j \in 1 .. L
  BY <1>1
<1>4. CASE k = L + 1
  <2>1. Append(s, i)[k] = i /\ Append(s, i)[j] = s[j]
    BY <1>1, <1>3, <1>4
  <2> QED BY <1>2, <1>3, <1>4, <2>1
<1>5. CASE k # L + 1
  <2>1. k \in 1 .. L
    BY <1>1, <1>5
  <2> QED BY <1>1, <1>3, <2>1 DEF Successive
<1> QED BY <1>4, <1>5

LEMMA TourMeaning ==
  ASSUME ThumbsAssumption, NEW w, ViewInv(w), NEW r,
         r = [x \in w.rows |-> Thumbs!Rank(w.rows, x)]
  PROVE  /\ Cardinality(w.rows) \in Nat /\ r \in [w.rows -> 1 .. Cardinality(w.rows)]
         /\ TourInv(w) <=> /\ w.tour \in Seq(w.rows) /\ Len(w.tour) <= Cardinality(w.rows)
                           /\ w.tour # <<>> => w.selected = {w.tour[Len(w.tour)]}
                           /\ Successive(w.tour, r, Cardinality(w.rows))
<1>1. w.rows \in SUBSET Nat /\ IsFiniteSet(w.rows) /\ Cardinality(w.rows) \in Nat
  BY ViewIs, RowsAreFinite
<1>2. \A x \in w.rows : Thumbs!Rank(w.rows, x) \in 1 .. Cardinality(w.rows)
  BY <1>1, RankIs
<1>3. ASSUME w.tour \in Seq(w.rows)
      PROVE  Successive(w.tour, r, Cardinality(w.rows))
               <=> \A j, k \in 1 .. Len(w.tour) :
                     j < k => Thumbs!Rank(w.rows, w.tour[k]) - Thumbs!Rank(w.rows, w.tour[j])
                                \in {k - j, k - j - Cardinality(w.rows)}
  <2>1. \A j \in 1 .. Len(w.tour) : r[w.tour[j]] = Thumbs!Rank(w.rows, w.tour[j])
    BY <1>3
  <2> QED BY <2>1 DEF Successive
<1> QED BY <1>1, <1>2, <1>3 DEF TourInv

\* A tour as long as there are images came to each of them.
LEMMA TourCompletes ==
  ASSUME ThumbsAssumption, ViewInv(thumbs), TourInv(thumbs)
  PROVE  Thumbs!TourIsComplete
<1> DEFINE rows == thumbs.rows
           n == Cardinality(rows)
           r == [x \in rows |-> Thumbs!Rank(rows, x)]
           tour == thumbs.tour
<1>1. /\ n \in Nat /\ r \in [rows -> 1 .. n] /\ tour \in Seq(rows)
      /\ IsFiniteSet(rows) /\ Successive(tour, r, n)
  BY TourMeaning, ViewIs, RowsAreFinite
<1> SUFFICES ASSUME Len(tour) = n PROVE Thumbs!ToSet(tour) = rows
  BY CountIs DEF Thumbs!TourIsComplete, Thumbs!Length
<1>2. tour \in [1 .. n -> rows]
  BY <1>1
<1>3. \A j, k \in 1 .. n : j # k => tour[j] # tour[k]
  <2> SUFFICES ASSUME NEW j \in 1 .. n, NEW k \in 1 .. n, j < k PROVE tour[j] # tour[k]
    BY <1>1
  <2>1. r[tour[k]] - r[tour[j]] \in {k - j, k - j - n}
    BY <1>1 DEF Successive
  <2>2. r[tour[k]] \in 1 .. n /\ r[tour[j]] \in 1 .. n
    BY <1>1, <1>2
  <2>3. k - j # 0 /\ k - j - n # 0
    BY <1>1
  <2>4. r[tour[k]] # r[tour[j]]
    <3> HIDE DEF r, tour, n
    <3> QED BY <1>1, <2>1, <2>2, <2>3
  <2> QED BY <2>4
<1>4. ASSUME NEW x \in rows, x \notin Thumbs!ToSet(tour) PROVE FALSE
  <2>1. tour \in [1 .. n -> rows \ {x}]
    <3>1. \A j \in 1 .. n : tour[j] # x
      BY <1>1, <1>2, <1>4 DEF Thumbs!ToSet
    <3> QED BY <1>2, <3>1
  <2>2. IsFiniteSet(1 .. n) /\ Cardinality(1 .. n) = n
    BY <1>1, FS_Interval
  <2>3. IsFiniteSet(rows \ {x}) /\ Cardinality(rows \ {x}) = n - 1
    BY <1>1, <1>4, FS_RemoveElement
  <2> HIDE DEF n, tour, rows
  <2>4. n - 1 < n
    BY <1>1
  <2>5. \E j, k \in 1 .. n : j # k /\ tour[j] = tour[k]
    BY <2>1, <2>2, <2>3, <2>4, FS_PigeonHole
  <2> QED BY <1>3, <2>5
<1>5. Thumbs!ToSet(tour) \subseteq rows
  BY <1>1, <1>2 DEF Thumbs!ToSet
<1> QED BY <1>4, <1>5

LEMMA LengthIs == \A w : Thumbs!Length(w) = Cardinality(w.rows)
BY CountIs DEF Thumbs!Length

LEMMA StepLeads ==
  ASSUME NEW n \in Nat, n = Thumbs!Length(thumbs), NEW p \in 1 .. n, NEW direction \in Thumbs!Directions
  PROVE  /\ Thumbs!FromImage(direction, p) \subseteq 1 .. n
         /\ Thumbs!FromNowhere(direction) \subseteq 1 .. n
         /\ direction = "RIGHT" => Thumbs!FromImage(direction, p) = {IF p = n THEN 1 ELSE p + 1}
<1>1. Thumbs!FromNowhere(direction) \subseteq 1 .. n
  BY DEF Thumbs!FromNowhere, Thumbs!Directions
<1>2. direction = "LEFT" => Thumbs!FromImage(direction, p) = {IF p = 1 THEN n ELSE p - 1}
  BY DEF Thumbs!FromImage
<1>3. direction = "RIGHT" => Thumbs!FromImage(direction, p) = {IF p = n THEN 1 ELSE p + 1}
  BY DEF Thumbs!FromImage
<1>4. direction \in {"FIRST", "LAST", "RANDOM"}
        => Thumbs!FromImage(direction, p) = Thumbs!FromNowhere(direction)
  BY DEF Thumbs!FromImage
<1>5. direction = "CURRENT" => Thumbs!FromImage(direction, p) = {p}
  BY DEF Thumbs!FromImage
<1> QED BY <1>1, <1>2, <1>3, <1>4, <1>5 DEF Thumbs!Directions

\* A view in which the images are the same and one of them is selected
Chosen(w, selected, tour) == [w EXCEPT !.selected = selected, !.tour = tour]

LEMMA SelectedAnew ==
  ASSUME NEW w, ViewInv(w), NEW selected \in SUBSET w.rows, NEW tour \in Seq(w.rows)
  PROVE  /\ ViewInv(Chosen(w, selected, tour)) /\ Chosen(w, selected, tour).rows = w.rows
         /\ Chosen(w, selected, tour).selected = selected /\ Chosen(w, selected, tour).tour = tour
<1>1. w \in Views /\ w.rows \in SUBSET Gallery
  BY ViewIs
<1>2. selected \in SUBSET Gallery /\ tour \in Seq(Gallery)
  BY <1>1
<1> DEFINE v == Chosen(w, selected, tour)
<1>3. /\ v \in Views /\ v.rows = w.rows /\ v.selected = selected /\ v.tour = tour
      /\ v.nImages = w.nImages /\ v.mode = w.mode /\ v.columns = w.columns
  BY <1>1, <1>2 DEF Views, Chosen
<1> HIDE DEF v
<1>4. ViewInv(v)
  BY <1>3 DEF ViewInv
<1> QED BY <1>3, <1>4 DEF v

LEMMA OneStep ==
  ASSUME NEW S, NEW i \in S, NEW r, NEW n
  PROVE  <<i>> \in Seq(S) /\ Len(<<i>>) = 1 /\ <<i>>[1] = i /\ Successive(<<i>>, r, n)
<1>1. <<i>> \in Seq(S) /\ Len(<<i>>) = 1 /\ <<i>>[1] = i
  OBVIOUS
<1> QED BY <1>1 DEF Successive

LEMMA LastOfTail ==
  ASSUME NEW S, NEW s \in Seq(S), s # <<>>
  PROVE  /\ Len(Tail(s)) = Len(s) - 1 /\ Len(s) \in Nat /\ Tail(s) \in Seq(S)
         /\ Tail(s) # <<>> => Tail(s)[Len(s) - 1] = s[Len(s)]
<1>1. Len(s) \in Nat \ {0} /\ Tail(s) \in Seq(S) /\ Len(Tail(s)) = Len(s) - 1
      /\ \A j \in 1 .. Len(s) - 1 : Tail(s)[j] = s[j + 1]
  OBVIOUS
<1>2. Tail(s) # <<>> => Len(s) - 1 \in 1 .. Len(s) - 1
  <2>1. Tail(s) # <<>> => Len(Tail(s)) > 0
    BY <1>1
  <2> QED BY <1>1, <2>1
<1> QED BY <1>1, <1>2

LEMMA LastOfAppend ==
  ASSUME NEW S, NEW s \in Seq(S), NEW i \in S
  PROVE  /\ Append(s, i) \in Seq(S) /\ Len(Append(s, i)) = Len(s) + 1 /\ Len(s) \in Nat
         /\ Append(s, i)[Len(s) + 1] = i
OBVIOUS

LEMMA SelectSingleKeeps ==
  ASSUME ThumbsAssumption, ViewInv(thumbs), TourInv(thumbs),
         NEW direction \in Thumbs!Directions, Thumbs!SelectSingle(direction)
  PROVE  ViewInv(thumbs') /\ TourInv(thumbs')
<1> DEFINE rows == thumbs.rows
           n == Cardinality(rows)
           r == [x \in rows |-> Thumbs!Rank(rows, x)]
           tour == thumbs.tour
           start == Thumbs!PositionOf(thumbs, Head(Thumbs!SelectedItems))
           kept == IF Len(tour) = n THEN Tail(tour) ELSE tour
<1>1. PICK at \in IF thumbs.selected = {} THEN Thumbs!FromNowhere(direction)
                   ELSE Thumbs!FromImage(direction, start) :
        thumbs' = [thumbs EXCEPT !.selected = {Thumbs!At(thumbs, at)},
                                 !.tour = Thumbs!Toured(direction, Thumbs!At(thumbs, at))]
  BY DEF Thumbs!SelectSingle, Thumbs!Shows
<1>2. /\ n \in Nat /\ r \in [rows -> 1 .. n] /\ tour \in Seq(rows) /\ Len(tour) <= n
      /\ IsFiniteSet(rows) /\ Successive(tour, r, n)
      /\ tour # <<>> => thumbs.selected = {tour[Len(tour)]}
  BY TourMeaning, ViewIs, RowsAreFinite
<1>3. n > 0 /\ n = Thumbs!Length(thumbs)
  <2>1. rows # {}
    BY DEF Thumbs!SelectSingle
  <2> QED BY <1>2, <2>1, FS_EmptySet, LengthIs
<1>4. thumbs.selected # {} =>
        /\ Head(Thumbs!SelectedItems) \in thumbs.selected
        /\ start \in 1 .. n /\ start = r[Head(Thumbs!SelectedItems)]
  <2> SUFFICES ASSUME thumbs.selected # {}
               PROVE  /\ Head(Thumbs!SelectedItems) \in thumbs.selected
                      /\ start \in 1 .. n /\ start = r[Head(Thumbs!SelectedItems)]
    OBVIOUS
  <2>1. Head(Thumbs!SelectedItems) \in thumbs.selected /\ Head(Thumbs!SelectedItems) \in rows
    BY SelectedIs, ViewIs
  <2>2. start = Thumbs!Rank(rows, Head(Thumbs!SelectedItems))
    BY <2>1 DEF Thumbs!PositionOf
  <2> QED BY <1>2, <2>1, <2>2
<1>5. at \in 1 .. n
  <2>1. CASE thumbs.selected = {}
    <3>1. 1 \in 1 .. n
      BY <1>2, <1>3
    <3> QED BY <1>1, <1>2, <1>3, <2>1, <3>1, StepLeads
  <2>2. CASE thumbs.selected # {}
    BY <1>1, <1>2, <1>3, <1>4, <2>2, StepLeads
  <2> QED BY <2>1, <2>2
<1>6. PICK i \in rows : i = Thumbs!At(thumbs, at) /\ r[i] = at
  <2>1. Thumbs!At(thumbs, at) \in rows /\ Thumbs!Rank(rows, Thumbs!At(thumbs, at)) = at
    BY <1>5, AtIs
  <2> QED BY <2>1
<1>7. PICK next \in Seq(rows) :
        /\ next = Thumbs!Toured(direction, i) /\ Len(next) \in 1 .. n /\ next[Len(next)] = i
        /\ Successive(next, r, n)
  <2>1. CASE direction # "RIGHT"
    <3> HIDE DEF rows, r, n
    <3>1. <<i>> \in Seq(rows) /\ Len(<<i>>) = 1 /\ <<i>>[1] = i /\ Successive(<<i>>, r, n)
      BY OneStep
    <3>2. Thumbs!Toured(direction, i) = <<i>>
      BY <2>1 DEF Thumbs!Toured
    <3>3. PICK next : next = <<i>>
      OBVIOUS
    <3>4. /\ next \in Seq(rows) /\ next = Thumbs!Toured(direction, i) /\ Len(next) \in 1 .. n
          /\ next[Len(next)] = i /\ Successive(next, r, n)
      <4>1. 1 \in 1 .. n
        BY <1>2, <1>3
      <4> QED BY <3>1, <3>2, <3>3, <4>1, Zenon
    <3> QED BY <3>4
  <2>2. CASE direction = "RIGHT"
    <3>1. Thumbs!Toured(direction, i) = Append(kept, i)
      BY <1>3, <2>2 DEF Thumbs!Toured
    <3>2. /\ kept \in Seq(rows) /\ Len(kept) < n /\ Successive(kept, r, n)
          /\ kept # <<>> => tour # <<>> /\ kept[Len(kept)] = tour[Len(tour)]
      <4>1. CASE Len(tour) = n
        <5>1. kept = Tail(tour) /\ tour # <<>>
          BY <1>2, <1>3, <4>1
        <5>2. /\ Len(Tail(tour)) = Len(tour) - 1 /\ Len(tour) \in Nat /\ Tail(tour) \in Seq(rows)
              /\ Tail(tour) # <<>> => Tail(tour)[Len(tour) - 1] = tour[Len(tour)]
          <6> HIDE DEF tour, rows
          <6> QED BY <1>2, <5>1, LastOfTail
        <5>3. Successive(Tail(tour), r, n)
          BY <1>2, <5>1, SuccessiveTail
        <5> QED BY <1>2, <4>1, <5>1, <5>2, <5>3
      <4>2. CASE Len(tour) # n
        BY <1>2, <4>2
      <4> QED BY <4>1, <4>2
    <3>3. kept # <<>> => r[i] = IF r[kept[Len(kept)]] = n THEN 1 ELSE r[kept[Len(kept)]] + 1
      <4> SUFFICES ASSUME kept # <<>>
                   PROVE  r[i] = IF r[tour[Len(tour)]] = n THEN 1 ELSE r[tour[Len(tour)]] + 1
        BY <3>2
      <4>1. thumbs.selected = {tour[Len(tour)]}
        BY <1>2, <3>2
      <4>2. start = r[tour[Len(tour)]] /\ start \in 1 .. n
        BY <1>4, <4>1
      <4>3. at = IF start = n THEN 1 ELSE start + 1
        <5>1. Thumbs!FromImage(direction, start) = {IF start = n THEN 1 ELSE start + 1}
          <6> HIDE DEF start, n
          <6> QED BY <1>2, <1>3, <2>2, <4>2, StepLeads
        <5> QED BY <1>1, <4>1, <5>1
      <4> QED BY <1>6, <4>2, <4>3
    <3> HIDE DEF kept, r, n
    <3>4. /\ Append(kept, i) \in Seq(rows) /\ Len(Append(kept, i)) = Len(kept) + 1
          /\ Append(kept, i)[Len(kept) + 1] = i /\ Len(kept) \in Nat
      <4> HIDE DEF rows
      <4> QED BY <3>2, LastOfAppend
    <3>5. Successive(Append(kept, i), r, n)
      <4> HIDE DEF rows
      <4> QED BY <1>2, <3>2, <3>3, SuccessiveAppend
    <3>6. PICK next : next = Append(kept, i)
      OBVIOUS
    <3>7. Len(kept) + 1 \in 1 .. n
      BY <1>2, <3>2, <3>4
    <3>8. /\ next \in Seq(rows) /\ next = Thumbs!Toured(direction, i) /\ Len(next) \in 1 .. n
          /\ next[Len(next)] = i /\ Successive(next, r, n)
      BY <3>1, <3>4, <3>5, <3>6, <3>7, Zenon
    <3> QED BY <3>8
  <2> QED BY <2>1, <2>2
<1>8. /\ ViewInv(thumbs') /\ thumbs'.rows = rows /\ thumbs'.selected = {i} /\ thumbs'.tour = next
  <2>1. thumbs' = Chosen(thumbs, {i}, next) /\ {i} \in SUBSET thumbs.rows
    BY <1>1, <1>6, <1>7 DEF Chosen
  <2> QED BY <2>1, SelectedAnew
<1>9. TourInv(thumbs')
  <2> DEFINE s == [x \in thumbs'.rows |-> Thumbs!Rank(thumbs'.rows, x)]
  <2>1. s = r
    BY <1>8
  <2>2. /\ next \in Seq(rows) /\ Len(next) <= n /\ Successive(next, s, n)
        /\ next # <<>> => thumbs'.selected = {next[Len(next)]}
    <3> HIDE DEF s, r, n
    <3> QED BY <1>2, <1>7, <1>8, <2>1
  <2> QED BY <1>8, <2>2, TourMeaning
<1> QED BY <1>8, <1>9

-----------------------------------------------------------------------------
(* The selection and the trash: what becomes of the selected images *)

Trashes == [stage : {"none", "asked", "removing", "failed"}, images : Seq(Gallery), pos : Nat,
            dontAsk : BOOLEAN, permanent : BOOLEAN, first : Gallery \cup {0},
            next : Gallery \cup {0}, changed : BOOLEAN, silent : BOOLEAN]

Before(rows, i) == {k \in rows : k < i}

\* The images come in the order of the rows, so that the position of the first stays where the
\* rest is taken away, unless rows came or went under a dialog; who was not told that they are
\* deleted for good has a trash for all of them.
TrashInv(t, rows) ==
  /\ t \in Trashes /\ ~t.silent
  /\ t.stage = "asked" =>
       /\ t.images # <<>>
       /\ ~t.changed => \A k \in 1 .. Len(t.images) : /\ t.images[k] \in rows
                                                      /\ t.images[1] <= t.images[k]
  /\ t.stage \in {"removing", "failed"} /\ ~t.changed =>
       /\ t.first \in Gallery /\ t.pos = Cardinality(Before(rows, t.first)) + 1
       /\ \A k \in 1 .. Len(t.images) : t.first <= t.images[k]
  /\ t.stage # "none" /\ ~t.permanent =>
       \A k \in 1 .. Len(t.images) : t.images[k] \in Trashable

\* Nothing that happened since the command has moved the selection.
FollowInv(t, w) ==
  t.stage \in {"none", "asked"} /\ t.next # 0 /\ w.rows # {} =>
    LET after == {i \in w.rows : i >= t.next}
    IN w.selected = IF after = {} THEN {Thumbs!Max(w.rows)} ELSE {Thumbs!Min(after)}

ThumbsInv ==
  /\ ViewInv(thumbs) /\ TourInv(thumbs) /\ TrashInv(trash, thumbs.rows)
  /\ FollowInv(trash, thumbs) /\ folder \in SUBSET Gallery /\ turnover \in 0 .. MaxTurnover

LEMMA TrashIs ==
  ASSUME NEW t, NEW rows, TrashInv(t, rows)
  PROVE  t \in Trashes
BY DEF TrashInv

LEMMA NotFollowing ==
  ASSUME NEW t, NEW w, t.next = 0 \/ t.stage \notin {"none", "asked"}
  PROVE  FollowInv(t, w)
BY DEF FollowInv

\* Whatever moves the selection or the rows while no command runs
LEMMA ShowsKeeps ==
  ASSUME ThumbsInv, NEW w, ViewInv(w), TourInv(w), Thumbs!Idle, thumbs' = w,
         trash' = [trash EXCEPT !.next = 0], folder' = folder, turnover' \in 0 .. MaxTurnover
  PROVE  ThumbsInv'
<1>1. /\ trash' \in Trashes /\ ~trash'.silent /\ trash'.stage = "none" /\ trash'.next = 0
  BY DEF ThumbsInv, TrashInv, Trashes, Thumbs!Idle
<1>2. TrashInv(trash', thumbs'.rows) /\ FollowInv(trash', thumbs')
  BY <1>1 DEF TrashInv, FollowInv
<1> QED BY <1>2 DEF ThumbsInv

LEMMA ShowsMeans ==
  ASSUME NEW w, Thumbs!Shows(w)
  PROVE  /\ Thumbs!Idle /\ thumbs' = w /\ trash' = [trash EXCEPT !.next = 0]
         /\ folder' = folder /\ turnover' = turnover
BY DEF Thumbs!Shows

LEMMA ClickKeeps ==
  ASSUME ThumbsAssumption, ThumbsInv, NEW i \in thumbs.rows,
         Thumbs!Click(i) \/ Thumbs!ControlClick(i) \/ Thumbs!RightClick(i)
  PROVE  ThumbsInv'
<1>1. /\ ViewInv(thumbs) /\ thumbs \in Views /\ thumbs.rows \in SUBSET Gallery
      /\ thumbs.selected \in SUBSET thumbs.rows /\ TourInv(thumbs) /\ <<>> \in Seq(thumbs.rows)
  <2>1. ViewInv(thumbs) /\ TourInv(thumbs)
    BY DEF ThumbsInv
  <2>2. <<>> \in Seq(thumbs.rows)
    OBVIOUS
  <2> QED BY <2>1, <2>2, ViewIs
<1>2. ASSUME NEW selected \in SUBSET thumbs.rows,
             Thumbs!Shows([thumbs EXCEPT !.selected = selected, !.tour = <<>>])
      PROVE  ThumbsInv'
  <2> DEFINE w == Chosen(thumbs, selected, <<>>)
  <2>1. Thumbs!Shows(w)
    BY <1>2 DEF Chosen
  <2> HIDE DEF w
  <2>2. ViewInv(w) /\ w.tour = <<>>
    BY <1>1, <1>2, SelectedAnew DEF w
  <2>3. w \in Views
    BY <2>2, ViewIs
  <2>4. TourInv(w)
    BY <2>2, <2>3, NoTour
  <2>5. turnover \in 0 .. MaxTurnover
    BY DEF ThumbsInv
  <2> QED BY <2>1, <2>2, <2>4, <2>5, ShowsMeans, ShowsKeeps
<1>3. CASE Thumbs!Click(i)
  BY <1>2, <1>3 DEF Thumbs!Click
<1>4. CASE Thumbs!ControlClick(i)
  <2>1. PICK selected \in SUBSET thumbs.rows :
          Thumbs!Shows([thumbs EXCEPT !.selected = selected, !.tour = <<>>])
    <3> DEFINE selected == IF i \in thumbs.selected THEN thumbs.selected \ {i}
                           ELSE thumbs.selected \cup {i}
    <3>1. selected \in SUBSET thumbs.rows
      BY <1>1
    <3>2. Thumbs!Shows([thumbs EXCEPT !.selected = selected, !.tour = <<>>])
      BY <1>1, <1>4 DEF Thumbs!ControlClick, Views
    <3> HIDE DEF selected
    <3> QED BY <3>1, <3>2
  <2> QED BY <1>2, <2>1
<1>5. CASE Thumbs!RightClick(i)
  <2>1. CASE thumbs.selected = {i}
    <3>1. Thumbs!Shows(thumbs) /\ turnover \in 0 .. MaxTurnover
      BY <1>5, <2>1 DEF Thumbs!RightClick, ThumbsInv
    <3> QED BY <1>1, <3>1, ShowsMeans, ShowsKeeps
  <2>2. CASE thumbs.selected # {i}
    BY <1>3, <1>5, <2>2 DEF Thumbs!RightClick
  <2> QED BY <2>1, <2>2
<1> QED BY <1>3, <1>4, <1>5

LEMMA ModeSetKeeps ==
  ASSUME ThumbsAssumption, ThumbsInv, NEW mode \in Thumbs!Modes,
         Thumbs!Shows(Thumbs!SetMode(thumbs, mode))
  PROVE  ThumbsInv'
<1>1. ViewInv(thumbs) /\ TourInv(thumbs) /\ turnover \in 0 .. MaxTurnover
  BY DEF ThumbsInv
<1>2. ViewInv(Thumbs!SetMode(thumbs, mode)) /\ TourInv(Thumbs!SetMode(thumbs, mode))
  BY <1>1, SetModeKeeps
<1> QED BY <1>1, <1>2, ShowsMeans, ShowsKeeps

LEMMA SingleSelectedKeeps ==
  ASSUME ThumbsAssumption, ThumbsInv, NEW direction \in Thumbs!Directions,
         Thumbs!SelectSingle(direction)
  PROVE  ThumbsInv'
<1>1. ViewInv(thumbs') /\ TourInv(thumbs') /\ turnover \in 0 .. MaxTurnover
  BY SelectSingleKeeps DEF ThumbsInv
<1>2. PICK w : Thumbs!Shows(w)
  BY DEF Thumbs!SelectSingle
<1> QED BY <1>1, <1>2, ShowsMeans, ShowsKeeps

LEMMA OpenKeeps ==
  ASSUME ThumbsAssumption, ThumbsInv, Thumbs!Open
  PROVE  ThumbsInv'
<1>1. PICK initial \in folder : thumbs' = Thumbs!SetModel(thumbs, folder, initial)
  BY DEF Thumbs!Open
<1>2. /\ ViewInv(thumbs) /\ folder \in SUBSET Gallery /\ turnover \in 0 .. MaxTurnover
      /\ MaxTurnover \in Nat
  BY DEF ThumbsInv, ThumbsAssumption
<1>3. ViewInv(thumbs') /\ TourInv(thumbs')
  BY <1>1, <1>2, SetModelKeeps
<1>4. /\ Thumbs!Idle /\ trash' = [trash EXCEPT !.next = 0] /\ folder' = folder
      /\ turnover < MaxTurnover /\ turnover' = turnover + 1
  BY DEF Thumbs!Open
<1>5. turnover' \in 0 .. MaxTurnover
  BY <1>2, <1>4
<1> QED BY <1>3, <1>4, <1>5, ShowsKeeps

LEMMA FileChangesKeeps ==
  ASSUME ThumbsAssumption, ThumbsInv, Thumbs!FileChanges
  PROVE  ThumbsInv'
<1>1. /\ thumbs' = thumbs /\ trash' = trash /\ turnover < MaxTurnover
      /\ turnover' = turnover + 1
  BY DEF Thumbs!FileChanges
<1>2. folder' \in SUBSET Gallery
  BY DEF Thumbs!FileChanges, ThumbsInv
<1>3. turnover' \in 0 .. MaxTurnover
  BY <1>1 DEF ThumbsInv, ThumbsAssumption
<1> QED BY <1>1, <1>2, <1>3 DEF ThumbsInv

LEMMA MonitorKeeps ==
  ASSUME ThumbsAssumption, ThumbsInv, Thumbs!Monitor
  PROVE  ThumbsInv'
<1>1. /\ ViewInv(thumbs) /\ TrashInv(trash, thumbs.rows) /\ thumbs.rows \in SUBSET Gallery
      /\ folder \in SUBSET Gallery
  BY ViewIs DEF ThumbsInv
<1>2. ViewInv(thumbs') /\ TourInv(thumbs')
  <2>1. PICK i \in Gallery : \/ i \in folder \ thumbs.rows /\ thumbs' = Thumbs!RowInserted(thumbs, i)
                             \/ i \in thumbs.rows \ folder /\ thumbs' = Thumbs!RowDeleted(thumbs, i)
    BY DEF Thumbs!Monitor
  <2> QED BY <1>1, <2>1, RowInsertedKeeps, RowDeletedKeeps
<1>3. trash' = [trash EXCEPT !.next = 0, !.changed = TRUE]
  BY DEF Thumbs!Monitor
<1>4. /\ trash' \in Trashes /\ trash'.stage = trash.stage /\ trash'.images = trash.images
      /\ trash'.permanent = trash.permanent /\ trash'.silent = trash.silent /\ trash'.next = 0
      /\ trash'.changed
  <2>1. trash \in Trashes
    BY <1>1, TrashIs
  <2>2. PICK yes \in BOOLEAN : yes = TRUE
    OBVIOUS
  <2>3. trash' = [trash EXCEPT !.next = 0, !.changed = yes]
    BY <1>3, <2>2
  <2>4. /\ trash' \in Trashes /\ trash'.stage = trash.stage /\ trash'.images = trash.images
        /\ trash'.permanent = trash.permanent /\ trash'.silent = trash.silent /\ trash'.next = 0
        /\ trash'.changed = yes
    <3> HIDE <2>2
    <3> QED BY <2>1, <2>3 DEF Trashes
  <2> QED BY <2>2, <2>4
<1>5. TrashInv(trash', thumbs'.rows)
  BY <1>1, <1>4 DEF TrashInv
<1>6. FollowInv(trash', thumbs')
  BY <1>4, NotFollowing
<1>7. folder' = folder /\ turnover' = turnover
  BY DEF Thumbs!Monitor
<1> QED BY <1>2, <1>5, <1>6, <1>7 DEF ThumbsInv

\* The images to remove are selected, and the first one comes first.
LEMMA ToRemoveIs ==
  ASSUME ThumbsAssumption, ViewInv(thumbs), thumbs.selected # {}, NEW s, s = Thumbs!ToRemove
  PROVE  /\ s \in Seq(thumbs.selected) /\ s \in Seq(Gallery) /\ s # <<>>
         /\ \A k \in 1 .. Len(s) : s[k] \in thumbs.selected /\ s[1] <= s[k]
<1> DEFINE S == thumbs.selected
<1>1. S \in SUBSET Nat /\ IsFiniteSet(S) /\ S \in SUBSET Gallery
  <2>1. S \in SUBSET Gallery
    BY ViewIs
  <2> QED BY <2>1, RowsAreFinite
<1>2. s = Thumbs!Sorted(S)
  BY SelectedIs
<1> HIDE DEF S
<1>3. /\ s \in Seq(S) /\ Len(s) = Cardinality(S) /\ Cardinality(S) \in Nat /\ Len(s) > 0
      /\ \A n \in 1 .. Cardinality(S) : s[n] \in S /\ Thumbs!Rank(S, s[n]) = n
  BY <1>1, <1>2, SortedIs DEF S
<1>4. ASSUME NEW k \in 1 .. Len(s) PROVE s[1] <= s[k]
  <2>0. 1 \in 1 .. Cardinality(S) /\ k \in 1 .. Cardinality(S) /\ ~(k < 1)
    BY <1>3
  <2>1. /\ s[1] \in S /\ s[k] \in S /\ Thumbs!Rank(S, s[1]) = 1 /\ Thumbs!Rank(S, s[k]) = k
        /\ s[1] \in Nat /\ s[k] \in Nat
    <3>1. s[1] \in S /\ s[k] \in S /\ Thumbs!Rank(S, s[1]) = 1 /\ Thumbs!Rank(S, s[k]) = k
      BY <1>3, <2>0, Zenon
    <3> QED BY <1>1, <3>1
  <2>2. s[k] < s[1] => Thumbs!Rank(S, s[k]) < Thumbs!Rank(S, s[1])
    BY <1>1, <2>1, RankIs
  <2> QED BY <2>0, <2>1, <2>2
<1>5. s \in Seq(Gallery)
  BY <1>1, <1>3
<1> QED BY <1>3, <1>4, <1>5 DEF S

LEMMA PositionIs ==
  ASSUME ThumbsAssumption, ViewInv(thumbs), NEW i
  PROVE  /\ Thumbs!PositionOf(thumbs, i) \in Nat
         /\ i \in thumbs.rows
              => Thumbs!PositionOf(thumbs, i) = Cardinality(Before(thumbs.rows, i)) + 1
<1>1. thumbs.rows \in SUBSET Nat /\ IsFiniteSet(thumbs.rows)
  BY ViewIs, RowsAreFinite
<1>2. CASE i \in thumbs.rows
  <2>1. Thumbs!PositionOf(thumbs, i) = Thumbs!Rank(thumbs.rows, i)
    BY <1>2 DEF Thumbs!PositionOf
  <2>2. /\ Thumbs!Rank(thumbs.rows, i) \in 1 .. Cardinality(thumbs.rows)
        /\ Cardinality(thumbs.rows) \in Nat
        /\ Thumbs!Rank(thumbs.rows, i) = Cardinality({k \in thumbs.rows : k < i}) + 1
    BY <1>1, <1>2, RankIs
  <2> QED BY <2>1, <2>2 DEF Before
<1>3. CASE i \notin thumbs.rows
  BY <1>3 DEF Thumbs!PositionOf
<1> QED BY <1>2, <1>3

\* The images of a command go, whether it was asked for them or not.
RemovedFrom(t, images, first, at, dontAsk, permanent, changed) ==
  [t EXCEPT !.stage = "removing", !.images = images, !.first = first, !.pos = at,
            !.dontAsk = dontAsk, !.permanent = permanent, !.changed = changed]

LEMMA RemovedFromIs ==
  ASSUME NEW t \in Trashes, NEW images \in Seq(Gallery), NEW first \in Gallery, NEW at \in Nat,
         NEW dontAsk \in BOOLEAN, NEW permanent \in BOOLEAN, NEW changed \in BOOLEAN,
         NEW u, u = RemovedFrom(t, images, first, at, dontAsk, permanent, changed)
  PROVE  /\ u \in Trashes /\ u.stage = "removing" /\ u.images = images /\ u.first = first
         /\ u.pos = at /\ u.permanent = permanent /\ u.changed = changed
         /\ u.silent = t.silent
<1>1. first \in Gallery \cup {0}
  OBVIOUS
<1> QED BY <1>1 DEF RemovedFrom, Trashes

LEMMA RemovingKeeps ==
  ASSUME ThumbsAssumption, ViewInv(thumbs), NEW t, t \in Trashes, ~t.silent,
         NEW images \in Seq(Gallery), images # <<>>,
         NEW dontAsk \in BOOLEAN, NEW permanent \in BOOLEAN, NEW changed \in BOOLEAN,
         ~changed => \A k \in 1 .. Len(images) : images[k] \in thumbs.rows /\ images[1] <= images[k],
         ~permanent => \A k \in 1 .. Len(images) : images[k] \in Trashable,
         NEW u, u = RemovedFrom(t, images, Head(images), Thumbs!PositionOf(thumbs, Head(images)),
                                dontAsk, permanent, changed)
  PROVE  TrashInv(u, thumbs.rows) /\ u.stage = "removing"
<1>1. Head(images) = images[1] /\ 1 \in 1 .. Len(images) /\ Head(images) \in Gallery
  BY DEF ThumbsAssumption
<1> DEFINE at == Thumbs!PositionOf(thumbs, Head(images))
           first == Head(images)
<1>2. /\ at \in Nat
      /\ images[1] \in thumbs.rows => at = Cardinality(Before(thumbs.rows, images[1])) + 1
  BY <1>1, PositionIs
<1>3. u = RemovedFrom(t, images, first, at, dontAsk, permanent, changed) /\ first \in Gallery
      /\ first = images[1]
  BY <1>1
<1> HIDE DEF at, first
<1>4. /\ u \in Trashes /\ u.stage = "removing" /\ u.images = images /\ u.first = first
      /\ u.pos = at /\ u.permanent = permanent /\ u.changed = changed /\ u.silent = t.silent
  BY <1>2, <1>3, RemovedFromIs, SMTT(30)
<1>5. ~changed => images[1] \in thumbs.rows
  BY <1>1
<1> QED BY <1>1, <1>2, <1>3, <1>4, <1>5 DEF TrashInv

LEMMA CommandKeeps ==
  ASSUME ThumbsAssumption, ThumbsInv, NEW name \in {"Delete", "MoveToTrash"},
         Thumbs!TrashCommand(name)
  PROVE  ThumbsInv'
<1> DEFINE canTrash == \A i \in thumbs.selected : Thumbs!CanTrash(i)
           asks == (name = "Delete" \/ ~canTrash) /\ ~Thumbs!NeedsNoAnswer(canTrash)
           images == Thumbs!ToRemove
<1>1. /\ ViewInv(thumbs) /\ trash \in Trashes /\ ~trash.silent /\ trash.stage = "none"
      /\ thumbs.selected # {} /\ thumbs.selected \in SUBSET thumbs.rows
      /\ FollowInv(trash, thumbs)
  BY ViewIs, TrashIs DEF ThumbsInv, TrashInv, Thumbs!TrashCommand, Thumbs!Idle
<1>2. /\ thumbs' = thumbs /\ folder' = folder /\ turnover' = turnover
      /\ trash' = IF asks THEN [trash EXCEPT !.stage = "asked", !.images = images,
                                             !.permanent = ~canTrash, !.changed = FALSE]
                  ELSE [Thumbs!Removing(images) EXCEPT !.permanent = FALSE, !.changed = FALSE]
  BY DEF Thumbs!TrashCommand
<1>3. /\ images \in Seq(Gallery) /\ images # <<>>
      /\ \A k \in 1 .. Len(images) : images[k] \in thumbs.rows /\ images[1] <= images[k]
      /\ canTrash => \A k \in 1 .. Len(images) : images[k] \in Trashable
  <2>1. /\ images \in Seq(Gallery) /\ images # <<>>
        /\ \A k \in 1 .. Len(images) : images[k] \in thumbs.selected /\ images[1] <= images[k]
    BY <1>1, ToRemoveIs
  <2>2. canTrash => thumbs.selected \subseteq Trashable
    BY DEF Thumbs!CanTrash
  <2> HIDE DEF images, canTrash
  <2> QED BY <1>1, <2>1, <2>2
<1>4. TrashInv(trash', thumbs.rows) /\ FollowInv(trash', thumbs)
  <2>1. CASE asks
    <3>1. PICK permanent \in BOOLEAN, changed \in BOOLEAN : permanent = ~canTrash /\ changed = FALSE
      OBVIOUS
    <3>2. trash' = [trash EXCEPT !.stage = "asked", !.images = images,
                                 !.permanent = permanent, !.changed = changed]
      BY <1>2, <2>1, <3>1
    <3>3. /\ trash' \in Trashes /\ trash'.stage = "asked" /\ trash'.images = images
          /\ trash'.permanent = permanent /\ trash'.changed = changed
          /\ trash'.silent = trash.silent /\ trash'.next = trash.next
      <4> HIDE <3>1
      <4> HIDE DEF images
      <4> QED BY <1>1, <1>3, <3>2 DEF Trashes
    <3>4. ~permanent => canTrash
      BY <3>1
    <3>5. TrashInv(trash', thumbs.rows)
      <4> HIDE DEF images, canTrash
      <4> QED BY <1>1, <1>3, <3>3, <3>4 DEF TrashInv
    <3>6. FollowInv(trash', thumbs)
      BY <1>1, <3>3 DEF FollowInv
    <3> QED BY <3>5, <3>6
  <2>2. CASE ~asks
    <3>1. canTrash
      BY <2>2 DEF Thumbs!NeedsNoAnswer
    <3>2. /\ trash.dontAsk \in BOOLEAN
          /\ trash' = RemovedFrom(trash, images, Head(images),
                                  Thumbs!PositionOf(thumbs, Head(images)), trash.dontAsk, FALSE, FALSE)
      <4>1. trash' = [Thumbs!Removing(images) EXCEPT !.permanent = FALSE, !.changed = FALSE]
        BY <1>2, <2>2
      <4>2. trash.dontAsk \in BOOLEAN
        BY <1>1 DEF Trashes
      <4> HIDE DEF images
      <4> QED BY <1>1, <4>1, <4>2 DEF Thumbs!Removing, RemovedFrom, Trashes
    <3>3. TrashInv(trash', thumbs.rows) /\ trash'.stage = "removing"
      <4> HIDE DEF images, canTrash
      <4> QED BY <1>1, <1>3, <3>1, <3>2, RemovingKeeps
    <3> QED BY <3>3, NotFollowing
  <2> QED BY <2>1, <2>2
<1> QED BY <1>2, <1>4 DEF ThumbsInv

LEMMA AnswerKeeps ==
  ASSUME ThumbsAssumption, ThumbsInv, Thumbs!Answer
  PROVE  ThumbsInv'
<1>1. /\ ViewInv(thumbs) /\ trash \in Trashes /\ ~trash.silent /\ trash.stage = "asked"
      /\ TrashInv(trash, thumbs.rows) /\ FollowInv(trash, thumbs)
  BY TrashIs DEF ThumbsInv, TrashInv, Thumbs!Answer
<1>2. thumbs' = thumbs /\ folder' = folder /\ turnover' = turnover
  BY DEF Thumbs!Answer
<1>3. /\ trash.images \in Seq(Gallery) /\ trash.images # <<>> /\ trash.dontAsk \in BOOLEAN
      /\ trash.permanent \in BOOLEAN /\ trash.changed \in BOOLEAN
      /\ ~trash.changed => \A k \in 1 .. Len(trash.images) :
                             trash.images[k] \in thumbs.rows /\ trash.images[1] <= trash.images[k]
      /\ ~trash.permanent => \A k \in 1 .. Len(trash.images) : trash.images[k] \in Trashable
  BY <1>1 DEF TrashInv, Trashes
<1>4. TrashInv(trash', thumbs.rows) /\ FollowInv(trash', thumbs)
  <2>1. CASE trash' = [trash EXCEPT !.stage = "none", !.images = <<>>]
    <3>1. /\ trash' \in Trashes /\ trash'.stage = "none" /\ trash'.silent = trash.silent
          /\ trash'.next = trash.next
      <4>1. <<>> \in Seq(Gallery)
        OBVIOUS
      <4>2. ASSUME NEW images \in Seq(Gallery), NEW u,
                   u = [trash EXCEPT !.stage = "none", !.images = images]
            PROVE  u \in Trashes /\ u.stage = "none" /\ u.silent = trash.silent /\ u.next = trash.next
        BY <1>1, <4>2 DEF Trashes
      <4> QED BY <2>1, <4>1, <4>2
    <3>2. TrashInv(trash', thumbs.rows)
      BY <1>1, <3>1 DEF TrashInv
    <3> QED BY <1>1, <3>1, <3>2 DEF FollowInv
  <2>2. ASSUME NEW check \in BOOLEAN,
               trash' = [Thumbs!Removing(trash.images) EXCEPT
                           !.dontAsk = IF trash.permanent THEN @ ELSE check]
        PROVE  TrashInv(trash', thumbs.rows) /\ FollowInv(trash', thumbs)
    <3>1. PICK dontAsk \in BOOLEAN :
            trash' = RemovedFrom(trash, trash.images, Head(trash.images),
                                 Thumbs!PositionOf(thumbs, Head(trash.images)),
                                 dontAsk, trash.permanent, trash.changed)
      <4>1. (IF trash.permanent THEN trash.dontAsk ELSE check) \in BOOLEAN
        BY <1>3
      <4>2. trash' = RemovedFrom(trash, trash.images, Head(trash.images),
                                 Thumbs!PositionOf(thumbs, Head(trash.images)),
                                 IF trash.permanent THEN trash.dontAsk ELSE check,
                                 trash.permanent, trash.changed)
        BY <1>1, <2>2 DEF Thumbs!Removing, RemovedFrom, Trashes
      <4> QED BY <4>1, <4>2
    <3>2. TrashInv(trash', thumbs.rows) /\ trash'.stage = "removing"
      BY <1>1, <1>3, <3>1, RemovingKeeps
    <3> QED BY <3>2, NotFollowing
  <2> QED BY <2>1, <2>2 DEF Thumbs!Answer
<1> QED BY <1>2, <1>4 DEF ThumbsInv

LEMMA DismissKeeps ==
  ASSUME ThumbsInv, Thumbs!Dismiss
  PROVE  ThumbsInv'
<1>1. /\ trash \in Trashes /\ trash.stage = "failed" /\ TrashInv(trash, thumbs.rows)
      /\ trash' = [trash EXCEPT !.stage = "removing"]
  BY TrashIs DEF ThumbsInv, Thumbs!Dismiss
<1>2. /\ trash' \in Trashes /\ trash'.stage = "removing" /\ trash'.images = trash.images
      /\ trash'.first = trash.first /\ trash'.pos = trash.pos /\ trash'.silent = trash.silent
      /\ trash'.permanent = trash.permanent /\ trash'.changed = trash.changed
  BY <1>1 DEF Trashes
<1>3. TrashInv(trash', thumbs.rows) /\ FollowInv(trash', thumbs)
  BY <1>1, <1>2 DEF TrashInv, FollowInv
<1>4. thumbs' = thumbs /\ folder' = folder /\ turnover' = turnover
  BY DEF Thumbs!Dismiss
<1> QED BY <1>3, <1>4 DEF ThumbsInv

\* What comes before the first image does not go.
LEMMA MoveToTrashKeeps ==
  ASSUME ThumbsAssumption, ThumbsInv, Thumbs!MoveToTrash
  PROVE  ThumbsInv'
<1> DEFINE i == Head(trash.images)
<1>1. /\ ViewInv(thumbs) /\ TourInv(thumbs) /\ trash \in Trashes /\ ~trash.silent
      /\ trash.stage = "removing" /\ trash.images # <<>> /\ TrashInv(trash, thumbs.rows)
      /\ trash.images \in Seq(Gallery) /\ thumbs.rows \in SUBSET Gallery
      /\ folder \in SUBSET Gallery /\ turnover' = turnover /\ turnover \in 0 .. MaxTurnover
  <2>1. ViewInv(thumbs) /\ TrashInv(trash, thumbs.rows)
    BY DEF ThumbsInv
  <2> QED BY <2>1, ViewIs, TrashIs DEF ThumbsInv, TrashInv, Thumbs!MoveToTrash, Trashes
<1>2. /\ Len(trash.images) \in Nat /\ 1 \in 1 .. Len(trash.images) /\ i = trash.images[1]
      /\ Tail(trash.images) \in Seq(Gallery)
      /\ \A k \in 1 .. Len(Tail(trash.images)) :
           /\ k + 1 \in 1 .. Len(trash.images)
           /\ Tail(trash.images)[k] = trash.images[k + 1]
  BY <1>1
<1>3. /\ ~trash.permanent => i \in Trashable
      /\ ~trash.changed => trash.first \in Gallery /\ trash.first <= i
  BY <1>1, <1>2 DEF TrashInv
<1>4. ASSUME NEW stage \in {"removing", "failed"}, NEW rows,
             rows = thumbs.rows \/ rows = thumbs.rows \ {i}, NEW u,
             u = [trash EXCEPT !.stage = stage, !.images = Tail(@)]
      PROVE  TrashInv(u, rows) /\ u.stage = stage
  <2>1. /\ u \in Trashes /\ u.stage = stage /\ u.images = Tail(trash.images)
        /\ u.first = trash.first /\ u.pos = trash.pos /\ u.silent = trash.silent
        /\ u.permanent = trash.permanent /\ u.changed = trash.changed
    BY <1>1, <1>2, <1>4 DEF Trashes
  <2>2. ~trash.changed => Before(rows, trash.first) = Before(thumbs.rows, trash.first)
    <3> SUFFICES ASSUME ~trash.changed
                 PROVE  Before(rows, trash.first) = Before(thumbs.rows, trash.first)
      OBVIOUS
    <3>1. ~(i < trash.first)
      <4>1. i \in Nat /\ trash.first \in Nat
        <5>1. \A g \in Gallery : g \in Nat
          BY DEF ThumbsAssumption
        <5>2. i \in Gallery /\ trash.first \in Gallery
          BY <1>1, <1>2, <1>3
        <5> QED BY <5>1, <5>2
      <4> HIDE DEF i
      <4> QED BY <1>3, <4>1
    <3> HIDE DEF i
    <3> QED BY <1>4, <3>1 DEF Before
  <2>3. /\ ~trash.permanent => \A k \in 1 .. Len(u.images) : u.images[k] \in Trashable
        /\ ~trash.changed => \A k \in 1 .. Len(u.images) : trash.first <= u.images[k]
    BY <1>1, <1>2, <2>1 DEF TrashInv
  <2> HIDE DEF i
  <2> QED BY <1>1, <1>3, <2>1, <2>2, <2>3 DEF TrashInv
<1>5. CASE /\ i \in folder /\ folder' = folder \ {i}
           /\ thumbs' = IF i \in thumbs.rows THEN Thumbs!RowDeleted(thumbs, i) ELSE thumbs
           /\ trash' = [trash EXCEPT !.images = Tail(@),
                          !.silent = @ \/ (~Thumbs!CanTrash(i) /\ ~trash.permanent)]
  <2>1. (trash.silent \/ (~Thumbs!CanTrash(i) /\ ~trash.permanent)) = trash.silent
    BY <1>1, <1>3, <1>5 DEF Thumbs!CanTrash, Trashes
  <2>2. trash' = [trash EXCEPT !.stage = "removing", !.images = Tail(@)]
    <3> HIDE DEF i
    <3> QED BY <1>1, <1>5, <2>1 DEF Trashes
  <2>3. /\ ViewInv(thumbs') /\ TourInv(thumbs')
        /\ thumbs'.rows = thumbs.rows \/ thumbs'.rows = thumbs.rows \ {i}
    <3> HIDE DEF i
    <3> QED BY <1>1, <1>5, RowDeletedKeeps
  <2>4. TrashInv(trash', thumbs'.rows) /\ trash'.stage = "removing"
    <3> HIDE DEF i
    <3> QED BY <1>4, <2>2, <2>3
  <2>5. FollowInv(trash', thumbs')
    BY <2>4, NotFollowing
  <2>6. folder' \in SUBSET Gallery /\ turnover' \in 0 .. MaxTurnover
    BY <1>1, <1>5
  <2> QED BY <2>3, <2>4, <2>5, <2>6 DEF ThumbsInv
<1>6. CASE /\ trash' = [trash EXCEPT !.stage = "failed", !.images = Tail(@)]
           /\ thumbs' = thumbs /\ folder' = folder
  <2>1. TrashInv(trash', thumbs.rows) /\ trash'.stage = "failed"
    <3> HIDE DEF i
    <3> QED BY <1>4, <1>6
  <2>2. FollowInv(trash', thumbs')
    BY <2>1, NotFollowing
  <2> QED BY <1>1, <1>6, <2>1, <2>2 DEF ThumbsInv
<1> QED BY <1>5, <1>6 DEF Thumbs!MoveToTrash

\* The row at the position of an image is the first one that does not come before it, or the
\* last one if all do.
LEMMA PositionFollows ==
  ASSUME ThumbsAssumption, NEW rows \in SUBSET Gallery, rows # {}, NEW first \in Gallery,
         NEW at \in Nat, at = Thumbs!Least(Cardinality(Before(rows, first)) + 1, Cardinality(rows)),
         NEW x \in rows, Thumbs!Rank(rows, x) = at
  PROVE  LET after == {i \in rows : i >= first}
         IN x = IF after = {} THEN Thumbs!Max(rows) ELSE Thumbs!Min(after)
<1> DEFINE after == {i \in rows : i >= first}
           before == Before(rows, first)
           n == Cardinality(rows)
           c == Cardinality(before)
<1>1. /\ rows \in SUBSET Nat /\ IsFiniteSet(rows) /\ n \in Nat /\ first \in Nat
      /\ \A i \in rows : i \in Nat
  BY RowsAreFinite DEF ThumbsAssumption
<1>2. before \in SUBSET rows /\ IsFiniteSet(before) /\ c \in Nat /\ c <= n
  <2>1. before \in SUBSET rows
    BY DEF Before
  <2> HIDE DEF before
  <2> QED BY <1>1, <2>1, SubCount
<1>3. \A i \in rows : /\ Thumbs!Rank(rows, i) \in 1 .. n
                      /\ Thumbs!Rank(rows, i) = Cardinality(Before(rows, i)) + 1
                      /\ \A j \in rows : i < j => Thumbs!Rank(rows, i) < Thumbs!Rank(rows, j)
  BY <1>1, RankIs DEF Before
<1>4. CASE after = {}
  <2>1. before = rows
    <3>1. \A k \in rows : k < first
      <4>1. \A k \in rows : ~(k >= first)
        BY <1>4
      <4> QED BY <1>1, <4>1
    <3> QED BY <3>1 DEF Before
  <2>2. at = n
    BY <1>1, <2>1 DEF Thumbs!Least
  <2>3. \A y \in rows : x >= y
    <3> SUFFICES ASSUME NEW y \in rows, x < y PROVE FALSE
      BY <1>1
    <3>1. n < Thumbs!Rank(rows, y) /\ Thumbs!Rank(rows, y) \in 1 .. n
      BY <1>3, <2>2
    <3> QED BY <1>1, <3>1
  <2>4. \A z \in rows : (\A y \in rows : z >= y) => z = x
    BY <1>1, <2>3
  <2>5. Thumbs!Max(rows) = x
    BY <2>3, <2>4 DEF Thumbs!Max
  <2> QED BY <1>4, <2>5
<1>5. CASE after # {}
  <2>1. c < n
    <3>1. before # rows
      <4>1. PICK y \in rows : y >= first
        BY <1>5
      <4>2. ~(y < first)
        BY <1>1, <4>1
      <4> QED BY <4>1, <4>2 DEF Before
    <3> HIDE DEF before
    <3> QED BY <1>1, <1>2, <3>1, SubCount
  <2>2. at = c + 1
    BY <1>1, <1>2, <2>1 DEF Thumbs!Least
  <2>3. Cardinality(Before(rows, x)) = c /\ IsFiniteSet(Before(rows, x))
    <3>1. Before(rows, x) \in SUBSET rows
      BY DEF Before
    <3>2. Cardinality(Before(rows, x)) \in Nat /\ IsFiniteSet(Before(rows, x))
      BY <1>1, <3>1, SubCount
    <3>3. Cardinality(Before(rows, x)) + 1 = c + 1
      BY <1>3, <2>2
    <3> QED BY <1>2, <3>2, <3>3
  <2>4. x \in after
    <3> SUFFICES ASSUME x < first PROVE FALSE
      BY <1>1
    <3>1. Before(rows, x) \in SUBSET before /\ x \in before /\ x \notin Before(rows, x)
      <4>1. (\A k \in rows : k < x => k < first) /\ ~(x < x)
        BY <1>1
      <4> QED BY <4>1 DEF Before
    <3> HIDE DEF before
    <3>2. Cardinality(Before(rows, x)) < c
      BY <1>2, <3>1, SubCount
    <3> QED BY <1>2, <2>3, <3>2
  <2>5. \A y \in after : x <= y
    <3> SUFFICES ASSUME NEW y \in after, y < x PROVE FALSE
      BY <1>1
    <3>1. before \in SUBSET Before(rows, x) /\ y \in Before(rows, x) /\ y \notin before
      <4>1. (\A k \in rows : k < first => k < x) /\ y \in rows /\ ~(y < first)
        BY <1>1
      <4> QED BY <4>1 DEF Before
    <3> HIDE DEF before
    <3>2. c < Cardinality(Before(rows, x))
      BY <2>3, <3>1, SubCount
    <3> QED BY <1>2, <2>3, <3>2
  <2>6. \A z \in after : (\A y \in after : z <= y) => z = x
    BY <1>1, <2>4, <2>5
  <2>7. Thumbs!Min(after) = x
    BY <2>4, <2>5, <2>6 DEF Thumbs!Min
  <2> QED BY <1>5, <2>7
<1> QED BY <1>4, <1>5

LEMMA RemovedKeeps ==
  ASSUME ThumbsAssumption, ThumbsInv, Thumbs!Removed
  PROVE  ThumbsInv'
<1> DEFINE n == Cardinality(thumbs.rows)
           at == Thumbs!Least(trash.pos, n)
           i == Thumbs!At(thumbs, at)
<1>1. /\ ViewInv(thumbs) /\ TourInv(thumbs) /\ trash \in Trashes /\ ~trash.silent
      /\ trash.stage = "removing" /\ TrashInv(trash, thumbs.rows)
      /\ thumbs.rows \in SUBSET Gallery
  <2>1. ViewInv(thumbs) /\ TrashInv(trash, thumbs.rows)
    BY DEF ThumbsInv
  <2> QED BY <2>1, ViewIs, TrashIs DEF ThumbsInv, TrashInv, Thumbs!Removed
<1>2. /\ thumbs' = IF at > 0 THEN Thumbs!SetCurrentImage(thumbs, i) ELSE thumbs
      /\ trash' = [trash EXCEPT !.stage = "none", !.next = IF trash.changed THEN 0 ELSE trash.first,
                                !.first = 0, !.pos = 0]
      /\ folder' = folder /\ turnover' = turnover
  BY LengthIs DEF Thumbs!Removed
<1>3. /\ n \in Nat /\ trash.pos \in Nat /\ at \in 0 .. n /\ IsFiniteSet(thumbs.rows)
      /\ n = 0 => thumbs.rows = {}
  <2>1. n \in Nat /\ trash.pos \in Nat /\ IsFiniteSet(thumbs.rows)
    BY <1>1, RowsAreFinite DEF Trashes
  <2>2. n = 0 => thumbs.rows = {}
    BY <2>1, FS_EmptySet
  <2> QED BY <2>1, <2>2 DEF Thumbs!Least
<1>4. at > 0 => i \in thumbs.rows /\ Thumbs!Rank(thumbs.rows, i) = at
  <2> HIDE DEF at, i
  <2>1. at > 0 => at \in 1 .. n
    BY <1>3
  <2> QED BY <1>1, <2>1, AtIs DEF i
<1>5. /\ ViewInv(thumbs') /\ TourInv(thumbs') /\ thumbs'.rows = thumbs.rows
      /\ at > 0 => thumbs'.selected = {i}
  <2>1. CASE at > 0
    <3> DEFINE w == Chosen(thumbs, {i}, <<>>)
    <3>1. thumbs' = w
      BY <1>2, <2>1 DEF Thumbs!SetCurrentImage, Chosen
    <3>2. {i} \in SUBSET thumbs.rows /\ <<>> \in Seq(thumbs.rows)
      <4>1. <<>> \in Seq(thumbs.rows)
        OBVIOUS
      <4> HIDE DEF i, at
      <4> QED BY <1>4, <2>1, <4>1
    <3>3. ViewInv(w) /\ w.rows = thumbs.rows /\ w.selected = {i} /\ w.tour = <<>>
      <4>1. PICK tour \in Seq(thumbs.rows) : tour = <<>>
        <5>1. <<>> \in Seq(thumbs.rows)
          OBVIOUS
        <5> QED BY <5>1, Zenon
      <4>2. PICK selected \in SUBSET thumbs.rows : selected = {i}
        BY <3>2
      <4>3. w = Chosen(thumbs, selected, tour)
        BY <4>1, <4>2
      <4>4. /\ ViewInv(Chosen(thumbs, selected, tour))
            /\ Chosen(thumbs, selected, tour).rows = thumbs.rows
            /\ Chosen(thumbs, selected, tour).selected = selected
            /\ Chosen(thumbs, selected, tour).tour = tour
        <5> HIDE DEF w, i
        <5> QED BY <1>1, SelectedAnew
      <4> HIDE DEF w, i
      <4> QED BY <4>1, <4>2, <4>3, <4>4
    <3> HIDE DEF w, i, at
    <3>4. w \in Views
      BY <3>3, ViewIs
    <3> QED BY <3>1, <3>3, <3>4, NoTour
  <2>2. CASE ~(at > 0)
    BY <1>1, <1>2, <2>2
  <2> QED BY <2>1, <2>2
<1>6. PICK next \in Gallery \cup {0} : next = IF trash.changed THEN 0 ELSE trash.first
  <2>1. ~trash.changed => trash.first \in Gallery
    BY <1>1 DEF TrashInv
  <2> QED BY <2>1
<1>7. trash' \in Trashes /\ trash'.stage = "none" /\ trash'.next = next /\ trash'.silent = trash.silent
  <2>1. trash' = [trash EXCEPT !.stage = "none", !.next = next, !.first = 0, !.pos = 0]
    BY <1>2, <1>6
  <2> HIDE <1>6
  <2> QED BY <1>1, <2>1 DEF Trashes
<1>8. TrashInv(trash', thumbs'.rows)
  BY <1>1, <1>7 DEF TrashInv
<1>9. FollowInv(trash', thumbs')
  <2> SUFFICES ASSUME next # 0, thumbs.rows # {}
               PROVE  LET after == {j \in thumbs.rows : j >= next}
                      IN thumbs'.selected = IF after = {} THEN {Thumbs!Max(thumbs.rows)}
                                            ELSE {Thumbs!Min(after)}
    BY <1>5, <1>7 DEF FollowInv
  <2>1. /\ next \in Gallery /\ trash.pos = Cardinality(Before(thumbs.rows, next)) + 1
    BY <1>1, <1>6 DEF TrashInv
  <2>2. Cardinality(Before(thumbs.rows, next)) \in Nat
    <3>1. Before(thumbs.rows, next) \in SUBSET thumbs.rows
      BY DEF Before
    <3> QED BY <1>3, <3>1, SubCount
  <2>3. at > 0 /\ at \in Nat
    <3>1. n > 0 /\ trash.pos > 0
      <4>1. n # 0
        BY <1>1, <1>3, FS_EmptySet
      <4> QED BY <1>3, <2>1, <2>2, <4>1
    <3> QED BY <1>3, <3>1 DEF Thumbs!Least
  <2>4. /\ i \in thumbs.rows /\ Thumbs!Rank(thumbs.rows, i) = at
        /\ at = Thumbs!Least(Cardinality(Before(thumbs.rows, next)) + 1, Cardinality(thumbs.rows))
        /\ thumbs'.selected = {i}
    BY <1>4, <1>5, <2>1, <2>3
  <2> DEFINE after == {j \in thumbs.rows : j >= next}
  <2>5. i = IF after = {} THEN Thumbs!Max(thumbs.rows) ELSE Thumbs!Min(after)
    <3> HIDE DEF i, at
    <3> QED BY <1>1, <2>1, <2>3, <2>4, PositionFollows
  <2> HIDE DEF after, i
  <2> QED BY <2>4, <2>5 DEF after
<1> QED BY <1>2, <1>5, <1>8, <1>9 DEF ThumbsInv

LEMMA ThumbsInit ==
  ASSUME ThumbsAssumption, Thumbs!Init
  PROVE  ThumbsInv
<1>1. /\ thumbs = [rows |-> {}, selected |-> {}, nImages |-> 0, columns |-> 0,
                   mode |-> "ONE_ROW", tour |-> <<>>]
      /\ trash = [stage |-> "none", images |-> <<>>, pos |-> 0, dontAsk |-> FALSE,
                  permanent |-> FALSE, first |-> 0, next |-> 0, changed |-> FALSE,
                  silent |-> FALSE]
      /\ folder \in SUBSET Gallery /\ turnover = 0 /\ MaxTurnover \in Nat
  BY DEF Thumbs!Init, ThumbsAssumption
<1>2. <<>> \in Seq(Gallery) /\ Cardinality({}) = 0 /\ "ONE_ROW" \in Thumbs!Modes
  BY FS_EmptySet DEF Thumbs!Modes
<1>3. thumbs \in Views
  BY <1>1, <1>2 DEF Views
<1>4. ViewInv(thumbs) /\ TourInv(thumbs)
  <2>1. ViewInv(thumbs) /\ thumbs.tour = <<>>
    BY <1>1, <1>2, <1>3 DEF ViewInv
  <2> QED BY <1>3, <2>1, NoTour
<1>5. trash \in Trashes /\ trash.stage = "none" /\ ~trash.silent /\ trash.next = 0
  <2>1. ASSUME NEW none \in Seq(Gallery), NEW no \in BOOLEAN, NEW t,
               t = [stage |-> "none", images |-> none, pos |-> 0, dontAsk |-> no,
                    permanent |-> no, first |-> 0, next |-> 0, changed |-> no, silent |-> no]
        PROVE  t \in Trashes /\ t.stage = "none" /\ t.silent = no /\ t.next = 0
    BY <2>1 DEF Trashes
  <2>2. FALSE \in BOOLEAN
    OBVIOUS
  <2> QED BY <1>1, <1>2, <2>1, <2>2
<1>6. TrashInv(trash, thumbs.rows) /\ FollowInv(trash, thumbs)
  BY <1>5 DEF TrashInv, FollowInv
<1> QED BY <1>1, <1>4, <1>6 DEF ThumbsInv

LEMMA ThumbsStep ==
  ASSUME ThumbsAssumption, ThumbsInv, [Thumbs!Next]_(Thumbs!thumbVars)
  PROVE  ThumbsInv'
<1>1. CASE Thumbs!Next
  <2>1. ASSUME NEW mode \in Thumbs!Modes, Thumbs!Shows(Thumbs!SetMode(thumbs, mode))
        PROVE  ThumbsInv'
    BY <2>1, ModeSetKeeps
  <2> QED BY <1>1, <2>1, SingleSelectedKeeps, ClickKeeps, FileChangesKeeps, MonitorKeeps, OpenKeeps,
             CommandKeeps, AnswerKeeps, MoveToTrashKeeps, DismissKeeps, RemovedKeeps
          DEF Thumbs!Next
<1>2. CASE UNCHANGED Thumbs!thumbVars
  BY <1>2 DEF ThumbsInv, Thumbs!thumbVars
<1> QED BY <1>1, <1>2

LEMMA ThumbsMeaning ==
  ASSUME ThumbsAssumption, ThumbsInv
  PROVE  /\ Thumbs!TypeOK /\ Thumbs!FollowingIsSelected /\ Thumbs!TourIsComplete
         /\ Thumbs!OneRow /\ Thumbs!NothingLostUntold
<1>1. Thumbs!FollowingIsSelected
  BY DEF ThumbsInv, FollowInv, Thumbs!FollowingIsSelected, Thumbs!Idle
<1>2. Thumbs!TourIsComplete
  BY TourCompletes DEF ThumbsInv
<1>3. Thumbs!OneRow
  BY LengthIs DEF ThumbsInv, ViewInv, Thumbs!OneRow
<1>4. Thumbs!NothingLostUntold
  BY DEF ThumbsInv, TrashInv, Thumbs!NothingLostUntold
<1>5. Thumbs!TypeOK
  <2>1. ViewInv(thumbs) /\ trash \in Trashes /\ folder \in SUBSET Gallery /\ turnover \in 0 .. MaxTurnover
    BY TrashIs DEF ThumbsInv
  <2> QED BY <2>1 DEF ViewInv, Views, Trashes, Thumbs!TypeOK
<1> QED BY <1>1, <1>2, <1>3, <1>4, <1>5

\* Who walks through the images comes to each of them, and after a removal stands on the one
\* that followed, though the directory changes under the dialogs and some files stay; one row
\* has room for all; no file is deleted for good untold (eom_thumb_view_select_single,
\* eom_window_cmd_move_to_trash); for collections of every size.
THEOREM ThumbsFollowed ==
  ASSUME ThumbsAssumption
  PROVE  ThumbsSpec => [](/\ Thumbs!TypeOK /\ Thumbs!FollowingIsSelected
                          /\ Thumbs!TourIsComplete /\ Thumbs!OneRow /\ Thumbs!NothingLostUntold)
<1> USE ThumbsAssumption
<1>1. Thumbs!Init => ThumbsInv
  BY ThumbsInit
<1>2. ThumbsInv /\ [Thumbs!Next]_(Thumbs!thumbVars) => ThumbsInv'
  BY ThumbsStep
<1>3. ThumbsInv => /\ Thumbs!TypeOK /\ Thumbs!FollowingIsSelected /\ Thumbs!TourIsComplete
                   /\ Thumbs!OneRow /\ Thumbs!NothingLostUntold
  BY ThumbsMeaning
<1> QED BY <1>1, <1>2, <1>3, PTL DEF ThumbsSpec
-----------------------------------------------------------------------------
(* The buttons of the thumbnail bar *)

NavSpec == Nav!Init /\ [][Nav!Next]_(Nav!navVars)

Navs == [mode : Nav!Modes, showButtons : BOOLEAN, visible : BOOLEAN, forwards : BOOLEAN,
         pos : Nat, id : 0 .. MaxPresses, next : Nat \ {0},
         value : Nat, upper : Nat, page : Nat, left : BOOLEAN, right : BOOLEAN]

ButtonsFit(s) == (s.left <=> Nav!Left(s)) /\ (s.right <=> Nav!Right(s))
NavGood(s) == s \in Navs /\ ButtonsFit(s) /\ s.value <= Nav!End(s)

\* Every change of the value tells both buttons.
LEMMA SetValueGood ==
  ASSUME NEW s \in Navs, ButtonsFit(s), NEW v \in Int
  PROVE  NavGood(Nav!SetValue(s, v)) /\ Nav!SetValue(s, v).id = s.id
<1> DEFINE new == Nav!Higher(0, Nav!Lower(v, s.upper - s.page))
<1>1. new \in Nat /\ new <= Nav!End(s)
  BY DEF Navs, Nav!Higher, Nav!Lower, Nav!End
<1>2. CASE new = s.value
  BY <1>1, <1>2 DEF NavGood, Nav!SetValue
<1>3. CASE new # s.value
  <2> HIDE DEF new
  <2> DEFINE t == [s EXCEPT !.value = new]
  <2>1. t \in Navs /\ t.value = new /\ t.upper = s.upper /\ t.page = s.page /\ t.id = s.id
    BY <1>1 DEF Navs
  <2> HIDE DEF t
  <2>a. Nav!Left(t) \in BOOLEAN /\ Nav!Right(t) \in BOOLEAN
    BY DEF Nav!Left, Nav!Right
  <2>2. PICK l \in BOOLEAN, r \in BOOLEAN : l = Nav!Left(t) /\ r = Nav!Right(t)
    BY <2>a, Zenon
  <2> DEFINE u == [t EXCEPT !.left = l, !.right = r]
  <2>3. Nav!SetValue(s, v) = u
    BY <1>3, <2>2 DEF Nav!SetValue, Nav!AdjValueChanged, new, t
  <2>4. /\ u \in Navs /\ u.value = t.value /\ u.upper = t.upper /\ u.page = t.page /\ u.id = t.id
        /\ u.left = l /\ u.right = r
    BY <2>1 DEF Navs
  <2> HIDE DEF u
  <2>5. ButtonsFit(u)
    BY <2>2, <2>4 DEF ButtonsFit, Nav!Left, Nav!Right
  <2>6. u.value <= Nav!End(u)
    BY <1>1, <2>1, <2>4 DEF Nav!End
  <2> QED BY <2>1, <2>3, <2>4, <2>5, <2>6 DEF NavGood
<1> QED BY <1>2, <1>3

\* The other fields
LEMMA NavKept ==
  ASSUME NEW s, NavGood(s), NEW t \in Navs,
         t.value = s.value, t.upper = s.upper, t.page = s.page,
         t.left = s.left, t.right = s.right
  PROVE  NavGood(t)
BY DEF NavGood, ButtonsFit, Nav!Left, Nav!Right, Nav!End

LEMMA ScrollStepGood ==
  ASSUME NavAssumption, NEW s, NavGood(s)
  PROVE  NavGood(Nav!ScrollStep(s)) /\ Nav!ScrollStep(s).id = s.id
<1>1. s \in Navs /\ ButtonsFit(s)
  BY DEF NavGood
<1>2. \A v \in Int, p \in Nat : LET t == [Nav!SetValue(s, v) EXCEPT !.pos = p]
                                IN NavGood(t) /\ t.id = s.id
  <2> TAKE v \in Int, p \in Nat
  <2> DEFINE u == Nav!SetValue(s, v)
             t == [u EXCEPT !.pos = p]
  <2>1. NavGood(u) /\ u.id = s.id
    BY <1>1, SetValueGood
  <2> HIDE DEF u
  <2>2. /\ t \in Navs /\ t.value = u.value /\ t.upper = u.upper /\ t.page = u.page
        /\ t.left = u.left /\ t.right = u.right /\ t.id = u.id
    BY <2>1 DEF NavGood, Navs
  <2> HIDE DEF t
  <2>3. NavGood(t) /\ t.id = s.id
    BY <2>1, <2>2, NavKept
  <2> QED BY <2>3 DEF t, u
<1>3. CASE Nav!GoesOn(s)
  <2> DEFINE v == s.value + Nav!Delta(s)
             p == Nav!Lower(Nav!SetValue(s, v).pos + 1, Every * Len(Deltas))
  <2>1. v \in Int
    BY <1>1, <1>3 DEF Nav!GoesOn, Navs
  <2>2. Nav!SetValue(s, v) \in Navs
    BY <1>1, <2>1, SetValueGood DEF NavGood
  <2> HIDE DEF v
  <2>3. Every * Len(Deltas) \in Nat
    BY DEF NavAssumption
  <2>4. p \in Nat
    <3> DEFINE q == Nav!SetValue(s, v).pos + 1
               m == Every * Len(Deltas)
    <3>1. q \in Nat
      BY <2>2 DEF Navs
    <3> HIDE DEF q, m
    <3>2. m \in Nat
      BY <2>3 DEF m
    <3>3. Nav!Lower(q, m) \in Nat
      BY <3>1, <3>2 DEF Nav!Lower
    <3> QED BY <3>3 DEF q, m
  <2>5. Nav!ScrollStep(s) = [Nav!SetValue(s, v) EXCEPT !.pos = p]
    BY <1>3 DEF Nav!ScrollStep, v
  <2> HIDE DEF p
  <2> QED BY <1>2, <2>1, <2>4, <2>5
<1>4. CASE ~Nav!GoesOn(s)
  <2>1. PICK v \in Int : v = IF s.forwards THEN s.upper - s.page ELSE 0
    BY <1>1 DEF Navs
  <2>2. Nav!ScrollStep(s) = [Nav!SetValue(s, v) EXCEPT !.pos = 0]
    BY <1>4, <2>1 DEF Nav!ScrollStep
  <2> QED BY <1>2, <2>2
<1> QED BY <1>3, <1>4

NavInv ==
  /\ NavGood(nav) /\ held \in {"none", "left", "right"}
  /\ timeouts \subseteq IF held = "none" THEN {} ELSE {nav.id}
  /\ held # "none" => nav.id # 0

LEMMA NavStep ==
  ASSUME NavAssumption, NavInv, [Nav!Next]_(Nav!navVars)
  PROVE  NavInv'
<1>0. /\ NavGood(nav) /\ nav \in Navs /\ ButtonsFit(nav) /\ held \in {"none", "left", "right"}
      /\ timeouts \subseteq IF held = "none" THEN {} ELSE {nav.id}
      /\ held # "none" => nav.id # 0
  BY DEF NavInv, NavGood
<1>a. ASSUME NavGood(nav'), nav'.id = nav.id, UNCHANGED held, timeouts' \subseteq timeouts
      PROVE  NavInv'
  BY <1>0, <1>a DEF NavInv
<1>1. ASSUME NEW upper \in Uppers, NEW page \in Pages, Nav!Configure(upper, page)
      PROVE  NavInv'
  <2> DEFINE s == [nav EXCEPT !.upper = upper, !.page = page]
             t == Nav!AdjChanged(s)
  <2>1. /\ s \in Navs /\ s.upper = upper /\ s.page = page /\ s.value = nav.value
        /\ s.left = nav.left /\ s.id = nav.id
    BY <1>0 DEF Navs, NavAssumption
  <2> HIDE DEF s
  <2>a. Nav!Right(s) \in BOOLEAN
    BY DEF Nav!Right
  <2>2. PICK r \in BOOLEAN : r = Nav!Right(s)
    BY <2>a, Zenon
  <2>3. t = [s EXCEPT !.right = r]
    BY <2>2 DEF Nav!AdjChanged
  <2> HIDE DEF t
  <2>4. /\ t \in Navs /\ t.upper = s.upper /\ t.page = s.page /\ t.value = s.value
        /\ t.left = s.left /\ t.id = s.id /\ t.right = r
    BY <2>1, <2>3 DEF Navs
  <2>5. ButtonsFit(t)
    BY <1>0, <2>1, <2>2, <2>4 DEF ButtonsFit, Nav!Left, Nav!Right
  <2>6. t.value \in Int
    BY <2>4 DEF Navs
  <2>7. nav' = Nav!SetValue(t, t.value) /\ UNCHANGED <<timeouts, held>>
    BY <1>1 DEF Nav!Configure, s, t
  <2>8. NavGood(nav') /\ nav'.id = t.id
    BY <2>4, <2>5, <2>6, <2>7, SetValueGood
  <2> QED BY <1>a, <2>1, <2>4, <2>7, <2>8
<1>2. CASE Nav!ScrollEvent
  <2>1. PICK v \in Int : nav' = Nav!SetValue(nav, v)
    <3>1. PICK inc \in {-Wheel, Wheel} :
            nav' = Nav!SetValue(nav, IF inc < 0 THEN Nav!Higher(0, nav.value + inc)
                                     ELSE Nav!Lower(nav.upper - nav.page, nav.value + inc))
      BY <1>2 DEF Nav!ScrollEvent
    <3> DEFINE v == IF inc < 0 THEN Nav!Higher(0, nav.value + inc)
                    ELSE Nav!Lower(nav.upper - nav.page, nav.value + inc)
    <3>2. v \in Int
      BY <1>0 DEF Navs, NavAssumption, Nav!Higher, Nav!Lower
    <3> HIDE DEF v
    <3>3. nav' = Nav!SetValue(nav, v)
      BY <3>1 DEF v
    <3> QED BY <3>2, <3>3
  <2>2. NavGood(nav') /\ nav'.id = nav.id
    BY <1>0, <2>1, SetValueGood
  <2> QED BY <1>2, <1>a, <2>2 DEF Nav!ScrollEvent
<1>3. CASE Nav!Timeout
  <2>1. nav' = Nav!ScrollStep(nav) /\ timeouts' \subseteq timeouts /\ UNCHANGED held
    BY <1>3 DEF Nav!Timeout
  <2> QED BY <1>0, <1>a, <2>1, ScrollStepGood
<1>4. ASSUME NEW button \in {"left", "right"}, Nav!StartScroll(button)
      PROVE  NavInv'
  <2>0. PICK f \in BOOLEAN : f = (button = "right")
    OBVIOUS
  <2>1. /\ held = "none" /\ held' = button /\ timeouts' = timeouts \cup {nav.next}
        /\ nav.next <= MaxPresses
        /\ nav' = [nav EXCEPT !.forwards = f, !.id = nav.next, !.next = nav.next + 1]
    BY <1>0, <1>4, <2>0 DEF Nav!StartScroll, Navs
  <2>2. nav.next \in 1 .. MaxPresses /\ nav.next + 1 \in Nat \ {0}
    BY <1>0, <2>1 DEF Navs, NavAssumption
  <2>3. /\ nav' \in Navs /\ nav'.value = nav.value /\ nav'.upper = nav.upper
        /\ nav'.page = nav.page /\ nav'.left = nav.left /\ nav'.right = nav.right
        /\ nav'.id = nav.next
    <3>1. PICK id \in 0 .. MaxPresses, next \in Nat \ {0} : id = nav.next /\ next = nav.next + 1
      BY <2>2
    <3>2. nav' = [nav EXCEPT !.forwards = f, !.id = id, !.next = next]
      BY <2>1, <3>1
    <3> QED BY <1>0, <3>1, <3>2 DEF Navs
  <2>4. NavGood(nav')
    BY <1>0, <2>3, NavKept
  <2> QED BY <1>0, <2>1, <2>2, <2>3, <2>4 DEF NavInv
<1>5. ASSUME NEW clicked \in BOOLEAN, Nav!StopScroll(clicked)
      PROVE  NavInv'
  <2> DEFINE s == IF clicked THEN Nav!ButtonClicked(nav, held) ELSE nav
  <2>1. NavGood(s) /\ s.id = nav.id
    <3>0. PICK f \in BOOLEAN : f = (held = "right")
      OBVIOUS
    <3> DEFINE t == [nav EXCEPT !.pos = 0, !.forwards = f]
    <3>1. /\ t \in Navs /\ t.value = nav.value /\ t.upper = nav.upper /\ t.page = nav.page
          /\ t.left = nav.left /\ t.right = nav.right /\ t.id = nav.id
      BY <1>0 DEF Navs
    <3>2. Nav!ButtonClicked(nav, held) = Nav!ScrollStep(t)
      BY <3>0 DEF Nav!ButtonClicked
    <3> HIDE DEF t
    <3>3. NavGood(t)
      BY <1>0, <3>1, NavKept
    <3>4. NavGood(Nav!ScrollStep(t)) /\ Nav!ScrollStep(t).id = t.id
      BY <3>3, ScrollStepGood
    <3> QED BY <1>0, <3>1, <3>2, <3>4
  <2>2. /\ held # "none" /\ held' = "none"
        /\ IF s.id = 0 THEN nav' = s /\ UNCHANGED timeouts
           ELSE /\ nav' = [s EXCEPT !.id = 0, !.pos = 0]
                /\ timeouts' = timeouts \ {s.id}
    BY <1>5 DEF Nav!StopScroll
  <2> HIDE DEF s
  <2>3. nav' = [s EXCEPT !.id = 0, !.pos = 0] /\ timeouts' = {}
    BY <1>0, <2>1, <2>2
  <2>4. /\ nav' \in Navs /\ nav'.value = s.value /\ nav'.upper = s.upper
        /\ nav'.page = s.page /\ nav'.left = s.left /\ nav'.right = s.right
    <3>1. s \in Navs /\ 0 \in 0 .. MaxPresses
      BY <2>1 DEF NavGood, NavAssumption
    <3> QED BY <2>3, <3>1 DEF Navs
  <2>5. NavGood(nav')
    BY <2>1, <2>4, NavKept
  <2> QED BY <2>2, <2>3, <2>5 DEF NavInv
<1>6. ASSUME NEW s \in BOOLEAN, NEW m \in Nav!Modes, NEW v \in BOOLEAN, UNCHANGED <<timeouts, held>>,
             nav' = [nav EXCEPT !.showButtons = s, !.mode = m, !.visible = v]
      PROVE  NavInv'
  <2>1. /\ nav' \in Navs /\ nav'.value = nav.value /\ nav'.upper = nav.upper
        /\ nav'.page = nav.page /\ nav'.left = nav.left /\ nav'.right = nav.right
        /\ nav'.id = nav.id
    BY <1>0, <1>6 DEF Navs
  <2>2. NavGood(nav')
    BY <1>0, <2>1, NavKept
  <2> QED BY <1>6, <1>a, <2>1, <2>2
<1>7. ASSUME NEW show \in BOOLEAN, Nav!SetShowButtons(show)
      PROVE  NavInv'
  <2>1. PICK v \in BOOLEAN : v = (show /\ nav.mode = "ONE_ROW")
    OBVIOUS
  <2>2. nav' = [nav EXCEPT !.showButtons = show, !.mode = nav.mode, !.visible = v]
        /\ UNCHANGED <<timeouts, held>> /\ nav.mode \in Nav!Modes
    BY <1>0, <1>7, <2>1 DEF Nav!SetShowButtons, Navs
  <2> QED BY <1>6, <2>2
<1>8. ASSUME NEW mode \in Nav!Modes, Nav!SetMode(mode)
      PROVE  NavInv'
  <2>1. PICK v \in BOOLEAN : v = (mode = "ONE_ROW" /\ nav.showButtons)
    OBVIOUS
  <2>2. nav' = [nav EXCEPT !.showButtons = nav.showButtons, !.mode = mode, !.visible = v]
        /\ UNCHANGED <<timeouts, held>> /\ nav.showButtons \in BOOLEAN
    BY <1>0, <1>8, <2>1 DEF Nav!SetMode, Navs
  <2> QED BY <1>6, <2>2
<1>9. CASE UNCHANGED Nav!navVars
  BY <1>0, <1>9 DEF Nav!navVars, NavInv
<1> QED BY <1>1, <1>2, <1>3, <1>4, <1>5, <1>7, <1>8, <1>9 DEF Nav!Next

LEMMA NavInit == ASSUME NavAssumption, Nav!Init PROVE NavInv
<1>1. PICK mode \in Nav!Modes, show \in BOOLEAN, v \in BOOLEAN :
        nav = [mode |-> mode, showButtons |-> show, visible |-> v,
               forwards |-> FALSE, pos |-> 0, id |-> 0, next |-> 1,
               value |-> 0, upper |-> 0, page |-> 0, left |-> FALSE, right |-> FALSE]
  BY DEF Nav!Init
<1>2. nav \in Navs
  BY <1>1 DEF Navs, NavAssumption
<1>3. NavGood(nav)
  BY <1>1, <1>2 DEF NavGood, ButtonsFit, Nav!Left, Nav!Right, Nav!End, Nav!Higher
<1> QED BY <1>3 DEF Nav!Init, NavInv

LEMMA NavMeaning ==
  ASSUME NavAssumption
  PROVE  NavInv => Nav!TypeOK /\ Nav!ButtonsTell
<1> SUFFICES ASSUME NavInv PROVE Nav!TypeOK /\ Nav!ButtonsTell
  OBVIOUS
<1>1. nav \in Navs /\ nav.value <= Nav!End(nav) /\ ButtonsFit(nav)
  BY DEF NavInv, NavGood
<1>2. Nav!End(nav) \in Nat
  BY <1>1 DEF Navs, Nav!End, Nav!Higher
<1>3. nav.mode \in Nav!Modes /\ nav.value \in 0 .. Nav!End(nav) /\ nav.pos \in Nat
      /\ nav.id \in 0 .. MaxPresses
  BY <1>1, <1>2 DEF Navs
<1>4. {nav.forwards, nav.left, nav.right, nav.visible, nav.showButtons} \subseteq BOOLEAN
  BY <1>1 DEF Navs
<1>5. timeouts \subseteq 1 .. MaxPresses
  BY <1>3 DEF NavInv, NavAssumption
<1>6. Nav!TypeOK
  BY <1>3, <1>4, <1>5 DEF Nav!TypeOK, NavInv
<1> QED BY <1>1, <1>6 DEF NavInv, Nav!ButtonsTell, ButtonsFit

\* The buttons at the ends of the thumbnail bar can be pressed exactly if there is
\* something in their direction, and nothing scrolls that no held button scrolls
\* (adj_changed, adj_value_changed, start_scroll, stop_scroll), for any lengths and steps.
THEOREM NavTells == ASSUME NavAssumption PROVE NavSpec => [](Nav!TypeOK /\ Nav!ButtonsTell)
<1> USE NavAssumption
<1>1. Nav!Init => NavInv
  BY NavInit
<1>2. NavInv /\ [Nav!Next]_(Nav!navVars) => NavInv'
  BY NavStep
<1>3. NavInv => Nav!TypeOK /\ Nav!ButtonsTell
  BY NavMeaning
<1> QED BY <1>1, <1>2, <1>3, PTL DEF NavSpec
-----------------------------------------------------------------------------
(* The layout of the scroll view: lengths and zoom factors *)

ViewSpec == View!Init /\ [][View!Next]_(View!vars)

Pairs == [View!Axes -> Int]
Zooms == MinZoomFactor .. MaxZoomFactor

LEMMA Products ==
  ASSUME NEW a \in Int, NEW b \in Int, NEW c \in Nat, a <= b
  PROVE  a * c <= b * c
<1>1. PICK d \in Nat : b = a + d
  <2>1. b - a \in Nat /\ b = a + (b - a)
    OBVIOUS
  <2> QED BY <2>1
<1>2. (a + d) * c = a * c + d * c
  OBVIOUS
<1>3. d * c \in Nat /\ a * c \in Int
  OBVIOUS
<1> QED BY <1>1, <1>2, <1>3

\* What floor says of a quotient
LEMMA Floor ==
  ASSUME NEW p \in Int, NEW q \in Nat \ {0}
  PROVE  /\ p \div q \in Int /\ (p \div q) * q <= p /\ p < (p \div q) * q + q
         /\ p >= 0 => p \div q \in Nat
OBVIOUS

LEMMA FloorBelow ==
  ASSUME NEW p \in Int, NEW q \in Nat \ {0}, NEW n \in Int, p < (n + 1) * q
  PROVE  p \div q <= n
<1> DEFINE r == p \div q
<1>1. r \in Int /\ r * q <= p
  BY Floor
<1> HIDE DEF r
<1>2. CASE r >= n + 1
  <2>1. (n + 1) * q <= r * q
    BY <1>1, <1>2, Products
  <2>2. (n + 1) * q \in Int /\ r * q \in Int
    BY <1>1
  <2> QED BY <1>1, <2>1, <2>2
<1>3. r >= n + 1 \/ r <= n
  BY <1>1
<1> QED BY <1>2, <1>3 DEF r

\* A length that is no more than n units is rounded to no more than n.
LEMMA RoundedBelow ==
  ASSUME NEW p \in Int, NEW q \in Nat \ {0}, NEW n \in Int, p <= n * q
  PROVE  View!Rounded(p, q) <= n
<1> DEFINE d == 2 * q
           e == 2 * p + q
<1>1. PICK m \in Int : m = n * q
  OBVIOUS
<1>2. (n + 1) * d = 2 * m + d
  BY <1>1
<1>3. d \in Nat \ {0} /\ e \in Int /\ e < 2 * m + d
  BY <1>1
<1> HIDE DEF d, e
<1>4. e \div d <= n
  BY <1>2, <1>3, FloorBelow
<1> QED BY <1>4 DEF View!Rounded, d, e

LEMMA RoundedType ==
  ASSUME NEW p \in Int, NEW q \in Nat \ {0}
  PROVE  View!Rounded(p, q) \in Int /\ (p >= 0 => View!Rounded(p, q) \in Nat)
<1> DEFINE d == 2 * q
           e == 2 * p + q
<1>1. d \in Nat \ {0} /\ e \in Int /\ (p >= 0 => e >= 0)
  OBVIOUS
<1> HIDE DEF d, e
<1>2. e \div d \in Int /\ (e >= 0 => e \div d \in Nat)
  BY <1>1, Floor
<1> QED BY <1>1, <1>2 DEF View!Rounded, d, e

LEMMA AxesAre ==
  /\ View!Axes = {"x", "y"} /\ View!Other("x") = "y" /\ View!Other("y") = "x"
  /\ \A a \in View!Axes : View!Other(a) \in View!Axes
BY DEF View!Axes, View!Other

\* A picture that is fitted is no larger than the room.
LEMMA FitSizeFits ==
  ASSUME NEW dest \in Pairs, NEW src \in [View!Axes -> Nat \ {0}], NEW upscale \in BOOLEAN
  PROVE  /\ View!ZoomFitSize(dest, src, upscale)["x"] \in Int
         /\ View!ZoomFitSize(dest, src, upscale)["y"] \in Int
         /\ View!ZoomFitSize(dest, src, upscale)["x"] <= dest["x"]
         /\ View!ZoomFitSize(dest, src, upscale)["y"] <= dest["y"]
<1>0. /\ dest["x"] \in Int /\ dest["y"] \in Int
      /\ src["x"] \in Nat \ {0} /\ src["y"] \in Nat \ {0}
  BY AxesAre DEF Pairs
<1> DEFINE h == View!Rounded(src["y"] * dest["x"], src["x"])
           w == View!Rounded(src["x"] * dest["y"], src["y"])
<1>1. PICK p \in Int : p = src["y"] * dest["x"]
  BY <1>0
<1>2. PICK q \in Int : q = src["x"] * dest["y"]
  BY <1>0
<1>3. p = dest["x"] * src["y"] /\ q = dest["y"] * src["x"]
  BY <1>0, <1>1, <1>2
<1>4. h \in Int /\ w \in Int
  BY <1>0, <1>1, <1>2, RoundedType
<1>5. p <= q => h <= dest["y"]
  BY <1>0, <1>1, <1>3, RoundedBelow
<1>6. q <= p => w <= dest["x"]
  BY <1>0, <1>2, <1>3, RoundedBelow
<1> HIDE DEF h, w
<1>7. CASE \A a \in View!Axes : src[a] <= dest[a] /\ ~upscale
  BY <1>0, <1>7, AxesAre DEF View!ZoomFitSize
<1>8. CASE ~\A a \in View!Axes : src[a] <= dest[a] /\ ~upscale
  <2>1. View!ZoomFitSize(dest, src, upscale)
          = IF h > dest["y"] THEN [x |-> w, y |-> dest["y"]] ELSE [x |-> dest["x"], y |-> h]
    BY <1>8 DEF View!ZoomFitSize, h, w
  <2> QED BY <1>0, <1>4, <1>5, <1>6, <2>1
<1> QED BY <1>7, <1>8

LEMMA FitScaleFits ==
  ASSUME NEW dest \in Pairs, NEW src \in [View!Axes -> Nat \ {0}], NEW upscale \in BOOLEAN,
         ViewAssumption
  PROVE  /\ View!ZoomFitScale(dest, src, upscale) \in Int
         /\ \A zoom \in Int, a \in View!Axes :
              zoom <= View!ZoomFitScale(dest, src, upscale)
                => View!Rounded(src[a] * zoom, Unit) <= dest[a]
<1> DEFINE size == View!ZoomFitSize(dest, src, upscale)
           scale == View!ZoomFitScale(dest, src, upscale)
<1>0. /\ \A a \in View!Axes : dest[a] \in Int /\ src[a] \in Nat \ {0} 
      /\ Unit \in Nat \ {0}
  BY DEF Pairs, ViewAssumption
<1>1. \A a \in View!Axes : size[a] \in Int /\ size[a] <= dest[a]
  BY FitSizeFits, AxesAre
<1>2. scale = View!Lower((size["x"] * Unit) \div src["x"], (size["y"] * Unit) \div src["y"])
  BY DEF View!ZoomFitScale
<1> HIDE DEF size, scale
<1>3. \A a \in View!Axes : (size[a] * Unit) \div src[a] \in Int
  <2>1. ASSUME NEW a \in View!Axes PROVE (size[a] * Unit) \div src[a] \in Int
    <3>1. size[a] * Unit \in Int
      BY <1>0, <1>1
    <3> QED BY <1>0, <3>1, Floor
  <2> QED BY <2>1
<1>4. scale \in Int /\ \A a \in View!Axes : scale <= (size[a] * Unit) \div src[a]
  BY <1>2, <1>3, AxesAre DEF View!Lower
<1>5. ASSUME NEW zoom \in Int, NEW a \in View!Axes, zoom <= scale
      PROVE  View!Rounded(src[a] * zoom, Unit) <= dest[a]
  <2>1. PICK q \in Int : q = (size[a] * Unit) \div src[a]
    BY <1>3
  <2>2. PICK n \in Int : n = size[a] * Unit
    BY <1>0, <1>1
  <2>3. q * src[a] <= n
    BY <1>0, <2>1, <2>2, Floor
  <2>4. zoom * src[a] <= q * src[a]
    <3>1. zoom <= q
      BY <1>4, <1>5, <2>1
    <3> QED BY <1>0, <3>1, Products
  <2>5. n <= dest[a] * Unit
    BY <1>0, <1>1, <2>2, Products
  <2>6. /\ src[a] * zoom = zoom * src[a] /\ src[a] * zoom \in Int
        /\ q * src[a] \in Int /\ dest[a] * Unit \in Int
    BY <1>0
  <2>7. src[a] * zoom <= dest[a] * Unit
    BY <2>3, <2>4, <2>5, <2>6
  <2> QED BY <1>0, <2>6, <2>7, RoundedBelow
<1> QED BY <1>4, <1>5 DEF scale

\* The next of the preferred zoom levels
LEMMA NextLevels ==
  ASSUME ViewAssumption, NEW zoom \in Int
  PROVE  /\ LET above == {z \in Levels : z > zoom}
            IN above # {} => (CHOOSE z \in above : \A y \in above : z <= y) \in Int
         /\ LET below == {z \in Levels : z < zoom}
            IN below # {} => (CHOOSE z \in below : \A y \in below : z >= y) \in Int
<1>0. Levels \subseteq Int
  BY DEF ViewAssumption
<1>1. ASSUME NEW T \in SUBSET Nat, T # {} PROVE \E x \in T : \A y \in T : x <= y
  BY <1>1, LeastIs
<1>2. ASSUME NEW S, S = {z \in Levels : z > zoom}, S # {}
      PROVE  (CHOOSE z \in S : \A y \in S : z <= y) \in Int
  <2> DEFINE T == {n \in Nat : zoom + n \in S}
  <2>1. T \in SUBSET Nat /\ T # {}
    <3>1. PICK z \in S : TRUE
      BY <1>2
    <3>2. z - zoom \in Nat /\ zoom + (z - zoom) = z
      BY <1>0, <1>2
    <3> QED BY <3>2
  <2>2. PICK x \in T : \A y \in T : x <= y
    BY <1>1, <2>1
  <2>3. zoom + x \in S
    BY <2>2
  <2>4. ASSUME NEW y \in S PROVE zoom + x <= y
    <3>1. y \in Int /\ y - zoom \in Nat /\ zoom + (y - zoom) = y
      BY <1>0, <1>2
    <3>2. y - zoom \in T
      BY <3>1
    <3>3. x <= y - zoom /\ x \in Nat
      BY <2>1, <2>2, <3>2
    <3> QED BY <3>1, <3>3
  <2>5. \E z \in S : \A y \in S : z <= y
    BY <2>3, <2>4
  <2> QED BY <1>0, <1>2, <2>5
<1>3. ASSUME NEW S, S = {z \in Levels : z < zoom}, S # {}
      PROVE  (CHOOSE z \in S : \A y \in S : z >= y) \in Int
  <2> DEFINE T == {n \in Nat : zoom - n \in S}
  <2>1. T \in SUBSET Nat /\ T # {}
    <3>1. PICK z \in S : TRUE
      BY <1>3
    <3>2. zoom - z \in Nat /\ zoom - (zoom - z) = z
      BY <1>0, <1>3
    <3> QED BY <3>2
  <2>2. PICK x \in T : \A y \in T : x <= y
    BY <1>1, <2>1
  <2>3. zoom - x \in S
    BY <2>2
  <2>4. ASSUME NEW y \in S PROVE zoom - x >= y
    <3>1. y \in Int /\ zoom - y \in Nat /\ zoom - (zoom - y) = y
      BY <1>0, <1>3
    <3>2. zoom - y \in T
      BY <3>1
    <3>3. x <= zoom - y /\ x \in Nat
      BY <2>1, <2>2, <3>2
    <3> QED BY <3>1, <3>3
  <2>5. \E z \in S : \A y \in S : z >= y
    BY <2>3, <2>4
  <2> QED BY <1>0, <1>3, <2>5
<1> QED BY <1>2, <1>3
-----------------------------------------------------------------------------
(* The layout of the scroll view: what its functions do *)

Adjustments == [value : Int, upper : Int, page : Int]
Scrollers ==
  [pixbuf : Shapes \cup {View!NoSize}, zoom : Zooms, minZoom : Zooms, mode : {"FREE", "FIT"},
   upscale : BOOLEAN, ofs : Pairs, bar : [View!Axes -> BOOLEAN],
   adj : [View!Axes -> Adjustments], size : Frames, display : Pairs, mapped : BOOLEAN,
   dragging : BOOLEAN, grip : Pairs, canZoomIn : BOOLEAN, canZoomOut : BOOLEAN,
   missed : BOOLEAN]

\* The size of the picture as it is shown
Scaled(s) == View!ComputeScaledSize(s, s.zoom)

\* check_scrollbar_visibility says so.
Needs(s, size, a) ==
  /\ s.mode = "FREE"
  /\ \/ Scaled(s)[a] > size[a]
     \/ /\ Scaled(s)[View!Other(a)] > size[View!Other(a)]
        /\ Scaled(s)[a] > size[a] - BarWidth

\* A bar and the offset agree.
BarTells(s, a) ==
  /\ s.adj[a].value = s.ofs[a] /\ s.adj[a].upper = Scaled(s)[a]
  /\ s.adj[a].page = View!Lower(Scaled(s)[a], s.display[a])
  /\ s.ofs[a] >= 0 /\ s.ofs[a] <= s.adj[a].upper - s.adj[a].page

LeastZoom(p) ==
  View!Higher(MinZoomFactor, View!Higher(View!Rounded(Unit, p["x"]), View!Rounded(Unit, p["y"])))

FitZoom(s) ==
  View!Clamp(View!ZoomFitScale(s.display, s.pixbuf, s.upscale), MinZoomFactor, MaxZoomFactor)

\* The window offers the zoom there is.
Offers(s) ==
  /\ s.minZoom = LeastZoom(s.pixbuf)
  /\ s.canZoomIn <=> s.zoom # MaxZoomFactor
  /\ s.canZoomOut <=> s.zoom # MinZoomFactor /\ s.zoom # s.minZoom

\* What the functions leave alone
SameView(s, r) ==
  /\ r.pixbuf = s.pixbuf /\ r.size = s.size /\ r.display = s.display
  /\ r.mapped = s.mapped /\ r.upscale = s.upscale

SameZoom(s, r) ==
  /\ r.mode = s.mode /\ r.zoom = s.zoom /\ r.minZoom = s.minZoom
  /\ r.canZoomIn = s.canZoomIn /\ r.canZoomOut = s.canZoomOut

SamePlace(s, r) == r.ofs = s.ofs /\ r.adj = s.adj /\ r.missed = s.missed

\* The picture is zoomed: what set_zoom leaves behind
Zoomed(s, r) ==
  /\ r \in Scrollers /\ SameView(s, r) /\ r.mode = "FREE" /\ r.missed = FALSE
  /\ s.pixbuf # View!NoSize /\ Offers(r) /\ r.zoom >= s.minZoom
  /\ \A a \in View!Axes : /\ r.bar[a] <=> Needs(r, r.size, a)
                          /\ r.bar[a] => BarTells(r, a)

\* The picture is scrolled: what scroll_to leaves behind
Moved(s, r) ==
  /\ r \in Scrollers /\ SameView(s, r) /\ SameZoom(s, r) /\ r.bar = s.bar
  /\ r.missed = s.missed

StillTells(s, r) == \A a \in View!Axes : s.bar[a] /\ BarTells(s, a) => BarTells(r, a)

\* The offset is read off the bars.
ReadOff(s, r, p) ==
  /\ r.adj = s.adj
  /\ \A a \in View!Axes : s.bar[a]
       => r.ofs[a] = View!Clamp(p[a], 0, s.adj[a].upper - s.adj[a].page)

LEMMA Shaped ==
  ASSUME ViewAssumption, NEW s \in Scrollers
  PROVE  /\ s.pixbuf \in [View!Axes -> Nat]
         /\ s.pixbuf # View!NoSize => s.pixbuf \in [View!Axes -> Nat \ {0}]
         /\ Scaled(s) \in [View!Axes -> Nat]
         /\ s.size \in [View!Axes -> Nat]
         /\ s.zoom \in Nat \ {0} /\ s.minZoom \in Nat \ {0}
<1>1. /\ s.pixbuf \in Shapes \cup {View!NoSize} /\ s.size \in Frames
      /\ s.zoom \in Zooms /\ s.minZoom \in Zooms
  BY DEF Scrollers
<1>2. /\ s.pixbuf \in [View!Axes -> Nat]
      /\ s.pixbuf # View!NoSize => s.pixbuf \in [View!Axes -> Nat \ {0}]
      /\ s.size \in [View!Axes -> Nat]
  BY <1>1 DEF ViewAssumption, View!NoSize
<1>3. s.zoom \in Nat \ {0} /\ s.minZoom \in Nat \ {0} /\ Unit \in Nat \ {0}
  BY <1>1 DEF Zooms, ViewAssumption
<1>4. ASSUME NEW a \in View!Axes PROVE View!Rounded(s.pixbuf[a] * s.zoom, Unit) \in Nat
  <2>1. PICK p \in Nat : p = s.pixbuf[a] * s.zoom
    BY <1>2, <1>3
  <2>2. View!Rounded(p, Unit) \in Nat
    BY <1>3, RoundedType
  <2> QED BY <2>1, <2>2
<1>5. Scaled(s) \in [View!Axes -> Nat]
  BY <1>4 DEF Scaled, View!ComputeScaledSize
<1> QED BY <1>2, <1>3, <1>5

LEMMA CheckIs ==
  ASSUME NEW s \in Scrollers, NEW size,
         NEW r, r = View!CheckScrollbarVisibility(s, size)
  PROVE  /\ r \in Scrollers /\ SameView(s, r) /\ SameZoom(s, r) /\ SamePlace(s, r)
         /\ \A a \in View!Axes : r.bar[a] <=> Needs(s, size, a)
<1>1. PICK b : b = [a \in View!Axes |-> Needs(s, size, a)]
  OBVIOUS
<1>2. b \in [View!Axes -> BOOLEAN] /\ \A a \in View!Axes : b[a] <=> Needs(s, size, a)
  BY <1>1, Zenon DEF Needs
<1>3. r = [s EXCEPT !.bar = b]
  BY <1>1, Zenon DEF View!CheckScrollbarVisibility, Needs, Scaled
<1>4. r \in Scrollers
  BY <1>2, <1>3 DEF Scrollers
<1>5. /\ SameView(s, r) /\ SameZoom(s, r) /\ SamePlace(s, r) /\ r.bar = b
  BY <1>3 DEF Scrollers, SameView, SameZoom, SamePlace
<1> QED BY <1>2, <1>4, <1>5, Zenon

LEMMA ClampType ==
  ASSUME NEW p \in Int, NEW low \in Int, NEW high \in Int, low <= high
  PROVE  /\ View!Clamp(p, low, high) \in low .. high
         /\ p \in low .. high => View!Clamp(p, low, high) = p
         /\ View!Clamp(p, low, high) = low \/ View!Clamp(p, low, high) <= p
BY DEF View!Clamp

LEMMA UpdateIs ==
  ASSUME ViewAssumption, NEW s \in Scrollers, NEW r, r = View!UpdateScrollbarValues(s)
  PROVE  /\ r \in Scrollers /\ SameView(s, r) /\ SameZoom(s, r) /\ r.bar = s.bar
         /\ r.missed = FALSE
         /\ \A a \in View!Axes : r.bar[a] => BarTells(r, a)
<1> DEFINE page(a) == View!Lower(Scaled(s)[a], s.display[a])
<1>0. /\ \A a \in View!Axes : /\ Scaled(s)[a] \in Nat /\ s.display[a] \in Int /\ s.ofs[a] \in Int
                              /\ s.bar[a] \in BOOLEAN /\ s.adj[a] \in Adjustments
  BY Shaped DEF Scrollers, Pairs
<1>1. \A a \in View!Axes : page(a) \in Int /\ page(a) <= Scaled(s)[a]
  BY <1>0 DEF View!Lower
<1> HIDE DEF page
<1>2. PICK o : o = [a \in View!Axes |->
                      IF s.bar[a] THEN View!Clamp(s.ofs[a], 0, Scaled(s)[a] - page(a))
                      ELSE s.ofs[a]]
  OBVIOUS
<1>3. PICK d : d = [a \in View!Axes |->
                      IF s.bar[a] THEN [value |-> o[a], upper |-> Scaled(s)[a], page |-> page(a)]
                      ELSE s.adj[a]]
  OBVIOUS
<1>4. r = [s EXCEPT !.ofs = o, !.missed = FALSE, !.adj = d]
  <2>1. r = [s EXCEPT !.ofs = o, !.missed = FALSE,
               !.adj = [a \in View!Axes |->
                          IF s.bar[a]
                          THEN [value |-> o[a], upper |-> Scaled(s)[a], page |-> page(a)]
                          ELSE @[a]]]
    BY <1>2, Zenon DEF View!UpdateScrollbarValues, Scaled, page
  <2> QED BY <1>3, <2>1, Zenon
<1>5. ASSUME NEW a \in View!Axes
      PROVE  o[a] \in Int /\ (s.bar[a] => o[a] >= 0 /\ o[a] <= Scaled(s)[a] - page(a))
  <2>1. CASE s.bar[a]
    <3>0. Scaled(s)[a] \in Nat /\ page(a) \in Int /\ page(a) <= Scaled(s)[a]
      BY <1>0, <1>1
    <3>1. PICK m \in Nat : m = Scaled(s)[a] - page(a)
      <4>1. Scaled(s)[a] - page(a) \in Nat
        BY <3>0
      <4> QED BY <4>1
    <3>2. o[a] = View!Clamp(s.ofs[a], 0, m)
      BY <1>2, <2>1, <3>1
    <3>3. View!Clamp(s.ofs[a], 0, m) \in 0 .. m
      BY <1>0 DEF View!Clamp
    <3> QED BY <3>1, <3>2, <3>3
  <2>2. CASE ~s.bar[a]
    BY <1>0, <1>2, <2>2
  <2> QED BY <2>1, <2>2
<1>6. o \in Pairs
  BY <1>2, <1>5, Zenon DEF Pairs
<1>7. d \in [View!Axes -> Adjustments]
  <2>1. ASSUME NEW a \in View!Axes PROVE d[a] \in Adjustments
    BY <1>0, <1>1, <1>3, <1>5 DEF Adjustments
  <2> QED BY <1>3, <2>1, Zenon
<1>8. r \in Scrollers
  BY <1>4, <1>6, <1>7 DEF Scrollers
<1>9. /\ SameView(s, r) /\ SameZoom(s, r) /\ r.bar = s.bar /\ r.missed = FALSE
      /\ r.ofs = o /\ r.adj = d
  BY <1>4 DEF Scrollers, SameView, SameZoom
<1>10. Scaled(r) = Scaled(s) /\ r.display = s.display
  BY <1>9 DEF SameView, SameZoom, Scaled, View!ComputeScaledSize
<1>11. ASSUME NEW a \in View!Axes, r.bar[a] PROVE BarTells(r, a)
  <2>1. d[a] = [value |-> o[a], upper |-> Scaled(s)[a], page |-> page(a)]
    BY <1>3, <1>9, <1>11
  <2> QED BY <1>5, <1>9, <1>10, <1>11, <2>1 DEF BarTells, page
<1> QED BY <1>8, <1>9, <1>11

LEMMA LeastZoomType ==
  ASSUME ViewAssumption, NEW p \in [View!Axes -> Nat \ {0}]
  PROVE  LeastZoom(p) \in Zooms
<1>1. ASSUME NEW n \in Nat \ {0} PROVE View!Rounded(Unit, n) \in Int /\ View!Rounded(Unit, n) <= Unit
  <2>1. 1 * Unit <= n * Unit
    BY Products DEF ViewAssumption
  <2>2. n * Unit = Unit * n /\ 1 * Unit = Unit /\ Unit * n \in Nat
    BY DEF ViewAssumption
  <2> QED BY <2>1, <2>2, RoundedBelow, RoundedType DEF ViewAssumption
<1>2. /\ p["x"] \in Nat \ {0} /\ p["y"] \in Nat \ {0}
  BY AxesAre
<1> QED BY <1>1, <1>2 DEF LeastZoom, View!Higher, Zooms, ViewAssumption

LEMMA ZoomChangedIs ==
  ASSUME ViewAssumption, NEW s \in Scrollers, s.pixbuf # View!NoSize,
         NEW r, r = View!ZoomChanged(s)
  PROVE  /\ r \in Scrollers /\ SameView(s, r) /\ SamePlace(s, r) /\ Offers(r)
         /\ r.mode = s.mode /\ r.zoom = s.zoom /\ r.bar = s.bar
<1>1. PICK least \in Zooms : least = LeastZoom(s.pixbuf)
  BY LeastZoomType, Shaped
<1>2. PICK more \in BOOLEAN : more <=> s.zoom # MaxZoomFactor
  OBVIOUS
<1>3. PICK less \in BOOLEAN : less <=> s.zoom # MinZoomFactor /\ s.zoom # least
  OBVIOUS
<1>4. PICK t : t = [s EXCEPT !.minZoom = least]
  OBVIOUS
<1>5. t = View!SetMinimumZoomFactor(s)
  BY <1>1, <1>4, Zenon DEF View!SetMinimumZoomFactor, LeastZoom
<1>6. t \in Scrollers /\ t.zoom = s.zoom /\ t.minZoom = least
  BY <1>4 DEF Scrollers
<1>7. r = [t EXCEPT !.canZoomIn = t.zoom # MaxZoomFactor,
                    !.canZoomOut = t.zoom \notin {MinZoomFactor, t.minZoom}]
  BY <1>5, Zenon DEF View!ZoomChanged
<1>8. (t.zoom # MaxZoomFactor) = more
  BY <1>2, <1>6
<1>9. (t.zoom \notin {MinZoomFactor, t.minZoom}) = less
  BY <1>3, <1>6
<1>10. r = [t EXCEPT !.canZoomIn = more, !.canZoomOut = less]
  BY <1>7, <1>8, <1>9, Zenon
<1>11. r \in Scrollers
  BY <1>6, <1>10 DEF Scrollers
<1>12. /\ SameView(s, r) /\ SamePlace(s, r)
       /\ r.mode = s.mode /\ r.zoom = s.zoom /\ r.bar = s.bar
       /\ r.minZoom = least /\ r.canZoomIn = more /\ r.canZoomOut = less
  BY <1>4, <1>10 DEF Scrollers, SameView, SamePlace
<1>13. Offers(r)
  BY <1>1, <1>2, <1>3, <1>12 DEF Offers, SameView
<1> QED BY <1>11, <1>12, <1>13

\* The picture is fitted: what set_zoom_fit leaves behind
LEMMA SetZoomFitIs ==
  ASSUME ViewAssumption, NEW s \in Scrollers, NEW r, r = View!SetZoomFit(s)
  PROVE  /\ r \in Scrollers /\ SameView(s, r) /\ r.mode = "FIT"
         /\ r.bar = s.bar /\ r.missed = s.missed
         /\ s.mapped /\ s.pixbuf # View!NoSize => r.zoom = FitZoom(r) /\ Offers(r)
<1>1. PICK t : t = [s EXCEPT !.mode = "FIT"]
  OBVIOUS
<1>2. /\ t \in Scrollers /\ SameView(s, t) /\ t.mode = "FIT"
      /\ t.bar = s.bar /\ t.missed = s.missed
  BY <1>1 DEF Scrollers, SameView
<1>3. CASE ~s.mapped \/ s.pixbuf = View!NoSize
  <2>1. r = t
    BY <1>1, <1>3 DEF View!SetZoomFit
  <2> QED BY <1>2, <1>3, <2>1
<1>4. CASE s.mapped /\ s.pixbuf # View!NoSize
  <2>1. PICK zoom \in Zooms : zoom = FitZoom(s)
    <3>1. /\ s.display \in Pairs /\ s.pixbuf \in [View!Axes -> Nat \ {0}] /\ s.upscale \in BOOLEAN
      BY <1>4, Shaped DEF Scrollers
    <3>2. View!ZoomFitScale(s.display, s.pixbuf, s.upscale) \in Int
      BY <3>1, FitScaleFits
    <3>3. MinZoomFactor \in Int /\ MaxZoomFactor \in Int /\ MinZoomFactor <= MaxZoomFactor
      BY DEF ViewAssumption
    <3> QED BY <3>2, <3>3, ClampType DEF FitZoom, Zooms
  <2>2. View!NoSize \in Pairs
    BY DEF View!NoSize, Pairs
  <2>3. PICK u : u = [t EXCEPT !.zoom = zoom, !.ofs = View!NoSize]
    OBVIOUS
  <2>4. u \in Scrollers /\ SameView(s, u) /\ u.mode = "FIT" /\ u.zoom = zoom
        /\ u.bar = s.bar /\ u.missed = s.missed
    BY <1>2, <2>2, <2>3 DEF Scrollers, SameView
  <2>5. r = View!ZoomChanged(u)
    BY <1>1, <1>4, <2>1, <2>3 DEF View!SetZoomFit, FitZoom
  <2>6. /\ r \in Scrollers /\ SameView(u, r) /\ Offers(r) /\ r.mode = "FIT"
        /\ r.zoom = zoom /\ r.bar = s.bar /\ r.missed = s.missed
    BY <1>4, <2>4, <2>5, ZoomChangedIs DEF SameView, SamePlace
  <2>7. SameView(s, r)
    BY <2>4, <2>6 DEF SameView
  <2>8. FitZoom(r) = FitZoom(s)
    BY <2>7 DEF SameView, FitZoom
  <2> QED BY <2>1, <2>6, <2>7, <2>8
<1> QED BY <1>3, <1>4

LEMMA CenterType ==
  ASSUME ViewAssumption, NEW s \in Scrollers, NEW zoom \in Zooms, NEW anchor \in Pairs
  PROVE  View!ComputeCenterZoomOffsets(s, zoom, anchor) \in Pairs
<1>0. s.zoom \in Nat \ {0} /\ zoom \in Nat \ {0} /\ Scaled(s) \in [View!Axes -> Nat]
  BY Shaped DEF Zooms, ViewAssumption
<1> DEFINE centred(a) ==
      IF Scaled(s)[a] < s.display[a]
      THEN View!Rounded(anchor[a] * (Scaled(s)[a] * zoom - s.display[a] * s.zoom),
                        2 * s.display[a] * s.zoom)
      ELSE View!Rounded((2 * s.ofs[a] + anchor[a]) * zoom - anchor[a] * s.zoom, 2 * s.zoom)
<1>1. ASSUME NEW a \in View!Axes PROVE centred(a) \in Int
  <2>0. /\ Scaled(s)[a] \in Nat /\ s.display[a] \in Int /\ s.ofs[a] \in Int /\ anchor[a] \in Int
    BY <1>0 DEF Scrollers, Pairs
  <2>1. CASE Scaled(s)[a] < s.display[a]
    <3>1. PICK p \in Int : p = anchor[a] * (Scaled(s)[a] * zoom - s.display[a] * s.zoom)
      BY <1>0, <2>0
    <3>2. PICK d \in Nat \ {0} : d = s.display[a]
      BY <2>0, <2>1
    <3>3. PICK q \in Nat \ {0} : q = 2 * s.display[a] * s.zoom
      <4>1. PICK z \in Nat \ {0} : z = s.zoom
        BY <1>0
      <4>2. d * z \in Nat /\ d * z # 0
        OBVIOUS
      <4>3. 2 * d * z = 2 * (d * z)
        OBVIOUS
      <4> QED BY <3>2, <4>1, <4>2, <4>3
    <3>4. centred(a) = View!Rounded(p, q)
      BY <2>1, <3>1, <3>3
    <3> HIDE DEF centred
    <3> QED BY <3>4, RoundedType
  <2>2. CASE ~(Scaled(s)[a] < s.display[a])
    <3>1. PICK p \in Int : p = (2 * s.ofs[a] + anchor[a]) * zoom - anchor[a] * s.zoom
      BY <1>0, <2>0
    <3>2. PICK q \in Nat \ {0} : q = 2 * s.zoom
      BY <1>0
    <3>3. centred(a) = View!Rounded(p, q)
      BY <2>2, <3>1, <3>2
    <3> HIDE DEF centred
    <3> QED BY <3>3, RoundedType
  <2> QED BY <2>1, <2>2
<1>2. View!ComputeCenterZoomOffsets(s, zoom, anchor)
        = [a \in View!Axes |-> IF View!ComputeScaledSize(s, zoom)[a] < s.display[a] THEN 0
                               ELSE View!Higher(0, centred(a))]
  BY Zenon DEF View!ComputeCenterZoomOffsets, Scaled
<1> HIDE DEF centred
<1>3. \A a \in View!Axes : View!Higher(0, centred(a)) \in Int
  BY <1>1 DEF View!Higher
<1> QED BY <1>2, <1>3 DEF Pairs

LEMMA SetZoomIs ==
  ASSUME ViewAssumption, NEW s \in Scrollers, NEW factor \in Int, NEW anchor \in Pairs,
         NEW r, r = View!SetZoom(s, factor, anchor)
  PROVE  r = s \/ Zoomed(s, r)
<1>1. PICK zoom \in Zooms : zoom = View!Clamp(factor, MinZoomFactor, MaxZoomFactor)
  <2>1. MinZoomFactor \in Int /\ MaxZoomFactor \in Int /\ MinZoomFactor <= MaxZoomFactor
    BY DEF ViewAssumption
  <2> QED BY <2>1, ClampType DEF Zooms
<1>2. PICK o \in Pairs : o = View!ComputeCenterZoomOffsets(s, zoom, anchor)
  BY CenterType
<1>3. PICK z \in Zooms : z = View!Higher(zoom, s.minZoom) /\ z >= s.minZoom
  <2>1. s.minZoom \in Zooms /\ zoom \in Nat /\ s.minZoom \in Nat
    BY Shaped DEF Zooms, Scrollers, ViewAssumption
  <2> QED BY <2>1 DEF View!Higher
<1>4. PICK t : t = [s EXCEPT !.mode = "FREE", !.ofs = o, !.zoom = z]
  OBVIOUS
<1>5. t \in Scrollers /\ SameView(s, t) /\ t.mode = "FREE" /\ t.zoom = z
  BY <1>4 DEF Scrollers, SameView
<1>6. PICK u : u = View!CheckScrollbarVisibility(t, s.size)
  OBVIOUS
<1>7. PICK w : w = View!UpdateScrollbarValues(u)
  OBVIOUS
<1>8. \/ r = s
      \/ s.pixbuf # View!NoSize /\ r = View!ZoomChanged(w)
  BY <1>1, <1>2, <1>3, <1>4, <1>6, <1>7, Zenon DEF View!SetZoom
<1>9. CASE s.pixbuf # View!NoSize /\ r = View!ZoomChanged(w)
  <2>1. /\ u \in Scrollers /\ SameView(t, u) /\ SameZoom(t, u)
        /\ \A a \in View!Axes : u.bar[a] <=> Needs(t, s.size, a)
    BY <1>5, <1>6, CheckIs
  <2>2. /\ w \in Scrollers /\ SameView(u, w) /\ SameZoom(u, w) /\ w.bar = u.bar
        /\ w.missed = FALSE /\ \A a \in View!Axes : w.bar[a] => BarTells(w, a)
    BY <1>7, <2>1, UpdateIs
  <2>3. w.pixbuf # View!NoSize
    BY <1>5, <1>9, <2>1, <2>2 DEF SameView
  <2>4. /\ r \in Scrollers /\ SameView(w, r) /\ SamePlace(w, r) /\ Offers(r)
        /\ r.mode = w.mode /\ r.zoom = w.zoom /\ r.bar = w.bar
    BY <1>9, <2>2, <2>3, ZoomChangedIs
  <2>5. /\ SameView(s, r) /\ r.mode = "FREE" /\ r.zoom = z /\ r.missed = FALSE /\ r.size = s.size
    BY <1>5, <2>1, <2>2, <2>4 DEF SameView, SameZoom, SamePlace
  <2>6. Scaled(r) = Scaled(t) /\ Scaled(r) = Scaled(w)
    BY <1>5, <2>1, <2>2, <2>4
       DEF SameView, SameZoom, Scaled, View!ComputeScaledSize
  <2>7. ASSUME NEW a \in View!Axes PROVE r.bar[a] <=> Needs(r, r.size, a)
    <3>1. r.bar = u.bar /\ r.mode = t.mode /\ r.size = s.size
      BY <1>5, <2>2, <2>4, <2>5
    <3>2. Needs(r, r.size, a) <=> Needs(t, s.size, a)
      BY <2>6, <3>1 DEF Needs
    <3> QED BY <2>1, <3>1, <3>2, Zenon
  <2>8. ASSUME NEW a \in View!Axes, r.bar[a] PROVE BarTells(r, a)
    <3>1. BarTells(w, a)
      BY <2>2, <2>4, <2>8
    <3>2. r.adj = w.adj /\ r.ofs = w.ofs /\ r.display = w.display
      BY <2>4 DEF SameView, SamePlace
    <3> QED BY <2>6, <3>1, <3>2 DEF BarTells
  <2>9. Zoomed(s, r)
    BY <1>3, <1>9, <2>4, <2>5, <2>7, <2>8 DEF Zoomed
  <2> QED BY <2>9
<1> QED BY <1>8, <1>9

LEMMA ScrollToIs ==
  ASSUME NEW s \in Scrollers, NEW p \in Pairs, NEW adjust \in BOOLEAN,
         NEW r, r = View!ScrollTo(s, p, adjust)
  PROVE  /\ Moved(s, r)
         /\ adjust => StillTells(s, r)
         /\ ~adjust => ReadOff(s, r, p)
<1> DEFINE top(a) == s.adj[a].upper - s.adj[a].page
<1>0. \A a \in View!Axes : /\ s.adj[a] \in Adjustments /\ s.ofs[a] \in Int /\ p[a] \in Int
                           /\ s.bar[a] \in BOOLEAN /\ top(a) \in Int
  BY DEF Scrollers, Pairs, Adjustments
<1>1. PICK to : to = [a \in View!Axes |->
                        IF s.bar[a] THEN View!Clamp(p[a], 0, s.adj[a].upper - s.adj[a].page)
                        ELSE p[a]]
  OBVIOUS
<1> DEFINE value(a) == View!Clamp(to[a], 0, View!Higher(0, s.adj[a].upper - s.adj[a].page))
<1>2. PICK d : d = [a \in View!Axes |->
                      IF adjust THEN [s.adj[a] EXCEPT !.value = value(a)] ELSE s.adj[a]]
  OBVIOUS
<1>3. \/ r = s /\ \A a \in View!Axes : s.bar[a] => to[a] = s.ofs[a]
      \/ r = [s EXCEPT !.ofs = to, !.adj = d]
  BY <1>1, <1>2, Zenon DEF View!ScrollTo
<1>4. ASSUME NEW a \in View!Axes
      PROVE  /\ to[a] \in Int /\ value(a) \in Int
             /\ top(a) >= 0 /\ s.bar[a]
                  => to[a] >= 0 /\ to[a] <= top(a) /\ value(a) = to[a]
  <2>1. PICK m \in Int : m = top(a)
    BY <1>0
  <2>2. to[a] = IF s.bar[a] THEN View!Clamp(p[a], 0, m) ELSE p[a]
    BY <1>1, <2>1
  <2>3. to[a] \in Int /\ (m >= 0 /\ s.bar[a] => to[a] >= 0 /\ to[a] <= m)
    BY <1>0, <2>2 DEF View!Clamp
  <2>4. value(a) = View!Clamp(to[a], 0, View!Higher(0, m))
    BY <2>1
  <2> HIDE DEF value, top
  <2>5. value(a) \in Int /\ (to[a] >= 0 /\ to[a] <= m => value(a) = to[a])
    BY <2>3, <2>4 DEF View!Clamp, View!Higher
  <2> QED BY <2>1, <2>3, <2>5
<1> HIDE DEF value, top
<1>5. ASSUME NEW a \in View!Axes
      PROVE  /\ d[a] \in Adjustments
             /\ adjust => /\ d[a].value = value(a) /\ d[a].upper = s.adj[a].upper
                          /\ d[a].page = s.adj[a].page
             /\ ~adjust => d[a] = s.adj[a]
  BY <1>0, <1>2, <1>4 DEF Adjustments
<1>6. to \in Pairs
  BY <1>1, <1>4, Zenon DEF Pairs
<1>7. d \in [View!Axes -> Adjustments]
  BY <1>2, <1>5, Zenon
<1>8. CASE r = [s EXCEPT !.ofs = to, !.adj = d]
  <2>1. r \in Scrollers
    BY <1>6, <1>7, <1>8 DEF Scrollers
  <2>2. /\ SameView(s, r) /\ SameZoom(s, r) /\ r.bar = s.bar /\ r.ofs = to /\ r.adj = d
        /\ r.missed = s.missed
    BY <1>8 DEF Scrollers, SameView, SameZoom
  <2>3. Scaled(r) = Scaled(s) /\ r.display = s.display
    BY <2>2 DEF SameView, SameZoom, Scaled, View!ComputeScaledSize
  <2>4. ASSUME adjust, NEW a \in View!Axes, s.bar[a], BarTells(s, a) PROVE BarTells(r, a)
    <3>1. top(a) >= 0
      BY <1>0, <2>4 DEF BarTells, top
    <3> QED BY <1>0, <1>4, <1>5, <2>2, <2>3, <2>4, <3>1 DEF BarTells, top
  <2>5. ASSUME ~adjust PROVE ReadOff(s, r, p)
    <3>1. s.adj \in [View!Axes -> Adjustments]
      BY DEF Scrollers
    <3> QED BY <1>1, <1>2, <2>2, <2>5, <3>1 DEF ReadOff
  <2> QED BY <2>1, <2>2, <2>4, <2>5 DEF Moved, StillTells
<1>9. CASE r = s /\ \A a \in View!Axes : s.bar[a] => to[a] = s.ofs[a]
  BY <1>1, <1>9 DEF SameView, SameZoom, Moved, StillTells, ReadOff
<1> QED BY <1>3, <1>8, <1>9
-----------------------------------------------------------------------------
(* The layout of the scroll view: the invariant *)

Fitted(s, lay) ==
  s.mode = "FIT" =>
    /\ \A a \in View!Axes : ~s.bar[a]
    /\ s.mapped /\ s.pixbuf # View!NoSize /\ "configure" \notin lay => s.zoom = FitZoom(s)

NeededBars(s) ==
  s.mode = "FREE" /\ s.pixbuf # View!NoSize =>
    \A a \in View!Axes : s.bar[a] <=> Needs(s, s.size, a)

Arranged(s, lay) ==
  "resize" \notin lay =>
    /\ \A a \in View!Axes :
         s.display[a] = s.size[a] - IF s.bar[View!Other(a)] THEN BarWidth ELSE 0
    /\ NeededBars(s)

BarsTell(s, lay) ==
  "configure" \notin lay /\ ~s.missed /\ s.pixbuf # View!NoSize =>
    \A a \in View!Axes : s.bar[a] => BarTells(s, a)

Offered(s) ==
  s.mapped /\ s.pixbuf # View!NoSize =>
    Offers(s) /\ (s.mode = "FREE" => s.zoom >= s.minZoom)

ScrollerGood(s, lay) ==
  /\ s \in Scrollers /\ lay \subseteq {"resize", "configure"}
  /\ Fitted(s, lay) /\ Arranged(s, lay) /\ BarsTell(s, lay) /\ Offered(s)

ScrollerInv == ScrollerGood(scroller, layout)

\* What an event may make of the scroll view
Follows(s, t, lay) ==
  /\ t \in Scrollers /\ t.size = s.size /\ t.display = s.display
  /\ Fitted(t, lay) /\ BarsTell(t, lay) /\ Offered(t)
  /\ t.bar = s.bar /\ "resize" \notin lay => NeededBars(t)

LEMMA FollowsGood ==
  ASSUME NEW s, NEW t, NEW lay, lay \subseteq {"resize", "configure"}, Arranged(s, lay),
         Follows(s, t, lay), NEW new, new = lay \cup IF t.bar # s.bar THEN {"resize"} ELSE {}
  PROVE  ScrollerGood(t, new)
<1>1. new \subseteq {"resize", "configure"} /\ ("configure" \in new <=> "configure" \in lay)
  OBVIOUS
<1>2. Fitted(t, new) /\ BarsTell(t, new)
  BY <1>1 DEF Follows, Fitted, BarsTell
<1>3. Arranged(t, new)
  <2>1. "resize" \notin new => t.bar = s.bar /\ "resize" \notin lay
    OBVIOUS
  <2> QED BY <2>1 DEF Arranged, Follows
<1> QED BY <1>1, <1>2, <1>3 DEF ScrollerGood, Follows

LEMMA SameFollows ==
  ASSUME NEW s, NEW lay, ScrollerGood(s, lay)
  PROVE  Follows(s, s, lay)
BY DEF ScrollerGood, Follows, Arranged

LEMMA ZoomFollows ==
  ASSUME ViewAssumption, NEW s, NEW lay, ScrollerGood(s, lay),
         NEW factor \in Int, NEW anchor \in Pairs, NEW r, r = View!SetZoom(s, factor, anchor)
  PROVE  Follows(s, r, lay)
<1>1. s \in Scrollers
  BY DEF ScrollerGood
<1>2. CASE r = s
  BY <1>2, SameFollows
<1>3. CASE r # s
  <2>0. Zoomed(s, r)
    BY <1>1, <1>3, SetZoomIs
  <2>1. /\ r \in Scrollers /\ SameView(s, r) /\ r.mode = "FREE" /\ r.missed = FALSE
        /\ s.pixbuf # View!NoSize /\ Offers(r) /\ r.zoom >= s.minZoom
        /\ \A a \in View!Axes : /\ r.bar[a] <=> Needs(r, r.size, a)
                                /\ r.bar[a] => BarTells(r, a)
    BY <2>0, Zenon DEF Zoomed
  <2>2. Fitted(r, lay) /\ BarsTell(r, lay) /\ NeededBars(r)
    BY <2>1 DEF Fitted, BarsTell, NeededBars
  <2>3. Offered(r)
    <3>1. s.mapped /\ s.pixbuf # View!NoSize => s.minZoom = r.minZoom
      BY <2>1 DEF ScrollerGood, Offered, Offers, SameView
    <3> QED BY <2>1, <3>1 DEF Offered, SameView
  <2> QED BY <2>1, <2>2, <2>3 DEF Follows, SameView
<1> QED BY <1>2, <1>3

LEMMA FitFollows ==
  ASSUME ViewAssumption, NEW s \in Scrollers, NEW size, NEW lay,
         NEW t, t = View!CheckScrollbarVisibility(View!SetZoomFit(s), size)
  PROVE  Follows(s, t, lay) /\ t.mode = "FIT"
<1>1. PICK r : r = View!SetZoomFit(s)
  OBVIOUS
<1>2. /\ r \in Scrollers /\ SameView(s, r) /\ r.mode = "FIT"
      /\ s.mapped /\ s.pixbuf # View!NoSize => r.zoom = FitZoom(r) /\ Offers(r)
  BY <1>1, SetZoomFitIs
<1>3. /\ t \in Scrollers /\ SameView(r, t) /\ SameZoom(r, t)
      /\ \A a \in View!Axes : t.bar[a] <=> Needs(r, size, a)
  BY <1>1, <1>2, CheckIs
<1>4. t.mode = "FIT" /\ SameView(s, t) /\ \A a \in View!Axes : ~t.bar[a]
  BY <1>2, <1>3 DEF SameView, SameZoom, Needs
<1>5. FitZoom(t) = FitZoom(r)
  BY <1>3 DEF SameView, FitZoom
<1>6. Fitted(t, lay) /\ BarsTell(t, lay) /\ NeededBars(t)
  BY <1>2, <1>3, <1>4, <1>5 DEF Fitted, BarsTell, NeededBars, SameView, SameZoom
<1>7. Offered(t)
  BY <1>2, <1>3, <1>4 DEF Offered, Offers, SameView, SameZoom
<1> QED BY <1>3, <1>4, <1>6, <1>7 DEF Follows, SameView

\* The offset has moved, nothing else.
LEMMA MovedFollows ==
  ASSUME NEW s, NEW lay, ScrollerGood(s, lay), NEW r, Moved(s, r), StillTells(s, r)
  PROVE  Follows(s, r, lay)
<1>0. /\ r \in Scrollers /\ SameView(s, r) /\ SameZoom(s, r) /\ r.bar = s.bar
      /\ r.missed = s.missed
  BY DEF Moved
<1>1. /\ s \in Scrollers /\ Fitted(s, lay) /\ Arranged(s, lay) /\ BarsTell(s, lay) /\ Offered(s)
  BY DEF ScrollerGood
<1>2. FitZoom(r) = FitZoom(s) /\ Scaled(r) = Scaled(s)
  BY <1>0 DEF SameView, SameZoom, FitZoom, Scaled, View!ComputeScaledSize
<1>3. Fitted(r, lay)
  BY <1>0, <1>1, <1>2 DEF Fitted, SameView, SameZoom
<1>4. BarsTell(r, lay)
  BY <1>0, <1>1 DEF BarsTell, SameView, StillTells
<1>5. Offered(r)
  BY <1>0, <1>1 DEF Offered, Offers, SameView, SameZoom
<1>6. "resize" \notin lay => NeededBars(r)
  BY <1>0, <1>1, <1>2 DEF Arranged, NeededBars, Needs, SameView, SameZoom
<1> QED BY <1>0, <1>3, <1>4, <1>5, <1>6 DEF Follows, SameView

LEMMA ScrollFollows ==
  ASSUME NEW s, NEW lay, ScrollerGood(s, lay), NEW p \in Pairs,
         NEW r, r = View!ScrollTo(s, p, TRUE)
  PROVE  Follows(s, r, lay) /\ Moved(s, r)
<1>1. s \in Scrollers
  BY DEF ScrollerGood
<1>2. Moved(s, r) /\ StillTells(s, r)
  BY <1>1, ScrollToIs
<1> QED BY <1>2, MovedFollows

-----------------------------------------------------------------------------
(* The layout of the scroll view: the steps *)

LEMMA ViewBecomes ==
  ASSUME ScrollerInv, NEW t, Follows(scroller, t, layout), View!Becomes(t)
  PROVE  ScrollerInv'
<1>1. /\ scroller' = t
      /\ layout' = layout \cup IF t.bar # scroller.bar THEN {"resize"} ELSE {}
  BY DEF View!Becomes
<1>2. layout \subseteq {"resize", "configure"} /\ Arranged(scroller, layout)
  BY DEF ScrollerInv, ScrollerGood
<1>3. ScrollerGood(t, layout')
  BY <1>1, <1>2, FollowsGood
<1> QED BY <1>1, <1>3 DEF ScrollerInv

LEMMA ViewStateIs ==
  ASSUME ViewAssumption, ScrollerInv
  PROVE  /\ scroller \in Scrollers /\ layout \subseteq {"resize", "configure"}
         /\ scroller.ofs \in Pairs /\ scroller.display \in Pairs /\ scroller.grip \in Pairs
         /\ scroller.zoom \in Nat \ {0} /\ scroller.size \in Frames
         /\ Scaled(scroller) \in [View!Axes -> Nat] /\ ScrollerGood(scroller, layout)
<1>1. scroller \in Scrollers /\ layout \subseteq {"resize", "configure"}
  BY DEF ScrollerInv, ScrollerGood
<1>2. scroller.zoom \in Nat \ {0} /\ Scaled(scroller) \in [View!Axes -> Nat]
  BY <1>1, Shaped
<1> QED BY <1>1, <1>2 DEF Scrollers, ScrollerInv

LEMMA ZoomStep ==
  ASSUME ViewAssumption, ScrollerInv, NEW factor \in Int, NEW anchor \in Pairs,
         View!Becomes(View!SetZoom(scroller, factor, anchor))
  PROVE  ScrollerInv'
<1>1. PICK t : t = View!SetZoom(scroller, factor, anchor)
  OBVIOUS
<1>2. Follows(scroller, t, layout)
  BY <1>1, ViewStateIs, ZoomFollows
<1> QED BY <1>1, <1>2, ViewBecomes

LEMMA ScrollStep ==
  ASSUME ViewAssumption, ScrollerInv, NEW p \in Pairs,
         View!Becomes(View!ScrollTo(scroller, p, TRUE))
  PROVE  ScrollerInv'
<1>1. PICK t : t = View!ScrollTo(scroller, p, TRUE)
  OBVIOUS
<1>2. Follows(scroller, t, layout)
  BY <1>1, ViewStateIs, ScrollFollows
<1> QED BY <1>1, <1>2, ViewBecomes

LEMMA ScrollByStep ==
  ASSUME ViewAssumption, ScrollerInv, NEW p \in Pairs, View!Becomes(View!ScrollBy(scroller, p))
  PROVE  ScrollerInv'
<1>1. PICK q : q = [a \in View!Axes |-> scroller.ofs[a] + p[a]]
  OBVIOUS
<1>2. q \in Pairs
  BY <1>1, ViewStateIs DEF Pairs
<1>3. View!ScrollBy(scroller, p) = View!ScrollTo(scroller, q, TRUE)
  BY <1>1 DEF View!ScrollBy
<1> QED BY <1>2, <1>3, ScrollStep

\* The picture, or whether there is one to be seen, changes: then it is fitted.
LEMMA FitStep ==
  ASSUME ViewAssumption, ScrollerInv, NEW s \in Scrollers,
         s.size = scroller.size, s.display = scroller.display, s.bar = scroller.bar,
         View!Becomes(View!CheckScrollbarVisibility(View!SetZoomFit(s), scroller.size))
  PROVE  ScrollerInv'
<1>1. PICK t : t = View!CheckScrollbarVisibility(View!SetZoomFit(s), scroller.size)
  OBVIOUS
<1>2. Follows(s, t, layout)
  BY <1>1, FitFollows
<1>3. Follows(scroller, t, layout)
  BY <1>2 DEF Follows
<1> QED BY <1>1, <1>3, ViewBecomes

LEMMA PointsAre ==
  ASSUME ViewAssumption, NEW p \in View!Points
  PROVE  p \in Pairs /\ View!Twice(p) \in Pairs
<1>1. PICK c \in Pointers : p = [a \in View!Axes |-> c]
  BY DEF View!Points
<1>2. c \in Int
  BY DEF ViewAssumption
<1> QED BY <1>1, <1>2 DEF Pairs, View!Twice

\* ZoomIn, ZoomOut, ZoomNormal and ZoomAt
LEMMA ZoomSteps ==
  ASSUME ViewAssumption, ScrollerInv,
         View!ZoomIn \/ View!ZoomOut \/ View!ZoomNormal \/ \E p \in View!Points : View!ZoomAt(p)
  PROVE  ScrollerInv'
<1>1. View!Middle(scroller) \in Pairs
  BY ViewStateIs DEF View!Middle
<1>2. scroller.zoom \in Nat \ {0}
  BY ViewStateIs
<1>3. CASE View!ZoomIn
  <2>1. PICK S : S = {z \in Levels : z > scroller.zoom}
    OBVIOUS
  <2>2. PICK factor : factor = IF S = {} THEN scroller.zoom
                               ELSE CHOOSE z \in S : \A y \in S : z <= y
    OBVIOUS
  <2>3. S # {} => (CHOOSE z \in S : \A y \in S : z <= y) \in Int
    BY <1>2, <2>1, NextLevels
  <2>4. factor \in Int
    BY <1>2, <2>2, <2>3
  <2>5. View!Becomes(View!SetZoom(scroller, factor, View!Middle(scroller)))
    BY <1>3, <2>1, <2>2, Zenon DEF View!ZoomIn
  <2> QED BY <1>1, <2>4, <2>5, ZoomStep
<1>4. CASE View!ZoomOut
  <2>1. PICK S : S = {z \in Levels : z < scroller.zoom}
    OBVIOUS
  <2>2. PICK factor : factor = IF S = {} THEN scroller.zoom
                               ELSE CHOOSE z \in S : \A y \in S : z >= y
    OBVIOUS
  <2>3. S # {} => (CHOOSE z \in S : \A y \in S : z >= y) \in Int
    BY <1>2, <2>1, NextLevels
  <2>4. factor \in Int
    BY <1>2, <2>2, <2>3
  <2>5. View!Becomes(View!SetZoom(scroller, factor, View!Middle(scroller)))
    BY <1>4, <2>1, <2>2, Zenon DEF View!ZoomOut
  <2> QED BY <1>1, <2>4, <2>5, ZoomStep
<1>5. CASE View!ZoomNormal
  <2>1. Unit \in Int
    BY DEF ViewAssumption
  <2>2. View!Becomes(View!SetZoom(scroller, Unit, View!Middle(scroller)))
    BY <1>5 DEF View!ZoomNormal
  <2> QED BY <1>1, <2>1, <2>2, ZoomStep
<1>6. ASSUME NEW p \in View!Points, View!ZoomAt(p) PROVE ScrollerInv'
  <2>1. scroller.zoom * Multiplier \in Int /\ scroller.zoom \div Multiplier \in Int
    BY <1>2 DEF ViewAssumption
  <2>2. PICK zoom \in {scroller.zoom * Multiplier, scroller.zoom \div Multiplier} :
          View!Becomes(View!SetZoom(scroller, zoom, View!Twice(p)))
    BY <1>6 DEF View!ZoomAt
  <2>3. zoom \in Int /\ View!Twice(p) \in Pairs
    BY <2>1, PointsAre
  <2> QED BY <2>2, <2>3, ZoomStep
<1> QED BY <1>3, <1>4, <1>5, <1>6

LEMMA AlongAxis ==
  ASSUME NEW a \in View!Axes, NEW d \in Int
  PROVE  [View!NoSize EXCEPT ![a] = d] \in Pairs
BY DEF View!NoSize, Pairs

\* Scroll, Paging and the drag
LEMMA ScrollSteps ==
  ASSUME ViewAssumption, ScrollerInv,
         \/ \E a \in View!Axes : View!Scroll(a) \/ View!Paging(a)
         \/ \E p \in View!Points : View!ButtonPress(p) \/ View!Motion(p) \/ View!ButtonRelease(p)
  PROVE  ScrollerInv'
<1>1. ASSUME NEW a \in View!Axes, View!Scroll(a) PROVE ScrollerInv'
  <2>1. PICK d \in {-Stride, Stride} :
          View!Becomes(View!ScrollBy(scroller, [View!NoSize EXCEPT ![a] = d]))
    BY <1>1 DEF View!Scroll
  <2>2. d \in Int
    BY DEF ViewAssumption
  <2> QED BY <2>1, <2>2, AlongAxis, ScrollByStep
<1>2. ASSUME NEW a \in View!Axes, View!Paging(a) PROVE ScrollerInv'
  <2>1. PICK d \in Int : d = (scroller.display[a] * 3) \div 4
    BY ViewStateIs DEF Pairs
  <2>2. PICK p \in {d, -d} :
          View!Becomes(View!ScrollBy(scroller, [View!NoSize EXCEPT ![a] = p]))
    BY <1>2, <2>1 DEF View!Paging
  <2>3. p \in Int
    OBVIOUS
  <2> QED BY <2>2, <2>3, AlongAxis, ScrollByStep
<1>3. ASSUME NEW p \in View!Points PROVE [a \in View!Axes |-> scroller.grip[a] - p[a]] \in Pairs
  BY ViewStateIs, PointsAre DEF Pairs
<1>4. ASSUME NEW p \in View!Points, View!Motion(p) PROVE ScrollerInv'
  <2>1. View!Becomes(View!ScrollTo(scroller, [a \in View!Axes |-> scroller.grip[a] - p[a]], TRUE))
    BY <1>4 DEF View!Motion, View!DragTo
  <2> QED BY <1>3, <2>1, ScrollStep
<1>5. ASSUME NEW r, NEW t, Moved(scroller, r), StillTells(scroller, r), View!Becomes(t),
             NEW drag \in BOOLEAN, NEW g \in Pairs, t = [r EXCEPT !.dragging = drag, !.grip = g]
      PROVE  ScrollerInv'
  <2>1. r \in Scrollers
    BY <1>5 DEF Moved
  <2>2. /\ t \in Scrollers /\ SameView(r, t) /\ SameZoom(r, t) /\ t.bar = r.bar
        /\ t.missed = r.missed /\ t.ofs = r.ofs /\ t.adj = r.adj
    BY <1>5, <2>1 DEF Scrollers, SameView, SameZoom
  <2>3. Moved(scroller, t)
    BY <1>5, <2>2 DEF Moved, SameView, SameZoom
  <2>4. Scaled(t) = Scaled(r)
    BY <2>2 DEF Scaled, View!ComputeScaledSize, SameView, SameZoom
  <2>5. StillTells(scroller, t)
    BY <1>5, <2>2, <2>4 DEF StillTells, BarTells, SameView
  <2>6. Follows(scroller, t, layout)
    BY <2>3, <2>5, ViewStateIs, MovedFollows
  <2> QED BY <1>5, <2>6, ViewBecomes
<1>6. ASSUME NEW p \in View!Points, View!ButtonPress(p) PROVE ScrollerInv'
  <2>1. PICK g : g = [a \in View!Axes |-> scroller.ofs[a] + p[a]]
    OBVIOUS
  <2>2. g \in Pairs
    BY <2>1, ViewStateIs, PointsAre DEF Pairs
  <2>3. PICK t : t = [scroller EXCEPT !.dragging = TRUE, !.grip = g]
    OBVIOUS
  <2>4. View!Becomes(t)
    BY <1>6, <2>1, <2>3 DEF View!ButtonPress
  <2>5. Moved(scroller, scroller) /\ StillTells(scroller, scroller)
    BY ViewStateIs DEF Moved, StillTells, SameView, SameZoom
  <2> QED BY <1>5, <2>2, <2>3, <2>4, <2>5
<1>7. ASSUME NEW p \in View!Points, View!ButtonRelease(p) PROVE ScrollerInv'
  <2>1. PICK q \in Pairs : q = [a \in View!Axes |-> scroller.grip[a] - p[a]]
    BY <1>3
  <2>2. PICK r : r = View!ScrollTo(scroller, q, TRUE)
    OBVIOUS
  <2>3. Moved(scroller, r) /\ StillTells(scroller, r)
    BY <2>2, ViewStateIs, ScrollToIs
  <2>4. View!NoSize \in Pairs
    BY DEF View!NoSize, Pairs
  <2>5. PICK t : t = [r EXCEPT !.dragging = FALSE, !.grip = View!NoSize]
    OBVIOUS
  <2>6. View!Becomes(t)
    BY <1>7, <2>1, <2>2, <2>5 DEF View!ButtonRelease, View!DragTo
  <2> QED BY <1>5, <2>3, <2>4, <2>5, <2>6
<1> QED BY <1>1, <1>2, <1>4, <1>6, <1>7

\* The user moves a bar.
Pulled(s, a, value) == [s EXCEPT !.adj[a].value = value]

LEMMA AdjustmentStep ==
  ASSUME ViewAssumption, ScrollerInv, NEW a \in View!Axes, View!AdjustmentChanged(a)
  PROVE  ScrollerInv'
<1>0. /\ scroller \in Scrollers /\ layout \subseteq {"resize", "configure"}
      /\ \A b \in View!Axes : scroller.adj[b] \in Adjustments /\ scroller.ofs[b] \in Int
  BY ViewStateIs DEF Scrollers, Pairs
<1>1. PICK value \in 0 .. (scroller.adj[a].upper - scroller.adj[a].page) :
        scroller' = View!ScrollTo(Pulled(scroller, a, value),
                                  [b \in View!Axes |-> Pulled(scroller, a, value).adj[b].value],
                                  FALSE)
  BY DEF View!AdjustmentChanged, Pulled
<1>2. PICK s : s = Pulled(scroller, a, value)
  OBVIOUS
<1>3. PICK d : d = [scroller.adj EXCEPT ![a].value = value]
  OBVIOUS
<1>4. s = [scroller EXCEPT !.adj = d]
  BY <1>0, <1>2, <1>3 DEF Scrollers, Pulled
<1>5. value \in Int /\ value >= 0 /\ value <= scroller.adj[a].upper - scroller.adj[a].page
  BY <1>0, <1>1 DEF Adjustments
<1>6. scroller.adj \in [View!Axes -> Adjustments]
  BY <1>0 DEF Scrollers
<1>7. /\ d \in [View!Axes -> Adjustments] /\ d[a].value = value
      /\ \A b \in View!Axes : /\ d[b].upper = scroller.adj[b].upper
                              /\ d[b].page = scroller.adj[b].page
                              /\ b # a => d[b].value = scroller.adj[b].value
  BY <1>3, <1>5, <1>6 DEF Adjustments
<1>8. s \in Scrollers /\ SameView(scroller, s) /\ SameZoom(scroller, s) /\ s.adj = d
      /\ s.bar = scroller.bar /\ s.missed = scroller.missed
  BY <1>0, <1>4, <1>7 DEF Scrollers, SameView, SameZoom
<1>9. PICK p : p = [b \in View!Axes |-> d[b].value]
  OBVIOUS
<1>10. p \in Pairs
  BY <1>7, <1>9 DEF Pairs, Adjustments
<1>11. PICK r : r = View!ScrollTo(s, p, FALSE)
  OBVIOUS
<1>12. scroller' = r
  <2>1. p = [b \in View!Axes |-> s.adj[b].value]
    BY <1>8, <1>9
  <2> QED BY <1>1, <1>2, <1>11, <2>1, Zenon
<1>13. Moved(s, r) /\ ReadOff(s, r, p)
  BY <1>8, <1>10, <1>11, ScrollToIs
<1>14. Moved(scroller, r)
  BY <1>8, <1>13 DEF Moved, SameView, SameZoom
<1>15. Scaled(r) = Scaled(scroller) /\ r.display = scroller.display
  BY <1>14 DEF Moved, Scaled, View!ComputeScaledSize, SameView, SameZoom
<1>16. ASSUME NEW b \in View!Axes, scroller.bar[b], BarTells(scroller, b) PROVE BarTells(r, b)
  <2>1. /\ r.adj = d
        /\ r.ofs[b] = View!Clamp(p[b], 0, d[b].upper - d[b].page)
    BY <1>8, <1>13, <1>16 DEF ReadOff
  <2>2. PICK top \in Int : top = d[b].upper - d[b].page
    BY <1>7 DEF Adjustments
  <2>3. p[b] = d[b].value /\ p[b] \in Int
    BY <1>9, <1>10 DEF Pairs
  <2>4. p[b] >= 0 /\ p[b] <= top
    <3>1. CASE b = a
      BY <1>5, <1>7, <2>2, <2>3, <3>1
    <3>2. CASE b # a
      BY <1>7, <1>16, <2>2, <2>3, <3>2 DEF BarTells
    <3> QED BY <3>1, <3>2
  <2>5. r.ofs[b] = p[b]
    BY <2>1, <2>2, <2>3, <2>4 DEF View!Clamp
  <2>6. d[b].upper = Scaled(r)[b] /\ d[b].page = View!Lower(Scaled(r)[b], r.display[b])
    BY <1>7, <1>15, <1>16 DEF BarTells
  <2> QED BY <2>1, <2>2, <2>3, <2>4, <2>5, <2>6 DEF BarTells
<1>17. Follows(scroller, r, layout)
  BY <1>14, <1>16, ViewStateIs, MovedFollows DEF StillTells
<1>18. layout' = layout \cup {"resize"}
  BY DEF View!AdjustmentChanged
<1>19. ScrollerGood(r, layout')
  BY <1>0, <1>17, <1>18 DEF Follows, ScrollerGood, Fitted, Arranged, BarsTell
<1> QED BY <1>12, <1>19 DEF ScrollerInv

\* Map, ZoomFit, ImageChanged and SetImage
LEMMA FitSteps ==
  ASSUME ViewAssumption, ScrollerInv,
         \/ View!Map \/ View!ZoomFit
         \/ \E size \in Shapes : View!ImageChanged(size)
         \/ \E size \in Shapes \cup {View!NoSize} : View!SetImage(size)
  PROVE  ScrollerInv'
<1>0. scroller \in Scrollers
  BY ViewStateIs
<1>1. CASE View!Map
  <2>1. PICK s : s = [scroller EXCEPT !.mapped = TRUE]
    OBVIOUS
  <2>2. /\ s \in Scrollers /\ s.size = scroller.size /\ s.display = scroller.display
        /\ s.bar = scroller.bar
    BY <1>0, <2>1 DEF Scrollers
  <2>3. View!Becomes(View!CheckScrollbarVisibility(View!SetZoomFit(s), scroller.size))
    BY <1>1, <2>1 DEF View!Map
  <2> QED BY <2>2, <2>3, FitStep
<1>2. CASE View!ZoomFit
  <2>1. View!Becomes(View!CheckScrollbarVisibility(View!SetZoomFit(scroller), scroller.size))
    BY <1>2 DEF View!ZoomFit
  <2> QED BY <1>0, <2>1, FitStep
<1>3. ASSUME NEW size \in Shapes \cup {View!NoSize}, NEW s, s = [scroller EXCEPT !.pixbuf = size]
      PROVE  /\ s \in Scrollers /\ s.size = scroller.size /\ s.display = scroller.display
             /\ s.bar = scroller.bar /\ s.pixbuf = size /\ s.mode = scroller.mode
             /\ s.missed = scroller.missed
  BY <1>0, <1>3 DEF Scrollers
<1>4. ASSUME NEW size \in Shapes, View!ImageChanged(size) PROVE ScrollerInv'
  <2>1. PICK s : s = [scroller EXCEPT !.pixbuf = size]
    OBVIOUS
  <2>2. View!Becomes(View!CheckScrollbarVisibility(View!SetZoomFit(s), scroller.size))
    BY <1>4, <2>1 DEF View!ImageChanged
  <2> QED BY <1>3, <2>1, <2>2, FitStep
<1>5. ASSUME NEW size \in Shapes \cup {View!NoSize}, View!SetImage(size) PROVE ScrollerInv'
  <2>1. PICK s : s = [scroller EXCEPT !.pixbuf = size]
    OBVIOUS
  <2>2. CASE size # View!NoSize
    <3>1. View!Becomes(View!CheckScrollbarVisibility(View!SetZoomFit(s), scroller.size))
      BY <1>5, <2>1, <2>2 DEF View!SetImage
    <3> QED BY <1>3, <2>1, <3>1, FitStep
  <2>3. CASE size = View!NoSize
    <3>1. View!Becomes(s)
      BY <1>5, <2>1, <2>3 DEF View!SetImage
    <3>2. Follows(scroller, s, layout)
      BY <1>3, <2>1, <2>3
         DEF Follows, ScrollerInv, ScrollerGood, Fitted, BarsTell, Offered, NeededBars
    <3> QED BY <3>1, <3>2, ViewBecomes
  <2> QED BY <2>2, <2>3
<1> QED BY <1>1, <1>2, <1>4, <1>5

LEMMA UpscaleStep == ASSUME ViewAssumption, ScrollerInv, View!SetUpscale PROVE ScrollerInv'
<1>0. scroller \in Scrollers
  BY ViewStateIs
<1>1. PICK up \in BOOLEAN : up = ~scroller.upscale
  OBVIOUS
<1>2. PICK s : s = [scroller EXCEPT !.upscale = up]
  OBVIOUS
<1>3. /\ s \in Scrollers /\ s.size = scroller.size /\ s.display = scroller.display
      /\ s.bar = scroller.bar /\ s.pixbuf = scroller.pixbuf /\ s.mapped = scroller.mapped
      /\ SameZoom(scroller, s) /\ SamePlace(scroller, s)
  BY <1>0, <1>2 DEF Scrollers, SameZoom, SamePlace
<1>4. CASE scroller.mode = "FIT"
  <2>1. PICK t : t = View!SetZoomFit(s)
    OBVIOUS
  <2>2. View!Becomes(t)
    BY <1>1, <1>2, <1>4, <2>1 DEF View!SetUpscale
  <2>3. /\ t \in Scrollers /\ SameView(s, t) /\ t.mode = "FIT" /\ t.bar = s.bar
        /\ s.mapped /\ s.pixbuf # View!NoSize => t.zoom = FitZoom(t) /\ Offers(t)
    BY <1>3, <2>1, SetZoomFitIs
  <2>4. \A a \in View!Axes : ~t.bar[a]
    BY <1>3, <1>4, <2>3 DEF ScrollerInv, ScrollerGood, Fitted
  <2>5. Follows(scroller, t, layout)
    BY <1>3, <2>3, <2>4 DEF Follows, Fitted, BarsTell, Offered, NeededBars, SameView
  <2> QED BY <2>2, <2>5, ViewBecomes
<1>5. CASE scroller.mode # "FIT"
  <2>1. View!Becomes(s)
    BY <1>1, <1>2, <1>5 DEF View!SetUpscale
  <2>2. Scaled(s) = Scaled(scroller) /\ s.mode # "FIT"
    BY <1>3, <1>5 DEF SameZoom, Scaled, View!ComputeScaledSize
  <2>3. /\ Arranged(scroller, layout) /\ BarsTell(scroller, layout) /\ Offered(scroller)
    BY DEF ScrollerInv, ScrollerGood
  <2>4. Fitted(s, layout) /\ BarsTell(s, layout) /\ Offered(s)
    BY <1>3, <2>2, <2>3
       DEF Fitted, BarsTell, BarTells, Offered, Offers, SameZoom, SamePlace
  <2>5. "resize" \notin layout => NeededBars(s)
    BY <1>3, <2>2, <2>3 DEF Arranged, NeededBars, Needs, SameZoom
  <2>6. Follows(scroller, s, layout)
    BY <1>3, <2>4, <2>5 DEF Follows
  <2> QED BY <2>1, <2>6, ViewBecomes
<1> QED BY <1>4, <1>5

LEMMA ResizeStep ==
  ASSUME ViewAssumption, ScrollerInv, NEW size \in Frames, View!Resize(size)
  PROVE  ScrollerInv'
<1>0. scroller \in Scrollers /\ layout \subseteq {"resize", "configure"}
  BY ViewStateIs
<1>1. scroller' = [scroller EXCEPT !.size = size] /\ layout' = layout \cup {"resize"}
  BY DEF View!Resize
<1>2. /\ scroller' \in Scrollers /\ scroller'.display = scroller.display
      /\ scroller'.bar = scroller.bar /\ scroller'.pixbuf = scroller.pixbuf
      /\ scroller'.mapped = scroller.mapped /\ scroller'.upscale = scroller.upscale
      /\ SameZoom(scroller, scroller') /\ SamePlace(scroller, scroller')
  BY <1>0, <1>1 DEF Scrollers, SameZoom, SamePlace
<1>3. PICK s : s = scroller'
  OBVIOUS
<1>4. Scaled(s) = Scaled(scroller) /\ FitZoom(s) = FitZoom(scroller)
  BY <1>2, <1>3 DEF SameZoom, Scaled, FitZoom, View!ComputeScaledSize
<1>5. PICK lay : lay = layout'
  OBVIOUS
<1>6. Fitted(s, lay) /\ BarsTell(s, lay) /\ Offered(s) /\ Arranged(s, lay)
  BY <1>1, <1>2, <1>3, <1>4, <1>5
     DEF ScrollerInv, ScrollerGood, Fitted, BarsTell, BarTells, Offered, Offers, Arranged,
         SameZoom, SamePlace
<1>7. ScrollerGood(s, lay)
  BY <1>0, <1>1, <1>2, <1>3, <1>5, <1>6 DEF ScrollerGood
<1> QED BY <1>3, <1>5, <1>7 DEF ScrollerInv

LEMMA AllocateStep == ASSUME ViewAssumption, ScrollerInv, View!SizeAllocate PROVE ScrollerInv'
<1>0. /\ scroller \in Scrollers /\ layout \subseteq {"resize", "configure"}
      /\ scroller.size \in [View!Axes -> Nat]
  BY ViewStateIs, Shaped
<1>1. PICK s : s = View!CheckScrollbarVisibility(scroller, scroller.size)
  OBVIOUS
<1>2. /\ s \in Scrollers /\ SameView(scroller, s) /\ SameZoom(scroller, s) /\ SamePlace(scroller, s)
      /\ \A a \in View!Axes : s.bar[a] <=> Needs(scroller, scroller.size, a)
  BY <1>0, <1>1, CheckIs
<1>3. PICK display : display = [a \in View!Axes |->
                                  scroller.size[a] - IF s.bar[View!Other(a)] THEN BarWidth ELSE 0]
  OBVIOUS
<1>4. PICK missed \in BOOLEAN :
        missed <=> scroller.missed \/ (s.bar # scroller.bar /\ display = scroller.display)
  <2>1. scroller.missed \in BOOLEAN
    BY <1>0 DEF Scrollers
  <2> QED BY <2>1
<1>5. PICK t : t = [s EXCEPT !.display = display, !.missed = missed]
  OBVIOUS
<1>6. PICK lay : lay = (IF s.bar # scroller.bar THEN {"resize"} ELSE {})
                       \cup IF display # scroller.display THEN {"configure"} ELSE layout \ {"resize"}
  OBVIOUS
<1>7. scroller' = t /\ layout' = lay
  <2>1. s.missed = scroller.missed
    BY <1>2 DEF SamePlace
  <2>2. missed = (s.missed \/ (s.bar # scroller.bar /\ display = scroller.display))
    BY <1>4, <2>1
  <2>3. t = [s EXCEPT !.display = display,
               !.missed = @ \/ (s.bar # scroller.bar /\ display = scroller.display)]
    BY <1>5, <2>2, Zenon
  <2> QED BY <1>1, <1>3, <1>6, <2>3, Zenon DEF View!SizeAllocate
<1>8. display \in Pairs
  BY <1>0, <1>3 DEF Pairs, ViewAssumption
<1>9. /\ t \in Scrollers /\ t.display = display /\ t.missed = missed /\ t.bar = s.bar
      /\ t.pixbuf = scroller.pixbuf /\ t.mapped = scroller.mapped /\ t.size = scroller.size
      /\ t.upscale = scroller.upscale /\ t.ofs = scroller.ofs /\ t.adj = scroller.adj
      /\ SameZoom(scroller, t)
  BY <1>2, <1>5, <1>8 DEF Scrollers, SameView, SameZoom, SamePlace
<1>10. Scaled(t) = Scaled(scroller)
  BY <1>9 DEF SameZoom, Scaled, View!ComputeScaledSize
<1>11. \A a \in View!Axes : t.bar[a] <=> Needs(t, t.size, a)
  BY <1>2, <1>9, <1>10 DEF Needs, SameZoom
<1>12. /\ Fitted(scroller, layout) /\ BarsTell(scroller, layout) /\ Offered(scroller)
  BY DEF ScrollerInv, ScrollerGood
<1>13. "configure" \notin lay => display = scroller.display /\ "configure" \notin layout
  BY <1>6
<1>14. Fitted(t, lay)
  <2>1. t.mode = "FIT" => \A a \in View!Axes : ~t.bar[a]
    BY <1>11 DEF Needs
  <2>2. display = scroller.display => FitZoom(t) = FitZoom(scroller)
    BY <1>9 DEF FitZoom
  <2> QED BY <1>9, <1>12, <1>13, <2>1, <2>2 DEF Fitted, SameZoom
<1>15. BarsTell(t, lay)
  BY <1>4, <1>9, <1>10, <1>12, <1>13 DEF BarsTell, BarTells
<1>16. Offered(t)
  BY <1>9, <1>12 DEF Offered, Offers, SameZoom
<1>17. Arranged(t, lay)
  BY <1>3, <1>9, <1>11 DEF Arranged, NeededBars
<1>18. ScrollerGood(t, lay)
  BY <1>0, <1>6, <1>9, <1>14, <1>15, <1>16, <1>17 DEF ScrollerGood
<1> QED BY <1>7, <1>18 DEF ScrollerInv

LEMMA SizeChangeStep == ASSUME ViewAssumption, ScrollerInv, View!SizeChange PROVE ScrollerInv'
<1>0. /\ scroller \in Scrollers /\ layout \subseteq {"resize", "configure"}
      /\ ScrollerGood(scroller, layout)
  BY ViewStateIs
<1>1. PICK beyond : beyond = [a \in View!Axes |->
        View!Lower(0, Scaled(scroller)[a] - scroller.display[a] - scroller.ofs[a])]
  OBVIOUS
<1>2. beyond \in Pairs
  <2>1. ASSUME NEW a \in View!Axes
        PROVE  View!Lower(0, Scaled(scroller)[a] - scroller.display[a] - scroller.ofs[a]) \in Int
    BY ViewStateIs DEF Pairs, View!Lower
  <2> QED BY <1>1, <2>1 DEF Pairs
<1>3. PICK s : s = IF scroller.mode = "FIT"
                   THEN View!CheckScrollbarVisibility(View!SetZoomFit(scroller), scroller.display)
                   ELSE View!ScrollBy(scroller, beyond)
  OBVIOUS
<1>4. PICK t : t = IF View!IsImageMovable(s) THEN View!UpdateScrollbarValues(s) ELSE s
  OBVIOUS
<1>5. PICK lay : lay = layout \ {"configure"}
  OBVIOUS
<1>6. /\ scroller' = t
      /\ layout' = lay \cup IF t.bar # scroller.bar THEN {"resize"} ELSE {}
  BY <1>1, <1>3, <1>4, <1>5, Zenon DEF View!SizeChange, Scaled
<1>7. lay \subseteq {"resize", "configure"} /\ Arranged(scroller, lay) /\ Offered(scroller)
  BY <1>0, <1>5 DEF ScrollerGood, Arranged
<1>8. Follows(scroller, t, lay)
  <2>1. CASE scroller.mode = "FIT"
    <3>1. Follows(scroller, s, lay) /\ s.mode = "FIT"
      BY <1>0, <1>3, <2>1, FitFollows
    <3>2. t = s
      BY <1>4, <3>1 DEF Follows, Fitted, View!IsImageMovable
    <3> QED BY <3>1, <3>2
  <2>2. CASE scroller.mode # "FIT"
    <3>1. PICK q : q = [a \in View!Axes |-> scroller.ofs[a] + beyond[a]]
      OBVIOUS
    <3>2. q \in Pairs
      BY <1>2, <3>1, ViewStateIs DEF Pairs
    <3>3. s = View!ScrollTo(scroller, q, TRUE)
      BY <1>3, <2>2, <3>1 DEF View!ScrollBy
    <3>4. Moved(scroller, s)
      BY <1>0, <3>2, <3>3, ScrollFollows
    <3>5. /\ t \in Scrollers /\ SameView(s, t) /\ SameZoom(s, t) /\ t.bar = s.bar
          /\ \A a \in View!Axes : t.bar[a] => BarTells(t, a)
      <4>1. CASE View!IsImageMovable(s)
        BY <1>4, <3>4, <4>1, UpdateIs DEF Moved
      <4>2. CASE ~View!IsImageMovable(s)
        BY <1>4, <3>4, <4>2 DEF Moved, SameView, SameZoom, View!IsImageMovable
      <4> QED BY <4>1, <4>2
    <3>6. SameView(scroller, t) /\ SameZoom(scroller, t) /\ t.bar = scroller.bar
      BY <3>4, <3>5 DEF Moved, SameView, SameZoom
    <3>7. Fitted(t, lay) /\ BarsTell(t, lay)
      BY <2>2, <3>5, <3>6 DEF Fitted, BarsTell, SameZoom
    <3>8. Offered(t)
      BY <1>7, <3>6 DEF Offered, Offers, SameView, SameZoom
    <3>9. Scaled(t) = Scaled(scroller)
      BY <3>6 DEF SameView, SameZoom, Scaled, View!ComputeScaledSize
    <3>10. "resize" \notin lay => NeededBars(t)
      BY <1>7, <3>6, <3>9 DEF Arranged, NeededBars, Needs, SameView, SameZoom
    <3> QED BY <3>5, <3>6, <3>7, <3>8, <3>10 DEF Follows, SameView
  <2> QED BY <2>1, <2>2
<1>9. ScrollerGood(t, layout')
  BY <1>6, <1>7, <1>8, FollowsGood
<1> QED BY <1>6, <1>9 DEF ScrollerInv

LEMMA ViewStep ==
  ASSUME ViewAssumption, ScrollerInv, [View!Next]_(View!vars)
  PROVE  ScrollerInv'
<1>1. CASE View!Event
  <2>1. ASSUME NEW a \in View!Axes, View!AdjustmentChanged(a) PROVE ScrollerInv'
    BY <2>1, AdjustmentStep
  <2>2. ASSUME NEW size \in Frames, View!Resize(size) PROVE ScrollerInv'
    BY <2>2, ResizeStep
  <2> QED BY <1>1, <2>1, <2>2, ZoomSteps, ScrollSteps, FitSteps, UpscaleStep DEF View!Event
<1>2. CASE View!Layout
  BY <1>2, AllocateStep, SizeChangeStep DEF View!Layout
<1>3. CASE UNCHANGED View!vars
  BY <1>3 DEF View!vars, ScrollerInv
<1> QED BY <1>1, <1>2, <1>3 DEF View!Next

LEMMA ViewInit == ASSUME ViewAssumption, View!Init PROVE ScrollerInv
<1>1. PICK size \in Frames :
        scroller = [pixbuf |-> View!NoSize, zoom |-> Unit, minZoom |-> MinZoomFactor,
                    mode |-> "FIT", upscale |-> FALSE, ofs |-> View!NoSize,
                    bar |-> [a \in View!Axes |-> FALSE],
                    adj |-> [a \in View!Axes |-> [value |-> 0, upper |-> 0, page |-> 100]],
                    size |-> size, display |-> size, mapped |-> FALSE, dragging |-> FALSE,
                    grip |-> View!NoSize, canZoomIn |-> TRUE, canZoomOut |-> TRUE,
                    missed |-> FALSE]
  BY DEF View!Init
<1>2. View!NoSize \in Pairs /\ size \in Pairs /\ size \in [View!Axes -> Nat]
  BY DEF View!NoSize, Pairs, ViewAssumption
<1>3. Unit \in Zooms /\ MinZoomFactor \in Zooms
  BY DEF Zooms, ViewAssumption
<1>4. [a \in View!Axes |-> FALSE] \in [View!Axes -> BOOLEAN]
  OBVIOUS
<1>5. [a \in View!Axes |-> [value |-> 0, upper |-> 0, page |-> 100]]
        \in [View!Axes -> Adjustments]
  BY DEF Adjustments
<1>6. scroller \in Scrollers
  BY <1>1, <1>2, <1>3, <1>4, <1>5 DEF Scrollers
<1>7. /\ scroller.mode = "FIT" /\ scroller.mapped = FALSE /\ scroller.pixbuf = View!NoSize
      /\ scroller.display = size /\ scroller.size = size
      /\ \A a \in View!Axes : ~scroller.bar[a]
  BY <1>1
<1>8. layout = {}
  BY DEF View!Init
<1>9. Arranged(scroller, layout)
  BY <1>2, <1>7, AxesAre DEF Arranged, NeededBars
<1> QED BY <1>6, <1>7, <1>8, <1>9 DEF ScrollerInv, ScrollerGood, Fitted, BarsTell, Offered

LEMMA ViewMeaning ==
  ASSUME ViewAssumption, ScrollerInv
  PROVE  /\ View!TypeOK
         /\ View!FitShowsAll /\ View!BarsAsNeeded /\ View!OffsetsInBounds /\ View!ZoomOffered
<1>0. /\ scroller \in Scrollers /\ layout \subseteq {"resize", "configure"}
      /\ Fitted(scroller, layout) /\ Arranged(scroller, layout)
      /\ BarsTell(scroller, layout) /\ Offered(scroller)
      /\ Scaled(scroller) \in [View!Axes -> Nat] /\ scroller.size \in [View!Axes -> Nat]
      /\ scroller.zoom \in Zooms /\ scroller.minZoom \in Zooms
  BY Shaped DEF ScrollerInv, ScrollerGood, Scrollers
<1>a. BarWidth \in Nat /\ MinZoomFactor \in Int /\ MaxZoomFactor \in Int
      /\ MinZoomFactor <= MaxZoomFactor
  BY DEF ViewAssumption
<1>1. View!TypeOK
  <2>1. /\ {scroller.zoom, scroller.minZoom} \subseteq MinZoomFactor .. MaxZoomFactor
    BY <1>0 DEF Zooms
  <2>2. ASSUME NEW a \in View!Axes
        PROVE  /\ {scroller.ofs[a], scroller.grip[a], scroller.display[a]} \subseteq Int
               /\ DOMAIN scroller.adj[a] = {"value", "upper", "page"}
    <3>1. scroller.adj[a] \in Adjustments
      BY <1>0 DEF Scrollers
    <3>2. DOMAIN scroller.adj[a] = {"value", "upper", "page"}
      BY <3>1 DEF Adjustments
    <3> QED BY <1>0, <3>2 DEF Scrollers, Pairs
  <2>3. /\ scroller.pixbuf \in Shapes \cup {View!NoSize} /\ scroller.size \in Frames
        /\ scroller.mode \in {"FREE", "FIT"} /\ scroller.bar \in [View!Axes -> BOOLEAN]
        /\ {scroller.upscale, scroller.mapped, scroller.dragging, scroller.canZoomIn,
            scroller.canZoomOut, scroller.missed} \subseteq BOOLEAN
    BY <1>0 DEF Scrollers
  <2> QED BY <1>0, <2>1, <2>2, <2>3 DEF View!TypeOK
<1> SUFFICES ASSUME View!Settled
             PROVE  /\ View!FitShowsAll /\ View!BarsAsNeeded
                    /\ View!OffsetsInBounds /\ View!ZoomOffered
  BY <1>1 DEF View!FitShowsAll, View!BarsAsNeeded, View!OffsetsInBounds, View!ZoomOffered
<1>2. /\ "resize" \notin layout /\ "configure" \notin layout
      /\ scroller.mapped /\ scroller.pixbuf # View!NoSize
  BY DEF View!Settled
<1>3. View!ComputeScaledSize(scroller, scroller.zoom) = Scaled(scroller)
  BY DEF Scaled
<1>4. \A a \in View!Axes :
        /\ Scaled(scroller)[a] \in Nat /\ scroller.size[a] \in Nat
        /\ scroller.display[a]
             = scroller.size[a] - IF scroller.bar[View!Other(a)] THEN BarWidth ELSE 0
  BY <1>0, <1>2 DEF Arranged
<1>5. View!FitShowsAll
  <2> SUFFICES ASSUME scroller.mode = "FIT", scroller.zoom # MinZoomFactor,
                      NEW a \in View!Axes
               PROVE  Scaled(scroller)[a] <= scroller.display[a]
    BY <1>0, <1>3 DEF View!FitShowsAll, View!IsImageMovable, Fitted
  <2>1. PICK scale : scale = View!ZoomFitScale(scroller.display, scroller.pixbuf, scroller.upscale)
    OBVIOUS
  <2>2. /\ scroller.display \in Pairs /\ scroller.upscale \in BOOLEAN
        /\ scroller.pixbuf \in [View!Axes -> Nat \ {0}]
    BY <1>0, <1>2, Shaped DEF Scrollers
  <2>3. /\ scale \in Int
        /\ \A zoom \in Int, b \in View!Axes :
             zoom <= scale => View!Rounded(scroller.pixbuf[b] * zoom, Unit) <= scroller.display[b]
    BY <2>1, <2>2, FitScaleFits
  <2>4. scroller.zoom = View!Clamp(scale, MinZoomFactor, MaxZoomFactor)
    BY <1>0, <1>2, <2>1 DEF Fitted, FitZoom
  <2>5. scroller.zoom <= scale /\ scroller.zoom \in Int
    BY <1>a, <2>3, <2>4 DEF View!Clamp
  <2>6. Scaled(scroller)[a] = View!Rounded(scroller.pixbuf[a] * scroller.zoom, Unit)
    BY DEF Scaled, View!ComputeScaledSize
  <2> QED BY <2>3, <2>5, <2>6
<1>6. ASSUME scroller.mode = "FREE", NEW a \in View!Axes
      PROVE  scroller.bar[a] <=> Scaled(scroller)[a] > scroller.display[a]
  <2>1. \A b \in View!Axes : scroller.bar[b] <=> Needs(scroller, scroller.size, b)
    BY <1>0, <1>2, <1>6 DEF Arranged, NeededBars
  <2>2. View!Other(a) \in View!Axes /\ View!Other(View!Other(a)) = a
    BY AxesAre
  <2>3. PICK b \in View!Axes : b = View!Other(a) /\ View!Other(b) = a
    BY <2>2
  <2>4. /\ scroller.bar[a] <=> Needs(scroller, scroller.size, a)
        /\ scroller.bar[b] <=> Needs(scroller, scroller.size, b)
    BY <2>1
  <2> QED BY <1>a, <1>4, <1>6, <2>3, <2>4 DEF Needs
<1>7. View!BarsAsNeeded
  BY <1>3, <1>6 DEF View!BarsAsNeeded
<1>8. View!OffsetsInBounds
  <2> SUFFICES ASSUME ~scroller.missed, NEW a \in View!Axes, scroller.bar[a]
               PROVE  /\ scroller.adj[a] = [value |-> scroller.ofs[a], upper |-> Scaled(scroller)[a],
                                            page |-> scroller.display[a]]
                      /\ scroller.ofs[a] \in 0 .. (scroller.adj[a].upper - scroller.adj[a].page)
    BY <1>3 DEF View!OffsetsInBounds
  <2>1. BarTells(scroller, a)
    BY <1>0, <1>2 DEF BarsTell
  <2>2. scroller.mode = "FREE"
    BY <1>0 DEF Fitted, Scrollers
  <2>3. Scaled(scroller)[a] > scroller.display[a]
    BY <1>6, <2>2
  <2>4. /\ scroller.adj[a] \in Adjustments /\ scroller.ofs[a] \in Int
        /\ scroller.display[a] \in Int
    BY <1>0 DEF Scrollers, Pairs
  <2>5. View!Lower(Scaled(scroller)[a], scroller.display[a]) = scroller.display[a]
    BY <1>4, <2>3, <2>4 DEF View!Lower
  <2>6. scroller.adj[a] = [value |-> scroller.ofs[a], upper |-> Scaled(scroller)[a],
                           page |-> scroller.display[a]]
    BY <2>1, <2>4, <2>5 DEF BarTells, Adjustments
  <2>7. scroller.ofs[a] \in 0 .. (scroller.adj[a].upper - scroller.adj[a].page)
    BY <2>1, <2>4 DEF BarTells, Adjustments
  <2> QED BY <2>6, <2>7
<1>9. View!ZoomOffered
  <2>1. Offers(scroller) /\ (scroller.mode = "FREE" => scroller.zoom >= scroller.minZoom)
    BY <1>0, <1>2 DEF Offered
  <2>2. scroller.zoom >= MinZoomFactor /\ scroller.zoom <= MaxZoomFactor
        /\ scroller.minZoom >= MinZoomFactor /\ scroller.zoom \in Int /\ scroller.minZoom \in Int
    BY <1>0, <1>a DEF Zooms
  <2>3. scroller.mode \in {"FREE", "FIT"}
    BY <1>0 DEF Scrollers
  <2>4. scroller.canZoomIn <=> scroller.zoom < MaxZoomFactor
    BY <1>a, <2>1, <2>2 DEF Offers
  <2>5. scroller.zoom >= scroller.minZoom
          => (scroller.canZoomOut <=> scroller.zoom > scroller.minZoom)
    BY <1>a, <2>1, <2>2 DEF Offers
  <2>6. ~(scroller.zoom >= scroller.minZoom) => scroller.mode = "FIT"
    BY <2>1, <2>3
  <2> QED BY <2>4, <2>5, <2>6 DEF View!ZoomOffered
<1> QED BY <1>5, <1>7, <1>8, <1>9

\* Once the layout is done, whatever the user, the window and the pictures did: a fitted
\* picture is shown whole and without bars, another has the bars it needs, bars and offsets
\* agree, and the zoom commands are offered as they work (eom_scroll_view_size_allocate,
\* display_size_change, set_zoom); for pictures, windows, bars and zoom factors of all sizes.
THEOREM ViewArranged ==
  ASSUME ViewAssumption
  PROVE  ViewSpec => [](/\ View!TypeOK /\ View!FitShowsAll /\ View!BarsAsNeeded
                        /\ View!OffsetsInBounds /\ View!ZoomOffered)
<1> USE ViewAssumption
<1>1. View!Init => ScrollerInv
  BY ViewInit
<1>2. ScrollerInv /\ [View!Next]_(View!vars) => ScrollerInv'
  BY ViewStep
<1>3. ScrollerInv => /\ View!TypeOK /\ View!FitShowsAll /\ View!BarsAsNeeded
                 /\ View!OffsetsInBounds /\ View!ZoomOffered
  BY ViewMeaning
<1> QED BY <1>1, <1>2, <1>3, PTL DEF ViewSpec
-----------------------------------------------------------------------------
(* What the scroll view paints *)

PaintSpec == Paint!Init /\ [][Paint!Next]_(Paint!paintVars)

Surfaces == (Paint!Styles \cup {"NONE"}) \X (Colors \cup {0})
Paints == [image : {"none", "opaque", "alpha"}, zoom : {1, 2}, style : Paint!Styles,
           color : Colors, surface : Surfaces, unfiltered : BOOLEAN, timeout : BOOLEAN,
           draw : BOOLEAN, missed : BOOLEAN]

\* The pattern that is kept is that of the settings, unless they changed behind its back,
\* whatever picture is shown.
PatternInv ==
  /\ paint \in Paints
  /\ seen \in [rough : BOOLEAN, behind : Surfaces]
  /\ settled \in BOOLEAN
  /\ ~paint.missed => paint.surface \in {Paint!NoSurface, Paint!TransparencyParams(paint)}

PaintInv == PatternInv /\ Paint!PaintedAsSet

LEMMA SurfacesAre ==
  /\ Paint!NoSurface \in Surfaces
  /\ \A s \in Paints : Paint!TransparencyParams(s) \in Surfaces
<1>1. Paint!NoSurface \in Surfaces
  BY DEF Paint!NoSurface, Surfaces
<1>2. ASSUME NEW s \in Paints PROVE Paint!TransparencyParams(s) \in Surfaces
  <2>1. s.style \in Paint!Styles /\ s.color \in Colors
    BY DEF Paints
  <2> QED BY <2>1 DEF Paint!TransparencyParams, Surfaces
<1> QED BY <1>1, <1>2

\* A new look draws again, on a pattern that is made then, if it can be seen.
LEMMA LookChanged ==
  ASSUME NEW s \in Paints,
         s.missed = paint.missed /\ s.surface = paint.surface,
         NEW t, t = Paint!TranspBackgroundChanged(s), PaintInv
  PROVE  /\ t \in Paints
         /\ ~t.missed => t.surface = Paint!NoSurface
         /\ t.image = "alpha" => t.draw
<1>1. CASE s.image = "alpha"
  <2>1. t = [s EXCEPT !.surface = Paint!NoSurface, !.draw = TRUE]
    BY <1>1 DEF Paint!TranspBackgroundChanged, Paint!QueueDraw
  <2> QED BY <2>1, SurfacesAre DEF Paints
<1>2. CASE s.image # "alpha"
  <2>0. s.missed \in BOOLEAN
    BY DEF Paints
  <2>a. (s.missed \/ s.surface # Paint!NoSurface) \in BOOLEAN
    OBVIOUS
  <2>1. PICK b \in BOOLEAN : b = (s.missed \/ s.surface # Paint!NoSurface)
    BY <2>a, Zenon
  <2>2. t = [s EXCEPT !.missed = b]
    BY <1>2, <2>1 DEF Paint!TranspBackgroundChanged
  <2>3. t \in Paints /\ t.missed = b /\ t.surface = s.surface /\ t.image = s.image
    BY <2>2 DEF Paints
  <2>4. ~b => s.surface = Paint!NoSurface
    BY <2>1
  <2> QED BY <1>2, <2>3, <2>4
<1> QED BY <1>1, <1>2

LEMMA PaintStep ==
  ASSUME PaintInv, [Paint!Next]_(Paint!paintVars)
  PROVE  PaintInv'
<1>0. /\ paint \in Paints /\ seen \in [rough : BOOLEAN, behind : Surfaces] /\ settled \in BOOLEAN
      /\ ~paint.missed => paint.surface \in {Paint!NoSurface, Paint!TransparencyParams(paint)}
      /\ Paint!PaintedAsSet
  BY DEF PaintInv, PatternInv
\* What changes the settings, the picture or the zoom
<1>1. ASSUME NEW t, t = paint', t \in Paints, UNCHANGED <<seen, settled>>,
             ~t.missed => t.surface \in {Paint!NoSurface, Paint!TransparencyParams(t)},
             t.draw \/ t.image # "alpha"
      PROVE  PaintInv'
  BY <1>0, <1>1 DEF PaintInv, PatternInv, Paint!PaintedAsSet
<1>2. ASSUME NEW style \in Paint!Styles, Paint!SetTransparency(style), UNCHANGED <<seen, settled>>
      PROVE  PaintInv'
  <2> DEFINE s == [paint EXCEPT !.style = style]
  <2>1. s \in Paints /\ s.missed = paint.missed /\ s.surface = paint.surface
    BY <1>0 DEF Paints
  <2>2. paint' = Paint!TranspBackgroundChanged(s)
    BY <1>2 DEF Paint!SetTransparency
  <2> HIDE DEF s
  <2>3. /\ paint' \in Paints /\ (~paint'.missed => paint'.surface = Paint!NoSurface)
        /\ (paint'.image = "alpha" => paint'.draw)
    BY <2>1, <2>2, LookChanged
  <2> QED BY <1>1, <1>2, <2>3
<1>3. ASSUME NEW color \in Colors, Paint!SetTransparencyColor(color), UNCHANGED <<seen, settled>>
      PROVE  PaintInv'
  <2> DEFINE s == [paint EXCEPT !.color = color]
  <2>1. /\ s \in Paints /\ s.missed = paint.missed /\ s.surface = paint.surface
        /\ s.style = paint.style /\ s.image = paint.image /\ s.draw = paint.draw
    BY <1>0 DEF Paints
  <2>2. paint' = IF paint.style = "COLOR" THEN Paint!TranspBackgroundChanged(s) ELSE s
    BY <1>3 DEF Paint!SetTransparencyColor
  <2> HIDE DEF s
  <2>3. CASE paint.style = "COLOR"
    <3>1. /\ paint' \in Paints /\ (~paint'.missed => paint'.surface = Paint!NoSurface)
          /\ (paint'.image = "alpha" => paint'.draw)
      BY <2>1, <2>2, <2>3, LookChanged
    <3> QED BY <1>1, <1>3, <3>1
  <2>4. CASE paint.style # "COLOR"
    <3>1. paint' = s /\ Paint!TransparencyParams(s) = Paint!TransparencyParams(paint)
      BY <2>1, <2>2, <2>4 DEF Paint!TransparencyParams
    <3> QED BY <1>0, <1>3, <2>1, <3>1 DEF PaintInv, PatternInv, Paint!PaintedAsSet
  <2> QED BY <2>3, <2>4
<1>4. ASSUME Paint!UpdateBgColor, UNCHANGED <<seen, settled>> PROVE PaintInv'
  <2>1. CASE paint.style = "BACKGROUND"
    <3>1. paint' = [paint EXCEPT !.surface = Paint!NoSurface, !.draw = TRUE]
      BY <1>4, <2>1 DEF Paint!UpdateBgColor, Paint!QueueDraw
    <3>2. paint' \in Paints /\ paint'.surface = Paint!NoSurface /\ paint'.draw
      BY <1>0, <3>1, SurfacesAre DEF Paints
    <3> QED BY <1>1, <1>4, <3>2
  <2>2. CASE paint.style # "BACKGROUND"
    <3>1. paint' = [paint EXCEPT !.draw = TRUE]
      BY <1>4, <2>2 DEF Paint!UpdateBgColor, Paint!QueueDraw
    <3>2. /\ paint' \in Paints /\ paint'.draw /\ paint'.surface = paint.surface
          /\ paint'.missed = paint.missed
          /\ Paint!TransparencyParams(paint') = Paint!TransparencyParams(paint)
      BY <1>0, <3>1 DEF Paints, Paint!TransparencyParams
    <3> QED BY <1>0, <1>1, <1>4, <3>2
  <2> QED BY <2>1, <2>2
<1>5. ASSUME UNCHANGED <<seen, settled>>,
             \/ Paint!SetAntialiasing \/ \E zoom \in {1, 2} : Paint!Moved(zoom)
             \/ \E pic \in {"opaque", "alpha"} : Paint!UpdatePixbuf(pic)
             \/ Paint!HqRedraw
      PROVE  PaintInv'
  <2>1. \/ paint' = [paint EXCEPT !.draw = TRUE]
        \/ \E zoom \in {1, 2} : paint' = [paint EXCEPT !.zoom = zoom, !.draw = TRUE]
        \/ \E pic \in {"opaque", "alpha"} : paint' = [paint EXCEPT !.image = pic, !.draw = TRUE]
        \/ paint' = [paint EXCEPT !.unfiltered = FALSE, !.timeout = FALSE, !.draw = TRUE]
    BY <1>5 DEF Paint!SetAntialiasing, Paint!Moved, Paint!UpdatePixbuf, Paint!HqRedraw,
                Paint!QueueDraw
  <2>2. /\ paint' \in Paints /\ paint'.draw /\ paint'.surface = paint.surface
        /\ paint'.missed = paint.missed
        /\ Paint!TransparencyParams(paint') = Paint!TransparencyParams(paint)
    BY <1>0, <2>1, ZenonT(30) DEF Paints, Paint!TransparencyParams
  <2> QED BY <1>0, <1>1, <1>5, <2>2
<1>6. ASSUME Paint!FreeImageResources, UNCHANGED <<seen, settled>> PROVE PaintInv'
  <2>1. paint' = [paint EXCEPT !.image = "none"]
    BY <1>6 DEF Paint!FreeImageResources
  <2>2. /\ paint' \in Paints /\ paint'.image = "none" /\ paint'.surface = paint.surface
        /\ paint'.missed = paint.missed
        /\ Paint!TransparencyParams(paint') = Paint!TransparencyParams(paint)
    BY <1>0, <2>1 DEF Paints, Paint!TransparencyParams
  <2> QED BY <1>0, <1>1, <1>6, <2>2
<1>7. ASSUME Paint!DisplayDraw, UNCHANGED settled PROVE PaintInv'
  <2> DEFINE s == [paint EXCEPT !.draw = FALSE]
             made == IF paint.image = "alpha" /\ paint.surface = Paint!NoSurface
                     THEN Paint!TransparencyParams(paint) ELSE paint.surface
             t == [s EXCEPT !.surface = made]
             rough == paint.zoom # 1 /\ paint.unfiltered
  <2>1. CASE paint.image = "none"
    <3>1. paint' = s /\ UNCHANGED seen
      BY <1>7, <2>1 DEF Paint!DisplayDraw
    <3>2. /\ s \in Paints /\ s.image = "none" /\ s.surface = paint.surface
          /\ s.missed = paint.missed
          /\ Paint!TransparencyParams(s) = Paint!TransparencyParams(paint)
      BY <1>0, <2>1 DEF Paints, Paint!TransparencyParams
    <3> QED BY <1>0, <1>1, <1>7, <3>1, <3>2
  <2>2. CASE paint.image # "none"
    <3>1. made \in Surfaces /\ (~paint.missed => made \in {Paint!NoSurface, Paint!TransparencyParams(paint)})
      BY <1>0, SurfacesAre DEF Paints
    <3>2. paint.image = "alpha" /\ ~paint.missed => made = Paint!TransparencyParams(paint)
      BY <1>0
    <3>a. rough \in BOOLEAN
      OBVIOUS
    <3>3. PICK r \in BOOLEAN : r = rough
      BY <3>a, Zenon
    <3>b. s.surface = paint.surface
      BY <1>0 DEF Paints
    <3>4. /\ t = [s EXCEPT !.surface = IF paint.image = "alpha" /\ @ = Paint!NoSurface
                                    THEN Paint!TransparencyParams(paint) ELSE @]
          /\ t.surface = made
      BY <1>0, <3>b DEF Paints
    <3>5. /\ paint' = IF rough THEN Paint!SetHqRedrawTimeout(t)
                      ELSE [Paint!ClearHqRedrawTimeout(t) EXCEPT !.unfiltered = TRUE]
          /\ seen' = [rough |-> rough,
                      behind |-> IF paint.image = "alpha" THEN made ELSE Paint!NoSurface]
      BY <1>7, <2>2, <3>4 DEF Paint!DisplayDraw
    <3> HIDE DEF made
    <3>6. \/ paint' = [paint EXCEPT !.draw = FALSE, !.surface = made, !.timeout = TRUE]
          \/ paint' = [paint EXCEPT !.draw = FALSE, !.surface = made, !.timeout = FALSE,
                                    !.unfiltered = TRUE]
      BY <3>5 DEF Paint!SetHqRedrawTimeout, Paint!ClearHqRedrawTimeout
    <3>7. /\ paint' \in Paints /\ paint'.surface = made /\ paint'.missed = paint.missed
          /\ paint'.image = paint.image
          /\ Paint!TransparencyParams(paint') = Paint!TransparencyParams(paint)
      BY <1>0, <3>1, <3>6 DEF Paints, Paint!TransparencyParams
    <3>8. PICK b \in Surfaces : /\ b = IF paint.image = "alpha" THEN made ELSE Paint!NoSurface
                                /\ paint.image = "alpha" => b = made
      BY <3>1, SurfacesAre
    <3>9. seen' = [rough |-> r, behind |-> b]
      BY <3>3, <3>5, <3>8
    <3>10. seen' \in [rough : BOOLEAN, behind : Surfaces] /\ seen'.behind = b
      BY <3>9
    <3> QED BY <1>0, <1>7, <3>1, <3>2, <3>7, <3>8, <3>10
               DEF PaintInv, PatternInv, Paint!PaintedAsSet
  <2> QED BY <2>1, <2>2
<1>8. CASE settled' = TRUE /\ UNCHANGED <<paint, seen>>
  BY <1>0, <1>8 DEF PaintInv, PatternInv, Paint!PaintedAsSet
<1>9. CASE UNCHANGED Paint!paintVars
  BY <1>0, <1>9 DEF PaintInv, PatternInv, Paint!PaintedAsSet, Paint!paintVars
<1> QED BY <1>2, <1>3, <1>4, <1>5, <1>6, <1>7, <1>8, <1>9 DEF Paint!Next, Paint!Changes

LEMMA PaintInit == Paint!Init => PaintInv
<1> SUFFICES ASSUME Paint!Init PROVE PaintInv
  OBVIOUS
<1>1. PICK style \in Paint!Styles, color \in Colors :
        paint = [image |-> "none", zoom |-> 1, style |-> style, color |-> color,
                 surface |-> Paint!NoSurface, unfiltered |-> FALSE, timeout |-> FALSE,
                 draw |-> FALSE, missed |-> FALSE]
  BY DEF Paint!Init
<1>2. paint \in Paints /\ paint.surface = Paint!NoSurface /\ paint.image = "none"
  BY <1>1, SurfacesAre DEF Paints
<1>3. seen \in [rough : BOOLEAN, behind : Surfaces] /\ settled \in BOOLEAN
  BY SurfacesAre DEF Paint!Init
<1> QED BY <1>2, <1>3 DEF PaintInv, PatternInv, Paint!PaintedAsSet

LEMMA PaintMeaning ==
  PaintInv => Paint!TypeOK /\ Paint!PaintedAsSet
<1> SUFFICES ASSUME PaintInv PROVE Paint!TypeOK
  BY DEF PaintInv
<1>1. paint \in Paints /\ seen \in [rough : BOOLEAN, behind : Surfaces] /\ settled \in BOOLEAN
  BY DEF PaintInv, PatternInv
<1>2. /\ paint.image \in {"none", "opaque", "alpha"} /\ paint.zoom \in {1, 2}
      /\ paint.style \in Paint!Styles /\ paint.color \in Colors
      /\ paint.surface \in Surfaces /\ seen.behind \in Surfaces
  BY <1>1 DEF Paints
<1>3. {paint.surface, seen.behind} \subseteq (Paint!Styles \cup {"NONE"}) \X (Colors \cup {0})
  BY <1>2 DEF Surfaces
<1>4. {paint.unfiltered, paint.timeout, paint.draw, paint.missed, seen.rough, settled} \subseteq BOOLEAN
  BY <1>1 DEF Paints
<1> QED BY <1>2, <1>3, <1>4 DEF Paint!TypeOK

\* A picture with transparent parts is painted on what the settings say, for any number of
\* colours and however often picture, zoom and settings change; unless a setting changed
\* while an opaque picture was shown (_transp_background_changed, display_draw).
THEOREM PaintedOnSettings ==
  PaintSpec => [](Paint!TypeOK /\ Paint!PaintedAsSet)
<1>1. PaintInv => Paint!TypeOK /\ Paint!PaintedAsSet
  BY PaintMeaning
<1> QED BY <1>1, PaintInit, PaintStep, PTL DEF PaintSpec
-----------------------------------------------------------------------------
(* The preview of a print *)

PreviewSpec == Preview!Init /\ [][Preview!Next]_(Preview!previewVars)

Aligns == {Preview!NaN} \cup 0 .. Whole
Previews == [area : Areas, paper : Papers, scale : Scales, surface : Nat, flag : BOOLEAN,
             draw : BOOLEAN, grabbed : BOOLEAN, pressed : BOOLEAN,
             align : [Preview!Axes -> Aligns], rejected : [Preview!Axes -> Int]]

\* What was rejected on an axis was so at an end of it; a pointer that is not pressed has
\* rejected nothing.
DragInv(p) ==
  /\ p.grabbed => p.pressed
  /\ ~p.pressed => \A a \in Preview!Axes : p.rejected[a] = 0
  /\ \A a \in Preview!Axes : p.rejected[a] # 0 => p.align[a] \in {Preview!NaN, 0, Whole}

\* The surface is that of the image unless the flag says it is old.
SurfaceInv(p) == ~p.flag => p.surface = Preview!SurfaceOf(p)

PreviewInv ==
  /\ preview \in Previews /\ DragInv(preview) /\ SurfaceInv(preview)
  /\ drawn \in Nat /\ idles \in BOOLEAN /\ moves \in 0 .. MaxMoves
  /\ Preview!DrawnAsSet

LEMMA PreviewSizes ==
  ASSUME PreviewAssumption, NEW p \in Previews
  PROVE  /\ Preview!SurfaceOf(p) \in Nat
         /\ \A a \in Preview!Axes : Preview!Room(p, a) \in Nat
<1>1. p.area \in Areas /\ p.paper \in Papers /\ p.scale \in Scales
  BY DEF Previews
<1>2. p.area \in Nat /\ p.paper \in Nat \ {0} /\ p.scale \in Nat
  BY <1>1 DEF PreviewAssumption
<1>3. PICK q \in Nat : q = (2 * p.area) \div p.paper
  <2>1. PICK k \in Nat : k = 2 * p.area
    BY <1>2
  <2>2. k \div p.paper \in Nat
    BY <1>2
  <2> QED BY <2>1, <2>2
<1>4. Preview!Width(p) = q * p.scale /\ q * p.scale \in Nat
  <2>1. Preview!Width(p) = q * p.scale
    BY <1>3, Zenon DEF Preview!Width
  <2>2. p.scale \in Nat
    BY <1>2
  <2>3. PICK k \in Nat : k = p.scale
    BY <2>2
  <2>4. q * k \in Nat
    OBVIOUS
  <2> QED BY <2>1, <2>3, <2>4
<1>5. ASSUME NEW a \in Preview!Axes PROVE Preview!Room(p, a) \in Nat
  <2>1. ((2 * p.area) \div p.paper) * p.scale <= 2 * p.area * Page[a]
    BY <1>1 DEF PreviewAssumption
  <2>2. Page[a] \in Nat
    BY DEF PreviewAssumption
  <2>3. PICK r \in Nat : r = 2 * p.area * Page[a]
    BY <1>2, <2>2
  <2>4. q * p.scale <= r
    BY <1>3, <2>1, <2>3
  <2>5. Preview!Room(p, a) = r - q * p.scale
    BY <1>4, <2>3 DEF Preview!Room
  <2>6. PICK m \in Nat : m = q * p.scale
    BY <1>4
  <2> QED BY <2>4, <2>5, <2>6
<1> QED BY <1>4, <1>5 DEF Preview!SurfaceOf

LEMMA AddedIsInt ==
  ASSUME Whole \in Nat \ {0}, NEW align \in Aligns, NEW d \in Int, NEW room \in Nat
  PROVE  Preview!Added(align, d, room) \in Int
<1>1. align \in Int /\ Preview!NaN \in Int
  BY DEF Aligns, Preview!NaN
<1>2. CASE room = 0
  BY <1>1, <1>2 DEF Preview!Added
<1>3. CASE room # 0
  <2>1. d * Whole \in Int
    OBVIOUS
  <2>2. (d * Whole) \div room \in Int
    BY <1>3, <2>1
  <2>3. PICK n \in Int : n = (d * Whole) \div room
    BY <2>2
  <2> QED BY <1>1, <1>3, <2>3 DEF Preview!Added
<1> QED BY <1>2, <1>3

SameSize(t, p) == /\ t.flag = p.flag /\ t.surface = p.surface
                  /\ t.area = p.area /\ t.paper = p.paper /\ t.scale = p.scale

\* One axis: the image goes where the pointer is, or stays at an end and the rest is rejected.
LEMMA DragOne ==
  ASSUME PreviewAssumption, NEW p \in Previews, DragInv(p), p.grabbed,
         NEW a \in Preview!Axes, NEW d \in Int
  PROVE  /\ Preview!Drag(p, a, d) \in Previews /\ DragInv(Preview!Drag(p, a, d))
         /\ Preview!Drag(p, a, d).grabbed /\ SameSize(Preview!Drag(p, a, d), p)
<1> DEFINE goal(t) == t \in Previews /\ DragInv(t) /\ t.grabbed /\ SameSize(t, p)
           sum == Preview!Added(p.align[a], d + p.rejected[a], Preview!Room(p, a))
<1>1. /\ p.align \in [Preview!Axes -> Aligns] /\ p.rejected \in [Preview!Axes -> Int]
      /\ Whole \in Nat \ {0}
  BY DEF Previews, PreviewAssumption
<1>2. p.align[a] \in Aligns /\ p.rejected[a] \in Int /\ d + p.rejected[a] \in Int
  BY <1>1
<1>3. sum \in Int
  BY <1>1, <1>2, AddedIsInt, PreviewSizes
<1>4. Preview!Drag(p, a, d) =
        IF sum = Preview!NaN \/ sum \in 0 .. Whole
        THEN [p EXCEPT !.align[a] = sum, !.rejected[a] = 0]
        ELSE [p EXCEPT !.align[a] = Preview!ClampAlign(sum), !.rejected[a] = @ + d]
  BY DEF Preview!Drag
<1> HIDE DEF sum
\* Both cases change one component of each function.
<1>5. ASSUME NEW x \in Aligns, NEW r \in Int, r # 0 => x \in {Preview!NaN, 0, Whole}
      PROVE  goal([p EXCEPT !.align[a] = x, !.rejected[a] = r])
  <2> DEFINE align == [p.align EXCEPT ![a] = x]
             rejected == [p.rejected EXCEPT ![a] = r]
             t == [p EXCEPT !.align = align, !.rejected = rejected]
  <2>1. align \in [Preview!Axes -> Aligns] /\ rejected \in [Preview!Axes -> Int]
    BY <1>1
  <2>2. /\ align[a] = x /\ rejected[a] = r
        /\ \A b \in Preview!Axes \ {a} : align[b] = p.align[b] /\ rejected[b] = p.rejected[b]
    BY <1>1
  <2>3. [p EXCEPT !.align[a] = x, !.rejected[a] = r] = t
    OBVIOUS
  <2> HIDE DEF align, rejected
  <2>4. /\ t \in Previews /\ t.grabbed = p.grabbed /\ t.pressed = p.pressed
        /\ t.align = align /\ t.rejected = rejected /\ SameSize(t, p)
    BY <2>1 DEF Previews, SameSize
  <2>5. DragInv(t)
    <3>1. t.pressed /\ p.pressed
      BY <2>4 DEF DragInv, Previews
    <3>2. ASSUME NEW b \in Preview!Axes, t.rejected[b] # 0
          PROVE  t.align[b] \in {Preview!NaN, 0, Whole}
      BY <1>5, <2>2, <2>4, <3>2 DEF DragInv
    <3> QED BY <3>1, <3>2 DEF DragInv
  <2> QED BY <2>3, <2>4, <2>5
<1> HIDE DEF goal
<1>6. CASE sum = Preview!NaN \/ sum \in 0 .. Whole
  <2>1. sum \in Aligns /\ 0 \in Int
    BY <1>6 DEF Aligns
  <2>2. goal([p EXCEPT !.align[a] = sum, !.rejected[a] = 0])
    BY <1>5, <2>1
  <2> QED BY <1>4, <1>6, <2>2 DEF goal
<1>7. CASE ~(sum = Preview!NaN \/ sum \in 0 .. Whole)
  <2> DEFINE x == Preview!ClampAlign(sum)
             r == p.rejected[a] + d
  <2>1. x \in {0, Whole} /\ r \in Int
    BY <1>1, <1>2, <1>3, <1>7 DEF Preview!ClampAlign, Preview!Clamp
  <2>2. x \in Aligns
    BY <1>1, <2>1 DEF Aligns
  <2> HIDE DEF x
  <2>3. goal([p EXCEPT !.align[a] = x, !.rejected[a] = r])
    BY <1>5, <2>1, <2>2
  <2>4. [p EXCEPT !.align[a] = x, !.rejected[a] = @ + d]
          = [p EXCEPT !.align[a] = x, !.rejected[a] = r]
    BY <1>1
  <2> QED BY <1>4, <1>7, <2>3, <2>4 DEF x, goal
<1> QED BY <1>6, <1>7

LEMMA SurfaceSame ==
  ASSUME NEW s, NEW t, t.area = s.area, t.paper = s.paper, t.scale = s.scale
  PROVE  Preview!SurfaceOf(t) = Preview!SurfaceOf(s)
BY DEF Preview!SurfaceOf, Preview!Width

\* What happens draws again.
LEMMA HappensKeeps ==
  ASSUME PreviewInv, MaxMoves \in Nat, NEW p \in Previews, DragInv(p), SurfaceInv(p),
         Preview!Happens(p), idles' \in BOOLEAN
  PROVE  PreviewInv'
<1>1. /\ preview' = [p EXCEPT !.draw = TRUE] /\ drawn' = drawn
      /\ moves < MaxMoves /\ moves' = moves + 1 /\ moves \in 0 .. MaxMoves /\ drawn \in Nat
  BY DEF Preview!Happens, PreviewInv
<1>2. moves' \in 0 .. MaxMoves /\ drawn' \in Nat
  BY <1>1
<1>3. /\ preview' \in Previews /\ preview'.draw /\ preview'.grabbed = p.grabbed
      /\ preview'.pressed = p.pressed /\ preview'.rejected = p.rejected
      /\ preview'.align = p.align /\ preview'.flag = p.flag /\ preview'.surface = p.surface
      /\ preview'.area = p.area /\ preview'.paper = p.paper /\ preview'.scale = p.scale
  BY <1>1 DEF Previews
<1>4. DragInv(preview')
  BY <1>3 DEF DragInv
<1>5. SurfaceInv(preview')
  BY <1>3, SurfaceSame DEF SurfaceInv
<1> QED BY <1>2, <1>3, <1>4, <1>5 DEF PreviewInv, Preview!DrawnAsSet

LEMMA PreviewStep ==
  ASSUME PreviewAssumption, PreviewInv, [Preview!Next]_(Preview!previewVars)
  PROVE  PreviewInv'
<1>0. /\ preview \in Previews /\ DragInv(preview) /\ SurfaceInv(preview)
      /\ drawn \in Nat /\ idles \in BOOLEAN /\ moves \in 0 .. MaxMoves
      /\ Preview!DrawnAsSet /\ MaxMoves \in Nat
  BY DEF PreviewInv, PreviewAssumption
<1>1. ASSUME NEW p \in Previews, p.flag, p.grabbed = preview.grabbed,
             p.pressed = preview.pressed, p.rejected = preview.rejected,
             p.align = preview.align, Preview!Happens(p), idles' \in BOOLEAN
      PROVE  PreviewInv'
  <2>1. DragInv(p) /\ SurfaceInv(p)
    BY <1>0, <1>1 DEF DragInv, SurfaceInv
  <2> QED BY <1>0, <1>1, <2>1, HappensKeeps
<1>2. ASSUME NEW scale \in Scales, Preview!ScaleChanged(scale) PROVE PreviewInv'
  <2> DEFINE p == [preview EXCEPT !.scale = scale, !.flag = TRUE]
  <2>1. Preview!Happens(p) /\ idles' = idles
    BY <1>2 DEF Preview!ScaleChanged, Preview!SetScale
  <2>2. /\ p \in Previews /\ p.flag /\ p.grabbed = preview.grabbed /\ p.align = preview.align
        /\ p.pressed = preview.pressed /\ p.rejected = preview.rejected
    BY <1>0 DEF Previews
  <2> HIDE DEF p
  <2> QED BY <1>0, <1>1, <2>1, <2>2
<1>3. ASSUME NEW scale \in Scales, NEW paper \in Papers, Preview!SetPaper(paper, scale)
      PROVE  PreviewInv'
  <2> DEFINE p == [preview EXCEPT !.scale = scale, !.flag = TRUE, !.paper = paper]
  <2>1. Preview!Happens(p) /\ idles' = idles
    BY <1>3 DEF Preview!SetPaper, Preview!SetScale
  <2>2. /\ p \in Previews /\ p.flag /\ p.grabbed = preview.grabbed /\ p.align = preview.align
        /\ p.pressed = preview.pressed /\ p.rejected = preview.rejected
    BY <1>0 DEF Previews
  <2> HIDE DEF p
  <2> QED BY <1>0, <1>1, <2>1, <2>2
<1>4. ASSUME NEW area \in Areas, Preview!SizeAllocate(area) PROVE PreviewInv'
  <2> DEFINE p == [preview EXCEPT !.area = area, !.flag = TRUE]
  <2>1. Preview!Happens(p) /\ idles' = TRUE
    BY <1>4 DEF Preview!SizeAllocate
  <2>2. /\ p \in Previews /\ p.flag /\ p.grabbed = preview.grabbed /\ p.align = preview.align
        /\ p.pressed = preview.pressed /\ p.rejected = preview.rejected
    BY <1>0 DEF Previews
  <2> HIDE DEF p
  <2> QED BY <1>0, <1>1, <2>1, <2>2
\* The mouse and the keys leave the size as it is.
<1>5. ASSUME NEW p \in Previews, DragInv(p), p.flag = preview.flag,
             p.surface = preview.surface, p.area = preview.area, p.paper = preview.paper,
             p.scale = preview.scale, Preview!Happens(p), idles' = idles
      PROVE  PreviewInv'
  <2>1. SurfaceInv(p)
    BY <1>0, <1>5, SurfaceSame DEF SurfaceInv
  <2> QED BY <1>0, <1>5, <2>1, HappensKeeps
<1>6. ASSUME NEW inside \in BOOLEAN, Preview!ButtonPress(inside) PROVE PreviewInv'
  <2> DEFINE p == [preview EXCEPT !.pressed = TRUE, !.grabbed = inside]
  <2>1. Preview!Happens(p) /\ idles' = idles /\ ~preview.pressed
    BY <1>6 DEF Preview!ButtonPress
  <2>2. /\ p \in Previews /\ p.pressed /\ p.flag = preview.flag /\ p.surface = preview.surface
        /\ p.area = preview.area /\ p.paper = preview.paper /\ p.scale = preview.scale
        /\ p.rejected = preview.rejected /\ p.align = preview.align
    BY <1>0 DEF Previews
  <2> HIDE DEF p
  <2>3. DragInv(p)
    BY <1>0, <2>2 DEF DragInv
  <2> QED BY <1>5, <2>1, <2>2, <2>3
<1>7. ASSUME Preview!ButtonRelease PROVE PreviewInv'
  <2> DEFINE nothing == [a \in Preview!Axes |-> 0]
             p == [preview EXCEPT !.pressed = FALSE, !.grabbed = FALSE, !.rejected = nothing]
  <2>1. Preview!Happens(p) /\ idles' = idles
    BY <1>7 DEF Preview!ButtonRelease
  <2>2. nothing \in [Preview!Axes -> Int] /\ \A a \in Preview!Axes : nothing[a] = 0
    OBVIOUS
  <2> HIDE DEF nothing
  <2>3. /\ p \in Previews /\ ~p.pressed /\ ~p.grabbed /\ p.flag = preview.flag
        /\ p.area = preview.area /\ p.paper = preview.paper /\ p.scale = preview.scale
        /\ p.rejected = nothing /\ p.surface = preview.surface
    BY <1>0, <2>2 DEF Previews
  <2> HIDE DEF p
  <2>4. DragInv(p)
    BY <2>2, <2>3 DEF DragInv
  <2> QED BY <1>5, <2>1, <2>3, <2>4
<1>8. ASSUME NEW d \in Moves, NEW e \in Moves, Preview!Motion(d, e) PROVE PreviewInv'
  <2> DEFINE q == Preview!Drag(preview, "x", d)
             p == Preview!Drag(q, "y", e)
  <2>1. /\ Preview!Happens(p) /\ idles' = idles /\ preview.grabbed
        /\ d \in Int /\ e \in Int /\ "x" \in Preview!Axes /\ "y" \in Preview!Axes
    BY <1>8 DEF Preview!Motion, PreviewAssumption, Preview!Axes
  <2>2. q \in Previews /\ DragInv(q) /\ q.grabbed /\ SameSize(q, preview)
    BY <1>0, <2>1, DragOne
  <2> HIDE DEF q
  <2>3. p \in Previews /\ DragInv(p) /\ p.grabbed /\ SameSize(p, q)
    BY <2>1, <2>2, DragOne
  <2> HIDE DEF p
  <2>4. /\ p.flag = preview.flag /\ p.surface = preview.surface
        /\ p.area = preview.area /\ p.paper = preview.paper /\ p.scale = preview.scale
    BY <2>2, <2>3 DEF SameSize
  <2> QED BY <1>5, <2>1, <2>3, <2>4
<1>9. ASSUME NEW a \in Preview!Axes, NEW step \in {-1, 1}, Preview!KeyPress(a, step)
      PROVE  PreviewInv'
  <2> DEFINE x == IF preview.align[a] = Preview!NaN THEN Preview!NaN
                  ELSE Preview!Clamp(preview.align[a] + step * (Whole \div 4), 0, Whole)
             align == [preview.align EXCEPT ![a] = x]
             p == [preview EXCEPT !.align = align]
  <2>1. Preview!Happens(p) /\ idles' = idles /\ ~preview.pressed
    BY <1>9 DEF Preview!KeyPress
  <2>2. preview.align \in [Preview!Axes -> Aligns] /\ Whole \in Nat \ {0}
    BY <1>0 DEF Previews, PreviewAssumption
  <2>3. x \in Aligns
    <3>1. Whole \div 4 \in Nat
      BY <2>2
    <3>2. PICK n \in Int : n = step * (Whole \div 4)
      BY <3>1
    <3>3. preview.align[a] \in Int /\ preview.align[a] + n \in Int
      BY <2>2 DEF Aligns, Preview!NaN
    <3> QED BY <2>2, <3>2, <3>3 DEF Aligns, Preview!Clamp
  <2> HIDE DEF x
  <2>4. align \in [Preview!Axes -> Aligns]
    BY <2>2, <2>3
  <2> HIDE DEF align
  <2>5. /\ p \in Previews /\ ~p.pressed /\ p.grabbed = preview.grabbed /\ p.flag = preview.flag
        /\ p.area = preview.area /\ p.paper = preview.paper /\ p.scale = preview.scale
        /\ p.rejected = preview.rejected /\ p.surface = preview.surface
    BY <1>0, <2>1, <2>4 DEF Previews
  <2> HIDE DEF p
  <2>6. DragInv(p)
    BY <1>0, <2>1, <2>5 DEF DragInv
  <2> QED BY <1>5, <2>1, <2>5, <2>6
\* The surface that is made is that of the image now.
<1>10. ASSUME NEW p, p = Preview!CreateSurface(preview)
       PROVE  /\ p \in Previews /\ ~p.flag /\ p.draw = preview.draw
              /\ p.surface = Preview!SurfaceOf(preview)
              /\ p.area = preview.area /\ p.paper = preview.paper /\ p.scale = preview.scale
              /\ DragInv(p)
  <2>1. Preview!SurfaceOf(preview) \in Nat
    BY <1>0, PreviewSizes
  <2>2. p = [preview EXCEPT !.surface = Preview!SurfaceOf(preview), !.flag = FALSE]
    BY <1>10 DEF Preview!CreateSurface
  <2>3. /\ p \in Previews /\ ~p.flag /\ p.surface = Preview!SurfaceOf(preview)
        /\ p.draw = preview.draw /\ p.area = preview.area /\ p.paper = preview.paper
        /\ p.scale = preview.scale /\ p.grabbed = preview.grabbed
        /\ p.pressed = preview.pressed /\ p.align = preview.align /\ p.rejected = preview.rejected
    BY <1>0, <2>1, <2>2 DEF Previews
  <2> QED BY <1>0, <2>3 DEF DragInv
<1>11. ASSUME Preview!Idle PROVE PreviewInv'
  <2>1. /\ preview' = Preview!CreateSurface(preview) /\ idles' = FALSE
        /\ drawn' = drawn /\ moves' = moves
    BY <1>11 DEF Preview!Idle
  <2>2. /\ preview' \in Previews /\ ~preview'.flag /\ preview'.draw = preview.draw
        /\ preview'.surface = Preview!SurfaceOf(preview) /\ DragInv(preview')
        /\ Preview!SurfaceOf(preview') = Preview!SurfaceOf(preview)
    BY <1>10, <2>1, SurfaceSame
  <2> QED BY <1>0, <2>1, <2>2 DEF PreviewInv, SurfaceInv, Preview!DrawnAsSet
<1>12. ASSUME Preview!Draw PROVE PreviewInv'
  <2> DEFINE p == IF preview.flag THEN Preview!CreateSurface(preview) ELSE preview
  <2>1. /\ preview' = [p EXCEPT !.draw = FALSE] /\ drawn' = p.surface
        /\ idles' = idles /\ moves' = moves
    BY <1>12 DEF Preview!Draw
  <2>2. /\ p \in Previews /\ ~p.flag /\ p.surface = Preview!SurfaceOf(preview) /\ DragInv(p)
        /\ p.area = preview.area /\ p.paper = preview.paper /\ p.scale = preview.scale
    BY <1>0, <1>10 DEF SurfaceInv, Previews
  <2> HIDE DEF p
  <2>3. /\ preview' \in Previews /\ ~preview'.flag /\ preview'.surface = p.surface
        /\ preview'.area = p.area /\ preview'.paper = p.paper /\ preview'.scale = p.scale
        /\ preview'.grabbed = p.grabbed /\ preview'.pressed = p.pressed
        /\ preview'.align = p.align /\ preview'.rejected = p.rejected
    BY <2>1, <2>2 DEF Previews
  <2>4. DragInv(preview')
    BY <2>2, <2>3 DEF DragInv
  <2>5. Preview!SurfaceOf(preview') = Preview!SurfaceOf(preview)
    BY <2>2, <2>3, SurfaceSame
  <2>6. drawn' \in Nat
    BY <2>1, <2>2 DEF Previews
  <2> QED BY <1>0, <2>1, <2>2, <2>3, <2>4, <2>5, <2>6 DEF PreviewInv, SurfaceInv, Preview!DrawnAsSet
<1>13. CASE UNCHANGED Preview!previewVars
  BY <1>0, <1>13 DEF PreviewInv, Preview!DrawnAsSet, Preview!previewVars
<1> QED BY <1>2, <1>3, <1>4, <1>6, <1>7, <1>8, <1>9, <1>11, <1>12, <1>13 DEF Preview!Next

LEMMA PreviewInit == PreviewAssumption /\ Preview!Init => PreviewInv
<1> SUFFICES ASSUME PreviewAssumption, Preview!Init PROVE PreviewInv
  OBVIOUS
<1> DEFINE align == [a \in Preview!Axes |-> Whole \div 2]
           rejected == [a \in Preview!Axes |-> 0]
<1>1. PICK area \in Areas, paper \in Papers, scale \in Scales :
        preview = [area |-> area, paper |-> paper, scale |-> scale, surface |-> Preview!NoSurface,
                   flag |-> TRUE, draw |-> TRUE, grabbed |-> FALSE, pressed |-> FALSE,
                   align |-> align, rejected |-> rejected]
  BY DEF Preview!Init
<1>2. /\ drawn = 0 /\ idles = TRUE /\ moves = 0 /\ MaxMoves \in Nat /\ Whole \in Nat \ {0}
      /\ Preview!NoSurface = 0
  BY DEF Preview!Init, PreviewAssumption, Preview!NoSurface
<1>3. align \in [Preview!Axes -> Aligns]
  <2>1. Whole \div 2 \in 0 .. Whole
    BY <1>2
  <2> QED BY <2>1 DEF Aligns
<1>4. rejected \in [Preview!Axes -> Int] /\ \A a \in Preview!Axes : rejected[a] = 0
  OBVIOUS
<1> HIDE DEF align, rejected
<1>5. /\ preview \in Previews /\ preview.flag /\ preview.draw /\ ~preview.grabbed
      /\ preview.rejected = rejected
  BY <1>1, <1>2, <1>3, <1>4 DEF Previews
<1> QED BY <1>2, <1>4, <1>5 DEF PreviewInv, DragInv, SurfaceInv, Preview!DrawnAsSet

LEMMA PreviewMeaning ==
  ASSUME PreviewAssumption
  PROVE  PreviewInv => Preview!TypeOK /\ Preview!DrawnAsSet /\ Preview!StaysUnderPointer
<1> SUFFICES ASSUME PreviewInv PROVE Preview!TypeOK /\ Preview!StaysUnderPointer
  BY DEF PreviewInv
<1>1. /\ preview \in Previews /\ DragInv(preview) /\ drawn \in Nat /\ idles \in BOOLEAN
      /\ moves \in 0 .. MaxMoves
  BY DEF PreviewInv
<1>2. Preview!TypeOK
  <2>1. {preview.flag, preview.draw, preview.grabbed, preview.pressed, idles} \subseteq BOOLEAN
    BY <1>1 DEF Previews
  <2>2. preview.area \in Areas /\ preview.paper \in Papers /\ preview.scale \in Scales
    BY <1>1 DEF Previews
  <2>3. \A a \in Preview!Axes :
          preview.align[a] \in {Preview!NaN} \cup 0 .. Whole /\ preview.rejected[a] \in Int
    <3>1. preview.align \in [Preview!Axes -> Aligns] /\ preview.rejected \in [Preview!Axes -> Int]
      BY <1>1 DEF Previews
    <3> QED BY <3>1 DEF Aligns
  <2> QED BY <1>1, <2>1, <2>2, <2>3 DEF Preview!TypeOK
<1>3. Preview!StaysUnderPointer
  BY <1>1 DEF DragInv, Preview!StaysUnderPointer
<1> QED BY <1>2, <1>3

\* Whatever is allocated, set, dragged and drawn, idle or not, the surface that is seen has
\* the size of the image, and an image that a drag left behind is at an end of its room
\* (eom_print_preview_draw, motion_notify_event_cb); for all sizes in which it fits.
THEOREM PreviewAsDragged ==
  ASSUME PreviewAssumption
  PROVE  PreviewSpec => [](Preview!TypeOK /\ Preview!DrawnAsSet /\ Preview!StaysUnderPointer)
<1> USE PreviewAssumption
<1>1. PreviewInv => Preview!TypeOK /\ Preview!DrawnAsSet /\ Preview!StaysUnderPointer
  BY PreviewMeaning
<1>2. Preview!Init => PreviewInv
  BY PreviewInit
<1>3. PreviewInv /\ [Preview!Next]_(Preview!previewVars) => PreviewInv'
  BY PreviewStep
<1> QED BY <1>1, <1>2, <1>3, PTL DEF PreviewSpec
-----------------------------------------------------------------------------
(* The clipboard *)

ClipboardSpec == Clipboard!Init /\ [][Clipboard!Next]_(Clipboard!clipboardVars)

PixbufOrNone == 0 .. MaxPixbufs
Handlers == [refs : {0, 1}, floating : {FALSE}, pixbuf : PixbufOrNone, copied : PixbufOrNone]
Counts == [Clipboard!Pixbufs -> Int]
States == [refs : Counts, handlers : Seq(Handlers), owner : Nat]

One(condition) == IF condition THEN 1 ELSE 0

\* What handler h of s has, none for 0
Has(s, h, p) == h # 0 /\ s.handlers[h].pixbuf = p

\* A handler lives that owns the clipboard, and h, which was just made. Such a handler has
\* what was copied. The count of a pixbuf that was used is the number of who has it.
Counted(s, h) ==
  /\ s \in States /\ s.owner \in 0 .. Len(s.handlers) /\ h \in 0 .. Len(s.handlers)
  /\ h # 0 => h # s.owner
  /\ \A n \in 1 .. Len(s.handlers) :
       /\ s.handlers[n].refs = One(n = h \/ n = s.owner)
       /\ n = h \/ n = s.owner => s.handlers[n].pixbuf = s.handlers[n].copied
  /\ \A p \in Clipboard!Pixbufs :
       \/ s.refs[p] = One(bitmap = p) + One(Has(s, s.owner, p)) + One(Has(s, h, p))
       \/ /\ s.refs[p] = -1 /\ bitmap # p
          /\ ~Has(s, s.owner, p) /\ ~Has(s, h, p)

ClipboardInv ==
  /\ bitmap \in PixbufOrNone
  /\ Counted(Clipboard!State, 0)
  /\ Len(handlers) <= MaxCopies
  /\ pasted.of = pasted.copied

-----------------------------------------------------------------------------
(* The number of the handlers that live *)

LEMMA NoneAlive == Clipboard!Cardinality({}) = 0
BY FS_EmptySet DEF Clipboard!Cardinality, Cardinality

LEMMA OneAlive == ASSUME NEW x PROVE Clipboard!Cardinality({x}) = 1
BY FS_Singleton DEF Clipboard!Cardinality, Cardinality
-----------------------------------------------------------------------------
(* References *)

LEMMA UpCounts ==
  ASSUME NEW r \in Counts, NEW p \in PixbufOrNone, MaxPixbufs \in Nat
  PROVE  /\ Clipboard!Up(r, p) \in Counts /\ Clipboard!Down(r, p) \in Counts
         /\ \A q \in Clipboard!Pixbufs : /\ Clipboard!Up(r, p)[q] = r[q] + One(p = q)
                                         /\ Clipboard!Down(r, p)[q] = r[q] - One(p = q)
<1>1. p # 0 => p \in Clipboard!Pixbufs
  BY DEF PixbufOrNone, Clipboard!Pixbufs
<1>2. 0 \notin Clipboard!Pixbufs
  BY DEF Clipboard!Pixbufs
<1> QED BY <1>1, <1>2 DEF Counts, Clipboard!Up, Clipboard!Down, Clipboard!None, One

\* The owner so far lets its pixbuf go.
LEMMA ClearFuncCounts ==
  ASSUME NEW s, NEW h, Counted(s, h), MaxPixbufs \in Nat
  PROVE  /\ Counted(Clipboard!ClearFunc(s), h) /\ Clipboard!ClearFunc(s).owner = 0
         /\ Len(Clipboard!ClearFunc(s).handlers) = Len(s.handlers)
<1>0. /\ s \in States /\ s.owner \in 0 .. Len(s.handlers) /\ h \in 0 .. Len(s.handlers)
      /\ (h # 0 => h # s.owner) /\ s.refs \in Counts /\ s.handlers \in Seq(Handlers)
      /\ Len(s.handlers) \in Nat
  BY DEF Counted, States
<1>1. CASE s.owner = 0
  BY <1>1 DEF Clipboard!ClearFunc, Clipboard!None
<1>2. CASE s.owner # 0
  <2> DEFINE o == s.owner
             x == s.handlers[o]
             t == Clipboard!ClearFunc(s)
  <2>1. o \in 1 .. Len(s.handlers) /\ x \in Handlers /\ x.refs = 1 /\ x.pixbuf = x.copied
    BY <1>0, <1>2 DEF Counted, One
  <2>2. x.pixbuf \in PixbufOrNone /\ o # h
    BY <1>0, <1>2, <2>1 DEF Handlers
  <2> DEFINE dead == [x EXCEPT !.refs = 0, !.pixbuf = 0]
             hs == [s.handlers EXCEPT ![o] = dead]
             r == Clipboard!Down(s.refs, x.pixbuf)
  <2>3. t = [refs |-> r, handlers |-> hs, owner |-> 0]
    <3>1. t = [refs |-> r,
               handlers |-> [s.handlers EXCEPT ![o].refs = 0, ![o].pixbuf = 0],
               owner |-> 0]
      BY <1>2, <2>1 DEF Clipboard!ClearFunc, Clipboard!Dispose, Clipboard!None
    <3> QED BY <1>0, <2>1, <3>1
  <2> HIDE DEF t
  <2>4. dead \in Handlers
    <3>1. 0 \in PixbufOrNone
      BY DEF PixbufOrNone
    <3> QED BY <2>1, <3>1 DEF Handlers
  <2>5. hs \in Seq(Handlers) /\ Len(hs) = Len(s.handlers)
    BY <1>0, <2>1, <2>4
  <2>6. /\ hs[o].refs = 0
        /\ \A n \in 1 .. Len(s.handlers) : n # o => hs[n] = s.handlers[n]
    BY <1>0, <2>1 DEF Handlers
  <2> HIDE DEF hs, dead
  <2>7. /\ r \in Counts
        /\ \A p \in Clipboard!Pixbufs : r[p] = s.refs[p] - One(x.pixbuf = p)
    BY <1>0, <2>2, UpCounts
  <2> HIDE DEF r
  <2>8. t \in States /\ t.owner = 0 /\ t.handlers = hs /\ t.refs = r
    BY <2>3, <2>5, <2>7 DEF States
  <2>9. ASSUME NEW n \in 1 .. Len(hs)
        PROVE  /\ hs[n].refs = One(n = h \/ n = 0)
               /\ n = h \/ n = 0 => hs[n].pixbuf = hs[n].copied
    <3>0. n \in 1 .. Len(s.handlers)
      BY <2>5
    <3>1. CASE n = o
      BY <2>2, <2>6, <3>0, <3>1 DEF One
    <3>2. CASE n # o
      <4>1. hs[n] = s.handlers[n]
        BY <2>6, <3>0, <3>2
      <4>2. /\ s.handlers[n].refs = One(n = h \/ n = o)
            /\ n = h \/ n = o => s.handlers[n].pixbuf = s.handlers[n].copied
        BY <3>0 DEF Counted
      <4> QED BY <3>0, <3>2, <4>1, <4>2 DEF One
    <3> QED BY <3>1, <3>2
  <2>10. ASSUME NEW p \in Clipboard!Pixbufs
         PROVE  \/ r[p] = One(bitmap = p) + One(Has(t, 0, p)) + One(Has(t, h, p))
                \/ r[p] = -1 /\ bitmap # p /\ ~Has(t, 0, p) /\ ~Has(t, h, p)
    <3>1. \/ s.refs[p] = One(bitmap = p) + One(Has(s, o, p)) + One(Has(s, h, p))
          \/ s.refs[p] = -1 /\ bitmap # p /\ ~Has(s, o, p) /\ ~Has(s, h, p)
      BY DEF Counted
    <3>2. Has(t, h, p) <=> Has(s, h, p)
      BY <1>0, <2>2, <2>6, <2>8 DEF Has
    <3>3. Has(s, o, p) <=> x.pixbuf = p
      BY <1>2 DEF Has
    <3>4. ~Has(t, 0, p)
      BY DEF Has
    <3>5. r[p] = s.refs[p] - One(x.pixbuf = p)
      BY <2>7
    <3> HIDE DEF x, o
    <3> QED BY <3>1, <3>2, <3>3, <3>4, <3>5 DEF One
  <2> QED BY <1>0, <2>5, <2>8, <2>9, <2>10 DEF Counted, t
<1> QED BY <1>1, <1>2

LEMMA StateIs ==
  /\ Clipboard!State.refs = refs /\ Clipboard!State.handlers = handlers
  /\ Clipboard!State.owner = owner
BY DEF Clipboard!State

LEMMA CountedState ==
  ASSUME ClipboardInv
  PROVE  /\ bitmap \in PixbufOrNone /\ refs \in Counts /\ handlers \in Seq(Handlers)
         /\ owner \in 0 .. Len(handlers)
         /\ \A n \in 1 .. Len(handlers) :
              /\ handlers[n].refs = One(n = owner)
              /\ n = owner => handlers[n].pixbuf = handlers[n].copied
         /\ \A p \in Clipboard!Pixbufs :
              \/ refs[p] = One(bitmap = p) + One(Has(Clipboard!State, owner, p))
              \/ refs[p] = -1 /\ bitmap # p /\ ~Has(Clipboard!State, owner, p)
<1>1. /\ bitmap \in PixbufOrNone /\ refs \in Counts /\ handlers \in Seq(Handlers)
      /\ owner \in 0 .. Len(handlers)
  BY StateIs DEF ClipboardInv, Counted, States
<1>2. ASSUME NEW n \in 1 .. Len(handlers)
      PROVE  /\ handlers[n].refs = One(n = owner)
             /\ n = owner => handlers[n].pixbuf = handlers[n].copied
  <2>1. /\ handlers[n].refs = One(n = 0 \/ n = owner)
        /\ n = 0 \/ n = owner => handlers[n].pixbuf = handlers[n].copied
    BY StateIs DEF ClipboardInv, Counted
  <2>2. n # 0
    BY <1>1
  <2> QED BY <2>1, <2>2 DEF One
<1>3. ASSUME NEW p \in Clipboard!Pixbufs
      PROVE  \/ refs[p] = One(bitmap = p) + One(Has(Clipboard!State, owner, p))
             \/ refs[p] = -1 /\ bitmap # p /\ ~Has(Clipboard!State, owner, p)
  <2>1. \/ refs[p] = One(bitmap = p) + One(Has(Clipboard!State, owner, p))
                     + One(Has(Clipboard!State, 0, p))
        \/ /\ refs[p] = -1 /\ bitmap # p
           /\ ~Has(Clipboard!State, owner, p) /\ ~Has(Clipboard!State, 0, p)
    BY StateIs DEF ClipboardInv, Counted
  <2>2. ~Has(Clipboard!State, 0, p)
    BY DEF Has
  <2> QED BY <2>1, <2>2 DEF One
<1> QED BY <1>1, <1>2, <1>3

\* Who only reads changes nothing; the image changes its own reference.
LEMMA SameClipboard ==
  ASSUME ClipboardInv, UNCHANGED <<bitmap, refs, handlers, owner>>, pasted'.of = pasted'.copied
  PROVE  ClipboardInv'
<1>1. Clipboard!State' = Clipboard!State
  BY DEF Clipboard!State
<1>2. Counted(Clipboard!State, 0)'
  BY <1>1 DEF ClipboardInv, Counted, Has
<1> QED BY <1>2 DEF ClipboardInv

LEMMA ImageCounted ==
  ASSUME ClipboardInv, UNCHANGED <<handlers, owner, pasted>>, bitmap' \in PixbufOrNone,
         refs' \in Counts,
         \A p \in Clipboard!Pixbufs :
           \/ refs'[p] = One(bitmap' = p) + One(Has(Clipboard!State, owner, p))
           \/ refs'[p] = -1 /\ bitmap' # p /\ ~Has(Clipboard!State, owner, p)
  PROVE  ClipboardInv'
<1>1. /\ Clipboard!State'.refs = refs' /\ Clipboard!State'.handlers = handlers
      /\ Clipboard!State'.owner = owner
      /\ Clipboard!State' = [refs |-> refs', handlers |-> handlers, owner |-> owner]
  BY DEF Clipboard!State
<1>2. Clipboard!State' \in States
  BY <1>1, CountedState DEF States
<1>3. ASSUME NEW p \in Clipboard!Pixbufs
      PROVE  /\ Has(Clipboard!State', owner, p) <=> Has(Clipboard!State, owner, p)
             /\ ~Has(Clipboard!State', 0, p)
  BY <1>1, StateIs DEF Has
<1>4. ASSUME NEW n \in 1 .. Len(handlers)
      PROVE  /\ handlers[n].refs = One(n = 0 \/ n = owner)
             /\ n = 0 \/ n = owner => handlers[n].pixbuf = handlers[n].copied
  BY CountedState DEF One
<1>5. ASSUME NEW p \in Clipboard!Pixbufs
      PROVE  \/ refs'[p] = One(bitmap' = p) + One(Has(Clipboard!State', owner, p))
                            + One(Has(Clipboard!State', 0, p))
             \/ /\ refs'[p] = -1 /\ bitmap' # p
                /\ ~Has(Clipboard!State', owner, p) /\ ~Has(Clipboard!State', 0, p)
  BY <1>3 DEF One
<1>6. owner \in 0 .. Len(handlers) /\ 0 \in 0 .. Len(handlers)
  BY CountedState
<1>7. Counted(Clipboard!State, 0)'
  BY <1>1, <1>2, <1>4, <1>5, <1>6 DEF Counted
<1> QED BY <1>7 DEF ClipboardInv

LEMMA StateChanged ==
  ASSUME NEW a, NEW b, NEW c, NEW d, NEW e, NEW s,
         s = [[refs |-> a, handlers |-> b, owner |-> c] EXCEPT !.refs = d, !.handlers = e]
  PROVE  s = [refs |-> d, handlers |-> e, owner |-> c]
OBVIOUS

LEMMA HandlersChanged ==
  ASSUME NEW a, NEW b, NEW c, NEW e, NEW s,
         s = [[refs |-> a, handlers |-> b, owner |-> c] EXCEPT !.handlers = e]
  PROVE  s = [refs |-> a, handlers |-> e, owner |-> c]
OBVIOUS

LEMMA Floats ==
  ASSUME NEW p
  PROVE  [[refs |-> 1, floating |-> TRUE, pixbuf |-> p, copied |-> p] EXCEPT !.floating = FALSE]
           = [refs |-> 1, floating |-> FALSE, pixbuf |-> p, copied |-> p]
<1>1. ASSUME NEW f, NEW g
      PROVE  [[refs |-> 1, floating |-> f, pixbuf |-> p, copied |-> p] EXCEPT !.floating = g]
               = [refs |-> 1, floating |-> g, pixbuf |-> p, copied |-> p]
  OBVIOUS
<1> QED BY <1>1, Zenon

\* A copy: the new handler takes a reference, the old owner goes, and so does the new one
\* if it cannot own the clipboard.
LEMMA CopyCounted ==
  ASSUME ClipboardAssumption, ClipboardInv, Clipboard!CopyImage
  PROVE  ClipboardInv'
<1>0. /\ bitmap \in PixbufOrNone /\ refs \in Counts /\ handlers \in Seq(Handlers)
      /\ owner \in 0 .. Len(handlers) /\ MaxPixbufs \in Nat /\ MaxCopies \in Nat
      /\ Len(handlers) \in Nat /\ Len(handlers) < MaxCopies
  BY CountedState DEF ClipboardAssumption, Clipboard!CopyImage
<1> DEFINE n == Len(handlers) + 1
           new == Clipboard!New(refs)
           made == [refs |-> 1, floating |-> TRUE, pixbuf |-> bitmap, copied |-> bitmap]
           sunken == [refs |-> 1, floating |-> FALSE, pixbuf |-> bitmap, copied |-> bitmap]
           s == [Clipboard!State EXCEPT !.refs = new.refs,
                                        !.handlers = Append(@, new.handler)]
           t == [s EXCEPT !.handlers[n] = Clipboard!Sink(@)]
<1>1. new.refs \in Counts /\ \A p \in Clipboard!Pixbufs : new.refs[p] = refs[p] + One(bitmap = p)
  <2>1. new.refs = Clipboard!Down(Clipboard!Up(Clipboard!Up(refs, bitmap), bitmap), bitmap)
    BY DEF Clipboard!New, Clipboard!SetPixbuf
  <2>2. PICK a \in Counts : /\ a = Clipboard!Up(refs, bitmap)
                            /\ \A p \in Clipboard!Pixbufs : a[p] = refs[p] + One(bitmap = p)
    BY <1>0, UpCounts
  <2>3. PICK b \in Counts : /\ b = Clipboard!Up(a, bitmap)
                            /\ \A p \in Clipboard!Pixbufs : b[p] = a[p] + One(bitmap = p)
    BY <1>0, UpCounts
  <2>4. PICK c \in Counts : /\ c = Clipboard!Down(b, bitmap)
                            /\ \A p \in Clipboard!Pixbufs : c[p] = b[p] - One(bitmap = p)
    BY <1>0, UpCounts
  <2>5. new.refs = c
    BY <2>1, <2>2, <2>3, <2>4
  <2>6. ASSUME NEW p \in Clipboard!Pixbufs PROVE c[p] = refs[p] + One(bitmap = p)
    <3>1. refs[p] \in Int /\ One(bitmap = p) \in Int
      BY <1>0 DEF Counts, One
    <3> QED BY <2>2, <2>3, <2>4, <3>1
  <2> QED BY <2>5, <2>6
<1>2. new.handler = made
  BY DEF Clipboard!New
<1> HIDE DEF new
<1> DEFINE hs == Append(handlers, sunken)
<1>3. sunken \in Handlers
  BY <1>0 DEF Handlers
<1>4. t = [refs |-> new.refs, handlers |-> hs, owner |-> owner]
  <2> DEFINE as == Append(handlers, made)
  <2>1. s = [refs |-> new.refs, handlers |-> as, owner |-> owner]
    <3> HIDE DEF made
    <3>1. Append(handlers, new.handler) = as
      BY <1>2
    <3> HIDE DEF as
    <3>2. s = [Clipboard!State EXCEPT !.refs = new.refs, !.handlers = as]
      BY <3>1, StateIs
    <3> HIDE DEF s
    <3>3. s = [[refs |-> refs, handlers |-> handlers, owner |-> owner]
                 EXCEPT !.refs = new.refs, !.handlers = as]
      BY <3>2 DEF Clipboard!State
    <3> QED BY <3>3, Zenon, StateChanged
  <2>2. Clipboard!Sink(made) = sunken
    <3>1. Clipboard!Sink(made) = [made EXCEPT !.floating = FALSE]
      BY DEF Clipboard!Sink
    <3> QED BY <3>1, Floats
  <2>3. as[n] = made
    BY <1>0
  <2> HIDE DEF made, sunken, n, s
  <2>4. s.handlers = as
    BY <2>1
  <2> DEFINE xs == [as EXCEPT ![n] = sunken]
  <2>5. [s.handlers EXCEPT ![n] = Clipboard!Sink(@)] = xs
    <3> HIDE DEF as
    <3> QED BY <2>2, <2>3, <2>4
  <2>6. xs = hs
    <3> DEFINE any == Handlers \cup {made, sunken}
    <3>1. handlers \in Seq(any) /\ made \in any /\ sunken \in any
      BY <1>0
    <3> HIDE DEF any
    <3> USE DEF n
    <3>2. as \in Seq(any) /\ Len(as) = n /\ hs \in Seq(any) /\ Len(hs) = n /\ hs[n] = sunken
      BY <1>0, <3>1
    <3>3. xs \in Seq(any) /\ Len(xs) = n /\ xs[n] = sunken
      BY <1>0, <3>1, <3>2
    <3>4. ASSUME NEW i \in 1 .. n PROVE xs[i] = hs[i]
      <4>1. CASE i = n
        BY <3>2, <3>3, <4>1
      <4>2. CASE i # n
        <5>1. i \in 1 .. Len(handlers)
          BY <1>0, <4>2
        <5>2. as[i] = handlers[i] /\ hs[i] = handlers[i]
          BY <1>0, <3>1, <5>1
        <5>3. xs[i] = as[i]
          <6> HIDE DEF as, n
          <6> QED BY <3>2, <4>2
        <5> QED BY <5>2, <5>3
      <4> QED BY <4>1, <4>2
    <3> HIDE DEF xs, hs, n
    <3> QED BY <3>2, <3>3, <3>4, SeqEqual
  <2> HIDE DEF as
  <2>7. t = [s EXCEPT !.handlers = xs]
    <3> HIDE DEF xs
    <3> QED BY <2>5
  <2> HIDE DEF xs, hs, t
  <2>8. t = [[refs |-> new.refs, handlers |-> as, owner |-> owner] EXCEPT !.handlers = hs]
    BY <2>1, <2>6, <2>7
  <2> QED BY <2>8, HandlersChanged, Zenon
<1>5. /\ hs \in Seq(Handlers) /\ Len(hs) = n /\ hs[n] = sunken
      /\ \A i \in 1 .. Len(handlers) : hs[i] = handlers[i]
  BY <1>0, <1>3
<1> HIDE DEF hs
<1> HIDE DEF t
<1>6. t \in States /\ t.refs = new.refs /\ t.handlers = hs /\ t.owner = owner
  BY <1>0, <1>1, <1>4, <1>5 DEF States
<1> HIDE DEF s
<1>7. Counted(t, n)
  <2>1. owner \in 0 .. Len(hs) /\ n \in 0 .. Len(hs) /\ n # 0 /\ n # owner
    BY <1>0, <1>5
  <2>2. ASSUME NEW i \in 1 .. Len(hs)
        PROVE  /\ hs[i].refs = One(i = n \/ i = owner)
               /\ i = n \/ i = owner => hs[i].pixbuf = hs[i].copied
    <3>1. CASE i = n
      BY <1>5, <3>1 DEF One
    <3>2. CASE i # n
      <4>1. i \in 1 .. Len(handlers)
        BY <1>0, <1>5, <3>2
      <4> QED BY <1>5, <3>2, <4>1, CountedState DEF One
    <3> QED BY <3>1, <3>2
  <2>3. ASSUME NEW p \in Clipboard!Pixbufs
        PROVE  \/ new.refs[p] = One(bitmap = p) + One(Has(t, owner, p)) + One(Has(t, n, p))
               \/ new.refs[p] = -1 /\ bitmap # p /\ ~Has(t, owner, p) /\ ~Has(t, n, p)
    <3>1. Has(t, owner, p) <=> Has(Clipboard!State, owner, p)
      BY <1>0, <1>5, <1>6, StateIs DEF Has
    <3>2. Has(t, n, p) <=> bitmap = p
      BY <1>0, <1>5, <1>6 DEF Has
    <3>3. \/ refs[p] = One(bitmap = p) + One(Has(Clipboard!State, owner, p))
          \/ refs[p] = -1 /\ bitmap # p /\ ~Has(Clipboard!State, owner, p)
      BY CountedState
    <3>4. new.refs[p] = refs[p] + One(bitmap = p)
      BY <1>1
    <3> QED BY <3>1, <3>2, <3>3, <3>4 DEF One
  <2> HIDE DEF n
  <2> QED BY <1>6, <2>1, <2>2, <2>3 DEF Counted
<1> DEFINE unowned == Clipboard!ClearFunc(t)
           u == [unowned EXCEPT !.owner = n]
<1>8. Counted(unowned, n) /\ unowned.owner = 0 /\ Len(unowned.handlers) = n
  <2> HIDE DEF n
  <2> QED BY <1>0, <1>5, <1>6, <1>7, ClearFuncCounts
<1> HIDE DEF unowned
<1>9. u \in States /\ u.refs = unowned.refs /\ u.handlers = unowned.handlers /\ u.owner = n
  BY <1>0, <1>8 DEF Counted, States
<1> HIDE DEF u
<1>10. Counted(u, 0) /\ Len(u.handlers) = n
  <2>1. n # 0 /\ n \in 0 .. Len(u.handlers) /\ 0 \in 0 .. Len(u.handlers)
    BY <1>0, <1>8, <1>9
  <2> HIDE DEF n
  <2>2. ASSUME NEW i \in 1 .. Len(u.handlers)
        PROVE  /\ u.handlers[i].refs = One(i = 0 \/ i = n)
               /\ i = 0 \/ i = n => u.handlers[i].pixbuf = u.handlers[i].copied
    <3>1. /\ u.handlers[i].refs = One(i = n \/ i = 0)
          /\ i = n \/ i = 0 => u.handlers[i].pixbuf = u.handlers[i].copied
      BY <1>8, <1>9 DEF Counted
    <3> QED BY <3>1 DEF One
  <2>3. ASSUME NEW p \in Clipboard!Pixbufs
        PROVE  \/ u.refs[p] = One(bitmap = p) + One(Has(u, n, p)) + One(Has(u, 0, p))
               \/ u.refs[p] = -1 /\ bitmap # p /\ ~Has(u, n, p) /\ ~Has(u, 0, p)
    <3>1. Has(u, n, p) <=> Has(unowned, n, p)
      BY <1>9 DEF Has
    <3>2. ~Has(u, 0, p) /\ ~Has(unowned, 0, p)
      BY DEF Has
    <3>3. \/ unowned.refs[p] = One(bitmap = p) + One(Has(unowned, 0, p)) + One(Has(unowned, n, p))
          \/ unowned.refs[p] = -1 /\ bitmap # p /\ ~Has(unowned, 0, p) /\ ~Has(unowned, n, p)
      BY <1>8 DEF Counted
    <3> QED BY <1>9, <3>1, <3>2, <3>3 DEF One
  <2> QED BY <1>8, <1>9, <2>1, <2>2, <2>3 DEF Counted
<1> DEFINE cleared == Clipboard!ClearFunc(u)
<1>11. Counted(cleared, 0) /\ Len(cleared.handlers) = n
  <2> HIDE DEF n
  <2> QED BY <1>0, <1>10, ClearFuncCounts
<1> HIDE DEF cleared
<1>12. Clipboard!Becomes(u) \/ Clipboard!Becomes(cleared)
  BY DEF Clipboard!CopyImage, Clipboard!CopyToClipboard, s, t, new, unowned, u, cleared
<1>13. ASSUME NEW v, Clipboard!Becomes(v), Counted(v, 0), Len(v.handlers) = n
       PROVE  ClipboardInv'
  <2>1. refs' = v.refs /\ handlers' = v.handlers /\ owner' = v.owner
    BY <1>13 DEF Clipboard!Becomes
  <2>2. v = [refs |-> v.refs, handlers |-> v.handlers, owner |-> v.owner]
    BY <1>13 DEF Counted, States
  <2>3. Clipboard!State' = v
    BY <2>1, <2>2 DEF Clipboard!State
  <2>4. bitmap' = bitmap /\ pasted' = pasted
    BY DEF Clipboard!CopyImage
  <2>5. Counted(Clipboard!State, 0)'
    BY <1>13, <2>3, <2>4 DEF Counted, Has
  <2>6. Len(handlers') <= MaxCopies
    BY <1>0, <1>13, <2>1
  <2> QED BY <1>0, <2>4, <2>5, <2>6 DEF ClipboardInv
<1> HIDE DEF n
<1> QED BY <1>10, <1>11, <1>12, <1>13

LEMMA ClipboardStep ==
  ASSUME ClipboardAssumption, ClipboardInv, [Clipboard!Next]_(Clipboard!clipboardVars)
  PROVE  ClipboardInv'
<1>0. /\ bitmap \in PixbufOrNone /\ refs \in Counts /\ MaxPixbufs \in Nat
      /\ pasted.of = pasted.copied
  BY CountedState DEF ClipboardAssumption, ClipboardInv
<1>1. CASE Clipboard!Replace
  <2>1. PICK x \in Clipboard!Pixbufs :
          /\ Clipboard!Unused(x) /\ bitmap' = x
          /\ refs' = [Clipboard!Down(refs, bitmap) EXCEPT ![x] = 1]
          /\ UNCHANGED <<handlers, owner, pasted>>
    BY <1>1 DEF Clipboard!Replace
  <2>2. PICK r \in Counts : /\ r = Clipboard!Down(refs, bitmap)
                            /\ \A p \in Clipboard!Pixbufs : r[p] = refs[p] - One(bitmap = p)
    BY <1>0, UpCounts
  <2>3. /\ refs' \in Counts /\ refs'[x] = 1
        /\ \A p \in Clipboard!Pixbufs : p # x => refs'[p] = r[p]
    BY <2>1, <2>2 DEF Counts
  <2>4. bitmap' \in PixbufOrNone
    BY <1>0, <2>1 DEF PixbufOrNone, Clipboard!Pixbufs
  <2>5. ASSUME NEW p \in Clipboard!Pixbufs
        PROVE  \/ refs'[p] = One(bitmap' = p) + One(Has(Clipboard!State, owner, p))
               \/ refs'[p] = -1 /\ bitmap' # p /\ ~Has(Clipboard!State, owner, p)
    <3>1. \/ refs[p] = One(bitmap = p) + One(Has(Clipboard!State, owner, p))
          \/ refs[p] = -1 /\ bitmap # p /\ ~Has(Clipboard!State, owner, p)
      BY CountedState
    <3>2. CASE p = x
      <4>1. refs[p] < 0
        BY <2>1, <3>2 DEF Clipboard!Unused
      <4>2. ~Has(Clipboard!State, owner, p)
        BY <3>1, <4>1 DEF One
      <4> QED BY <2>1, <2>3, <3>2, <4>2 DEF One
    <3>3. CASE p # x
      <4>1. refs'[p] = refs[p] - One(bitmap = p) /\ bitmap' # p
        BY <2>1, <2>2, <2>3, <3>3
      <4> QED BY <3>1, <4>1 DEF One
    <3> QED BY <3>2, <3>3
  <2> QED BY <2>1, <2>3, <2>4, <2>5, ImageCounted
<1>2. CASE Clipboard!FreeMem
  <2>1. /\ bitmap' = 0 /\ refs' = Clipboard!Down(refs, bitmap)
        /\ UNCHANGED <<handlers, owner, pasted>>
    BY <1>2 DEF Clipboard!FreeMem, Clipboard!None
  <2>2. /\ refs' \in Counts
        /\ \A p \in Clipboard!Pixbufs : refs'[p] = refs[p] - One(bitmap = p)
    BY <1>0, <2>1, UpCounts
  <2>3. ASSUME NEW p \in Clipboard!Pixbufs
        PROVE  \/ refs'[p] = One(bitmap' = p) + One(Has(Clipboard!State, owner, p))
               \/ refs'[p] = -1 /\ bitmap' # p /\ ~Has(Clipboard!State, owner, p)
    <3>1. \/ refs[p] = One(bitmap = p) + One(Has(Clipboard!State, owner, p))
          \/ refs[p] = -1 /\ bitmap # p /\ ~Has(Clipboard!State, owner, p)
      BY CountedState
    <3>2. bitmap' # p
      BY <2>1 DEF Clipboard!Pixbufs
    <3> QED BY <2>2, <3>1, <3>2 DEF One
  <2>4. bitmap' \in PixbufOrNone
    BY <1>0, <2>1 DEF PixbufOrNone
  <2> QED BY <2>1, <2>2, <2>3, <2>4, ImageCounted
<1>3. CASE Clipboard!CopyImage
  BY <1>3, CopyCounted
<1>4. CASE Clipboard!OtherOwns
  <2> DEFINE v == Clipboard!ClearFunc(Clipboard!State)
  <2>1. Counted(v, 0) /\ Len(v.handlers) = Len(handlers)
    BY <1>0, ClearFuncCounts, StateIs DEF ClipboardInv
  <2>2. refs' = v.refs /\ handlers' = v.handlers /\ owner' = v.owner /\ UNCHANGED <<bitmap, pasted>>
    BY <1>4 DEF Clipboard!OtherOwns, Clipboard!Becomes
  <2> HIDE DEF v
  <2>3. v = [refs |-> v.refs, handlers |-> v.handlers, owner |-> v.owner]
    BY <2>1 DEF Counted, States
  <2>4. Clipboard!State' = v
    BY <2>2, <2>3 DEF Clipboard!State
  <2>5. Counted(Clipboard!State, 0)'
    BY <2>1, <2>2, <2>4 DEF Counted, Has
  <2> QED BY <2>1, <2>2, <2>5 DEF ClipboardInv
<1>5. CASE Clipboard!GetFunc
  <2> DEFINE h == handlers[owner]
  <2>1. /\ owner # 0 /\ UNCHANGED <<bitmap, refs, handlers, owner>>
        /\ pasted'.of \in {h.pixbuf, h.copied} /\ pasted'.copied = h.copied
    BY <1>5 DEF Clipboard!GetFunc, Clipboard!None
  <2>2. h.pixbuf = h.copied
    BY <2>1, CountedState
  <2> QED BY <2>1, <2>2, SameClipboard
<1>6. CASE UNCHANGED Clipboard!clipboardVars
  BY <1>0, <1>6, SameClipboard DEF Clipboard!clipboardVars
<1> QED BY <1>1, <1>2, <1>3, <1>4, <1>5, <1>6 DEF Clipboard!Next

LEMMA ClipboardInit == ClipboardAssumption /\ Clipboard!Init => ClipboardInv
<1> SUFFICES ASSUME ClipboardAssumption, Clipboard!Init PROVE ClipboardInv
  OBVIOUS
<1>1. /\ bitmap = 0 /\ handlers = <<>> /\ owner = 0 /\ pasted.of = 0 /\ pasted.copied = 0
      /\ refs = [p \in Clipboard!Pixbufs |-> -1] /\ MaxPixbufs \in Nat /\ MaxCopies \in Nat
  BY DEF Clipboard!Init, Clipboard!None, Clipboard!Nothing, ClipboardAssumption
<1>2. Len(handlers) = 0 /\ handlers \in Seq(Handlers) /\ refs \in Counts
  BY <1>1 DEF Counts
<1>3. Clipboard!State \in States
  BY <1>1, <1>2 DEF States, Clipboard!State
<1>4. \A p \in Clipboard!Pixbufs :
        /\ refs[p] = -1 /\ bitmap # p
        /\ ~Has(Clipboard!State, owner, p) /\ ~Has(Clipboard!State, 0, p)
  BY <1>1 DEF Clipboard!Pixbufs, Has
<1>5. \A n \in 1 .. Len(handlers) : FALSE
  BY <1>2
<1>6. Counted(Clipboard!State, 0)
  BY <1>1, <1>2, <1>3, <1>4, <1>5, StateIs DEF Counted
<1> QED BY <1>1, <1>2, <1>6 DEF ClipboardInv, PixbufOrNone

LEMMA ClipboardMeaning ==
  ASSUME ClipboardAssumption, ClipboardInv
  PROVE  Clipboard!TypeOK /\ Clipboard!HandlerWhileOwner /\ Clipboard!PastedIsCopied
<1>0. /\ bitmap \in PixbufOrNone /\ refs \in Counts /\ handlers \in Seq(Handlers)
      /\ owner \in 0 .. Len(handlers) /\ Len(handlers) \in Nat
      /\ DOMAIN handlers = 1 .. Len(handlers)
      /\ Len(handlers) <= MaxCopies /\ MaxCopies \in Nat /\ MaxPixbufs \in Nat
      /\ pasted.of = pasted.copied
  BY CountedState DEF ClipboardInv, ClipboardAssumption
<1>1. ASSUME NEW n \in DOMAIN handlers PROVE Clipboard!Alive(n) <=> owner = n
  <2>1. handlers[n].refs = One(n = owner)
    BY <1>0, CountedState
  <2> QED BY <2>1 DEF Clipboard!Alive, One
<1>2. ASSUME NEW p \in Clipboard!Pixbufs
      PROVE  /\ refs[p] \in -1 .. MaxCopies + 1
             /\ refs[p] >= 0 => refs[p] = Clipboard!Holders(p)
  <2>1. \/ refs[p] = One(bitmap = p) + One(Has(Clipboard!State, owner, p))
        \/ refs[p] = -1 /\ bitmap # p /\ ~Has(Clipboard!State, owner, p)
    BY CountedState
  <2> DEFINE live == {n \in DOMAIN handlers : Clipboard!Alive(n) /\ handlers[n].pixbuf = p}
  <2>2. live = {n \in {owner} : Has(Clipboard!State, owner, p)}
    <3>1. ASSUME NEW n, n \in live PROVE n = owner /\ Has(Clipboard!State, owner, p)
      BY <1>0, <1>1, <3>1, StateIs DEF Has
    <3>2. ASSUME Has(Clipboard!State, owner, p) PROVE owner \in live
      <4>1. owner \in DOMAIN handlers /\ handlers[owner].pixbuf = p
        BY <1>0, <3>2, StateIs DEF Has
      <4> QED BY <1>1, <4>1
    <3> HIDE DEF live
    <3> QED BY <3>1, <3>2
  <2>3. Clipboard!Cardinality(live) = One(Has(Clipboard!State, owner, p))
    <3>1. CASE Has(Clipboard!State, owner, p)
      <4>1. live = {owner}
        BY <2>2, <3>1
      <4> HIDE DEF live
      <4> QED BY <3>1, <4>1, OneAlive DEF One
    <3>2. CASE ~Has(Clipboard!State, owner, p)
      <4>1. live = {}
        BY <2>2, <3>2
      <4> HIDE DEF live
      <4> QED BY <3>2, <4>1, NoneAlive DEF One
    <3> QED BY <3>1, <3>2
  <2>4. Clipboard!Holders(p) = Clipboard!Cardinality(live) + One(bitmap = p)
    BY DEF Clipboard!Holders, One
  <2> HIDE DEF live
  <2>5. Has(Clipboard!State, owner, p) => MaxCopies >= 1
    BY <1>0 DEF Has
  <2> QED BY <1>0, <2>1, <2>3, <2>4, <2>5 DEF One
<1>3. Clipboard!TypeOK
  <2>1. bitmap \in Clipboard!Pixbufs \cup {0} /\ owner \in DOMAIN handlers \cup {0}
    BY <1>0 DEF PixbufOrNone, Clipboard!Pixbufs
  <2> QED BY <1>2, <2>1 DEF Clipboard!TypeOK, Clipboard!None
<1>4. Clipboard!HandlerWhileOwner
  BY <1>1, <1>2 DEF Clipboard!HandlerWhileOwner
<1>5. ASSUME owner # 0, handlers[owner].copied # 0 PROVE refs[handlers[owner].copied] > 0
  <2>1. owner \in 1 .. Len(handlers) /\ handlers[owner] \in Handlers
    BY <1>0, <1>5
  <2>2. PICK p \in Clipboard!Pixbufs : p = handlers[owner].copied
    <3>1. handlers[owner].copied \in PixbufOrNone
      BY <2>1 DEF Handlers
    <3> QED BY <1>0, <1>5, <3>1 DEF PixbufOrNone, Clipboard!Pixbufs
  <2>3. handlers[owner].pixbuf = p
    BY <2>1, <2>2, CountedState
  <2>4. Has(Clipboard!State, owner, p)
    BY <1>5, <2>3, StateIs DEF Has
  <2>5. refs[p] = One(bitmap = p) + One(Has(Clipboard!State, owner, p))
    BY <2>4, CountedState
  <2> QED BY <2>2, <2>4, <2>5 DEF One
<1> QED BY <1>0, <1>3, <1>4, <1>5 DEF Clipboard!PastedIsCopied, Clipboard!None

\* In whatever order images are copied, replaced, freed and pasted and other programs take
\* the clipboard: a handler lives as long as it owns the clipboard, a pixbuf as long as the
\* image or that handler has it, and what is pasted is what was copied
\* (eom_clipboard_handler_clear_func); for any number of pixbufs and copies.
THEOREM ClipboardOwned ==
  ASSUME ClipboardAssumption
  PROVE  ClipboardSpec => [](/\ Clipboard!TypeOK
                             /\ Clipboard!HandlerWhileOwner /\ Clipboard!PastedIsCopied)
<1> USE ClipboardAssumption
<1>1. Clipboard!Init => ClipboardInv
  BY ClipboardInit
<1>2. ClipboardInv /\ [Clipboard!Next]_(Clipboard!clipboardVars) => ClipboardInv'
  BY ClipboardStep
<1>3. ClipboardInv =>
        Clipboard!TypeOK /\ Clipboard!HandlerWhileOwner /\ Clipboard!PastedIsCopied
  BY ClipboardMeaning
<1> QED BY <1>1, <1>2, <1>3, PTL DEF ClipboardSpec
-----------------------------------------------------------------------------
(* The parts, side by side *)

PartsInv ==
  /\ part = "mode" => ModeInv
  /\ part = "message" => MessageInv
  /\ part = "animation" => AnimationInv
  /\ part = "thumbnail" => ThumbnailInv
  /\ part = "store" => StoreInv
  /\ part = "thumbs" => ThumbsInv
  /\ part = "nav" => NavInv
  /\ part = "view" => ScrollerInv
  /\ part = "paint" => PaintInv
  /\ part = "preview" => PreviewInv
  /\ part = "clipboard" => ClipboardInv

LEMMA PartsInvInit == PartsInit => PartsInv
BY PartsAssumption, ModeInit, MessageInit, AnimationInit, ThumbnailInit, StoreInit, ThumbsInit,
   NavInit, ViewInit, PaintInit, PreviewInit, ClipboardInit DEF PartsInit, PartsInv

\* A step of the sum is one of the part that was chosen, or none.
LEMMA PartsNextIs ==
  [PartsNext]_partsVars => /\ part' = part
                           /\ part = "mode" => [Mode!Next]_(Mode!vars)
                           /\ part = "message" => [Message!Next]_(Message!messageVars)
                           /\ part = "animation" => [Animation!Next]_(Animation!animationVars)
                           /\ part = "thumbnail" => [Thumbnail!Next]_(Thumbnail!thumbnailVars)
                           /\ part = "store" => [Store!Next]_(Store!vars)
                           /\ part = "thumbs" => [Thumbs!Next]_(Thumbs!thumbVars)
                           /\ part = "nav" => [Nav!Next]_(Nav!navVars)
                           /\ part = "view" => [View!Next]_(View!vars)
                           /\ part = "paint" => [Paint!Next]_(Paint!paintVars)
                           /\ part = "preview" => [Preview!Next]_(Preview!previewVars)
                           /\ part = "clipboard" => [Clipboard!Next]_(Clipboard!clipboardVars)
BY DEF PartsNext, partsVars, modeVars, messageVars, animationVars, thumbnailVars, rowVars,
       thumbsVars, navVars, viewVars, paintVars, previewVars, clipboardVars, Mode!vars,
       Message!messageVars, Animation!animationVars, Thumbnail!thumbnailVars, Store!vars,
       Store!storeVars, Store!viewVars, Thumbs!thumbVars, Nav!navVars, View!vars,
       Paint!paintVars, Preview!previewVars, Clipboard!clipboardVars

LEMMA PartsInvStep == PartsInv /\ [PartsNext]_partsVars => PartsInv'
BY PartsAssumption, PartsNextIs, ModeStep, MessageStep, AnimationStep, ThumbnailStep, StoreStep,
   ThumbsStep, NavStep, ViewStep, PaintStep, PreviewStep, ClipboardStep DEF PartsInv

\* Whatever the user, the timeouts and the jobs do: the timers, bars and actions of a window
\* are those of its mode, its status bar and its info bar tell of the image it shows, the
\* buttons of the thumbnail bar tell where there is more, and a picture is painted on the
\* ground that is set.
THEOREM PartsTell == PartsSpec => []WindowTells
<1>1. PartsInv => WindowTells
  BY PartsAssumption, ModeMeaning, MessageMeaning, NavMeaning, PaintMeaning
     DEF PartsInv, WindowTells
<1> QED BY <1>1, PartsInvInit, PartsInvStep, PTL DEF PartsSpec

\* Thumbnails, cached and shown, pasted copies, animations and the preview of a print are
\* those of the image, for files of all sizes, however often they change.
THEOREM PartsCopy == PartsSpec => []CopiesAreOfImage
<1>1. PartsInv => CopiesAreOfImage
  BY PartsAssumption, AnimationMeaning, ThumbnailMeaning, PreviewMeaning, ClipboardMeaning
     DEF PartsInv, CopiesAreOfImage
<1> QED BY <1>1, PartsInvInit, PartsInvStep, PTL DEF PartsSpec

\* The collection is that of the directory, row by row, and every row has the job that is told
\* of it, for directories of any size and whatever becomes of their files.
THEOREM PartsList == PartsSpec => []RowsAsListed
<1>1. PartsInv => RowsAsListed
  BY PartsAssumption, StoreMeaning DEF PartsInv, RowsAsListed
<1> QED BY <1>1, PartsInvInit, PartsInvStep, PTL DEF PartsSpec

\* Who walks through the collection sees every image and stands on the next one after a
\* removal, and no file is lost untold, however many files there are.
THEOREM PartsWalk == PartsSpec => []CollectionAsSelected
<1>1. PartsInv => CollectionAsSelected
  BY PartsAssumption, ThumbsMeaning DEF PartsInv, CollectionAsSelected
<1> QED BY <1>1, PartsInvInit, PartsInvStep, PTL DEF PartsSpec

\* When the layout is done, the scroll view shows the picture as its zoom mode says, has the
\* bars it needs and offers the zoom there is, for pictures and windows of all sizes.
THEOREM PartsArrange == PartsSpec => []ScrollViewAsSet
<1>1. PartsInv => ScrollViewAsSet
  BY PartsAssumption, ViewMeaning DEF PartsInv, ScrollViewAsSet
<1> QED BY <1>1, PartsInvInit, PartsInvStep, PTL DEF PartsSpec
=============================================================================
