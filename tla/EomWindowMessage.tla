---------------------------- MODULE EomWindowMessage ----------------------------
(***************************************************************************)
(* src/src/eom-window.c: what a window tells of the image it shows - the   *)
(* message area with its questions, the status bar, the icon, the          *)
(* properties dialog and the menu of other programs - when images are      *)
(* selected, loaded, changed by other programs, saved and set as wallpaper.*)
(*                                                                         *)
(* A load job is one step here, EomWindowLoad has its steps. Somebody else,*)
(* a save job, may hold the pixels of an image that is not shown.          *)
(***************************************************************************)
EXTENDS Naturals, Sequences

CONSTANTS Images,      \* numbered from 1
          MaxEvents    \* bound: what the user and other programs do

VARIABLES w,           \* EomWindowPrivate and its widgets
          img,         \* the images and their files
          events

messageVars == <<w, img, events>>

None == 0
NoArea == [kind |-> "none", of |-> None]
Area(kind, i) == [kind |-> kind, of |-> i]

HasPixels(s, i) == s.view = i \/ img[i].held

\* gtk_statusbar_pop and _push, in the context of the image
Pop(s) == [s EXCEPT !.status = IF @ = <<>> THEN <<>> ELSE Tail(@)]
Push(s, what, i) == [s EXCEPT !.status = <<Area(what, i)>> \o @]

UpdateStatusBar(s) == Push(Pop(s), IF s.image = None THEN "blank" ELSE "info", s.image)

\* image_thumb_changed_cb
ThumbChanged(s, i) ==
  [s EXCEPT !.icon = i, !.properties = IF @ = None THEN None ELSE i]

\* The menu keeps its actions for an image whose file is not there any more.
UpdateOpenWithMenu(s, i) == IF img[i].exists THEN [s EXCEPT !.menu = i] ELSE s

Most == 2    \* more handlers than that find the same as the second
Least(m, n) == IF m < n THEN m ELSE n

DisplayImage(s, i) ==
  UpdateOpenWithMenu(
    UpdateStatusBar(
      [ThumbChanged([s EXCEPT !.handlers[i] = Least(@ + 1, Most)], i)
         EXCEPT !.confirms = TRUE, !.view = i]), i)

\* handle_image_selection_changed_cb: the handlers of an image stay that gives way to one
\* whose pixels are there.
SelectionChanged(s, i) ==
  IF i = None THEN [s EXCEPT !.selected = None]
  ELSE LET c == Pop([s EXCEPT !.selected = i, !.load = None, !.area = NoArea,
                              !.wallpaper = TRUE])
       IN IF i = c.image THEN UpdateStatusBar(c)
          ELSE IF HasPixels(c, i) THEN DisplayImage([c EXCEPT !.image = i], i)
          ELSE Push([c EXCEPT !.load = i], "opening", i)

\* eom_thumb_view_select_single with CURRENT: nothing is selected in between.
SelectCurrent(s) ==
  IF s.selected = None THEN s ELSE SelectionChanged(SelectionChanged(s, None), s.selected)

\* eom_window_reload_image: the image is let go, its handlers are not.
ReloadImage(s) ==
  IF s.image = None THEN s ELSE SelectCurrent([s EXCEPT !.image = None, !.view = None])

\* image_file_changed_cb
FileChanged(s, i) ==
  IF ~s.confirms THEN s
  ELSE IF ~img[i].modified THEN ReloadImage(s)
  ELSE [s EXCEPT !.confirms = FALSE, !.area = Area("changed", i)]

\* The signal calls every handler that is connected when it is emitted.
Emitted(s, i) ==
  CASE s.handlers[i] = 0 -> s [] s.handlers[i] = 1 -> FileChanged(s, i)
    [] OTHER -> FileChanged(FileChanged(s, i), i)
-----------------------------------------------------------------------------
Becomes(s) == w' = s /\ UNCHANGED <<img, events>>
Event == events < MaxEvents /\ events' = events + 1

Select(i) == Event /\ w' = SelectionChanged(w, i) /\ UNCHANGED img

\* Mutant: the handlers are connected first.
LoadFinishedConnects ==
  /\ w.load # None
  /\ \/ Becomes([DisplayImage([Pop(w) EXCEPT !.image = w.load], w.load)
                   EXCEPT !.load = None, !.handlers[w.load] = 0])
     \/ Becomes([UpdateStatusBar([Pop(w) EXCEPT !.image = w.load])
                   EXCEPT !.area = Area("error", w.load), !.view = None, !.load = None])

\* eom_job_load_cb, with and without an error
LoadFinished ==
  /\ w.load # None
  /\ LET old == [h \in Images |-> IF h = w.image THEN 0 ELSE w.handlers[h]]
         c == [Pop(w) EXCEPT !.image = w.load, !.handlers = old]
     IN \/ Becomes([DisplayImage(c, w.load) EXCEPT !.load = None])
        \/ Becomes([UpdateStatusBar(c) EXCEPT !.area = Area("error", w.load), !.view = None,
                                              !.icon = None, !.load = None])

\* The answers to the question in the message area
ErrorResponse ==
  /\ w.area.kind = "error"
  /\ Becomes([w EXCEPT !.area = NoArea]) \/ Becomes(SelectCurrent(w))
FileChangedResponse ==
  /\ w.area.kind = "changed"
  /\ \E s \in {w, ReloadImage(w)} : Becomes([s EXCEPT !.confirms = TRUE, !.area = NoArea])
WallpaperResponse == w.area.kind = "wallpaper" /\ Becomes([w EXCEPT !.area = NoArea])

\* eom_window_cmd_wallpaper: a file that is not local is copied first.
SetAsWallpaper ==
  /\ w.wallpaper /\ w.selected # None /\ Event /\ UNCHANGED img
  /\ IF w.copying # None THEN w' = w
     ELSE \/ w' = [w EXCEPT !.area = Area("wallpaper", w.selected)]
          \/ w' = [w EXCEPT !.wallpaper = FALSE, !.copying = w.selected]
CopyFinished ==
  /\ w.copying # None
  /\ Becomes([w EXCEPT !.area = Area("wallpaper", w.copying), !.wallpaper = TRUE,
                       !.copying = None])

\* A save job, its progress for the image it is at, and its end
Save(i) ==
  /\ ~w.saving /\ w.selected # None /\ Event
  /\ w' = Push(Pop([w EXCEPT !.saving = TRUE]), "saving", i)
  /\ img' = [img EXCEPT ![i].held = TRUE]

\* Mutant: the status bar is left alone.
SaveFinishedSilent ==
  /\ w.saving /\ w' = [w EXCEPT !.saving = FALSE] /\ UNCHANGED events
  /\ img' = [i \in Images |-> [img[i] EXCEPT !.held = FALSE]]

SaveFinished ==
  /\ w.saving /\ w' = UpdateStatusBar([w EXCEPT !.saving = FALSE]) /\ UNCHANGED events
  /\ img' = [i \in Images |-> [img[i] EXCEPT !.held = FALSE]]

\* A transform or undo of the shown image
Transform ==
  /\ w.image # None /\ w.image = w.view /\ Event
  /\ img' = [img EXCEPT ![w.image].modified = ~@] /\ UNCHANGED w

\* eom_window_get_properties_dialog; a second call shows the dialog there is.
Properties ==
  /\ w.properties = None /\ w.image # None
  /\ Becomes([w EXCEPT !.properties = w.image])

\* The list store tells that a file changed, or a thumbnail.
FileEvent(i) == Event /\ w' = Emitted(w, i) /\ UNCHANGED img
ThumbEvent(i) == w.handlers[i] > 0 /\ Becomes(ThumbChanged(w, i))

FileGoes(i) == /\ Event /\ img[i].exists /\ img' = [img EXCEPT ![i].exists = FALSE]
               /\ UNCHANGED w

Init ==
  /\ w = [image |-> None, view |-> None, selected |-> None, load |-> None, area |-> NoArea,
          confirms |-> FALSE, handlers |-> [i \in Images |-> 0], status |-> <<>>,
          icon |-> None, properties |-> None, menu |-> None, wallpaper |-> FALSE,
          copying |-> None, saving |-> FALSE]
  /\ img = [i \in Images |-> [held |-> FALSE, modified |-> FALSE, exists |-> TRUE]]
  /\ events = 0

Next ==
  \/ \E i \in Images : Select(i) \/ FileEvent(i) \/ ThumbEvent(i) \/ FileGoes(i) \/ Save(i)
  \/ Select(None)
  \/ LoadFinished \/ ErrorResponse \/ FileChangedResponse \/ WallpaperResponse
  \/ SetAsWallpaper \/ CopyFinished \/ SaveFinished \/ Transform \/ Properties
-----------------------------------------------------------------------------
\* Every variable has its type.
TypeOK ==
  /\ \A i \in {w.image, w.view, w.selected, w.load, w.icon, w.properties, w.menu, w.copying} :
       i \in Images \cup {None}
  /\ w.area.kind \in {"none", "error", "changed", "wallpaper"}
  /\ w.handlers \in [Images -> 0..Most]
  /\ {w.confirms, w.wallpaper, w.saving} \subseteq BOOLEAN
  /\ img \in [Images -> [held : BOOLEAN, modified : BOOLEAN, exists : BOOLEAN]]
  /\ events \in 0..MaxEvents

\* Whichever way an image came into the view, the window hears of its file, whose handlers
\* are those of the image that the commands apply to.
ShownIsHeard == w.view # None => w.handlers[w.view] > 0 /\ w.image = w.view

\* With no job at work the status bar has one message, that of the image.
StatusTells ==
  w.load = None /\ ~w.saving /\ w.image # None => w.status = <<Area("info", w.image)>>
=============================================================================
