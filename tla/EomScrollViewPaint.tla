-------------------------- MODULE EomScrollViewPaint --------------------------
(***************************************************************************)
(* src/src/eom-scroll-view.c: what display_draw paints. While there is     *)
(* something to do the picture is scaled roughly; 200 ms after the last    *)
(* rough drawing it is drawn again with the filter. The pattern behind a   *)
(* picture with transparent parts is made once and kept.                   *)
(***************************************************************************)
EXTENDS Naturals

CONSTANTS Colors      \* values of the transparency-color property

VARIABLES p,          \* EomScrollViewPrivate, as far as it is painted
          seen,       \* history: what the display area shows
          quiet       \* from now on nobody touches the view

paintVars == <<p, seen, quiet>>

Styles == {"BACKGROUND", "CHECKED", "COLOR"}
NoSurface == <<"NONE", 0>>

\* get_transparency_params
TransparencyParams(s) == <<s.style, IF s.style = "COLOR" THEN s.color ELSE 0>>

QueueDraw(s) == [s EXCEPT !.draw = TRUE]

ClearHqRedrawTimeout(s) == [s EXCEPT !.timeout = FALSE]
SetHqRedrawTimeout(s) == [ClearHqRedrawTimeout(s) EXCEPT !.timeout = TRUE]

\* Mutant: the picture is drawn again, on the old pattern.
TranspBackgroundChangedKeeps(s) == IF s.image = "alpha" THEN QueueDraw(s) ELSE s

\* _transp_background_changed, asked only while such a picture is shown
TranspBackgroundChanged(s) ==
  IF s.image = "alpha" THEN QueueDraw([s EXCEPT !.surface = NoSurface])
  ELSE [s EXCEPT !.missed = @ \/ s.surface # NoSurface]

SetTransparency(style) ==
  /\ style # p.style
  /\ p' = TranspBackgroundChanged([p EXCEPT !.style = style])

SetTransparencyColor(color) ==
  /\ color # p.color
  /\ LET s == [p EXCEPT !.color = color]
     IN p' = IF p.style = "COLOR" THEN TranspBackgroundChanged(s) ELSE s

\* _eom_scroll_view_update_bg_color
UpdateBgColor ==
  p' = QueueDraw(IF p.style = "BACKGROUND" THEN [p EXCEPT !.surface = NoSurface] ELSE p)

\* eom_scroll_view_set_antialiasing_in, eom_scroll_view_set_antialiasing_out
SetAntialiasing == p' = QueueDraw(p)

\* set_zoom, scroll_to
Moved(zoom) == p.image # "none" /\ p' = QueueDraw([p EXCEPT !.zoom = zoom])

\* eom_scroll_view_set_image, image_changed_cb, display_next_frame_cb
UpdatePixbuf(image) == p' = QueueDraw([p EXCEPT !.image = image])
FreeImageResources == p.image # "none" /\ p' = [p EXCEPT !.image = "none"]

\* display_draw
DisplayDraw ==
  /\ p.draw
  /\ LET s == [p EXCEPT !.draw = FALSE]
         t == [s EXCEPT !.surface = IF p.image = "alpha" /\ @ = NoSurface
                                    THEN TransparencyParams(p) ELSE @]
         rough == p.zoom # 1 /\ p.unfiltered
     IN IF p.image = "none" THEN p' = s /\ UNCHANGED seen
        ELSE /\ p' = IF rough THEN SetHqRedrawTimeout(t)
                     ELSE [ClearHqRedrawTimeout(t) EXCEPT !.unfiltered = TRUE]
             /\ seen' = [rough |-> rough,
                         behind |-> IF p.image = "alpha" THEN t.surface ELSE NoSurface]

\* Mutant: the drawing comes from another place, which does not set the flag.
HqRedrawForgets == p.timeout /\ p' = QueueDraw([p EXCEPT !.timeout = FALSE])

\* _hq_redraw_cb
HqRedraw ==
  /\ p.timeout
  /\ p' = QueueDraw([p EXCEPT !.unfiltered = FALSE, !.timeout = FALSE])

\* eom_scroll_view_init, and the settings it binds
Init ==
  /\ \E style \in Styles, color \in Colors :
       p = [image |-> "none", zoom |-> 1, style |-> style, color |-> color,
            surface |-> NoSurface, unfiltered |-> FALSE, timeout |-> FALSE, draw |-> FALSE,
            missed |-> FALSE]   \* history: the look changed behind the pattern's back
  /\ seen = [rough |-> FALSE, behind |-> NoSurface]
  /\ quiet = FALSE

Changes ==
  \/ \E style \in Styles : SetTransparency(style)
  \/ \E color \in Colors : SetTransparencyColor(color)
  \/ UpdateBgColor \/ SetAntialiasing \/ FreeImageResources
  \/ \E zoom \in {1, 2} : Moved(zoom)
  \/ \E image \in {"opaque", "alpha"} : UpdatePixbuf(image)

Next ==
  \/ ~quiet /\ Changes /\ UNCHANGED <<seen, quiet>>
  \/ DisplayDraw /\ UNCHANGED quiet
  \/ HqRedraw /\ UNCHANGED <<seen, quiet>>
  \/ quiet' = TRUE /\ UNCHANGED <<p, seen>>
-----------------------------------------------------------------------------
\* Every variable has its type.
TypeOK ==
  /\ p.image \in {"none", "opaque", "alpha"} /\ p.zoom \in {1, 2}
  /\ p.style \in Styles /\ p.color \in Colors
  /\ {p.surface, seen.behind} \subseteq (Styles \cup {"NONE"}) \X (Colors \cup {0})
  /\ {p.unfiltered, p.timeout, p.draw, p.missed, seen.rough, quiet} \subseteq BOOLEAN

\* A picture with transparent parts is painted on what the settings say, however
\* often picture and settings have changed; but a setting that changes while an
\* opaque picture is shown leaves an old pattern behind
\* (_transp_background_changed).
PaintedAsSet ==
  ~p.draw /\ p.image = "alpha" /\ ~p.missed => seen.behind = TransparencyParams(p)

\* When nothing moves any more, the picture ends up sharp, and stays so.
Sharp == ~seen.rough /\ ~p.draw
SharpInTheEnd == quiet /\ p.image # "none" ~> []Sharp
=============================================================================
