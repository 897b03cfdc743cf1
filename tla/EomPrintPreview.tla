---------------------------- MODULE EomPrintPreview ----------------------------
(***************************************************************************)
(* src/src/eom-print-preview.c: the page with the image on it, which is    *)
(* dragged with the mouse or moved with the arrow keys. A surface of the   *)
(* size in which the image is drawn is kept until it does not fit any more.*)
(*                                                                         *)
(* Lengths are pixels; the margins of the page are left out. A position is *)
(* a fraction of the room that the image leaves, in parts of Whole.        *)
(***************************************************************************)
EXTENDS Integers

CONSTANTS Areas,      \* sizes the drawing area may have
          Papers,     \* sizes of the paper
          Scales,     \* of the image
          Page,       \* the proportions of the page, by axis
          Whole,      \* an alignment of 1; every room there may be divides it
          Moves,      \* how far the pointer moves at once
          MaxMoves    \* bound: how often something happens

VARIABLES preview,    \* EomPrintPreviewPrivate
          drawn,      \* history: the surface that was drawn last
          idles,      \* create_surface_when_idle is due
          moves

previewVars == <<preview, drawn, idles, moves>>

Axes == {"x", "y"}
Clamp(n, low, high) == IF n > high THEN high ELSE IF n < low THEN low ELSE n

\* A floating point value that is not a number; it is not clamped either.
NaN == -1
ClampAlign(n) == IF n = NaN THEN NaN ELSE Clamp(n, 0, Whole)

\* update_relative_sizes
Width(p) == ((2 * p.area) \div p.paper) * p.scale
Room(p, a) == 2 * p.area * Page[a] - Width(p)

\* What create_surface makes: an image of the size it has in the preview
SurfaceOf(p) == Width(p)
CreateSurface(p) == [p EXCEPT !.surface = SurfaceOf(p), !.flag = FALSE]
NoSurface == 0

Happens(p) == /\ moves < MaxMoves /\ moves' = moves + 1
              /\ preview' = [p EXCEPT !.draw = TRUE] /\ UNCHANGED drawn
-----------------------------------------------------------------------------
(* Properties of the widget *)

\* Mutant: the surface is kept when the image is scaled.
SetScaleKeeps(p, scale) == [p EXCEPT !.scale = scale]

SetScale(p, scale) == [p EXCEPT !.scale = scale, !.flag = TRUE]

\* eom_print_image_setup_update sets the scale, then the paper.
SetPaper(paper, scale) ==
  /\ paper # preview.paper
  /\ Happens([SetScale(preview, scale) EXCEPT !.paper = paper]) /\ UNCHANGED idles

ScaleChanged(scale) ==
  /\ scale # preview.scale /\ Happens(SetScale(preview, scale)) /\ UNCHANGED idles

\* size_allocate_cb
SizeAllocate(area) ==
  /\ area # preview.area
  /\ Happens([preview EXCEPT !.area = area, !.flag = TRUE]) /\ idles' = TRUE
-----------------------------------------------------------------------------
(* The mouse and the keys *)

\* button_press_event_cb, inside of the image or not
ButtonPress(inside) ==
  /\ ~preview.pressed /\ UNCHANGED idles
  /\ Happens([preview EXCEPT !.pressed = TRUE, !.grabbed = inside])

ButtonRelease ==
  /\ preview.pressed /\ UNCHANGED idles
  /\ Happens([preview EXCEPT !.pressed = FALSE, !.grabbed = FALSE,
                             !.rejected = [a \in Axes |-> 0]])

\* What a distance adds to the alignment: divided by a room of 0 it is infinite,
\* 0 divided by 0 is not a number.
Added(align, d, room) ==
  IF align = NaN \/ (room = 0 /\ d = 0) THEN NaN
  ELSE IF room = 0 THEN (IF d > 0 THEN Whole + 1 ELSE -Whole)
  ELSE LET sum == align + ((d * Whole) \div room)
       IN IF sum = NaN THEN -Whole ELSE sum   \* any negative one is clamped

\* Mutant: what was rejected stays until the button is released.
DragKeeps(p, a, d) ==
  LET align == Added(p.align[a], d + p.rejected[a], Room(p, a))
  IN IF align = NaN \/ align \in 0..Whole THEN [p EXCEPT !.align[a] = align]
     ELSE [p EXCEPT !.align[a] = ClampAlign(align), !.rejected[a] = @ + d]

\* motion_notify_event_cb, for one axis
Drag(p, a, d) ==
  LET align == Added(p.align[a], d + p.rejected[a], Room(p, a))
  IN IF align = NaN \/ align \in 0..Whole
     THEN [p EXCEPT !.align[a] = align, !.rejected[a] = 0]
     ELSE [p EXCEPT !.align[a] = ClampAlign(align), !.rejected[a] = @ + d]

Motion(d, e) ==
  /\ preview.grabbed /\ UNCHANGED idles
  /\ Happens(Drag(Drag(preview, "x", d), "y", e))

\* key_press_event_cb; a step of a quarter
KeyPress(a, step) ==
  /\ ~preview.pressed /\ UNCHANGED idles
  /\ Happens([preview EXCEPT !.align[a] =
                IF @ = NaN THEN NaN ELSE Clamp(@ + step * (Whole \div 4), 0, Whole)])
-----------------------------------------------------------------------------
(* Drawing *)

Idle ==
  /\ idles /\ idles' = FALSE /\ preview' = CreateSurface(preview) /\ UNCHANGED <<drawn, moves>>

\* eom_print_preview_draw
Draw ==
  /\ preview.draw
  /\ LET p == IF preview.flag THEN CreateSurface(preview) ELSE preview
     IN preview' = [p EXCEPT !.draw = FALSE] /\ drawn' = p.surface
  /\ UNCHANGED <<idles, moves>>

\* eom_print_preview_new_with_pixbuf
Init ==
  /\ \E area \in Areas, paper \in Papers, scale \in Scales :
       preview = [area |-> area, paper |-> paper, scale |-> scale, surface |-> NoSurface,
                  flag |-> TRUE, draw |-> TRUE, grabbed |-> FALSE, pressed |-> FALSE,
                  align |-> [a \in Axes |-> Whole \div 2], rejected |-> [a \in Axes |-> 0]]
  /\ drawn = NoSurface /\ idles = TRUE /\ moves = 0

Next ==
  \/ \E scale \in Scales : ScaleChanged(scale) \/ \E paper \in Papers : SetPaper(paper, scale)
  \/ \E area \in Areas : SizeAllocate(area)
  \/ \E inside \in BOOLEAN : ButtonPress(inside)
  \/ ButtonRelease \/ \E d, e \in Moves : Motion(d, e)
  \/ \E a \in Axes, step \in {-1, 1} : KeyPress(a, step)
  \/ Idle \/ Draw
-----------------------------------------------------------------------------
\* Every variable has its type.
TypeOK ==
  /\ preview.area \in Areas /\ preview.paper \in Papers /\ preview.scale \in Scales
  /\ {preview.flag, preview.draw, preview.grabbed, preview.pressed, idles} \subseteq BOOLEAN
  /\ \A a \in Axes : preview.align[a] \in {NaN} \cup 0..Whole /\ preview.rejected[a] \in Int
  /\ drawn \in Nat /\ moves \in 0..MaxMoves

\* When all is drawn, the surface has the size that the image has now.
DrawnAsSet == ~preview.draw => drawn = SurfaceOf(preview)

\* A dragged image is where the pointer took it, or at the end of its room because the
\* pointer went farther at some time.
StaysUnderPointer ==
  \A a \in Axes :
    preview.grabbed /\ Room(preview, a) > 0 /\ preview.rejected[a] # 0 =>
      preview.align[a] \in {NaN, 0, Whole}
=============================================================================
