---------------------------- MODULE EomScrollView ----------------------------
(***************************************************************************)
(* src/src/eom-scroll-view.c: where the display area shows which part of   *)
(* the picture at which zoom. The widget is laid out again by GTK after a  *)
(* scroll bar came or went, and the display area learns its new size by an *)
(* event after that: until both have happened, size, offsets and scroll    *)
(* bars may disagree.                                                      *)
(*                                                                         *)
(* Lengths are pixels, a zoom factor counts units of 1/Unit, and everything*)
(* that has two directions is a function of the axis.                      *)
(***************************************************************************)
EXTENDS Integers, FiniteSets

CONSTANTS Sizes,      \* the sizes of the pictures
          Windows,    \* the sizes the widget may get
          Coords,     \* the pointer's coordinates
          Levels,     \* preferred_zoom_levels
          Unit, MinZoomFactor, MaxZoomFactor,
          Multiplier, \* zoom_multiplier
          Step,       \* SCROLL_STEP_SIZE
          Bar,        \* the thickness of a scroll bar
          MaxEvents   \* bound: events of the user and the window

Axes == {"x", "y"}
Other(a) == IF a = "x" THEN "y" ELSE "x"
NoSize == [a \in Axes |-> 0]    \* no pixbuf

VARIABLES v,        \* EomScrollViewPrivate and its widgets
          layout,   \* what GTK has still to do: "resize", "configure"
          events    \* how many events may still come

Lower(p, q) == IF p < q THEN p ELSE q
Higher(p, q) == IF p > q THEN p ELSE q
Clamp(p, low, high) == IF p > high THEN high ELSE IF p < low THEN low ELSE p
Rounded(p, q) == (2 * p + q) \div (2 * q)    \* floor (p / q + 0.5)
Equal(p, q) == \A a \in Axes : p[a] = q[a]

Points == {[a \in Axes |-> c] : c \in Coords}
-----------------------------------------------------------------------------
(* Sizes *)

ComputeScaledSize(s, zoom) == [a \in Axes |-> Rounded(s.pixbuf[a] * zoom, Unit)]

\* compute_center_zoom_offsets, with twice the anchor
ComputeCenterZoomOffsets(s, zoom, anchor2) ==
  LET old == ComputeScaledSize(s, s.zoom)
      new == ComputeScaledSize(s, zoom)
      centred(a) ==
        IF old[a] < s.display[a]
        THEN Rounded(anchor2[a] * (old[a] * zoom - s.display[a] * s.zoom),
                     2 * s.display[a] * s.zoom)
        ELSE Rounded((2 * s.ofs[a] + anchor2[a]) * zoom - anchor2[a] * s.zoom, 2 * s.zoom)
  IN [a \in Axes |-> IF new[a] < s.display[a] THEN 0 ELSE Higher(0, centred(a))]

\* The bounds and the value of both adjustments
UpdateScrollbarValues(s) ==
  LET scaled == ComputeScaledSize(s, s.zoom)
      page(a) == Lower(scaled[a], s.display[a])
      ofs == [a \in Axes |-> IF s.bar[a] THEN Clamp(s.ofs[a], 0, scaled[a] - page(a))
                             ELSE s.ofs[a]]
  IN [s EXCEPT !.ofs = ofs, !.missed = FALSE,
               !.adj = [a \in Axes |-> IF s.bar[a]
                                       THEN [value |-> ofs[a], upper |-> scaled[a], page |-> page(a)]
                                       ELSE @[a]]]

\* Mutant: each direction on its own
CheckScrollbarVisibilityOnce(s, size) ==
  LET img == ComputeScaledSize(s, s.zoom)
  IN [s EXCEPT !.bar = [a \in Axes |-> s.mode = "FREE" /\ img[a] > size[a]]]

\* A bar on one side may need one on the other.
CheckScrollbarVisibility(s, size) ==
  LET img == ComputeScaledSize(s, s.zoom)
      needed(a) == \/ img[a] > size[a]
                   \/ img[Other(a)] > size[Other(a)] /\ img[a] > size[a] - Bar
  IN [s EXCEPT !.bar = [a \in Axes |-> s.mode = "FREE" /\ needed(a)]]

IsImageMovable(s) == \E a \in Axes : s.bar[a]

SetMinimumZoomFactor(s) ==
  [s EXCEPT !.minZoom = Higher(MinZoomFactor, Higher(Rounded(Unit, s.pixbuf["x"]),
                                                     Rounded(Unit, s.pixbuf["y"])))]

\* "zoom_changed": the window asks whether this is a limit.
ZoomChanged(s) ==
  LET t == SetMinimumZoomFactor(s)
  IN [t EXCEPT !.canZoomIn = t.zoom # MaxZoomFactor,
               !.canZoomOut = t.zoom \notin {MinZoomFactor, t.minZoom}]

\* zoom_fit_size: the largest size of the same proportions
ZoomFitSize(dest, src, upscale) ==
  IF \A a \in Axes : src[a] <= dest[a] /\ ~upscale THEN src
  ELSE LET h == Rounded(src["y"] * dest["x"], src["x"])
       IN IF h > dest["y"]
          THEN [x |-> Rounded(src["x"] * dest["y"], src["y"]), y |-> dest["y"]]
          ELSE [x |-> dest["x"], y |-> h]

ZoomFitScale(dest, src, upscale) ==
  LET size == ZoomFitSize(dest, src, upscale)
  IN Lower((size["x"] * Unit) \div src["x"], (size["y"] * Unit) \div src["y"])

\* Mutant: Best Fit does not say that the zoom has changed.
SetZoomFitSilent(s) ==
  LET t == [s EXCEPT !.mode = "FIT"]
  IN IF ~s.mapped \/ s.pixbuf = NoSize THEN t
     ELSE [t EXCEPT !.zoom = Clamp(ZoomFitScale(s.display, s.pixbuf, s.upscale),
                                   MinZoomFactor, MaxZoomFactor),
                    !.ofs = NoSize]

SetZoomFit(s) ==
  LET t == [s EXCEPT !.mode = "FIT"]
  IN IF ~s.mapped \/ s.pixbuf = NoSize THEN t
     ELSE ZoomChanged([t EXCEPT !.zoom = Clamp(ZoomFitScale(s.display, s.pixbuf, s.upscale),
                                               MinZoomFactor, MaxZoomFactor),
                                !.ofs = NoSize])

\* set_zoom
SetZoom(s, factor, anchor2) ==
  LET zoom == Clamp(factor, MinZoomFactor, MaxZoomFactor)
      t == [s EXCEPT !.mode = "FREE",
                     !.ofs = ComputeCenterZoomOffsets(s, zoom, anchor2),
                     !.zoom = Higher(zoom, s.minZoom)]
  IN IF \/ s.pixbuf = NoSize \/ s.zoom = zoom
        \/ s.zoom = s.minZoom /\ zoom < s.zoom
     THEN s
     ELSE ZoomChanged(UpdateScrollbarValues(CheckScrollbarVisibility(t, s.size)))

Middle(s) == s.display    \* twice the anchor (0.5, 0.5)
Twice(p) == [a \in Axes |-> 2 * p[a]]

\* scroll_to: a direction without a bar does not move, but takes its offset.
ScrollTo(s, p, adjust) ==
  LET to == [a \in Axes |-> IF s.bar[a]
                            THEN Clamp(p[a], 0, s.adj[a].upper - s.adj[a].page) ELSE p[a]]
      value(a) == Clamp(to[a], 0, Higher(0, s.adj[a].upper - s.adj[a].page))
  IN IF \A a \in Axes : s.bar[a] => to[a] = s.ofs[a] THEN s
     ELSE [s EXCEPT !.ofs = to,
                    !.adj = [a \in Axes |-> IF adjust THEN [@[a] EXCEPT !.value = value(a)]
                                            ELSE @[a]]]

ScrollBy(s, p) == ScrollTo(s, [a \in Axes |-> s.ofs[a] + p[a]], TRUE)
-----------------------------------------------------------------------------
(* Events. A change of the bars makes GTK lay out the widget again. *)

Becomes(t) ==
  /\ v' = t
  /\ layout' = layout \cup IF t.bar # v.bar THEN {"resize"} ELSE {}

\* preferred_zoom_levels, or the last one again
ZoomIn ==
  Becomes(LET above == {z \in Levels : z > v.zoom}
          IN SetZoom(v, IF above = {} THEN v.zoom
                        ELSE CHOOSE z \in above : \A y \in above : z <= y, Middle(v)))

ZoomOut ==
  Becomes(LET below == {z \in Levels : z < v.zoom}
          IN SetZoom(v, IF below = {} THEN v.zoom
                        ELSE CHOOSE z \in below : \A y \in below : z >= y, Middle(v)))

ZoomNormal == Becomes(SetZoom(v, Unit, Middle(v)))

ZoomFit == Becomes(CheckScrollbarVisibility(SetZoomFit(v), v.size))

\* Plus and minus, and the wheel, at the pointer
ZoomAt(p) ==
  \E zoom \in {v.zoom * Multiplier, v.zoom \div Multiplier} :
    Becomes(SetZoom(v, zoom, Twice(p)))

\* The arrow keys and the wheel with a modifier
Scroll(a) == \E d \in {-Step, Step} : Becomes(ScrollBy(v, [NoSize EXCEPT ![a] = d]))

Paging(a) ==
  LET d == (v.display[a] * 3) \div 4
  IN \E p \in {d, -d} : Becomes(ScrollBy(v, [NoSize EXCEPT ![a] = p]))

ButtonPress(p) ==
  /\ ~v.dragging /\ IsImageMovable(v)
  /\ Becomes([v EXCEPT !.dragging = TRUE, !.grip = [a \in Axes |-> v.ofs[a] + p[a]]])

DragTo(p) == ScrollTo(v, [a \in Axes |-> v.grip[a] - p[a]], TRUE)

Motion(p) == v.dragging /\ Becomes(DragTo(p))

ButtonRelease(p) ==
  /\ v.dragging
  /\ Becomes([DragTo(p) EXCEPT !.dragging = FALSE, !.grip = NoSize])

\* adjustment_changed_cb: the user moves a bar, the other one is read, too.
AdjustmentChanged(a) ==
  /\ v.bar[a] /\ v.adj[a].upper > v.adj[a].page
  /\ \E value \in 0..(v.adj[a].upper - v.adj[a].page) \ {v.adj[a].value} :
       LET s == [v EXCEPT !.adj[a].value = value]
       IN v' = ScrollTo(s, [b \in Axes |-> s.adj[b].value], FALSE)
  /\ layout' = layout \cup {"resize"}

\* display_map_event
Map ==
  /\ ~v.mapped
  /\ Becomes(CheckScrollbarVisibility(SetZoomFit([v EXCEPT !.mapped = TRUE]), v.size))

SetUpscale ==
  LET s == [v EXCEPT !.upscale = ~@]
  IN Becomes(IF v.mode = "FIT" THEN SetZoomFit(s) ELSE s)

\* Mutant: a picture that is turned keeps the zoom.
ImageChangedKeeps(size) ==
  /\ v.pixbuf # NoSize /\ size # v.pixbuf
  /\ Becomes(CheckScrollbarVisibility([v EXCEPT !.pixbuf = size], v.size))

\* image_changed_cb: turned or loaded again
ImageChanged(size) ==
  /\ v.pixbuf # NoSize /\ size # v.pixbuf
  /\ Becomes(CheckScrollbarVisibility(SetZoomFit([v EXCEPT !.pixbuf = size]), v.size))

\* eom_scroll_view_set_image, to an image or to none
SetImage(size) ==
  Becomes(LET s == [v EXCEPT !.pixbuf = size]
          IN IF size = NoSize THEN s ELSE CheckScrollbarVisibility(SetZoomFit(s), v.size))

\* The window gets another size.
Resize(size) ==
  /\ size # v.size
  /\ v' = [v EXCEPT !.size = size] /\ layout' = layout \cup {"resize"}

\* eom_scroll_view_size_allocate: the bars first, then the display area.
SizeAllocate ==
  /\ "resize" \in layout
  /\ LET s == CheckScrollbarVisibility(v, v.size)
         display == [a \in Axes |-> v.size[a] - IF s.bar[Other(a)] THEN Bar ELSE 0]
     IN /\ v' = [s EXCEPT !.display = display,
                           !.missed = @ \/ (s.bar # v.bar /\ display = v.display)]
        /\ layout' = (IF s.bar # v.bar THEN {"resize"} ELSE {})
                     \cup IF display # v.display THEN {"configure"} ELSE layout \ {"resize"}

\* Mutant: the offset is corrected, the bars are not.
SizeChangeScrolls ==
  /\ "configure" \in layout
  /\ LET scaled == ComputeScaledSize(v, v.zoom)
         beyond(a) == Lower(0, scaled[a] - v.display[a] - v.ofs[a])
         s == IF v.mode = "FIT" THEN CheckScrollbarVisibility(SetZoomFit(v), v.display)
              ELSE ScrollBy(v, [a \in Axes |-> beyond(a)])
     IN /\ v' = s
        /\ layout' = (layout \ {"configure"}) \cup IF s.bar # v.bar THEN {"resize"} ELSE {}
-----------------------------------------------------------------------------
Init ==
  /\ layout = {} /\ events = MaxEvents
  /\ \E size \in Windows :
       v = [pixbuf |-> NoSize, zoom |-> Unit, minZoom |-> MinZoomFactor, mode |-> "FIT",
            upscale |-> FALSE, ofs |-> NoSize, bar |-> [a \in Axes |-> FALSE],
            adj |-> [a \in Axes |-> [value |-> 0, upper |-> 0, page |-> 100]],
            size |-> size, display |-> size, mapped |-> FALSE,
            dragging |-> FALSE, grip |-> NoSize,    \* drag_ofs + drag_anchor
            canZoomIn |-> TRUE, canZoomOut |-> TRUE,
            missed |-> FALSE]    \* history: bars changed, the display area did not

\* display_size_change
SizeChange ==
  /\ "configure" \in layout
  /\ LET scaled == ComputeScaledSize(v, v.zoom)
         beyond(a) == Lower(0, scaled[a] - v.display[a] - v.ofs[a])
         s == IF v.mode = "FIT" THEN CheckScrollbarVisibility(SetZoomFit(v), v.display)
              ELSE ScrollBy(v, [a \in Axes |-> beyond(a)])
         t == IF IsImageMovable(s) THEN UpdateScrollbarValues(s) ELSE s
     IN /\ v' = t
        /\ layout' = (layout \ {"configure"}) \cup IF t.bar # v.bar THEN {"resize"} ELSE {}

Event ==
  \/ Map \/ ZoomIn \/ ZoomOut \/ ZoomNormal \/ ZoomFit \/ SetUpscale
  \/ \E p \in Points : ZoomAt(p) \/ ButtonPress(p) \/ Motion(p) \/ ButtonRelease(p)
  \/ \E a \in Axes : Scroll(a) \/ Paging(a) \/ AdjustmentChanged(a)
  \/ \E size \in Sizes : ImageChanged(size)
  \/ \E size \in Sizes \cup {NoSize} : SetImage(size)
  \/ \E size \in Windows : Resize(size)

Layout == SizeAllocate \/ SizeChange

Next ==
  \/ events > 0 /\ events' = events - 1 /\ Event
  \/ Layout /\ UNCHANGED events
vars == <<v, layout, events>>
Spec == Init /\ [][Next]_vars
-----------------------------------------------------------------------------
(* Type invariant *)

\* Every variable has its type; the zoom is between its limits.
TypeOK ==
  /\ v.pixbuf \in Sizes \cup {NoSize} /\ v.size \in Windows
  /\ {v.zoom, v.minZoom} \subseteq MinZoomFactor..MaxZoomFactor
  /\ v.mode \in {"FREE", "FIT"}
  /\ {v.upscale, v.mapped, v.dragging, v.canZoomIn, v.canZoomOut,
      v.missed} \subseteq BOOLEAN
  /\ v.bar \in [Axes -> BOOLEAN]
  /\ \A a \in Axes : /\ {v.ofs[a], v.grip[a], v.display[a]} \subseteq Int
                     /\ DOMAIN v.adj[a] = {"value", "upper", "page"}
  /\ layout \subseteq {"resize", "configure"}

(* Safety, once the layout is done *)

Settled == layout = {} /\ v.mapped /\ v.pixbuf # NoSize

\* Best Fit shows the whole picture and no bar.
FitShowsAll ==
  Settled /\ v.mode = "FIT" =>
    /\ ~IsImageMovable(v)
    /\ \/ v.zoom = MinZoomFactor
       \/ \A a \in Axes : ComputeScaledSize(v, v.zoom)[a] <= v.display[a]

\* A bar is there exactly if some of the picture is hidden in its direction, and
\* no bar takes the room the other one would need.
BarsAsNeeded ==
  Settled /\ v.mode = "FREE" =>
    \A a \in Axes : v.bar[a] <=> ComputeScaledSize(v, v.zoom)[a] > v.display[a]

\* Where there is a bar, it and the offset agree, and the display area is full;
\* unless a layout has put up the bar and left the display area as it was, which
\* gives no event to bring the bar up to date (display_size_change).
OffsetsInBounds ==
  Settled /\ ~v.missed => \A a \in Axes : v.bar[a] =>
    /\ v.adj[a] = [value |-> v.ofs[a], upper |-> ComputeScaledSize(v, v.zoom)[a],
                   page |-> v.display[a]]
    /\ v.ofs[a] \in 0..(v.adj[a].upper - v.adj[a].page)

\* The zoom commands are offered exactly if they have an effect. A thin picture may only fit
\* below its least zoom; zooming out is then offered too, and makes it larger.
ZoomOffered ==
  Settled => /\ v.canZoomIn <=> v.zoom < MaxZoomFactor
             /\ IF v.zoom >= v.minZoom THEN v.canZoomOut <=> v.zoom > v.minZoom
                ELSE v.mode = "FIT"
=============================================================================
