-------------------------- MODULE EomPrintImageSetup --------------------------
(***************************************************************************)
(* src/src/eom-print-image-setup.c, eom-print-preview.c and eom-print.c:   *)
(* where on the page an image is printed and how large. Six spin buttons,  *)
(* a scale, a combo box and a preview show the same two facts; each of     *)
(* them, when its value changes, sets the others from within its signal    *)
(* handler, and what they do follows at once, inside of it.                *)
(*                                                                         *)
(* A length is a multiple of what the smallest scale gives (1 percent      *)
(* there, 1 of Full here) and the same in either unit of the dialog.       *)
(***************************************************************************)
EXTENDS Integers

CONSTANTS Pages,        \* sizes of the page inside its margins
          Proportions,  \* the image is Full times this, unscaled
          Full,         \* 100 percent
          Typed,        \* what is typed as a margin
          FirstUpper    \* the limit of the margins before there is a page, by unit

VARIABLES setup,        \* EomPrintImageSetupPrivate and its widgets
          data          \* EomPrintData

printVars == <<setup, data>>

Axes == {"x", "y"}
Other(a) == IF a = "x" THEN "y" ELSE "x"
Leading == [x |-> "left", y |-> "top"]
Trailing == [x |-> "right", y |-> "bottom"]
Extent == [x |-> "width", y |-> "height"]
Margins == {"left", "right", "top", "bottom"}
AxisOf(spin) == IF spin \in {"left", "right", "width"} THEN "x" ELSE "y"
Opposite(spin) ==
  CASE spin = "left" -> "right" [] spin = "right" -> "left"
    [] spin = "top" -> "bottom" [] spin = "bottom" -> "top"

Centers == {"NONE", "HORIZONTAL", "VERTICAL", "BOTH"}
Centered(center) ==
  {a \in Axes : center \in {"BOTH", IF a = "x" THEN "HORIZONTAL" ELSE "VERTICAL"}}

Lower(p, q) == IF p < q THEN p ELSE q
Clamp(p, low, high) == IF p > high THEN high ELSE IF p < low THEN low ELSE p

\* get_max_percentage
MaxScale(page) ==
  IF \A a \in Axes : page[a] > Full * Proportions[a] THEN Full
  ELSE Lower(page["x"] \div Proportions["x"], page["y"] \div Proportions["y"])
-----------------------------------------------------------------------------
(* The preview *)

\* Where the image lies between the margins: a fraction, <<0, 0>> for 0 divided by 0
Align(x, free) ==
  IF free = 0 /\ x # 0 THEN <<1, 1>> ELSE <<Clamp(x, 0, free), free>>

Free(s, a) == s.preview.page[a] - s.preview.scale * Proportions[a]

SetImagePosition(s, a) ==
  [s EXCEPT !.preview.align[a] = Align(s.value[Leading[a]], Free(s, a))]

GetImagePosition(s, a) ==
  LET align == s.preview.align[a]
  IN IF align[2] = 0 THEN s.value[Leading[a]]    \* not a number changes no spin button
     ELSE (align[1] * Free(s, a)) \div align[2]

SetFromPageSetup(s) == [s EXCEPT !.preview.page = s.page]
-----------------------------------------------------------------------------
(* The handlers, which call each other *)

RECURSIVE Signal(_, _)

\* gtk_spin_button_set_value
SetValue(s, spin, value) ==
  LET new == Clamp(value, 0, s.upper[spin])
  IN IF new = s.value[spin] THEN s
     ELSE Signal([s EXCEPT !.value[spin] = new,
                           !.stale = @ \/ ((~s.connected \/ s.updating) /\ new # value)], spin)

\* gtk_spin_button_set_range
SetRange(s, spin, upper) == SetValue([s EXCEPT !.upper[spin] = upper], spin, s.value[spin])

\* gtk_range_set_value
SetScale(s, scale) ==
  LET new == Clamp(scale, 1, s.maxScale)
  IN IF new = s.scale THEN s ELSE Signal([s EXCEPT !.scale = new], "scale")

\* gtk_combo_box_set_active
SetActive(s, center) ==
  IF center = s.center THEN s ELSE Signal([s EXCEPT !.center = center], "center")

UpdateImagePosRanges(s, scale) ==
  LET Room(t, spin) ==
        SetRange(t, spin, t.page[AxisOf(spin)] - scale * Proportions[AxisOf(spin)])
  IN Room(Room(Room(Room(s, "left"), "right"), "top"), "bottom")

PositionValuesChanged(s, spin) ==
  LET a == AxisOf(spin)
      t == SetValue(s, Opposite(spin), s.page[a] - s.value[spin] - s.value[Extent[a]])
  IN SetImagePosition(SetActive(t, "NONE"), a)

\* Both margins are computed before anything is set.
SizeChanged(s, a) ==
  LET b == Other(a)
      scale == Clamp(s.value[Extent[a]] \div Proportions[a], 0, Full)
      size == scale * Proportions[b]
      after(c, n) == s.page[c] - s.value[Leading[c]] - n
      t == UpdateImagePosRanges([s EXCEPT !.preview.scale = scale], scale)
      u == SetValue(SetScale(t, scale), Trailing[a], after(a, s.value[Extent[a]]))
      w == SetValue(SetValue(u, Extent[b], size), Trailing[b], after(b, size))
  IN SetActive(w, "NONE")

\* Mutant: the other margins are left to their ranges.
OnScaleChangedHalf(s) ==
  LET t == SetActive(s, "NONE")
      scale == Clamp(t.scale, 0, MaxScale(t.page))
      u == UpdateImagePosRanges([t EXCEPT !.preview.scale = scale], scale)
      w == [u EXCEPT !.value["width"] = scale * Proportions["x"],
                     !.value["height"] = scale * Proportions["y"]]
  IN SetImagePosition(SetImagePosition(w, "x"), "y")

OnScaleChanged(s) ==
  LET t == SetActive(s, "NONE")
      scale == Clamp(t.scale, 0, MaxScale(t.page))
      size(a) == scale * Proportions[a]
      after(a) == t.page[a] - t.value[Leading[a]] - size(a)
      u == UpdateImagePosRanges([t EXCEPT !.preview.scale = scale], scale)
      w == SetValue(SetValue(u, "width", size("x")), "height", size("y"))
  IN SetValue(SetValue(w, "right", after("x")), "bottom", after("y"))

Center(s, a) ==
  LET size == s.value[Extent[a]]
      before == (s.page[a] - size) \div 2
  IN SetValue(SetValue(s, Leading[a], before), Trailing[a], s.page[a] - before - size)

\* Centring sets margins, which resets the combo box, which is then set again.
OnCenterChanged(s) ==
  LET t == IF "x" \in Centered(s.center) THEN Center(s, "x") ELSE s
      u == IF "y" \in Centered(s.center) THEN Center(t, "y") ELSE t
  IN SetActive(u, s.center)

\* connect_signals comes last in eom_print_image_setup_new; the combo box has its own before.
Signal(s, widget) ==
  IF widget = "center" THEN OnCenterChanged(s)
  ELSE IF ~s.connected THEN s
  ELSE IF widget = "scale" THEN OnScaleChanged(s)
  ELSE IF widget \in Margins THEN PositionValuesChanged(s, widget)
  ELSE SizeChanged(s, AxisOf(widget))

\* The margins are set within the ranges of the page before.
SetInitialValues(s) ==
  LET max == MaxScale(s.page)
      t == SetScale([s EXCEPT !.maxScale = max], s.scale)
      u == [SetScale(t, max) EXCEPT !.preview.scale = max]
      w == SetRange(SetRange(u, "width", max * Proportions["x"]), "height", max * Proportions["y"])
      sized == SetValue(SetValue(w, "width", max * Proportions["x"]), "height", max * Proportions["y"])
      placed == Center(Center(SetActive(sized, "BOTH"), "x"), "y")
  IN UpdateImagePosRanges(placed, max)
-----------------------------------------------------------------------------
(* What the user does *)

Does(s) == setup.open /\ setup' = s /\ UNCHANGED data

\* A margin is typed, or a size.
MarginTyped(spin) ==
  \E value \in Typed : value # setup.value[spin] /\ Does(SetValue(setup, spin, value))
SizeTyped(a) ==
  \E scale \in 0..Full : LET s == SetValue(setup, Extent[a], scale * Proportions[a])
                         IN s # setup /\ Does(s)

ScaleMoved == \E scale \in 1..setup.maxScale : scale # setup.scale /\ Does(SetScale(setup, scale))

CenterChosen == \E center \in Centers \ {setup.center} : Does(SetActive(setup, center))

\* set_scale_unit: the same lengths
UnitChanged == Does([setup EXCEPT !.unit = IF @ = "INCH" THEN "MM" ELSE "INCH"])

\* The arrow keys and the mouse on the preview (on_preview_image_moved)
ImageMoved(a) ==
  \E align \in {<<0, 1>>, <<1, 2>>, <<1, 1>>} :
    LET s == [setup EXCEPT !.preview.align[a] = align]
        t == SetValue(s, "left", GetImagePosition(s, "x"))
    IN Free(s, a) % 2 = 0 /\ Does(SetValue(t, "top", GetImagePosition(s, "y")))

\* eom_print_image_setup_update: another page is chosen.
Update(page) ==
  /\ page # setup.page
  /\ LET s == SetFromPageSetup(SetInitialValues([setup EXCEPT !.page = page, !.updating = TRUE,
                                                              !.stale = FALSE]))
     IN Does([SetImagePosition(SetImagePosition(s, "x"), "y") EXCEPT !.updating = FALSE])

\* eom_print_custom_widget_apply, when the dialog is closed
Apply ==
  /\ setup.open /\ setup' = [setup EXCEPT !.open = FALSE]
  /\ data' = [left |-> setup.value["left"], top |-> setup.value["top"], scale |-> setup.scale,
              unit |-> setup.unit]

\* eom_print_image_setup_new; eom_print_operation_new has the defaults.
Init ==
  /\ data = [left |-> 0, top |-> 0, scale |-> Full, unit |-> "INCH"]
  /\ \E page \in Pages, unit \in {"INCH", "MM"} :
       LET s == [page |-> page, unit |-> unit, center |-> "NONE", scale |-> Full,
                 maxScale |-> Full, open |-> TRUE, connected |-> FALSE, updating |-> FALSE,
                 value |-> [spin \in Margins \cup {"width", "height"} |-> 0],
                 upper |-> [spin \in Margins \cup {"width", "height"} |-> FirstUpper[unit]],
                 preview |-> [page |-> page, scale |-> Full, align |-> [a \in Axes |-> <<1, 2>>]],
                 stale |-> FALSE]    \* history: a margin met the limit of another page
       IN setup = [SetFromPageSetup(SetInitialValues(s)) EXCEPT !.connected = TRUE]

Next ==
  \/ \E spin \in Margins : MarginTyped(spin)
  \/ \E a \in Axes : SizeTyped(a) \/ ImageMoved(a)
  \/ ScaleMoved \/ CenterChosen \/ UnitChanged \/ Apply
  \/ \E page \in Pages : Update(page)
-----------------------------------------------------------------------------
(* Properties *)

\* Every variable has its type.
TypeOK ==
  /\ setup.page \in Pages /\ setup.center \in Centers /\ setup.scale \in 1..Full
  /\ setup.maxScale \in 1..Full /\ setup.connected /\ ~setup.updating
  /\ \A spin \in DOMAIN setup.value : {setup.value[spin], setup.upper[spin]} \subseteq Int
  /\ data.scale \in 1..Full /\ {data.unit, setup.unit} \subseteq {"INCH", "MM"}

\* Whatever the order in which the handlers call each other: the image and its
\* margins fill the page, the sizes are those of the scale it is printed with.
PageIsFilled ==
  ~setup.stale /\ setup.value["width"] > 0 =>
    \A a \in Axes :
      /\ setup.value[Leading[a]] + setup.value[Extent[a]] + setup.value[Trailing[a]] = setup.page[a]
      /\ setup.value[Extent[a]] = setup.scale * Proportions[a]

\* The preview shows the image where it will be printed.
PreviewIsPrinted ==
  ~setup.stale /\ setup.value["width"] > 0 =>
    /\ setup.preview.scale = setup.scale
    /\ \A a \in Axes : Free(setup, a) > 0 =>
         LET align == setup.preview.align[a]
         IN align[1] * Free(setup, a) = setup.value[Leading[a]] * align[2]

\* The combo box says the truth.
CenterIsShown ==
  ~setup.stale => \A a \in Centered(setup.center) :
    setup.value[Leading[a]] - setup.value[Trailing[a]] \in {-1, 0, 1}
=============================================================================
