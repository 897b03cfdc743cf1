----------------------------- MODULE EomThumbNav -----------------------------
(***************************************************************************)
(* src/src/eom-thumb-nav.c: the scrolled window around the thumbnails, with*)
(* a button at either end. A held button scrolls by a timeout, faster and  *)
(* faster, until it is released or the end is reached; images that come    *)
(* and go, and the window, change the adjustment in between.               *)
(* From left to right; the other direction exchanges the buttons.          *)
(***************************************************************************)
EXTENDS Integers, Sequences, FiniteSets

CONSTANTS Uppers,    \* lengths of all the thumbnails
          Pages,     \* how much of it can be seen
          Deltas,    \* steps of the timeout: faster after every Every steps
          Every,     \* 10
          Wheel,     \* EOM_THUMB_NAV_SCROLL_INC * 3
          MaxPresses \* bound: how often a button is pressed

VARIABLES nav,       \* EomThumbNavPrivate, its adjustment and its buttons
          timeouts,  \* the timeouts that call scroll_step
          held       \* the button that is held down, or "none"

navVars == <<nav, timeouts, held>>

Modes == {"ONE_ROW", "ONE_COLUMN", "MULTIPLE_ROWS"}
Lower(p, q) == IF p < q THEN p ELSE q
Higher(p, q) == IF p > q THEN p ELSE q
End(n) == Higher(0, n.upper - n.page)

Left(n) == n.value > 0
Right(n) == n.value < n.upper - n.page

\* adj_value_changed: both buttons
AdjValueChanged(n) == [n EXCEPT !.left = Left(n), !.right = Right(n)]

\* Mutant: the end of the list is only looked at when it is reached.
AdjChangedNot(n) == n

\* adj_changed: at the beginning a longer list changes nothing.
AdjChanged(n) == [n EXCEPT !.right = Right(n)]

\* gtk_adjustment_set_value
SetValue(n, value) ==
  LET new == Higher(0, Lower(value, n.upper - n.page))
  IN IF new = n.value THEN n ELSE AdjValueChanged([n EXCEPT !.value = new])

\* gtk_adjustment_configure, by the scrolled window
Configure(upper, page) ==
  /\ <<upper, page>> # <<nav.upper, nav.page>>
  /\ LET n == AdjChanged([nav EXCEPT !.upper = upper, !.page = page])
     IN nav' = SetValue(n, n.value)
  /\ UNCHANGED <<timeouts, held>>

\* The wheel; with more than one row the scrolled window does it.
ScrollEvent ==
  /\ nav.mode = "ONE_ROW"
  /\ \E inc \in {-Wheel, Wheel} :
       nav' = SetValue(nav, IF inc < 0 THEN Higher(0, nav.value + inc)
                            ELSE Lower(nav.upper - nav.page, nav.value + inc))
  /\ UNCHANGED <<timeouts, held>>

Delta(n) ==
  LET delta == Deltas[Lower(Len(Deltas), n.pos \div Every + 1)]
  IN IF n.forwards THEN delta ELSE -delta

\* scroll_step goes on while there is a whole step left. The count of the steps stops
\* where it makes no difference any more.
GoesOn(n) == n.value + Delta(n) \in 0..(n.upper - n.page)
ScrollStep(n) ==
  IF GoesOn(n) THEN [SetValue(n, n.value + Delta(n)) EXCEPT
                       !.pos = Lower(@ + 1, Every * Len(Deltas))]
  ELSE [SetValue(n, IF n.forwards THEN n.upper - n.page ELSE 0) EXCEPT !.pos = 0]

\* A timeout that returns FALSE is gone, its id is kept.
Timeout ==
  \E id \in timeouts :
    /\ nav' = ScrollStep(nav)
    /\ timeouts' = IF GoesOn(nav) THEN timeouts ELSE timeouts \ {id}
    /\ UNCHANGED held

Sensitive(button) == IF button = "left" THEN nav.left ELSE nav.right

\* start_scroll, when a button is pressed
StartScroll(button) ==
  /\ held = "none" /\ nav.visible /\ Sensitive(button) /\ nav.next <= MaxPresses
  /\ held' = button
  /\ nav' = [nav EXCEPT !.forwards = button = "right", !.id = nav.next, !.next = @ + 1]
  /\ timeouts' = timeouts \cup {nav.next}

ButtonClicked(n, button) == ScrollStep([n EXCEPT !.pos = 0, !.forwards = button = "right"])

\* Mutant: a timeout that may have ended is not removed.
StopScrollKeeps(clicked) ==
  /\ held # "none" /\ held' = "none"
  /\ LET n == IF clicked THEN ButtonClicked(nav, held) ELSE nav
     IN nav' = [n EXCEPT !.id = 0, !.pos = 0]
  /\ timeouts' = IF nav.pos = 0 THEN timeouts \ {nav.id} ELSE timeouts

\* stop_scroll, when it is released: "clicked" comes first if the pointer is on it.
StopScroll(clicked) ==
  /\ held # "none" /\ held' = "none"
  /\ LET n == IF clicked THEN ButtonClicked(nav, held) ELSE nav
     IN IF n.id = 0 THEN nav' = n /\ UNCHANGED timeouts
        ELSE /\ nav' = [n EXCEPT !.id = 0, !.pos = 0]
             /\ timeouts' = timeouts \ {n.id}

SetShowButtons(show) ==
  /\ nav' = [nav EXCEPT !.showButtons = show, !.visible = show /\ nav.mode = "ONE_ROW"]
  /\ nav' # nav /\ held = "none" /\ UNCHANGED <<timeouts, held>>

SetMode(mode) ==
  /\ mode # nav.mode /\ held = "none"
  /\ nav' = [nav EXCEPT !.mode = mode, !.visible = mode = "ONE_ROW" /\ nav.showButtons]
  /\ UNCHANGED <<timeouts, held>>

\* eom_thumb_nav_new; there are no images yet.
Init ==
  /\ timeouts = {} /\ held = "none"
  /\ \E mode \in Modes, show \in BOOLEAN :
       nav = [mode |-> mode, showButtons |-> show, visible |-> show /\ mode = "ONE_ROW",
              forwards |-> FALSE, pos |-> 0, id |-> 0, next |-> 1,
              value |-> 0, upper |-> 0, page |-> 0, left |-> FALSE, right |-> FALSE]

Next ==
  \/ \E upper \in Uppers, page \in Pages : Configure(upper, page)
  \/ ScrollEvent \/ Timeout
  \/ \E button \in {"left", "right"} : StartScroll(button)
  \/ \E clicked \in BOOLEAN : StopScroll(clicked)
  \/ \E show \in BOOLEAN : SetShowButtons(show)
  \/ \E mode \in Modes : SetMode(mode)
-----------------------------------------------------------------------------
\* Every variable has its type, and the thumbnails are within the adjustment.
TypeOK ==
  /\ nav.mode \in Modes /\ nav.value \in 0..End(nav) /\ nav.pos \in Nat
  /\ {nav.forwards, nav.left, nav.right, nav.visible, nav.showButtons} \subseteq BOOLEAN
  /\ timeouts \subseteq 1..MaxPresses /\ nav.id \in 0..MaxPresses
  /\ held \in {"none", "left", "right"}

\* A button can be pressed exactly if there is something in its direction, though each
\* is told of it by another signal; and nothing scrolls that no held button scrolls.
ButtonsTell ==
  /\ nav.left <=> Left(nav)
  /\ nav.right <=> Right(nav)
  /\ timeouts \subseteq IF held = "none" THEN {} ELSE {nav.id}
=============================================================================
