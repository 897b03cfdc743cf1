----------------------------- MODULE EomThumbView -----------------------------
(***************************************************************************)
(* src/src/eom-thumb-view.c and the trash of eom-window.c: which images of *)
(* the collection are selected, what moves the selection, how many columns *)
(* the icon view has, and what becomes of the selected images when they    *)
(* are moved to the trash: the dialogs wait in a main loop of their own,   *)
(* where the directory may change.                                         *)
(***************************************************************************)
EXTENDS Integers, Sequences, SequencesExt, FiniteSets, FiniteSetsExt

CONSTANTS Images,      \* files, numbered in the order of the store
          Trashable,   \* those whose file system has a trash
          NeverAsk,    \* disable-trash-confirmation
          MaxChanges   \* bound: what happens to the directory

VARIABLES view,        \* EomThumbViewPrivate and its icon view
          trash,       \* where eom_window_cmd_move_to_trash is
          disk,        \* the files there are
          changes      \* what has happened to the directory

thumbVars == <<view, trash, disk, changes>>

Modes == {"ONE_ROW", "ONE_COLUMN", "MULTIPLE_ROWS", "MULTIPLE_COLUMNS"}
Directions == {"CURRENT", "LEFT", "RIGHT", "FIRST", "LAST", "RANDOM"}

\* The images in their order: each stands at its rank.
Rank(images, i) == Cardinality({k \in images : k <= i})
Sorted(images) == [n \in 1..Cardinality(images) |-> CHOOSE i \in images : Rank(images, i) = n]
Length(w) == Cardinality(w.rows)
At(w, pos) == Sorted(w.rows)[pos]

\* eom_list_store_get_pos_by_image, 0 if it is not there
PositionOf(w, i) == IF i \in w.rows THEN Rank(w.rows, i) ELSE 0

\* eom_thumb_view_update_columns
UpdateColumns(w) == IF w.mode = "ONE_ROW" THEN [w EXCEPT !.columns = w.nImages] ELSE w

\* eom_thumb_nav_set_mode sets the orientation, horizontal for one row.
SetMode(w, mode) == UpdateColumns([w EXCEPT !.mode = mode])

RowInserted(w, i) ==
  UpdateColumns([w EXCEPT !.rows = @ \cup {i}, !.nImages = @ + 1, !.tour = <<>>])

\* Mutant: an image that goes is not counted.
RowDeletedUncounted(w, i) ==
  UpdateColumns([w EXCEPT !.rows = @ \ {i}, !.selected = @ \ {i}, !.tour = <<>>])

RowDeleted(w, i) ==
  UpdateColumns([w EXCEPT !.rows = @ \ {i}, !.selected = @ \ {i}, !.nImages = @ - 1,
                          !.tour = <<>>])

SetCurrentImage(w, i) == [w EXCEPT !.selected = {i}, !.tour = <<>>]

\* A new store, whose initial image is selected
SetModel(w, rows, initial) ==
  [UpdateColumns([w EXCEPT !.rows = rows, !.nImages = Cardinality(rows), !.tour = <<>>])
     EXCEPT !.selected = {initial} \cap rows]
-----------------------------------------------------------------------------
(* The selection *)

Idle == trash.stage = "none"
Shows(w) ==
  /\ Idle /\ view' = w /\ trash' = [trash EXCEPT !.next = 0] /\ UNCHANGED <<disk, changes>>

\* gtk_icon_view_get_selected_items has the last one first.
SelectedItems == Reverse(Sorted(view.selected))

\* Where a step leads when nothing is selected; CURRENT has nothing to select.
FromNowhere(direction) ==
  CASE direction \in {"RIGHT", "FIRST"} -> {1}
    [] direction \in {"LEFT", "LAST"} -> {Length(view)}
    [] direction = "RANDOM" -> 1 .. Length(view)
    [] direction = "CURRENT" -> {}

\* Mutant: the step to the right of the last image goes nowhere.
FromImageStops(direction, pos) ==
  CASE direction = "LEFT" -> {IF pos = 1 THEN Length(view) ELSE pos - 1}
    [] direction = "RIGHT" -> {IF pos = Length(view) THEN pos ELSE pos + 1}
    [] direction \in {"FIRST", "LAST", "RANDOM"} -> FromNowhere(direction)
    [] direction = "CURRENT" -> {pos}

FromImage(direction, pos) ==
  CASE direction = "LEFT" -> {IF pos = 1 THEN Length(view) ELSE pos - 1}
    [] direction = "RIGHT" -> {IF pos = Length(view) THEN 1 ELSE pos + 1}
    [] direction \in {"FIRST", "LAST", "RANDOM"} -> FromNowhere(direction)
    [] direction = "CURRENT" -> {pos}

\* The last images that were reached one after the other to the right
Toured(direction, i) ==
  IF direction # "RIGHT" THEN <<i>>
  ELSE Append(IF Len(view.tour) = Length(view) THEN Tail(view.tour) ELSE view.tour, i)

SelectSingle(direction) ==
  /\ view.rows # {}
  /\ \E pos \in IF view.selected = {} THEN FromNowhere(direction)
                ELSE FromImage(direction, PositionOf(view, Head(SelectedItems))) :
       LET i == At(view, pos)
       IN Shows([view EXCEPT !.selected = {i}, !.tour = Toured(direction, i)])

\* A click; one with the control key adds or takes away.
Click(i) == Shows([view EXCEPT !.selected = {i}, !.tour = <<>>])
ControlClick(i) ==
  Shows([view EXCEPT !.selected = IF i \in @ THEN @ \ {i} ELSE @ \cup {i}, !.tour = <<>>])

\* thumbview_on_button_press_event_cb: the menu is that of one image.
RightClick(i) == IF view.selected = {i} THEN Shows(view) ELSE Click(i)
-----------------------------------------------------------------------------
(* The directory; its monitor is heard whenever a main loop runs. *)

FileChanges ==
  /\ changes < MaxChanges /\ changes' = changes + 1
  /\ \E i \in Images : disk' = IF i \in disk THEN disk \ {i} ELSE disk \cup {i}
  /\ UNCHANGED <<view, trash>>

Monitor ==
  /\ trash.stage # "removing"
  /\ \E i \in Images :
       \/ i \in disk \ view.rows /\ view' = RowInserted(view, i)
       \/ i \in view.rows \ disk /\ view' = RowDeleted(view, i)
  /\ trash' = [trash EXCEPT !.next = 0, !.changed = TRUE]
  /\ UNCHANGED <<disk, changes>>

\* Another directory is opened, or the same anew.
Open == /\ changes < MaxChanges /\ changes' = changes + 1
        /\ Idle /\ \E initial \in disk : view' = SetModel(view, disk, initial)
        /\ trash' = [trash EXCEPT !.next = 0]
        /\ UNCHANGED disk
-----------------------------------------------------------------------------
(* eom_window_cmd_move_to_trash *)

CanTrash(i) == i \in disk \cap Trashable

\* Mutant: whoever need not be asked is not told either.
NeedsNoAnswerEver(canTrash) == trash.dontAsk \/ NeverAsk

\* show_move_to_trash_confirm_dialog agrees by itself.
NeedsNoAnswer(canTrash) == canTrash /\ (trash.dontAsk \/ NeverAsk)

\* Mutant: the images are in the order of the icon view.
ToRemoveReversed == SelectedItems

\* The images in the order of their rows
ToRemove == Reverse(SelectedItems)

\* The position to come back to is that of the first image.
Removing(images) ==
  [trash EXCEPT !.stage = "removing", !.images = images, !.first = Head(images),
                !.pos = PositionOf(view, Head(images))]

TrashCommand(name) ==
  /\ Idle /\ view.selected # {}
  /\ LET canTrash == \A i \in view.selected : CanTrash(i)
         asks == (name = "Delete" \/ ~canTrash) /\ ~NeedsNoAnswer(canTrash)
     IN trash' = IF asks THEN [trash EXCEPT !.stage = "asked", !.images = ToRemove,
                                            !.permanent = ~canTrash, !.changed = FALSE]
                 ELSE [Removing(ToRemove) EXCEPT !.permanent = FALSE, !.changed = FALSE]
  /\ UNCHANGED <<view, disk, changes>>

Answer ==
  /\ trash.stage = "asked"
  /\ \/ trash' = [trash EXCEPT !.stage = "none", !.images = <<>>]
     \/ \E check \in BOOLEAN :
          trash' = [Removing(trash.images) EXCEPT
                      !.dontAsk = IF trash.permanent THEN @ ELSE check]
  /\ UNCHANGED <<view, disk, changes>>

\* move_to_trash_real and eom_list_store_remove_image, for the next image
MoveToTrash ==
  /\ trash.stage = "removing" /\ trash.images # <<>>
  /\ LET i == Head(trash.images)
     IN \/ /\ i \in disk /\ disk' = disk \ {i}
           /\ view' = IF i \in view.rows THEN RowDeleted(view, i) ELSE view
           /\ trash' = [trash EXCEPT !.images = Tail(@),
                          !.silent = @ \/ (~CanTrash(i) /\ ~trash.permanent)]
        \/ /\ trash' = [trash EXCEPT !.stage = "failed", !.images = Tail(@)]
           /\ UNCHANGED <<view, disk>>
  /\ UNCHANGED changes

\* The dialog that says so
Dismiss == /\ trash.stage = "failed" /\ trash' = [trash EXCEPT !.stage = "removing"]
           /\ UNCHANGED <<view, disk, changes>>

Least(p, q) == IF p < q THEN p ELSE q

Removed ==
  /\ trash.stage = "removing" /\ trash.images = <<>>
  /\ LET pos == Least(trash.pos, Length(view))
     IN view' = IF pos > 0 THEN SetCurrentImage(view, At(view, pos)) ELSE view
  /\ trash' = [trash EXCEPT !.stage = "none", !.next = IF trash.changed THEN 0 ELSE trash.first,
                            !.first = 0, !.pos = 0]
  /\ UNCHANGED <<disk, changes>>
-----------------------------------------------------------------------------
Init ==
  /\ disk \in SUBSET Images /\ changes = 0
  /\ view = [rows |-> {}, selected |-> {}, nImages |-> 0, columns |-> 0,
             mode |-> "ONE_ROW", tour |-> <<>>]
  /\ trash = [stage |-> "none", images |-> <<>>, pos |-> 0, dontAsk |-> FALSE,
              permanent |-> FALSE,    \* the dialog told so
              \* history: the first image of the command, until something else happens;
              \* rows came or went under the dialogs; a file was deleted, untold
              first |-> 0, next |-> 0, changed |-> FALSE, silent |-> FALSE]

Next ==
  \/ \E direction \in Directions : SelectSingle(direction)
  \/ \E i \in view.rows : Click(i) \/ ControlClick(i) \/ RightClick(i)
  \/ \E mode \in Modes \ {view.mode} : Shows(SetMode(view, mode))
  \/ FileChanges \/ Monitor \/ Open
  \/ \E name \in {"Delete", "MoveToTrash"} : TrashCommand(name)
  \/ Answer \/ MoveToTrash \/ Dismiss \/ Removed
-----------------------------------------------------------------------------
\* Every variable has its type, and what is selected is shown.
TypeOK ==
  /\ view.rows \subseteq Images /\ view.selected \subseteq view.rows
  /\ view.nImages \in Int /\ view.columns \in Int /\ view.mode \in Modes
  /\ disk \subseteq Images /\ changes \in 0..MaxChanges
  /\ trash.stage \in {"none", "asked", "removing", "failed"}
  /\ {trash.dontAsk, trash.permanent, trash.changed, trash.silent} \subseteq BOOLEAN

\* A file whose file system has no trash is deleted for good: never without the words
\* of the dialog, whatever it was told before and whatever becomes of the other files.
NothingLostUntold == ~trash.silent

\* After the images have gone, the one that followed the first of them is selected,
\* or the last one if none did, whichever of them could not be removed.
FollowingIsSelected ==
  Idle /\ trash.next # 0 /\ view.rows # {} =>
    LET after == {i \in view.rows : i >= trash.next}
    IN view.selected = IF after = {} THEN {Max(view.rows)} ELSE {Min(after)}

\* Steps to the right show every image before they show one again.
TourIsComplete == Len(view.tour) = Length(view) => ToSet(view.tour) = view.rows

\* One row has room for all of the images, whatever came, went and was opened.
OneRow == view.mode = "ONE_ROW" => view.columns = Length(view)
=============================================================================
