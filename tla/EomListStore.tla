---------------------------- MODULE EomListStore -----------------------------
(***************************************************************************)
(* src/src/eom-list-store.c and the range of eom-thumb-view.c: the rows of *)
(* the image collection, the file monitor that adds and removes them, and  *)
(* the thumbnails that are asked for when a row comes into sight and given *)
(* up when it goes out of it.                                              *)
(*                                                                         *)
(* The main thread has the rows; the render thread takes thumbnail jobs    *)
(* and reads files, also while the main thread is between two rows of a    *)
(* range; the file system changes and tells the monitor later.             *)
(* A row has the bare pointer of its job, and a job that is done finds its *)
(* row by its file.  The model begins when the directory has been read.    *)
(***************************************************************************)
EXTENDS Integers, Sequences, SequencesExt, FiniteSets

CONSTANTS Files,          \* names in the directory, numbered in collation order
          Width,          \* number of thumbnails there is room for
          Hidden,         \* those that begin with a dot
          Pictures,       \* what an image file may hold
          Foreign,        \* the same, of image types that cannot be loaded
          Jobs,           \* job objects; a freed one is reused
          None,           \* NULL
          MaxEvents       \* bound: events the monitor has not delivered

VARIABLES disk,      \* what each file holds: "none", "other", or an image
          events,    \* what the monitor has yet to deliver
          rows,      \* the list store
          queue,     \* the thumbnail queue
          running,   \* the job of the render thread
          answered,  \* finished jobs and their thumbnails, callbacks due
          start, end,  \* the range of the thumbnail view, as it was last set
          top,       \* the scroll position: the first row in sight
          rangeDue,  \* the idle callback visible_range_changed_cb is due
          calls      \* what the callback has yet to call, row by row

storeVars == <<rows, queue>>
viewVars == <<start, end, top, rangeDue, calls>>
vars == <<disk, events, storeVars, running, answered, viewVars>>

\* eom_image_is_supported_mime_type
Supported(f) == disk[f] \in Pictures

\* A new row: append_image
Row(f) == [file |-> f, thumb |-> "busy", set |-> FALSE, job |-> None]

\* directory_visit: any image, unless it is hidden
Visited(f) == f \notin Hidden /\ disk[f] \in Pictures \cup Foreign

\* The store of a directory, sorted by eom_list_store_compare_func
Listed == CHOOSE s \in SetToSeqs({f \in Files : Visited(f)}) :
            \A k, n \in DOMAIN s : k < n => s[k] < s[n]

Init == /\ disk \in [Files -> {"none", "other"} \cup Pictures \cup Foreign]
        /\ events = <<>>
        /\ rows = [k \in DOMAIN Listed |-> Row(Listed[k])]
        /\ queue = <<>> /\ answered = <<>> /\ running = None
        /\ start = 1 /\ end = 1 /\ top = 1 /\ rangeDue = TRUE /\ calls = <<>>
-----------------------------------------------------------------------------
(* The store's operations, on its state s *)

Store == [rows |-> rows, queue |-> queue, short |-> FALSE]

\* Bound: a step that needs more jobs than there are does not happen.
Become(s) == ~s.short /\ rows' = s.rows /\ queue' = s.queue

\* The jobs that exist, each [job, file]; the others are freed.
Taken == ({running} \ {None}) \cup {answered[n].task : n \in DOMAIN answered}
Free(s) == Jobs \ {task.job : task \in ToSet(s.queue) \cup Taken}

\* eom_job_queue_remove_job: a job that runs or is done is not in the queue.
Without(tasks, job) ==
  LET n == SelectInSeq(tasks, LAMBDA task : task.job = job)
  IN IF n = 0 THEN tasks ELSE RemoveAt(tasks, n)

\* remove_thumbnail_job
RemoveThumbnailJob(s, k) ==
  [s EXCEPT !.queue = Without(@, s.rows[k].job), !.rows[k].job = None]

\* add_thumbnail_job
AddThumbnailJob(s, k) ==
  IF s.rows[k].job # None THEN s
  ELSE IF Free(s) = {} THEN [s EXCEPT !.short = TRUE]
  ELSE LET job == CHOOSE j \in Free(s) : TRUE
       IN [s EXCEPT !.queue = Append(@, [job |-> job, file |-> s.rows[k].file]),
                    !.rows[k].job = job]

ThumbnailSet(s, k) == IF s.rows[k].set THEN s ELSE AddThumbnailJob(s, k)

ThumbnailUnset(s, k) ==
  [RemoveThumbnailJob(s, k) EXCEPT !.rows[k].thumb = "busy", !.rows[k].set = FALSE]

ThumbnailRefresh(s, k) == AddThumbnailJob(RemoveThumbnailJob(s, k), k)

\* is_file_in_list_store: the first row with the file, 0 if there is none
Find(f) == SelectInSeq(rows, LAMBDA r : r.file = f)

\* A sorted GtkListStore puts a row in its place, before the first one of a later file.
Appended(f) ==
  LET later == SelectInSeq(rows, LAMBDA r : r.file > f)
  IN [Store EXCEPT !.rows = IF later = 0 THEN Append(@, Row(f)) ELSE InsertAt(@, later, Row(f))]

\* The job of the row, if it has one, goes on.
RowRemoved(k) == [Store EXCEPT !.rows = RemoveAt(@, k)]
-----------------------------------------------------------------------------
(* Files and their monitor *)

Unsupported(f) == disk[f] # "none" /\ ~Supported(f)

\* Mutant: what is listed is not looked at.
HandledAlways(e) ==
  LET k == Find(e.file)
  IN CASE e.kind = "created" /\ Supported(e.file) -> Appended(e.file)
       [] e.kind = "changed" /\ k # 0 /\ Unsupported(e.file) -> RowRemoved(k)
       [] e.kind = "deleted" /\ k # 0 -> RowRemoved(k)
       [] OTHER -> Store

\* file_monitor_changed_cb, which asks what the file is now
Handled(e) ==
  LET k == Find(e.file)
  IN CASE e.kind \in {"changed", "created"} /\ k = 0 /\ Supported(e.file) -> Appended(e.file)
       [] e.kind \in {"changed", "attribute"} /\ k # 0 /\ Supported(e.file) -> ThumbnailRefresh(Store, k)
       [] e.kind = "changed" /\ k # 0 /\ Unsupported(e.file) -> RowRemoved(k)
       [] e.kind = "deleted" /\ k # 0 -> RowRemoved(k)
       [] OTHER -> Store

\* The main thread is in none of its callbacks.
Idle == calls = <<>>

\* The main loop delivers an event; the view hears of rows that come and go.
FileMonitorChanged ==
  /\ Idle /\ events # <<>> /\ events' = Tail(events)
  /\ Become(Handled(Head(events)))
  /\ rangeDue' = (rangeDue \/ Len(rows') # Len(rows))
  /\ UNCHANGED <<disk, running, answered, start, end, top, calls>>

Told(kinds, f) == /\ Len(events) + Len(kinds) <= MaxEvents
                  /\ events' = events \o [n \in DOMAIN kinds |-> [kind |-> kinds[n], file |-> f]]

\* Somebody writes a file, touches it, or deletes it.
Write == /\ \E f \in Files, content \in {"other"} \cup Pictures \cup Foreign :
              /\ content # disk[f] \/ content \in Pictures
              /\ disk' = [disk EXCEPT ![f] = content]
              /\ Told(IF disk[f] = "none" THEN <<"created", "changed">> ELSE <<"changed">>, f)
         /\ UNCHANGED <<storeVars, running, answered, viewVars>>

Touch == /\ \E f \in Files : disk[f] # "none" /\ Told(<<"attribute">>, f)
         /\ UNCHANGED <<disk, storeVars, running, answered, viewVars>>

Delete == /\ \E f \in Files : /\ disk[f] # "none"
                              /\ disk' = [disk EXCEPT ![f] = "none"]
                              /\ Told(<<"deleted">>, f)
          /\ UNCHANGED <<storeVars, running, answered, viewVars>>

\* The window moves an image to the trash and removes it at once.
Trash == /\ Idle
         /\ \E k \in DOMAIN rows :
              /\ disk[rows[k].file] # "none"
              /\ disk' = [disk EXCEPT ![rows[k].file] = "none"]
              /\ Told(<<"deleted">>, rows[k].file)
              /\ Become(RowRemoved(Find(rows[k].file)))
         /\ rangeDue' = TRUE
         /\ UNCHANGED <<running, answered, start, end, top, calls>>

\* on_image_changed: the image was transformed.
ImageChanged == /\ Idle
                /\ \E k \in DOMAIN rows : Become(ThumbnailRefresh(Store, Find(rows[k].file)))
                /\ UNCHANGED <<disk, events, running, answered, viewVars>>
-----------------------------------------------------------------------------
(* The range in sight *)

Least(a, b) == IF a < b THEN a ELSE b
Most(a, b) == IF a < b THEN b ELSE a

\* gtk_icon_view_get_visible_range, when there are rows
FirstSeen == Least(top, Most(1, (Len(rows) + 1) - Least(Width, Len(rows))))
LastSeen == Least(Len(rows), FirstSeen + Width - 1)

Scroll == /\ Idle /\ top' \in DOMAIN rows \ {top} /\ rangeDue' = TRUE
          /\ UNCHANGED <<disk, events, storeVars, running, answered, start, end, calls>>

\* clear_range and add_range: the rows of a range, as far as there are rows
Calls(call, from, to) ==
  [n \in 1 .. (Least(to, Len(rows)) + 1) - from |-> [call |-> call, row |-> from + n - 1]]

\* update_visible_range: what went out at either end, then what is in
RangeCalls(first, last) ==
  (IF start < first THEN Calls("unset", start, Least(first - 1, end)) ELSE <<>>)
  \o (IF end > last THEN Calls("unset", Most(last + 1, start), end) ELSE <<>>)
  \o Calls("set", first, last)

\* Bound: there are jobs for the rows that may need one.
JobsLeft(first, last) == Cardinality(Free(Store)) > last - first

\* visible_range_changed_cb
VisibleRangeChanged ==
  /\ Idle /\ rangeDue /\ rangeDue' = FALSE
  /\ IF rows = <<>> \/ (FirstSeen = start /\ LastSeen = end)
     THEN UNCHANGED <<start, end, calls>>
     ELSE /\ JobsLeft(FirstSeen, LastSeen)
          /\ calls' = RangeCalls(FirstSeen, LastSeen) /\ start' = FirstSeen /\ end' = LastSeen
  /\ UNCHANGED <<disk, events, storeVars, running, answered, top>>

\* The next row; the render thread takes jobs and the disk changes in between.
RangeCall ==
  /\ calls # <<>> /\ calls' = Tail(calls)
  /\ LET k == Head(calls).row
     IN Become(IF Head(calls).call = "unset" THEN ThumbnailUnset(Store, k) ELSE ThumbnailSet(Store, k))
  /\ UNCHANGED <<disk, events, running, answered, start, end, top, rangeDue>>
-----------------------------------------------------------------------------
(* The jobs *)

\* Mutant: the job stays at the head of the queue.
TakePeeks == /\ running = None /\ queue # <<>> /\ running' = Head(queue)
             /\ UNCHANGED <<disk, events, storeVars, answered, viewVars>>

Take == /\ running = None /\ queue # <<>>
        /\ running' = Head(queue) /\ queue' = Tail(queue)
        /\ UNCHANGED <<disk, events, rows, answered, viewVars>>

\* eom_job_thumbnail_run reads the file as it is.
Finish == /\ running # None /\ running' = None
          /\ answered' = Append(answered,
               [task |-> running,
                thumb |-> IF Supported(running.file) THEN disk[running.file]
                                                     ELSE "missing"])
          /\ UNCHANGED <<disk, events, storeVars, viewVars>>

\* Mutant: the row keeps the pointer of its job.
DoneKeepJob(k, a) == [rows EXCEPT ![k].thumb = a.thumb, ![k].set = TRUE]

\* eom_job_thumbnail_cb
Done(k, a) == [rows EXCEPT ![k].thumb = a.thumb, ![k].set = TRUE, ![k].job = None]

ThumbnailFinished ==
  /\ Idle /\ answered # <<>> /\ answered' = Tail(answered)
  /\ LET a == Head(answered)
         k == Find(a.task.file)
     IN rows' = IF k = 0 THEN rows ELSE Done(k, a)
  /\ UNCHANGED <<disk, events, queue, running, viewVars>>

Next == \/ FileMonitorChanged \/ Write \/ Touch \/ Delete \/ Trash \/ ImageChanged
        \/ Scroll \/ VisibleRangeChanged \/ RangeCall
        \/ Take \/ Finish \/ ThumbnailFinished

Spec == Init /\ [][Next]_vars
-----------------------------------------------------------------------------
(* Properties *)

(* Every field has its type; a job is queued, run or answered once.        *)
TypeOK ==
  /\ disk \in [Files -> {"none", "other"} \cup Pictures \cup Foreign]
  /\ \A n \in DOMAIN events :
       events[n] \in [kind : {"created", "changed", "attribute", "deleted"}, file : Files]
  /\ \A k \in DOMAIN rows :
       rows[k] \in [file : Files, thumb : {"busy", "missing"} \cup Pictures,
                    set : BOOLEAN, job : Jobs \cup {None}]
  /\ \A task \in ToSet(queue) \cup Taken : task \in [job : Jobs, file : Files]
  /\ IsInjective(queue) /\ ToSet(queue) \cap Taken = {}
  /\ start \in Nat /\ end \in Nat /\ top \in Nat /\ rangeDue \in BOOLEAN
  /\ start <= end
  /\ \A n \in DOMAIN calls : calls[n] \in [call : {"set", "unset"}, row : DOMAIN rows]

(* When the monitor has delivered everything, every image of the directory *)
(* that is not hidden and can be loaded has one row, the rows are in order, *)
(* and every row is that of an image file, in whatever order files were    *)
(* written, replaced, deleted and trashed meanwhile.                       *)
RowsMatchDirectory ==
  events = <<>> =>
    /\ \A k, n \in DOMAIN rows : k < n => rows[k].file < rows[n].file
    /\ {f \in Files \ Hidden : Supported(f)} \subseteq {r.file : r \in ToSet(rows)}
    /\ \A r \in ToSet(rows) : disk[r.file] \in Pictures \cup Foreign

(* The bare pointer a row has of its job is never that of a freed job, or  *)
(* of one for another file: the job is queued, run, or its callback is due.*)
RowJobsAlive ==
  \A k \in DOMAIN rows : rows[k].job # None =>
    [job |-> rows[k].job, file |-> rows[k].file] \in ToSet(queue) \cup Taken

(* The help (index.docbook:444): the collection shows thumbnails of all    *)
(* images.  When nothing is due, every row in sight has its thumbnail or a *)
(* job for it.  The collection is shown when there are two images or more. *)
VisibleAsked ==
  (Idle /\ ~rangeDue /\ events = <<>> /\ Len(rows) > 1) =>
    \A k \in FirstSeen .. LastSeen : rows[k].set \/ rows[k].job # None
=============================================================================
