---------------------------- MODULE EomThumbTooltip ----------------------------
(***************************************************************************)
(* The tooltip of a thumbnail (src/src/eom-thumb-view.c) shows the size and*)
(* the date of an image. What is not known yet is loaded by a job, and the *)
(* tooltip is asked for again when the job has ended, so what is asked for *)
(* must be what eom_image_load gets. The window shows the image and frees  *)
(* its data in between.                                                    *)
(***************************************************************************)
EXTENDS Naturals, Sequences

CONSTANTS MaxShows   \* bound: how often the window shows the image or frees it

VARIABLES image,     \* EomImagePrivate and its file
          tip,       \* the pointer and the tooltip
          jobs,      \* load jobs that wait: what each is to read
          ended      \* those that have run, and whether without an error

tipVars == <<image, tip, jobs, ended>>

Status == {"NOT_READ", "NOT_AVAILABLE", "READY"}
Data == {"IMAGE", "DIMENSION", "EXIF"}

HasData(d) == CASE d = "IMAGE" -> image.pixels [] d = "DIMENSION" -> image.dimension
                [] d = "EXIF" -> image.exif

\* The reader has found the metadata: there need not be any.
MetadataRead(i) == [i EXCEPT !.exif = i.file.exif, !.status = "READY"]

\* eom_image_real_load, without pixels: what may be known afterwards
ReadDimension(i) ==
  LET known == [i EXCEPT !.dimension = TRUE]
  IN IF i.thumbnail THEN {known}
     ELSE IF i.file.format = "other" THEN {[known EXCEPT !.status = "NOT_AVAILABLE"]}
     ELSE {known} \cup IF i.file.complete THEN {MetadataRead(known)} ELSE {}

ReadExif(i) ==
  IF i.file.format = "other" THEN [i EXCEPT !.status = "NOT_AVAILABLE"]
  ELSE IF i.file.complete THEN MetadataRead(i) ELSE i

\* eom_image_load: what is there is not loaded again. A loader that is closed early may
\* take that for an error; so is asking for nothing but EXIF where there can be none.
Load(data, i, ok) ==
  IF \A d \in data : HasData(d) THEN ok /\ i = image
  ELSE CASE data = {"DIMENSION"} -> i \in ReadDimension(image) /\ (image.thumbnail => ok)
         [] data = {"EXIF"} /\ image.file.format = "other" -> ~ok /\ i = image
         [] OTHER -> ok /\ i = ReadExif(image)

Run ==
  /\ jobs # <<>> /\ jobs' = Tail(jobs)
  /\ \E ok \in BOOLEAN :
       /\ \E i \in ReadDimension(image) \cup {ReadExif(image), image} :
            Load(Head(jobs), i, ok) /\ image' = i
       /\ ended' = Append(ended, ok)
  /\ UNCHANGED tip

\* on_data_loaded_cb; the query is for where the pointer is then.
DataLoaded ==
  /\ ended # <<>> /\ ended' = Tail(ended)
  /\ tip' = [tip EXCEPT !.query = @ \/ (Head(ended) /\ tip.rests),
                        !.failed = @ \/ ~Head(ended)]
  /\ UNCHANGED <<image, jobs>>

\* Mutant: whoever has no EXIF data is asked for it.
WantedAlways ==
  (IF ~HasData("EXIF") THEN {"EXIF"} ELSE {})
    \cup IF ~HasData("DIMENSION") THEN {"DIMENSION"} ELSE {}

Wanted ==
  (IF ~HasData("EXIF") /\ image.status = "NOT_READ" THEN {"EXIF"} ELSE {})
    \cup IF ~HasData("DIMENSION") THEN {"DIMENSION"} ELSE {}

\* thumbview_on_query_tooltip_cb; bound: as many jobs as the pointer has rested
QueryTooltip ==
  /\ tip.query
  /\ IF Wanted = {} THEN tip' = [tip EXCEPT !.query = FALSE, !.shown = TRUE] /\ UNCHANGED jobs
     ELSE /\ tip' = [tip EXCEPT !.query = FALSE, !.shown = FALSE]
          /\ Len(jobs) <= MaxShows /\ jobs' = Append(jobs, Wanted)
  /\ UNCHANGED <<image, ended>>

Move ==
  /\ tip.moves < MaxShows
  /\ tip' = [tip EXCEPT !.moves = @ + 1, !.rests = ~@, !.query = ~tip.rests, !.shown = FALSE,
                        !.failed = FALSE]
  /\ UNCHANGED <<image, jobs, ended>>

\* The window shows the image, with everything that is known of it.
Show ==
  /\ image.shows < MaxShows /\ ~image.pixels
  /\ image' = [ReadExif(image) EXCEPT !.pixels = TRUE, !.dimension = TRUE, !.shows = @ + 1]
  /\ UNCHANGED <<tip, jobs, ended>>

\* eom_image_free_mem_private, when another is shown; its size stays.
FreeMem ==
  /\ image.pixels
  /\ image' = [image EXCEPT !.pixels = FALSE, !.exif = FALSE, !.status = "NOT_READ"]
  /\ UNCHANGED <<tip, jobs, ended>>

Init ==
  /\ \E format \in {"jpeg", "other"}, exif, complete, thumbnail \in BOOLEAN :
       /\ exif => format = "jpeg"
       /\ image = [file |-> [format |-> format, exif |-> exif, complete |-> complete],
                   thumbnail |-> thumbnail, pixels |-> FALSE, dimension |-> FALSE,
                   exif |-> FALSE, status |-> "NOT_READ", shows |-> 0]
  /\ tip = [rests |-> FALSE, query |-> FALSE, shown |-> FALSE, moves |-> 0, failed |-> FALSE]
  /\ jobs = <<>> /\ ended = <<>>

Next == Run \/ DataLoaded \/ QueryTooltip \/ Move \/ Show \/ FreeMem
-----------------------------------------------------------------------------
TypeOK ==
  /\ image.status \in Status /\ image.shows \in 0..MaxShows
  /\ {image.pixels, image.dimension, image.exif} \subseteq BOOLEAN
  /\ \A n \in DOMAIN jobs : jobs[n] \in (SUBSET Data) \ {{}}
  /\ {tip.rests, tip.query, tip.shown, tip.failed} \subseteq BOOLEAN

\* Whoever waits for the tooltip of a file that is complete gets it, unless a job failed:
\* no job leaves out what it was asked for and is asked again for ever.
Waits == image.file.complete /\ tip.rests
Served == ~tip.rests \/ tip.shown \/ tip.failed
TooltipComes == Waits ~> Served
=============================================================================
