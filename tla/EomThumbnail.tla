------------------------------ MODULE EomThumbnail ------------------------------
(***************************************************************************)
(* src/src/eom-thumbnail.c and the thumbnail job of eom-jobs.c: where the  *)
(* thumbnail of an image comes from - the cache that programs share, the   *)
(* pixels in memory or the file - and what is put into the cache, while    *)
(* the file is written and the main thread loads and shows the image.      *)
(*                                                                         *)
(* Two writes of a file are a second apart at least: its version is its    *)
(* modification time. A picture is the version it shows; sizes are those   *)
(* of the longer and the shorter side, in parts of a thumbnail's.          *)
(***************************************************************************)
EXTENDS Integers

CONSTANTS Sizes,        \* of the file's picture: [long |-> n, short |-> m]
          Normal,       \* the size of a thumbnail in the cache
          Icon,         \* EOM_LIST_STORE_THUMB_SIZE
          MaxVersions   \* bound: how often the file is written

VARIABLES file,         \* the file
          cache,        \* its entry in the cache
          image,        \* EomImagePrivate
          job,          \* the thumbnail job that runs, EomThumbData
          row           \* the thumbnail in the list store

thumbnailVars == <<file, cache, image, job, row>>

None == 0
NoEntry == [kind |-> "none", of |-> None, mtime |-> None, size |-> None, missed |-> FALSE]
Entry(kind, of, mtime, size, missed) ==
  [kind |-> kind, of |-> of, mtime |-> mtime, size |-> size, missed |-> missed]
Versions == 0..MaxVersions

Greatest(m, n) == IF m > n THEN m ELSE n
Scaled(size, limit) ==
  [long |-> limit, short |-> (size.short * limit) \div size.long]

\* create_thumbnail_from_pixbuf: perc is 1 at most, and a side may become 0.
FromPixbuf(size) == IF size.long > Normal THEN Scaled(size, Normal) ELSE size

\* Mutant: a side may become 0.
FitToSizeThin(size, limit) == IF size.long > limit THEN Scaled(size, limit) ELSE size

\* eom_thumbnail_fit_to_size
FitToSize(size, limit) ==
  IF size.long > limit
  THEN [long |-> Greatest(Scaled(size, limit).long, 1),
        short |-> Greatest(Scaled(size, limit).short, 1)]
  ELSE size

\* eom_thumbnail_add_frame: 3 at the left and the top, 6 at the right and the bottom
Frame == 9
AddFrame(size) == [long |-> size.long + Frame, short |-> size.short + Frame]

Goes(step) == job' = [job EXCEPT !.step = step]
Loading == UNCHANGED <<file, image, row>>
Ends(of, size, missed) ==
  /\ job' = [job EXCEPT !.step = "none"]
  /\ row' = IF of = None THEN [row EXCEPT !.of = None]
            ELSE [of |-> of, size |-> AddFrame(FitToSize(size, Icon)),
                  mtime |-> job.mtime, missed |-> missed]
  /\ UNCHANGED <<file, image>>
-----------------------------------------------------------------------------
\* eom_thumb_data_new: what is true of the file, and of the cache, is looked up once.
Start ==
  /\ job.step = "none"
  /\ IF file.exists
     THEN job' = [job EXCEPT !.step = "cache", !.mtime = file.version,
                    !.exists = cache.kind = "thumb", !.failed = cache.kind = "failed"]
     ELSE UNCHANGED job
  /\ row' = IF file.exists THEN row ELSE [row EXCEPT !.of = None]
  /\ UNCHANGED <<file, cache, image>>

\* get_valid_thumbnail
UpToDate == job.exists /\ cache.kind = "thumb" /\ cache.mtime = job.mtime

\* A failed thumbnail stops further attempts.
Failed == job.failed /\ cache.kind = "failed" /\ cache.mtime = job.mtime

FromCache ==
  /\ job.step = "cache"
  /\ IF Failed THEN Ends(None, None, FALSE) /\ UNCHANGED cache
     ELSE IF UpToDate THEN Ends(cache.of, cache.size, cache.missed) /\ UNCHANGED cache
     ELSE \/ Goes("make") /\ Loading /\ UNCHANGED cache
          \* mate_desktop_thumbnail_factory_can_thumbnail says no
          \/ Ends(None, None, FALSE) /\ UNCHANGED cache

\* Mutant: the pixels in memory are used in any case.
UsesPixelsAlways == image.pixels # None

\* "Only use the image pixbuf when it is up to date."
UsesPixels == image.pixels # None /\ ~image.changed

\* What the file gives at any time from here on is read at once.
Make ==
  /\ job.step = "make"
  /\ LET size == FromPixbuf(image.size)
         missed == image.heard < file.version
         made(of, s) == job' = [job EXCEPT !.step = "save", !.of = of, !.size = s,
                                           !.missed = missed]
     IN IF UsesPixels
        THEN made(IF size.short = 0 THEN None ELSE image.pixels, size)
        ELSE \/ file.exists /\ made(file.version, FitToSize(file.size, Normal))
             \/ made(None, None)
  /\ Loading /\ UNCHANGED cache

\* What was made is kept under the time that was looked up, so is that nothing could be.
Save ==
  /\ job.step = "save"
  /\ cache' = IF job.of = None THEN Entry("failed", None, job.mtime, None, FALSE)
              ELSE Entry("thumb", job.of, job.mtime, job.size, job.missed)
  /\ Ends(job.of, job.size, job.missed)
-----------------------------------------------------------------------------
(* Other programs and the main thread *)

Write ==
  /\ file.version < MaxVersions
  /\ \E size \in Sizes :
       file' = [exists |-> TRUE, version |-> file.version + 1, size |-> size]
  /\ UNCHANGED <<cache, image, job, row>>
Delete == /\ file.exists /\ file' = [file EXCEPT !.exists = FALSE]
          /\ UNCHANGED <<cache, image, job, row>>

\* The monitor tells the list store, which marks the image.
Monitor ==
  /\ image.heard < file.version
  /\ image' = [image EXCEPT !.heard = file.version, !.changed = TRUE]
  /\ UNCHANGED <<file, cache, job, row>>

\* The image is loaded to be shown, on the thread of the job.
Load ==
  /\ job.step = "none" /\ file.exists /\ image.pixels = None
  /\ image' = [image EXCEPT !.pixels = file.version, !.size = file.size, !.changed = FALSE]
  /\ UNCHANGED <<file, cache, job, row>>
Leave == /\ image.pixels # None /\ image' = [image EXCEPT !.pixels = None, !.size = None]
         /\ UNCHANGED <<file, cache, job, row>>

Init ==
  /\ \E size \in Sizes : file = [exists |-> TRUE, version |-> 1, size |-> size]
  /\ cache = NoEntry
  /\ image = [pixels |-> None, size |-> None, changed |-> FALSE, heard |-> 1]
  /\ job = [step |-> "none", mtime |-> None, exists |-> FALSE, failed |-> FALSE,
            of |-> None, size |-> None, missed |-> FALSE]
  /\ row = [of |-> None, size |-> None, mtime |-> None, missed |-> FALSE]

Next == Start \/ FromCache \/ Make \/ Save \/ Write \/ Delete \/ Monitor \/ Load \/ Leave
-----------------------------------------------------------------------------
\* Every variable has its type.
TypeOK ==
  /\ file.exists \in BOOLEAN /\ file.version \in Versions /\ file.size \in Sizes
  /\ cache.kind \in {"none", "thumb", "failed"}
  /\ {cache.of, cache.mtime, image.pixels, image.heard, job.mtime, job.of, row.of, row.mtime}
       \subseteq Versions
  /\ job.step \in {"none", "cache", "make", "save"}
  /\ {job.exists, job.failed, job.missed, image.changed} \subseteq BOOLEAN

\* A thumbnail that passes for that of the file, in the cache or in a row, shows the file
\* as it was then or is later, but for one made before the monitor told of a change.
CacheIsCurrent ==
  /\ cache.kind = "thumb" /\ ~cache.missed => cache.of >= cache.mtime
  /\ row.of # None /\ ~row.missed => row.of >= row.mtime

\* What a row shows has pixels in both directions and the size of the icons, whatever the
\* picture's proportions are.
ThumbnailFits ==
  row.of # None => /\ row.size.long <= Icon + Frame
                   /\ row.size.short \in Frame + 1 .. row.size.long
=============================================================================
