------------------------------ MODULE EomImage ------------------------------
(***************************************************************************)
(* src/src/eom-image.c: one image object over its life, with what          *)
(* eom-jobs.c, eom-thumbnail.c, eom-image-jpeg.c and eom-list-store.c do   *)
(* to it: it is loaded and autorotated, transformed and undone (loaded or  *)
(* not), its data is freed when another image is shown, it is loaded       *)
(* again, saved, saved under another name, and gets thumbnails.            *)
(*                                                                         *)
(* A picture is a matrix of EomTransform: the transform that takes the     *)
(* pixels of the file as it was first found to it.  A job's run is one     *)
(* step: all of them run on one thread.  The steps of the two threads      *)
(* inside a load are the subject of EomWindowLoad.                         *)
(***************************************************************************)
EXTENDS EomTransform, Sequences

CONSTANTS None,        \* NULL
          Settings     \* one is taken at the start:
                       \* files, which the image may be opened from;
                       \* userTypes, transforms the user applies;
                       \* operations, what is done to the image, see below;
                       \* maxUndo, a bound: length of the undo stack

AllOperations == {"transform", "undo", "leave", "save", "save_as",
                  "thumbnail", "exif_load"}

\* A file: its picture, its EXIF orientation (0: it has none) and its format.
\* A TIFF file has the orientation in an option of the pixbuf instead.
Formats == {"jpeg", "png", "tiff"}

ASSUME ImageAssumption ==
  /\ Settings \subseteq
       [files : SUBSET [pix : {Identity}, tag : 0 .. 8, format : Formats],
        userTypes : SUBSET Types, operations : SUBSET AllOperations, maxUndo : Nat]
  /\ None \notin Units /\ None \notin 0 .. 8

VARIABLES setting,   \* of Settings
          file,      \* the file on disk
          img,       \* EomImagePrivate
          viewed,    \* the scroll view holds a data reference
          made,      \* the thumbnail of a finished job, before its callback
          cache,     \* the thumbnail cache's entry for the file as it is
          expected   \* history: the picture the user is to see

vars == <<setting, file, img, viewed, made, cache, expected>>

\* What a viewer that honours the orientation shows of a file
Upright(f) == Compose(f.pix, IF f.tag \in 1 .. 8 THEN New(AutorotateType(f.tag))
                                                 ELSE Identity)

Init == /\ setting \in Settings /\ file \in setting.files
        /\ img = [image |-> None, thumbnail |-> None, exif |-> None,
                  metadata |-> "NOT_READ", orientation |-> 0, autorotate |-> TRUE,
                  trans |-> None, auto |-> None, undo |-> <<>>,
                  modified |-> FALSE, swapped |-> FALSE, changed |-> FALSE]
        /\ viewed = FALSE /\ made = None /\ cache = None
        /\ expected = Upright(file)
-----------------------------------------------------------------------------
(* Loading *)

Swaps(m) == m.xx = 0

Or(t) == IF t = None THEN Identity ELSE t

\* Mutant: the autorotation is left out.
CompositionOfUser(s) == Or(s.trans)

\* The composition of apply_transformations and init_transform_info
Composition(s) == Compose(Or(s.trans), Or(s.auto))

\* Mutant: the size is left as the loader and set_orientation made it.
ApplyKeepSize(s) ==
  IF s.image = None THEN s
  ELSE [s EXCEPT !.image = Compose(s.image, Composition(s))]

\* eom_image_apply_transformations: not on an unloaded image
ApplyTransformations(s) ==
  IF s.image = None \/ (s.trans = None /\ s.auto = None) THEN s
  ELSE [s EXCEPT !.image = Compose(s.image, Composition(s)),
                 !.swapped = Swaps(Compose(s.image, Composition(s)))]

\* eom_image_real_autorotate
RealAutorotate(s) ==
  [s EXCEPT !.autorotate = FALSE,
            !.auto = IF s.orientation \in 2 .. 8
                     THEN New(AutorotateType(s.orientation)) ELSE @]

\* The metadata of the file, and the orientation if it is to be applied
ReadMetadata(s) ==
  LET exif == IF file.format = "jpeg" /\ file.tag # 0 THEN file.tag ELSE None
  IN [s EXCEPT !.exif = exif,
               !.metadata = IF file.format \in {"jpeg", "png"} THEN "READY"
                                                              ELSE "NOT_AVAILABLE",
               !.orientation = IF s.autorotate /\ exif # None THEN exif ELSE @]

\* eom_image_real_load and eom_image_load for all data
Loaded(s) ==
  LET read == [ReadMetadata(s) EXCEPT
                 !.image = file.pix, !.swapped = Swaps(file.pix), !.changed = FALSE,
                 !.orientation = IF s.autorotate /\ file.tag # 0 THEN file.tag ELSE @]
  IN ApplyTransformations(IF read.autorotate THEN RealAutorotate(read) ELSE read)

\* A load that fails, before the metadata is read or after (or is cancelled)
NotLoaded(s, read) ==
  IF ~read THEN s
  ELSE IF s.autorotate THEN RealAutorotate(ReadMetadata(s)) ELSE ReadMetadata(s)

\* eom_image_free_mem_private
FreeMem(s) == [s EXCEPT !.image = None, !.exif = None, !.metadata = "NOT_READ"]

\* eom_job_load_run for a selected image without pixels, and its callback
\* in the window, which never comes if the job was cleared meanwhile.
Load ==
  /\ img.image = None
  /\ \/ img' = Loaded(img) /\ viewed' \in BOOLEAN
     \/ \E read \in BOOLEAN : img' = NotLoaded(img, read) /\ UNCHANGED viewed
  /\ UNCHANGED <<setting, file, made, cache, expected>>

\* The selection comes back to an image that still has its pixels.
Display == /\ img.image # None /\ ~viewed /\ viewed' = TRUE
           /\ UNCHANGED <<setting, file, img, made, cache, expected>>

\* Another image is displayed: eom_image_data_unref
Leave == /\ "leave" \in setting.operations
         /\ viewed /\ viewed' = FALSE
         /\ img' = FreeMem(img)
         /\ UNCHANGED <<setting, file, made, cache, expected>>

\* eom_image_load without the pixels: for the EXIF data, asked for by the
\* status bar plugin, and by the tooltip of a thumbnail while no metadata was
\* read, with the dimension then.  Whether the pixels were read is not looked
\* at before the transforms are applied.  A TIFF file has no reader, which is
\* an error when only EXIF is asked for.
LoadExif ==
  /\ "exif_load" \in setting.operations
  /\ img.exif = None
  /\ \/ file.format # "tiff" /\ img' = ApplyTransformations(ReadMetadata(img))
     \/ /\ file.format = "tiff" /\ img.metadata = "NOT_READ"
        /\ img' = ApplyTransformations(ReadMetadata(img))
  /\ UNCHANGED <<setting, file, viewed, made, cache, expected>>
-----------------------------------------------------------------------------
(* Transforming *)

\* Mutant: the composition starts again.
TransformedAnew(s, t, isUndo) ==
  LET has == s.image # None \/ s.thumbnail # None
  IN [s EXCEPT !.image = IF @ = None THEN @ ELSE Compose(@, t),
               !.swapped = IF s.image = None THEN @ ELSE Swaps(Compose(s.image, t)),
               !.thumbnail = IF @ = None THEN @ ELSE Compose(@, t),
               !.modified = @ \/ has,
               !.trans = t,
               !.undo = IF isUndo THEN @ ELSE <<t>> \o @]

\* eom_image_real_transform: update_exif_data sets the orientation to 1.
Transformed(s, t, isUndo) ==
  LET has == s.image # None \/ s.thumbnail # None
  IN [s EXCEPT !.image = IF @ = None THEN @ ELSE Compose(@, t),
               !.swapped = IF s.image = None THEN @ ELSE Swaps(Compose(s.image, t)),
               !.thumbnail = IF @ = None THEN @ ELSE Compose(@, t),
               !.modified = @ \/ has,
               !.exif = IF has /\ @ # None THEN 1 ELSE @,
               !.orientation = IF has /\ s.exif # None THEN 1 ELSE @,
               !.trans = IF @ = None THEN t ELSE Compose(@, t),
               !.undo = IF isUndo THEN @ ELSE <<t>> \o @]

\* Mutants: the reverse is one more transform to undo; the transform is
\* applied again in place of its reverse.
UndonePushed(s) == Transformed(s, Reversed(Head(s.undo)), FALSE)

UndoneAgain(s) ==
  LET t == Transformed(s, Head(s.undo), TRUE)
  IN [t EXCEPT !.undo = Tail(@),
               !.trans = IF IsIdentity(@) THEN None ELSE @,
               !.modified = Tail(s.undo) # <<>>]

\* eom_image_undo with a stack that is not empty
Undone(s) ==
  LET t == Transformed(s, Reversed(Head(s.undo)), TRUE)
  IN [t EXCEPT !.undo = Tail(@),
               !.trans = IF IsIdentity(@) THEN None ELSE @,
               !.modified = Tail(s.undo) # <<>>]

Transform == /\ "transform" \in setting.operations
             /\ Len(img.undo) < setting.maxUndo
             /\ \E type \in setting.userTypes :
                  /\ img' = Transformed(img, New(type), FALSE)
                  /\ expected' = Compose(expected, New(type))
             /\ UNCHANGED <<setting, file, viewed, made, cache>>

Undo == /\ "undo" \in setting.operations
        /\ IF img.undo = <<>>
           THEN img' = [img EXCEPT !.modified = FALSE] /\ UNCHANGED expected
           ELSE /\ img' = Undone(img)
                /\ expected' = Compose(expected, Reversed(Head(img.undo)))
        /\ UNCHANGED <<setting, file, viewed, made, cache>>
-----------------------------------------------------------------------------
(* Thumbnails *)

Thumbnail == "thumbnail" \in setting.operations

\* eom_thumbnail_load: from the cache, else from the pixels in memory, else
\* from the file.
MakeThumbnail ==
  /\ Thumbnail /\ made = None
  /\ made' = IF cache # None THEN cache
             ELSE IF ~img.changed /\ img.image # None THEN img.image
             ELSE Upright(file)
  /\ cache' = made'
  /\ UNCHANGED <<setting, file, img, viewed, expected>>

\* Mutant: a thumbnail is autorotated like the pixels of the file.
ThumbnailedRotated(s, pixbuf) ==
  [s EXCEPT !.thumbnail = Compose(pixbuf, Composition(s))]

\* eom_image_set_thumbnail
Thumbnailed(s, pixbuf) == [s EXCEPT !.thumbnail = Compose(pixbuf, Or(s.trans))]

\* eom_job_thumbnail_cb
SetThumbnail ==
  /\ Thumbnail /\ made # None /\ made' = None
  /\ img' = Thumbnailed(img, made)
  /\ UNCHANGED <<setting, file, viewed, cache, expected>>

\* The thumbnail scrolls out of sight, or is to be made again:
\* eom_list_store_unset_thumbnail
UnsetThumbnail ==
  /\ Thumbnail /\ img.thumbnail # None /\ img' = [img EXCEPT !.thumbnail = None]
  /\ UNCHANGED <<setting, file, viewed, made, cache, expected>>

\* file_monitor_changed_cb: somebody wrote the file, the same picture.
FileChanged ==
  /\ Thumbnail /\ cache' = None
  /\ img' = [img EXCEPT !.changed = TRUE]
  /\ UNCHANGED <<setting, file, viewed, made, expected>>
-----------------------------------------------------------------------------
(* Saving *)

\* Mutant: the stack is kept.
ResetButUndo(s) == [s EXCEPT !.trans = None, !.auto = None, !.modified = FALSE]

\* eom_image_reset_modifications
ResetModifications(s) == [s EXCEPT !.undo = <<>>, !.trans = None,
                                   !.auto = None, !.modified = FALSE]

\* Mutant: the pixels in memory are taken for those of the file.
LosslessTwice(s) == [pix |-> Compose(s.image, Composition(s)), format |-> "jpeg",
                     tag |-> IF s.exif = None THEN 0 ELSE s.exif]

\* _save_jpeg_as_jpeg: the blocks of the file, transformed; the EXIF data as
\* it is in memory
Lossless(s) == [pix |-> Compose(file.pix, Composition(s)), format |-> "jpeg",
                tag |-> IF s.exif = None THEN 0 ELSE s.exif]

\* _save_any_as_jpeg: the pixels in memory, and the EXIF data
Recompressed(s) == [pix |-> s.image, format |-> "jpeg",
                    tag |-> IF s.exif = None THEN 0 ELSE s.exif]

\* gdk_pixbuf_save
PixbufSaved(s, format) == [pix |-> s.image, tag |-> 0, format |-> format]

\* What eom_image_save_by_info writes for a modified image
Written(s) == IF file.format = "jpeg" THEN Lossless(s)
                                      ELSE PixbufSaved(s, file.format)

\* What eom_image_save_as_by_info writes in a format
WrittenAs(s, format) ==
  IF format = file.format /\ ~s.modified THEN file
  ELSE IF format # "jpeg" THEN PixbufSaved(s, format)
  ELSE IF file.format = "jpeg" THEN Lossless(s) ELSE Recompressed(s)

\* The save jobs load what they need and drop their data reference again.
Needed(s) == IF s.image = None THEN Loaded(s) ELSE s
Dropped(s) == IF viewed THEN s ELSE FreeMem(s)

\* eom_job_save_run for one image; a failure at any point changes no file.
Save ==
  /\ "save" \in setting.operations
  /\ \/ ~img.modified /\ img' = Dropped(Needed(img)) /\ UNCHANGED <<file, cache>>
     \/ /\ img.modified
        /\ \/ /\ file' = Written(Needed(img))
              /\ cache' = None
              /\ img' = Dropped(ResetModifications(Needed(img)))
           \/ img' = Dropped(Needed(img)) /\ UNCHANGED <<file, cache>>
     \/ \E read \in BOOLEAN : /\ img.image = None
                              /\ img' = Dropped(NotLoaded(img, read))
                              /\ UNCHANGED <<file, cache>>
  /\ UNCHANGED <<setting, viewed, made, expected>>

\* eom_job_save_as_run for one image, which is linked with the new file.
SaveAs ==
  /\ "save_as" \in setting.operations
  /\ \/ \E format \in {f.format : f \in setting.files} :
          /\ file' = WrittenAs(Needed(img), format)
          /\ cache' = None
          /\ img' = Dropped(ResetModifications(Needed(img)))
     \/ img' = Dropped(Needed(img)) /\ UNCHANGED <<file, cache>>
  /\ UNCHANGED <<setting, viewed, made, expected>>

Next == \/ Load \/ Display \/ Leave \/ LoadExif
        \/ Transform \/ Undo
        \/ MakeThumbnail \/ SetThumbnail \/ UnsetThumbnail \/ FileChanged
        \/ Save \/ SaveAs

Spec == Init /\ [][Next]_vars
-----------------------------------------------------------------------------
(* Properties *)

(* Every field has its type; the cached and the pending thumbnails are     *)
(* pictures.                                                               *)
TypeOK ==
  /\ setting \in Settings
  /\ file \in [pix : Units, tag : 0 .. 8, format : Formats]
  /\ img \in [image : Units \cup {None}, thumbnail : Units \cup {None},
              exif : 1 .. 8 \cup {None}, orientation : 0 .. 8,
              metadata : {"NOT_READ", "NOT_AVAILABLE", "READY"},
              autorotate : BOOLEAN, trans : Units \cup {None},
              auto : Units \cup {None}, undo : Seq(Units),
              modified : BOOLEAN, swapped : BOOLEAN, changed : BOOLEAN]
  /\ Len(img.undo) <= setting.maxUndo
  /\ viewed \in BOOLEAN
  /\ made \in Units \cup {None} /\ cache \in Units \cup {None}
  /\ expected \in Units

(* The undo stack and the composed transform, kept side by side by         *)
(* transform, undo and save, always tell the same story, so that the       *)
(* transform applied at the next load is what can be undone.               *)
UndoMatchesTrans ==
  LET n == Len(img.undo)
  IN \E done \in [0 .. n -> Units] :
       /\ done[0] = Identity /\ done[n] = Or(img.trans)
       /\ \A i \in 1 .. n : done[i] = Compose(done[i - 1], img.undo[n + 1 - i])

(* Whatever loads, frees, saves and undos came between, the picture in     *)
(* memory is the file upright with what the user did to it since.          *)
ShownIsExpected == img.image # None => img.image = expected

(* When nothing is left to undo, the file on disk shows, with the EXIF     *)
(* orientation it now has, what the user sees: saving wrote the right      *)
(* pixels and the right tag, and nothing was written otherwise.            *)
SavedIsShown == img.undo = <<>> => Upright(file) = expected

(* The sizes the object answers are those of the picture in memory, though *)
(* the loader, the orientation and the transforms all write them.          *)
SizeMatches == img.image # None => img.swapped = Swaps(img.image)

(* eom-thumbnail.c:491: the pixels in memory serve only when they are up   *)
(* to date, so the thumbnail shows what the image shows.                   *)
ThumbnailIsExpected == img.thumbnail # None => img.thumbnail = expected

(* No file has an orientation that turns it; nobody loads the metadata     *)
(* alone or saves under another name.  Without one of the three there are  *)
(* runs in which the picture on the screen is not the one the user made.   *)
Plain == /\ \A f \in setting.files : f.tag \in {0, 1}
         /\ setting.operations \cap {"exif_load", "save_as"} = {}

(* The user turns none; only a JPEG file has an orientation.  (Of a TIFF   *)
(* file a load that fails loses it for ever.)                              *)
Camera == /\ setting.userTypes = {}
          /\ \A f \in setting.files : f.format = "jpeg" \/ f.tag \in {0, 1}
          /\ setting.operations \cap {"exif_load", "save_as"} = {}

(* The picture in memory is the file upright with what the user did to it, *)
(* whatever loads, frees, saves and undos came between; but turns of the   *)
(* user and of the camera together, which a lossless save mixes up, a load *)
(* of the metadata alone and a save under another name are left to         *)
(* SizeMatches (eom_image_real_load).                                      *)
LoadedIsExpected == Plain \/ Camera => ShownIsExpected

(* A file that has no orientation shows, when nothing is left to undo,     *)
(* what the user sees: a save wrote the right pixels and the right tag,    *)
(* and nothing was written otherwise (eom_image_jpeg_save_file).           *)
PlainSavedIsShown == Plain => SavedIsShown

(* The thumbnail of a photograph stands upright once, whether it comes     *)
(* from the pixels, the file or the cache (eom_thumbnail_load,             *)
(* eom_image_set_thumbnail).                                               *)
CameraThumbnailIsExpected == Camera => ThumbnailIsExpected

(* The help (index.docbook:497) has the manipulations apply to all         *)
(* selected images: an image that was transformed counts as modified.      *)
TransformedIsModified == img.undo # <<>> => img.modified

(* The help (index.docbook:324): metadata is updated accordingly.  A file  *)
(* with transformed pixels does not ask for another rotation.              *)
MetadataUpdated == [][Save /\ file' # file => file'.tag \in {0, 1}]_vars

(* The comment at eom-image.c:1270: only an image load job autorotates; a  *)
(* load of metadata leaves the pixels alone.                               *)
MetadataLoadKeepsImage ==
  [][LoadExif /\ img.image # None => img'.image = img.image]_vars
=============================================================================
