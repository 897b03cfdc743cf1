------------------------------ MODULE EomImageSave ------------------------------
(***************************************************************************)
(* How src/src/eom-image.c writes a file: the picture goes to a temporary  *)
(* file, which gets the attributes of the target and is moved over it.     *)
(* Each step may fail, the program may die between two of them, and other  *)
(* programs remove, replace or protect the files at any time.              *)
(***************************************************************************)
EXTENDS Naturals

CONSTANTS MaxChanges   \* bound: what other programs do

VARIABLES file,        \* the files: that of the image, another one, the temporary one
          save,        \* the call of eom_image_save_by_info or _save_as_by_info
          image,       \* EomImagePrivate
          changes

saveVars == <<file, save, image, changes>>

Names == {"own", "other"}
None == [pic |-> "none", mode |-> "none"]

\* A picture is that of the file as it was loaded, the one in memory, or another one.
Picture(pic, mode) == [pic |-> pic, mode |-> mode]
Complete == {"loaded", "image", "foreign"}
Exists(n) == file[n] # None
Modes == {"public", "protected", "private"}   \* 0644, 0444, and 0600 of g_mkstemp

\* mode |= 00600
Masked(mode) == IF mode = "protected" THEN "public" ELSE mode

\* tmp_file_get
NewTemporary == Picture("part", "private")

Target == IF save.kind = "save" THEN "own" ELSE save.to
Goes(step) == save' = [save EXCEPT !.step = step]
Fails == save' = [save EXCEPT !.step = "delete", !.error = TRUE]
Quiet == UNCHANGED <<image, changes>>
-----------------------------------------------------------------------------
\* eom_image_save_info_new_from_image, in the job, which has loaded the image if it could
Call ==
  /\ save.step = "none"
  /\ \E kind \in {"save", "save_as"}, to \in Names, overwrite, same, jpeg, pixels \in BOOLEAN :
       /\ kind = "save" => to = "own" /\ overwrite /\ same
       /\ save' = [save EXCEPT !.step = "check", !.kind = kind, !.to = to,
                     !.overwrite = overwrite, !.same = same, !.jpeg = jpeg, !.pixels = pixels,
                     !.exists = Exists("own"), !.modified = image.modified]
  /\ UNCHANGED <<file, image, changes>>

\* The early returns: these of save_by_info leave the image in status SAVING.
Check ==
  /\ save.step = "check"
  /\ LET saving == IF save.kind = "save" THEN "SAVING" ELSE image.status
     IN image' = [image EXCEPT !.status = saving]
  /\ \/ /\ save.kind = "save" /\ save.exists /\ ~save.modified
        /\ save' = [save EXCEPT !.step = "ended", !.success = TRUE] /\ UNCHANGED file
     \/ /\ save.kind = "save_as" \/ ~save.exists \/ save.modified
        /\ \/ /\ save' = [save EXCEPT !.step = "ended", !.error = TRUE] /\ UNCHANGED file
           \/ /\ save.pixels /\ Goes("write")
              /\ file' = [file EXCEPT !["temp"] = NewTemporary]
  /\ UNCHANGED changes

Write(pic) == /\ file' = [file EXCEPT !["temp"].pic = pic] /\ Goes("attributes") /\ Quiet

\* eom_image_copy_file: GIO copies to the target, all at once.
DirectCopy ==
  /\ save.step = "write" /\ save.kind = "save_as" /\ save.same /\ ~save.modified
  /\ \/ /\ Exists("own") /\ (save.overwrite \/ ~Exists(Target))
        /\ file' = [file EXCEPT ![Target] = file["own"]]
        /\ save' = [save EXCEPT !.step = "reset", !.success = TRUE]
     \/ Fails /\ UNCHANGED file
  /\ Quiet

\* A JPEG writer is used: eom_image_jpeg_save_file. What it takes from the file are the
\* blocks as they are now.
UsesJpeg ==
  IF save.kind = "save" THEN save.jpeg /\ save.exists /\ save.modified
  ELSE (~save.same \/ save.modified) /\ save.jpeg

WriteJpeg ==
  /\ save.step = "write" /\ UsesJpeg
  /\ \/ Exists("own") /\ Write(IF file["own"].pic = "loaded" THEN "image" ELSE "foreign")
     \/ Fails /\ UNCHANGED file /\ Quiet
     \/ Goes("pixbuf") /\ UNCHANGED file /\ Quiet   \* it failed and set no error

WritePixbuf ==
  /\ \/ save.step = "pixbuf"
     \/ save.step = "write" /\ ~UsesJpeg /\ (save.kind = "save" \/ ~save.same \/ save.modified)
  /\ \/ Write("image")
     \/ Fails /\ UNCHANGED file /\ Quiet
-----------------------------------------------------------------------------
\* tmp_file_restore_unix_attributes; whatever cannot be set is left as it is.
RestoreAttributes ==
  /\ save.step = "attributes"
  /\ \E set \in BOOLEAN :
       /\ save' = [save EXCEPT !.step = "move", !.kept = set /\ Exists(Target),
                               !.was = file[Target].mode]
       /\ file' = IF set /\ Exists(Target)
                  THEN [file EXCEPT !["temp"].mode = Masked(file[Target].mode)] ELSE file
  /\ Quiet

\* Mutant: the temporary file is copied piece by piece.
MoveInPieces ==
  /\ save.step = "move"
  /\ \/ /\ save.overwrite \/ ~Exists(Target)
        /\ \/ /\ file' = [file EXCEPT ![Target] = file["temp"], !["temp"] = None]
              /\ save' = [save EXCEPT !.step = "reset", !.success = TRUE]
           \/ file' = [file EXCEPT ![Target].pic = "part"] /\ Goes("move")
     \/ Fails /\ UNCHANGED file
  /\ Quiet

\* tmp_file_move_to_uri
MoveToUri ==
  /\ save.step = "move"
  /\ \/ /\ save.overwrite \/ ~Exists(Target)
        /\ file' = [file EXCEPT ![Target] = file["temp"], !["temp"] = None]
        /\ save' = [save EXCEPT !.step = "reset", !.success = TRUE]
     \/ Fails /\ UNCHANGED file
  /\ Quiet

\* Mutant: what could not be written counts as saved.
ResetAlways ==
  /\ save.step \in {"reset", "delete"} /\ Goes("delete") /\ ~image.reset
  /\ image' = [image EXCEPT !.modified = FALSE, !.file = Target, !.reset = TRUE]
  /\ UNCHANGED <<file, changes>>

\* eom_image_reset_modifications and, in save_as, eom_image_link_with_target
Reset ==
  /\ save.step = "reset" /\ Goes("delete")
  /\ image' = [image EXCEPT !.modified = FALSE, !.file = Target, !.reset = TRUE]
  /\ UNCHANGED <<file, changes>>

\* tmp_file_delete: a file that has been moved is not there.
Delete ==
  /\ save.step = "delete" /\ Goes("ended")
  /\ file' = [file EXCEPT !["temp"] = None]
  /\ image' = [image EXCEPT !.status = IF save.kind = "save" THEN "LOADED" ELSE "UNKNOWN"]
  /\ UNCHANGED changes

Crash == /\ save.step \notin {"none", "ended", "crashed"} /\ Goes("crashed")
         /\ UNCHANGED <<file, image, changes>>

OtherProgram ==
  /\ changes < MaxChanges /\ changes' = changes + 1
  /\ \E n \in Names : \/ file' = [file EXCEPT ![n] = None]
                      \/ file' = [file EXCEPT ![n] = Picture("foreign", "public")]
                      \/ Exists(n) /\ file' = [file EXCEPT ![n].mode = "protected"]
  /\ UNCHANGED <<save, image>>

Init ==
  /\ \E other \in {None, Picture("foreign", "private")} :
       file = [own |-> Picture("loaded", "public"), other |-> other, temp |-> None]
  /\ save = [step |-> "none", kind |-> "save", to |-> "own", overwrite |-> FALSE,
             same |-> FALSE, jpeg |-> FALSE, pixels |-> FALSE, exists |-> FALSE,
             modified |-> FALSE, error |-> FALSE, success |-> FALSE,
             \* history: attributes were taken over, and which mode the target had
             kept |-> FALSE, was |-> "none"]
  /\ \E modified \in BOOLEAN :
       image = [status |-> "LOADED", modified |-> modified, reset |-> FALSE, file |-> "own"]
  /\ changes = 0

Next == \/ Call \/ Check \/ DirectCopy \/ WriteJpeg \/ WritePixbuf
        \/ RestoreAttributes \/ MoveToUri \/ Reset \/ Delete
        \/ Crash \/ OtherProgram
-----------------------------------------------------------------------------
\* Every variable has its type.
TypeOK ==
  /\ \A n \in Names : file[n] = None \/ file[n] \in [pic : Complete \cup {"part"}, mode : Modes]
  /\ image.status \in {"LOADED", "SAVING", "UNKNOWN"} /\ image.file \in Names
  /\ {image.modified, image.reset, save.error, save.success} \subseteq BOOLEAN
  /\ changes \in 0..MaxChanges

Phase == IF save.step = "none" THEN "none" ELSE IF save.success THEN "saved"
         ELSE IF save.error \/ save.step = "crashed" THEN "failed" ELSE "saving"

\* What a save promises, whatever fails and when: other programs see whole pictures and
\* nothing else, one change at most, and none if it failed.
Promise == INSTANCE AtomicSave WITH
  Pictures <- {Picture(pic, mode) : pic \in Complete, mode \in Modes},
  target <- file[Target], phase <- Phase, others <- changes
SaveIsAtomic == Promise!Next \/ Promise!Stutter

\* The changes are forgotten only when they are in the file that the image then names; no
\* end of a save, but a crash, leaves the temporary file; and a file that nobody else
\* touches keeps its mode, if that can be set, and can be written by its owner.
ForgottenWhenSaved ==
  /\ image.reset => save.success /\ image.file = Target
  /\ save.modified /\ ~image.modified => save.success
  /\ save.step = "ended" => file["temp"] = None
  /\ save.success /\ save.kept /\ changes = 0 => file[Target].mode = Masked(save.was)
=============================================================================
