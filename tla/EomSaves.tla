------------------------------- MODULE EomSaves -------------------------------
(***************************************************************************)
(* Saving, side by side on its two levels: what a window knows of its save *)
(* jobs and loses when it is closed, image by image (EomWindowSave), and   *)
(* how one file is written, step by step (EomImageSave).                   *)
(***************************************************************************)
EXTENDS EomWindowSave, EomPart

CONSTANT MaxChanges                        \* of EomImageSave

VARIABLES file, save, object, changes      \* of EomImageSave, object its image

Image == INSTANCE EomImageSave WITH image <- object

ASSUME SavesAssumption ==
  MaxImages \in Nat \ {0} /\ MaxRequests \in Nat /\ MaxChanges \in Nat

imageSaveVars == <<file, save, object, changes>>
savesVars == <<part, vars, imageSaveVars>>

SavesInit ==
  /\ IF part = "save" THEN Init
     ELSE /\ disk = Off /\ image = Off /\ w = Off /\ queue = Off /\ running = Off
          /\ ended = Off /\ wall = Off /\ h = Off /\ requests = Off
  /\ IF part = "imageSave" THEN Image!Init
     ELSE file = Off /\ save = Off /\ object = Off /\ changes = Off

SavesNext ==
  \/ part = "save" /\ Next /\ UNCHANGED <<part, imageSaveVars>>
  \/ part = "imageSave" /\ Image!Next /\ UNCHANGED <<part, vars>>

SavesSpec == SavesInit /\ [][SavesNext]_savesVars
-----------------------------------------------------------------------------
\* No change of an image gets lost without a reason that the user knows of: the window
\* knows its job (eom_window_save_images, eom_job_save_cb), it asks before it closes
\* (eom_window_unsaved_images_confirm), and an image forgets its changes when they are in
\* its file (eom_image_save_by_info).
SavesAreKnown ==
  /\ part = "save" => WindowKnowsJob /\ LossesAreKnown
  /\ part = "imageSave" => Image!ForgottenWhenSaved

\* A save changes the file it writes once, to the whole new picture, or not at all
\* (tmp_file_move_to_uri); several images at once replace no file (eom_job_save_as_run).
SavesAreAtomic ==
  [][ /\ part = "imageSave" => Image!SaveIsAtomic
      /\ part = "save" => SeveralReplaceNothing ]_savesVars
=============================================================================
