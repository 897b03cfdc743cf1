------------------------------ MODULE MCEomImage ------------------------------
(* Files and operations for the runs of EomImage.                          *)
EXTENDS EomImage

File(format, tag) == [pix |-> Identity, tag |-> tag, format |-> format]

\* Nothing to rotate: a photograph held upright, one without EXIF, a PNG
PlainSetting ==
  [files |-> {File("jpeg", 0), File("jpeg", 1), File("png", 0)},
   userTypes |-> {"ROT_90", "FLIP_HORIZONTAL"}, maxUndo |-> 2,
   operations |-> {"transform", "undo", "leave", "save", "thumbnail"}]

\* What the sizes depend on
TurnedSetting ==
  [files |-> {File("jpeg", 0), File("jpeg", 6), File("tiff", 8)},
   userTypes |-> {"ROT_90"}, maxUndo |-> 1, operations |-> AllOperations]

\* Every orientation a camera writes; the user turns nothing.
CameraSetting ==
  [files |-> {File("jpeg", tag) : tag \in 0 .. 8}, userTypes |-> {}, maxUndo |-> 0,
   operations |-> {"undo", "leave", "save", "thumbnail"}]

AllSettings == {PlainSetting, TurnedSetting, CameraSetting}

\* A sideways photograph that the user turns, which a lossless save mixes up
SidewaysSetting == [files |-> {File("jpeg", 6)}, userTypes |-> {"ROT_90", "FLIP_HORIZONTAL"},
                    maxUndo |-> 1, operations |-> {"transform", "save"}]
SidewaysSettings == {SidewaysSetting}
==============================================================================
