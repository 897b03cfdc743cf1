------------------------- MODULE EomTransformSteps --------------------------
(***************************************************************************)
(* EomTransform at work on the pixels of one loaded image, the way         *)
(* eom-image.c uses it: the EXIF orientation is applied when the image is  *)
(* loaded, then the user rotates, flips and undoes, and eom-image-jpeg.c   *)
(* has libjpeg repeat the composition on the file.                         *)
(***************************************************************************)
EXTENDS EomTransform, Sequences, Functions

CONSTANTS Sizes      \* widths and heights of the stored image

ASSUME SizesAssumption == Sizes \subseteq Nat \ {0}

VARIABLES file,         \* the stored pixels, all of them different
          orientation,  \* the EXIF tag
          loaded,       \* the orientation has been applied
          image,        \* priv->image, what the user sees
          trans         \* the composition of what the user did

vars == <<file, orientation, loaded, image, trans>>

Stored(w, h) == [w |-> w, h |-> h, px |-> [p \in Pixels(w, h) |-> p]]

Init == /\ \E w \in Sizes, h \in Sizes : file = Stored(w, h)
        /\ orientation \in 1 .. 8
        /\ loaded = FALSE
        /\ image = file
        /\ trans = Identity

\* Autorotation, when the image is loaded.
Load == /\ ~loaded
        /\ loaded' = TRUE
        /\ image' = Apply(New(AutorotateType(orientation)), file)
        /\ UNCHANGED <<file, orientation, trans>>

\* eom_image_real_transform on a loaded image
Step(t) == /\ loaded
           /\ image' = Apply(t, image)
           /\ trans' = Compose(trans, t)
           /\ UNCHANGED <<file, orientation, loaded>>

\* The four actions of the Edit menu and their undoing
UserTypes == {"ROT_90", "ROT_270", "FLIP_HORIZONTAL", "FLIP_VERTICAL"}

Transform == \E type \in UserTypes : Step(New(type))
Undo == \E type \in UserTypes : Step(Reversed(New(type)))

Next == Load \/ Transform \/ Undo

Spec == Init /\ [][Next]_vars
-----------------------------------------------------------------------------
Upright == Apply(New(AutorotateType(orientation)), file)

(* The copying loop of eom_transform_apply writes every pixel of the       *)
(* destination, and no pixel of the file is lost or doubled on the way     *)
(* through any series of transforms: its range test never skips one.       *)
NoPixelLost ==
  /\ DOMAIN image.px = Pixels(image.w, image.h)
  /\ Range(image.px) = Pixels(file.w, file.h)
  /\ IsInjective(image.px)

(* eom_image_apply_transformations and eom_image_set_thumbnail apply the   *)
(* composition in one go to a fresh pixbuf; that gives the picture the     *)
(* single steps gave.                                                      *)
ComposedIsSequential == loaded => image = Apply(trans, Upright)

(* Whatever the user does in any order, the composition is one of the      *)
(* eight types and eom_transform_get_transform_type names the right one,   *)
(* also the transversion, which it rebuilds in another way than            *)
(* eom_transform_new does.                                                 *)
TypeNamesTransform ==
  New(TransformType(trans)) = trans

(* EXIF: the 0th row and 0th column of the stored pixels are at the named  *)
(* sides of the picture the user is to see.                                *)
ExifSides(o) == <<<<"top", "left">>, <<"top", "right">>, <<"bottom", "right">>,
                  <<"bottom", "left">>, <<"left", "top">>, <<"right", "top">>,
                  <<"right", "bottom">>, <<"left", "bottom">>>>[o]

Side(p, name) == CASE name = "top"    -> {d \in Pixels(p.w, p.h) : d[2] = 0}
                   [] name = "bottom" -> {d \in Pixels(p.w, p.h) : d[2] = p.h - 1}
                   [] name = "left"   -> {d \in Pixels(p.w, p.h) : d[1] = 0}
                   [] name = "right"  -> {d \in Pixels(p.w, p.h) : d[1] = p.w - 1}

(* Autorotation puts the stored rows and columns where the EXIF            *)
(* orientation says they are, for all eight orientations: the order of the *)
(* lookup table of eom_image_real_autorotate is right.                     *)
ShownUpright ==
  loaded /\ IsIdentity(trans) =>
    /\ {image.px[d] : d \in Side(image, ExifSides(orientation)[1])}
         = {p \in Pixels(file.w, file.h) : p[2] = 0}
    /\ {image.px[d] : d \in Side(image, ExifSides(orientation)[2])}
         = {p \in Pixels(file.w, file.h) : p[1] = 0}

(* libjpeg's lossless transforms, by where a pixel of the output comes     *)
(* from (sizes are whole iMCUs: the library leaves partial ones alone).    *)
JxformSource(code, p, x, y) ==
  CASE code = "NONE" -> <<x, y>>
    [] code = "FLIP_HORIZONTAL" -> <<p.w - 1 - x, y>>
    [] code = "FLIP_VERTICAL" -> <<x, p.h - 1 - y>>
    [] code = "TRANSPOSE" -> <<y, x>>
    [] code = "TRANSVERSE" -> <<p.w - 1 - y, p.h - 1 - x>>
    [] code = "ROT_90" -> <<y, p.h - 1 - x>>
    [] code = "ROT_180" -> <<p.w - 1 - x, p.h - 1 - y>>
    [] code = "ROT_270" -> <<p.w - 1 - y, x>>

(* For an image without orientation the lossless save writes the picture   *)
(* on the screen: the code that init_transform_info finds for the          *)
(* composition moves the stored blocks where eom_transform_apply moved the *)
(* pixels.                                                                 *)
LosslessSaveAgrees ==
  loaded /\ orientation = 1 =>
    \A d \in Pixels(image.w, image.h) :
      image.px[d] = file.px[JxformSource(Jxform(TransformType(trans)), file, d[1], d[2])]

\* Mutant: the sizes of a quarter turn confused.
PaintOffsetTurned(type, w, h) ==
  CASE type = "ROT_90" -> <<0, -h>>
    [] type = "ROT_180" -> <<-w, -h>>
    [] type = "ROT_270" -> <<-w, 0>>
    [] type = "FLIP_HORIZONTAL" -> <<-w, 0>>
    [] type = "FLIP_VERTICAL" -> <<0, -h>>
    [] type = "TRANSVERSE" -> <<-h, -w>>
    [] OTHER -> <<0, 0>>

(* eom_print_draw_page has a JPEG file itself painted, by cairo, turned    *)
(* and moved by a table of its own; w and h are the sizes on the screen.   *)
PaintOffset(type, w, h) ==
  CASE type = "ROT_90" -> <<0, -w>>
    [] type = "ROT_180" -> <<-w, -h>>
    [] type = "ROT_270" -> <<-h, 0>>
    [] type = "FLIP_HORIZONTAL" -> <<-w, 0>>
    [] type = "FLIP_VERTICAL" -> <<0, -h>>
    [] type = "TRANSVERSE" -> <<-h, -w>>
    [] OTHER -> <<0, 0>>

PaintMatrix(type) ==
  CASE type \in {"FLIP_HORIZONTAL", "FLIP_VERTICAL"} -> FlipNew(type)
    [] type = "ROT_90" -> Rotate(90)
    [] type = "ROT_180" -> Rotate(180)
    [] type = "ROT_270" -> Rotate(270)
    [] type = "TRANSPOSE" -> Multiply(Rotate(90), Flip(Identity, TRUE, FALSE))
    [] type = "TRANSVERSE" -> Multiply(Rotate(90), Flip(Identity, FALSE, TRUE))
    [] OTHER -> Identity

\* Where the middle of a pixel of the file is painted, in halves of a pixel
Painted(type, w, h, p) ==
  LET o == PaintOffset(type, w, h)
  IN Point(PaintMatrix(type), 2 * (p[1] + o[1]) + 1, 2 * (p[2] + o[2]) + 1)

(* A JPEG image is printed as it is on the screen: the table moves the     *)
(* file's pixels where autorotation and the user's transforms moved them.  *)
PrintedIsShown ==
  loaded =>
    LET type == TransformType(Compose(New(AutorotateType(orientation)), trans))
    IN \A d \in Pixels(image.w, image.h) :
         Painted(type, image.w, image.h, image.px[d]) = <<2 * d[1] + 1, 2 * d[2] + 1>>
=============================================================================
