---------------------------- MODULE EomTransform ----------------------------
(***************************************************************************)
(* src/src/eom-transform.c: affine transforms of pixbufs, the eight        *)
(* transform types and the loop that moves the pixels.  A constant module. *)
(*                                                                         *)
(* The code keeps doubles.  Every matrix it can build is a product of      *)
(* quarter turns and flips: an entry is 1 or -1 exactly, or within 1e-12   *)
(* of 0, the translation is 0, and each conversion to int and each         *)
(* comparison (DOUBLE_EQUAL_MAX_DIFF) removes the rest.  So a matrix is a  *)
(* record of integers and DOUBLE_EQUAL is equality.                        *)
(***************************************************************************)
EXTENDS Integers, FiniteSetsExt

Types == {"NONE", "ROT_90", "ROT_180", "ROT_270", "FLIP_HORIZONTAL",
          "FLIP_VERTICAL", "TRANSPOSE", "TRANSVERSE"}

Matrix(xx, yx, xy, yy) == [xx |-> xx, yx |-> yx, xy |-> xy, yy |-> yy]

\* cairo: transform_point, multiply (first a, then b), invert, init_rotate.
Point(m, x, y) == <<m.xx * x + m.xy * y, m.yx * x + m.yy * y>>

Multiply(a, b) == Matrix(a.xx * b.xx + a.yx * b.xy, a.xx * b.yx + a.yx * b.yy,
                         a.xy * b.xx + a.yy * b.xy, a.xy * b.yx + a.yy * b.yy)

Det(m) == m.xx * m.yy - m.yx * m.xy

\* 1 / Det(m) is Det(m): the determinant is 1 or -1.
Invert(m) == Matrix(m.yy * Det(m), -m.yx * Det(m), -m.xy * Det(m), m.xx * Det(m))

Identity == Matrix(1, 0, 0, 1)

Rotate(degree) == CASE degree = 90  -> Matrix(0, 1, -1, 0)
                    [] degree = 180 -> Matrix(-1, 0, 0, -1)
                    [] degree = 270 -> Matrix(0, -1, 1, 0)

\* _eom_cairo_matrix_flip
Flip(m, horiz, vert) ==
  Matrix(IF horiz THEN -m.xx ELSE m.xx, IF horiz THEN -m.yx ELSE m.yx,
         IF vert THEN -m.xy ELSE m.xy, IF vert THEN -m.yy ELSE m.yy)

FlipNew(type) ==
  Flip(Identity, type = "FLIP_HORIZONTAL", type = "FLIP_VERTICAL")

\* Mutant: the arguments swapped
ComposeSwapped(trans, compose) == Multiply(compose, trans)

\* eom_transform_compose, eom_transform_reverse
Compose(trans, compose) == Multiply(trans, compose)
Reversed(trans) == Invert(trans)

IsIdentity(trans) == trans = Identity

\* eom_transform_new
New(type) ==
  CASE type = "NONE" -> Identity
    [] type \in {"FLIP_HORIZONTAL", "FLIP_VERTICAL"} -> FlipNew(type)
    [] type = "ROT_90" -> Rotate(90)
    [] type = "ROT_180" -> Rotate(180)
    [] type = "ROT_270" -> Rotate(270)
    [] type = "TRANSPOSE" -> Compose(Rotate(90), FlipNew("FLIP_HORIZONTAL"))
    [] type = "TRANSVERSE" -> Compose(Rotate(90), FlipNew("FLIP_VERTICAL"))

\* Mutant: the transversion is recognised by a flip of the wrong matrix.
TransformTypeNoTransverse(m) ==
  LET transposition == Multiply(Rotate(90), Flip(Identity, TRUE, FALSE))
  IN CASE m = Rotate(90)  -> "ROT_90"
       [] m = Rotate(180) -> "ROT_180"
       [] m = Rotate(270) -> "ROT_270"
       [] m = Flip(Identity, TRUE, FALSE) -> "FLIP_HORIZONTAL"
       [] m = Flip(Identity, FALSE, TRUE) -> "FLIP_VERTICAL"
       [] m = transposition -> "TRANSPOSE"
       [] m = Multiply(Rotate(90), transposition) -> "TRANSVERSE"
       [] OTHER -> "NONE"

\* eom_transform_get_transform_type: a list of tests, each of another matrix.
TransformType(m) ==
  LET transposition == Multiply(Rotate(90), Flip(Identity, TRUE, FALSE))
  IN CASE m = Rotate(90)  -> "ROT_90"
       [] m = Rotate(180) -> "ROT_180"
       [] m = Rotate(270) -> "ROT_270"
       [] m = Flip(Identity, TRUE, FALSE) -> "FLIP_HORIZONTAL"
       [] m = Flip(Identity, FALSE, TRUE) -> "FLIP_VERTICAL"
       [] m = transposition -> "TRANSPOSE"
       [] m = Multiply(Rotate(180), transposition) -> "TRANSVERSE"
       [] OTHER -> "NONE"

\* Every matrix the code builds is one of the eight.
Units == {New(type) : type \in Types}
-----------------------------------------------------------------------------
(* Pixbufs *)

Pixels(w, h) == (0 .. w - 1) \X (0 .. h - 1)

\* What gdk_pixbuf_new leaves in a pixel nobody writes.
Uninitialised == <<"uninitialised">>

\* Mutant: the matrix is not inverted.
SourceForwards(trans, x, y) == Point(trans, x, y)

\* The pixel of the source for a point of the destination rectangle
Source(trans, x, y) == Point(Invert(trans), x, y)

\* Where the corners of the source go
Corners(trans, p) ==
  {Point(trans, c[1], c[2]) : c \in {0, p.w - 1} \X {0, p.h - 1}}

\* eom_transform_apply: the corners of the source give the rectangle of the
\* destination; each of its pixels is copied from where the inverse points.
Apply(trans, p) ==
  LET corners == Corners(trans, p)
      left == Min({c[1] : c \in corners})
      top == Min({c[2] : c \in corners})
      width == Max({c[1] : c \in corners}) - left + 1
      height == Max({c[2] : c \in corners}) - top + 1
      From(d) == Source(trans, left + d[1], top + d[2])
  IN [w |-> width, h |-> height,
      px |-> [d \in Pixels(width, height) |->
                IF From(d) \in Pixels(p.w, p.h) THEN p.px[From(d)]
                                                ELSE Uninitialised]]
-----------------------------------------------------------------------------
(* The callers' tables *)

\* Mutant: the quarter turns the other way round.
AutorotateTypeTurned(orientation) ==
  <<"NONE", "FLIP_HORIZONTAL", "ROT_180", "FLIP_VERTICAL",
    "TRANSPOSE", "ROT_270", "TRANSVERSE", "ROT_90">>[orientation]

\* eom_image_real_autorotate: EXIF orientation 1 .. 8
AutorotateType(orientation) ==
  <<"NONE", "FLIP_HORIZONTAL", "ROT_180", "FLIP_VERTICAL",
    "TRANSPOSE", "ROT_90", "TRANSVERSE", "ROT_270">>[orientation]

\* Mutant: two of libjpeg's codes confused.
JxformSwapped(type) == IF type \in Types \ {"TRANSPOSE"} THEN type ELSE "TRANSVERSE"

\* init_transform_info: the JXFORM code for a transform type
Jxform(type) == IF type \in Types THEN type ELSE "NONE"
=============================================================================
