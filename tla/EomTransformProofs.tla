-------------------------- MODULE EomTransformProofs ------------------------
(***************************************************************************)
(* Proofs about the pixels of EomTransformSteps, for images of every size  *)
(* and every series of transforms.                                         *)
(***************************************************************************)
EXTENDS EomTransformSteps, EomLemmas

TransOK == trans \in Units

LEMMA TransInvariant == Spec => []TransOK
  <1>1. Init => TransOK
    BY NewMatrices DEF Init, TransOK, Units, Types, Identity
  <1>2. TransOK /\ [Next]_vars => TransOK'
    <2> SUFFICES ASSUME TransOK, [Next]_vars PROVE TransOK'
      OBVIOUS
    <2>1. \A type \in UserTypes : New(type) \in Units
      BY DEF UserTypes, Units, Types
    <2>2. CASE Load
      BY <2>2 DEF Load, TransOK
    <2>3. CASE Transform
      BY <2>3, <2>1, ComposeUnits DEF Transform, Step, TransOK
    <2>4. CASE Undo
      BY <2>4, <2>1, ComposeUnits, ReverseUnits DEF Undo, Step, TransOK
    <2>5. CASE UNCHANGED vars
      BY <2>5 DEF vars, TransOK
    <2> QED BY <2>2, <2>3, <2>4, <2>5 DEF Next
  <1> QED BY <1>1, <1>2, PTL DEF Spec

(* Whatever the user does, in any order and on images of every size, the   *)
(* transform kept for reloading and saving has a type, and                 *)
(* eom_transform_get_transform_type finds it.                              *)
THEOREM TypeAlwaysNamed == Spec => []TypeNamesTransform
  <1>1. TransOK => TypeNamesTransform
    BY TypeOfUnit DEF TransOK, Units, TypeNamesTransform
  <1> QED BY <1>1, TransInvariant, PTL
-----------------------------------------------------------------------------
(* The pixel loop, for pixbufs of every size *)

LEMMA MinMaxOfTwo ==
  ASSUME NEW a \in {-1, 1}, NEW n \in Nat
  PROVE  /\ Min({0, a * n}) = IF a = 1 THEN 0 ELSE -n
         /\ Max({0, a * n}) = IF a = 1 THEN n ELSE 0
  <1>1. Min({0, n}) = 0 /\ Max({0, n}) = n
    BY DEF Min, Max
  <1>2. Min({0, -n}) = -n /\ Max({0, -n}) = 0
    BY DEF Min, Max
  <1>3. CASE a = 1
    <2>1. a * n = n
      BY <1>3
    <2> QED BY <2>1, <1>1, <1>3
  <1>4. CASE a = -1
    <2>1. a * n = -n
      BY <1>4
    <2> QED BY <2>1, <1>2, <1>4
  <1> QED BY <1>3, <1>4

(* A pixbuf that has pixels, and a value for each of them.                 *)
Proper(p) == /\ p.w \in Nat \ {0} /\ p.h \in Nat \ {0}
             /\ DOMAIN p.px = Pixels(p.w, p.h)

LEMMA CornerIn ==
  ASSUME NEW t, NEW p, NEW x \in {0, p.w - 1}, NEW y \in {0, p.h - 1}
  PROVE  Point(t, x, y) \in Corners(t, p)
  <1> DEFINE c == <<x, y>>
  <1>1. c \in {0, p.w - 1} \X {0, p.h - 1}
    OBVIOUS
  <1>2. c[1] = x /\ c[2] = y
    OBVIOUS
  <1> HIDE DEF c
  <1> QED BY <1>1, <1>2 DEF Corners

(* The rectangle of the destination of a diagonal matrix *)
LEMMA CornersDiagonal ==
  ASSUME NEW p, Proper(p), NEW a \in {-1, 1}, NEW b \in {-1, 1}
  PROVE  /\ {c[1] : c \in Corners(Matrix(a, 0, 0, b), p)} = {0, a * (p.w - 1)}
         /\ {c[2] : c \in Corners(Matrix(a, 0, 0, b), p)} = {0, b * (p.h - 1)}
  <1> DEFINE corners == Corners(Matrix(a, 0, 0, b), p)
  <1>0. p.w - 1 \in Nat /\ p.h - 1 \in Nat
    BY DEF Proper
  <1>1. \A x, y \in Int : Point(Matrix(a, 0, 0, b), x, y) = <<a * x, b * y>>
    BY DEF Point, Matrix
  <1>2. \A c \in corners : c[1] \in {0, a * (p.w - 1)} /\ c[2] \in {0, b * (p.h - 1)}
    <2> SUFFICES ASSUME NEW e \in {0, p.w - 1} \X {0, p.h - 1}
                 PROVE  /\ Point(Matrix(a, 0, 0, b), e[1], e[2])[1] \in {0, a * (p.w - 1)}
                        /\ Point(Matrix(a, 0, 0, b), e[1], e[2])[2] \in {0, b * (p.h - 1)}
      BY DEF Corners
    <2>1. /\ e[1] \in {0, p.w - 1} /\ e[2] \in {0, p.h - 1}
          /\ e[1] \in Int /\ e[2] \in Int
      BY <1>0
    <2>2. Point(Matrix(a, 0, 0, b), e[1], e[2]) = <<a * e[1], b * e[2]>>
      BY <2>1 DEF Point, Matrix
    <2>3. a * e[1] \in {0, a * (p.w - 1)} /\ b * e[2] \in {0, b * (p.h - 1)}
      BY <1>0, <2>1
    <2> QED BY <2>2, <2>3
  <1>3. <<0, 0>> \in corners /\ <<a * (p.w - 1), b * (p.h - 1)>> \in corners
    <2>1. Point(Matrix(a, 0, 0, b), 0, 0) = <<0, 0>>
      BY <1>1
    <2>2. Point(Matrix(a, 0, 0, b), p.w - 1, p.h - 1) = <<a * (p.w - 1), b * (p.h - 1)>>
      BY <1>0 DEF Point, Matrix
    <2> QED BY <2>1, <2>2, CornerIn
  <1>4. {c[1] : c \in corners} = {0, a * (p.w - 1)} /\ {c[2] : c \in corners} = {0, b * (p.h - 1)}
    <2> HIDE DEF corners
    <2> QED BY <1>2, <1>3
  <1> QED BY <1>4

(* and of an antidiagonal one *)
LEMMA CornersAntidiagonal ==
  ASSUME NEW p, Proper(p), NEW a \in {-1, 1}, NEW b \in {-1, 1}
  PROVE  /\ {c[1] : c \in Corners(Matrix(0, a, b, 0), p)} = {0, b * (p.h - 1)}
         /\ {c[2] : c \in Corners(Matrix(0, a, b, 0), p)} = {0, a * (p.w - 1)}
  <1> DEFINE corners == Corners(Matrix(0, a, b, 0), p)
  <1>0. p.w - 1 \in Nat /\ p.h - 1 \in Nat
    BY DEF Proper
  <1>1. \A x, y \in Int : Point(Matrix(0, a, b, 0), x, y) = <<b * y, a * x>>
    BY DEF Point, Matrix
  <1>2. \A c \in corners : c[1] \in {0, b * (p.h - 1)} /\ c[2] \in {0, a * (p.w - 1)}
    <2> SUFFICES ASSUME NEW e \in {0, p.w - 1} \X {0, p.h - 1}
                 PROVE  /\ Point(Matrix(0, a, b, 0), e[1], e[2])[1] \in {0, b * (p.h - 1)}
                        /\ Point(Matrix(0, a, b, 0), e[1], e[2])[2] \in {0, a * (p.w - 1)}
      BY DEF Corners
    <2>1. /\ e[1] \in {0, p.w - 1} /\ e[2] \in {0, p.h - 1}
          /\ e[1] \in Int /\ e[2] \in Int
      BY <1>0
    <2>2. Point(Matrix(0, a, b, 0), e[1], e[2]) = <<b * e[2], a * e[1]>>
      BY <2>1 DEF Point, Matrix
    <2>3. b * e[2] \in {0, b * (p.h - 1)} /\ a * e[1] \in {0, a * (p.w - 1)}
      BY <1>0, <2>1
    <2> QED BY <2>2, <2>3
  <1>3. <<0, 0>> \in corners /\ <<b * (p.h - 1), a * (p.w - 1)>> \in corners
    <2>1. Point(Matrix(0, a, b, 0), 0, 0) = <<0, 0>>
      BY <1>1
    <2>2. Point(Matrix(0, a, b, 0), p.w - 1, p.h - 1) = <<b * (p.h - 1), a * (p.w - 1)>>
      BY <1>0 DEF Point, Matrix
    <2> QED BY <2>1, <2>2, CornerIn
  <1>4. {c[1] : c \in corners} = {0, b * (p.h - 1)} /\ {c[2] : c \in corners} = {0, a * (p.w - 1)}
    <2> HIDE DEF corners
    <2> QED BY <1>2, <1>3
  <1> QED BY <1>4

(* A coordinate of the source for a coordinate of the destination          *)
Mirror(a, n, i) == IF a = 1 THEN i ELSE n - 1 - i

(* A diagonal matrix keeps the size and mirrors the axes whose entry is -1.*)
LEMMA ApplyDiagonal ==
  ASSUME NEW a \in {-1, 1}, NEW b \in {-1, 1}, NEW p, Proper(p)
  PROVE  Apply(Matrix(a, 0, 0, b), p) =
           [w |-> p.w, h |-> p.h,
            px |-> [d \in Pixels(p.w, p.h) |->
                      p.px[<<Mirror(a, p.w, d[1]), Mirror(b, p.h, d[2])>>]]]
  <1> DEFINE t == Matrix(a, 0, 0, b)
             left == Min({c[1] : c \in Corners(t, p)})
             top == Min({c[2] : c \in Corners(t, p)})
             width == Max({c[1] : c \in Corners(t, p)}) - left + 1
             height == Max({c[2] : c \in Corners(t, p)}) - top + 1
  <1>0. p.w \in Nat \ {0} /\ p.h \in Nat \ {0} /\ p.w - 1 \in Nat /\ p.h - 1 \in Nat
    BY DEF Proper
  <1>1. /\ left = IF a = 1 THEN 0 ELSE -(p.w - 1)
        /\ top = IF b = 1 THEN 0 ELSE -(p.h - 1)
        /\ width = (IF a = 1 THEN p.w - 1 ELSE 0) - left + 1
        /\ height = (IF b = 1 THEN p.h - 1 ELSE 0) - top + 1
    <2>1. /\ {c[1] : c \in Corners(t, p)} = {0, a * (p.w - 1)}
          /\ {c[2] : c \in Corners(t, p)} = {0, b * (p.h - 1)}
      BY CornersDiagonal
    <2>2. /\ Min({0, a * (p.w - 1)}) = IF a = 1 THEN 0 ELSE -(p.w - 1)
          /\ Max({0, a * (p.w - 1)}) = IF a = 1 THEN p.w - 1 ELSE 0
          /\ Min({0, b * (p.h - 1)}) = IF b = 1 THEN 0 ELSE -(p.h - 1)
          /\ Max({0, b * (p.h - 1)}) = IF b = 1 THEN p.h - 1 ELSE 0
      BY <1>0, MinMaxOfTwo
    <2> QED BY <2>1, <2>2
  <1> HIDE DEF left, top, width, height
  <1>2. width = p.w /\ height = p.h
    BY <1>0, <1>1
  <1>3. ASSUME NEW i \in 0 .. p.w - 1, NEW j \in 0 .. p.h - 1
        PROVE  /\ Source(t, left + i, top + j) = <<Mirror(a, p.w, i), Mirror(b, p.h, j)>>
               /\ Source(t, left + i, top + j) \in Pixels(p.w, p.h)
    <2>1. Invert(t) = t
      BY DEF Invert, Det, Matrix
    <2>2. left + i \in Int /\ top + j \in Int
      BY <1>0, <1>1
    <2>3. Source(t, left + i, top + j) = <<a * (left + i), b * (top + j)>>
      BY <2>1, <2>2 DEF Source, Point, Matrix
    <2>4. a * (left + i) = Mirror(a, p.w, i) /\ b * (top + j) = Mirror(b, p.h, j)
      BY <1>0, <1>1 DEF Mirror
    <2>5. Mirror(a, p.w, i) \in 0 .. p.w - 1 /\ Mirror(b, p.h, j) \in 0 .. p.h - 1
      BY <1>0 DEF Mirror
    <2> QED BY <2>3, <2>4, <2>5 DEF Pixels
  <1>4. \A d \in Pixels(width, height) :
          /\ Source(t, left + d[1], top + d[2])
               = <<Mirror(a, p.w, d[1]), Mirror(b, p.h, d[2])>>
          /\ Source(t, left + d[1], top + d[2]) \in Pixels(p.w, p.h)
    BY <1>2, <1>3 DEF Pixels
  <1>5. Apply(t, p) = [w |-> width, h |-> height,
                       px |-> [d \in Pixels(width, height) |->
                                 IF Source(t, left + d[1], top + d[2]) \in Pixels(p.w, p.h)
                                 THEN p.px[Source(t, left + d[1], top + d[2])]
                                 ELSE Uninitialised]]
    BY DEF Apply, left, top, width, height
  <1> HIDE DEF t
  <1>6. Apply(t, p) = [w |-> width, h |-> height,
                       px |-> [d \in Pixels(width, height) |->
                                 p.px[<<Mirror(a, p.w, d[1]), Mirror(b, p.h, d[2])>>]]]
    BY <1>4, <1>5
  <1> QED BY <1>2, <1>6 DEF t

(* An antidiagonal matrix exchanges width and height as well.              *)
LEMMA ApplyAntidiagonal ==
  ASSUME NEW a \in {-1, 1}, NEW b \in {-1, 1}, NEW p, Proper(p)
  PROVE  Apply(Matrix(0, a, b, 0), p) =
           [w |-> p.h, h |-> p.w,
            px |-> [d \in Pixels(p.h, p.w) |->
                      p.px[<<Mirror(a, p.w, d[2]), Mirror(b, p.h, d[1])>>]]]
  <1> DEFINE t == Matrix(0, a, b, 0)
             left == Min({c[1] : c \in Corners(t, p)})
             top == Min({c[2] : c \in Corners(t, p)})
             width == Max({c[1] : c \in Corners(t, p)}) - left + 1
             height == Max({c[2] : c \in Corners(t, p)}) - top + 1
  <1>0. p.w \in Nat \ {0} /\ p.h \in Nat \ {0} /\ p.w - 1 \in Nat /\ p.h - 1 \in Nat
    BY DEF Proper
  <1>1. /\ left = IF b = 1 THEN 0 ELSE -(p.h - 1)
        /\ top = IF a = 1 THEN 0 ELSE -(p.w - 1)
        /\ width = (IF b = 1 THEN p.h - 1 ELSE 0) - left + 1
        /\ height = (IF a = 1 THEN p.w - 1 ELSE 0) - top + 1
    <2>1. /\ {c[1] : c \in Corners(t, p)} = {0, b * (p.h - 1)}
          /\ {c[2] : c \in Corners(t, p)} = {0, a * (p.w - 1)}
      BY CornersAntidiagonal
    <2>2. /\ Min({0, a * (p.w - 1)}) = IF a = 1 THEN 0 ELSE -(p.w - 1)
          /\ Max({0, a * (p.w - 1)}) = IF a = 1 THEN p.w - 1 ELSE 0
          /\ Min({0, b * (p.h - 1)}) = IF b = 1 THEN 0 ELSE -(p.h - 1)
          /\ Max({0, b * (p.h - 1)}) = IF b = 1 THEN p.h - 1 ELSE 0
      BY <1>0, MinMaxOfTwo
    <2> QED BY <2>1, <2>2
  <1> HIDE DEF left, top, width, height
  <1>2. width = p.h /\ height = p.w
    BY <1>0, <1>1
  <1>3. ASSUME NEW i \in 0 .. p.h - 1, NEW j \in 0 .. p.w - 1
        PROVE  /\ Source(t, left + i, top + j) = <<Mirror(a, p.w, j), Mirror(b, p.h, i)>>
               /\ Source(t, left + i, top + j) \in Pixels(p.w, p.h)
    <2>1. Invert(t) = Matrix(0, b, a, 0)
      BY DEF Invert, Det, Matrix
    <2>2. left + i \in Int /\ top + j \in Int
      BY <1>0, <1>1
    <2>3. Source(t, left + i, top + j) = <<a * (top + j), b * (left + i)>>
      BY <2>1, <2>2 DEF Source, Point, Matrix
    <2>4. a * (top + j) = Mirror(a, p.w, j) /\ b * (left + i) = Mirror(b, p.h, i)
      BY <1>0, <1>1 DEF Mirror
    <2>5. Mirror(a, p.w, j) \in 0 .. p.w - 1 /\ Mirror(b, p.h, i) \in 0 .. p.h - 1
      BY <1>0 DEF Mirror
    <2> QED BY <2>3, <2>4, <2>5 DEF Pixels
  <1>4. \A d \in Pixels(width, height) :
          /\ Source(t, left + d[1], top + d[2])
               = <<Mirror(a, p.w, d[2]), Mirror(b, p.h, d[1])>>
          /\ Source(t, left + d[1], top + d[2]) \in Pixels(p.w, p.h)
    BY <1>2, <1>3 DEF Pixels
  <1>5. Apply(t, p) = [w |-> width, h |-> height,
                       px |-> [d \in Pixels(width, height) |->
                                 IF Source(t, left + d[1], top + d[2]) \in Pixels(p.w, p.h)
                                 THEN p.px[Source(t, left + d[1], top + d[2])]
                                 ELSE Uninitialised]]
    BY DEF Apply, left, top, width, height
  <1> HIDE DEF t
  <1>6. Apply(t, p) = [w |-> width, h |-> height,
                       px |-> [d \in Pixels(width, height) |->
                                 p.px[<<Mirror(a, p.w, d[2]), Mirror(b, p.h, d[1])>>]]]
    BY <1>4, <1>5
  <1> QED BY <1>2, <1>6 DEF t

LEMMA MirrorIsBijective ==
  ASSUME NEW a \in {-1, 1}, NEW n \in Nat \ {0}
  PROVE  /\ \A i \in 0 .. n - 1 : /\ Mirror(a, n, i) \in 0 .. n - 1
                                  /\ Mirror(a, n, Mirror(a, n, i)) = i
         /\ \A i, j \in 0 .. n - 1 : Mirror(a, n, i) = Mirror(a, n, j) => i = j
  BY DEF Mirror

(* The loop writes every pixel of the destination, and moves the pixels of *)
(* the source about without losing or doubling one.                        *)
Moved(p, q) == /\ Proper(q)
               /\ Range(q.px) = Range(p.px)
               /\ IsInjective(p.px) => IsInjective(q.px)

LEMMA ApplyMoves ==
  ASSUME NEW t \in Units, NEW p, Proper(p)
  PROVE  Moved(p, Apply(t, p))
  <1>0. p.w \in Nat \ {0} /\ p.h \in Nat \ {0} /\ DOMAIN p.px = Pixels(p.w, p.h)
    BY DEF Proper
  <1>1. CASE t \in Diagonal
    <2>1. PICK a \in {-1, 1}, b \in {-1, 1} : t = Matrix(a, 0, 0, b)
      BY <1>1 DEF Diagonal
    <2> DEFINE At(d) == <<Mirror(a, p.w, d[1]), Mirror(b, p.h, d[2])>>
               q == [w |-> p.w, h |-> p.h,
                     px |-> [d \in Pixels(p.w, p.h) |-> p.px[At(d)]]]
    <2>2. Apply(t, p) = q
      BY <2>1, ApplyDiagonal
    <2>3. \A d \in Pixels(p.w, p.h) : At(d) \in Pixels(p.w, p.h) /\ At(At(d)) = d
      BY <1>0, MirrorIsBijective DEF Pixels
    <2>4. \A d, e \in Pixels(p.w, p.h) : At(d) = At(e) => d = e
      BY <2>3
    <2>5. Proper(q)
      BY <1>0 DEF Proper
    <2> HIDE DEF At
    <2>6. Range(q.px) = Range(p.px)
      BY <1>0, <2>3 DEF Range
    <2>7. IsInjective(p.px) => IsInjective(q.px)
      BY <1>0, <2>3, <2>4 DEF IsInjective
    <2> QED BY <2>2, <2>5, <2>6, <2>7 DEF Moved
  <1>2. CASE t \in Antidiagonal
    <2>1. PICK a \in {-1, 1}, b \in {-1, 1} : t = Matrix(0, a, b, 0)
      BY <1>2 DEF Antidiagonal
    <2> DEFINE At(d) == <<Mirror(a, p.w, d[2]), Mirror(b, p.h, d[1])>>
               Back(c) == <<Mirror(b, p.h, c[2]), Mirror(a, p.w, c[1])>>
               q == [w |-> p.h, h |-> p.w,
                     px |-> [d \in Pixels(p.h, p.w) |-> p.px[At(d)]]]
    <2>2. Apply(t, p) = q
      BY <2>1, ApplyAntidiagonal
    <2>3. /\ \A d \in Pixels(p.h, p.w) : At(d) \in Pixels(p.w, p.h) /\ Back(At(d)) = d
          /\ \A c \in Pixels(p.w, p.h) : Back(c) \in Pixels(p.h, p.w) /\ At(Back(c)) = c
      BY <1>0, MirrorIsBijective DEF Pixels
    <2>4. \A d, e \in Pixels(p.h, p.w) : At(d) = At(e) => d = e
      BY <2>3
    <2>5. Proper(q)
      BY <1>0 DEF Proper
    <2> HIDE DEF At, Back
    <2>6. Range(q.px) = Range(p.px)
      BY <1>0, <2>3 DEF Range
    <2>7. IsInjective(p.px) => IsInjective(q.px)
      BY <1>0, <2>3, <2>4 DEF IsInjective
    <2> QED BY <2>2, <2>5, <2>6, <2>7 DEF Moved
  <1> QED BY <1>1, <1>2, UnitsAre

PixelsOK == /\ Proper(file) /\ Range(file.px) = Pixels(file.w, file.h)
            /\ IsInjective(file.px)
            /\ Moved(file, image)
            /\ orientation \in 1 .. 8

LEMMA StoredIsProper ==
  ASSUME NEW w \in Nat \ {0}, NEW h \in Nat \ {0}
  PROVE  /\ Proper(Stored(w, h)) /\ IsInjective(Stored(w, h).px)
         /\ Range(Stored(w, h).px) = Pixels(Stored(w, h).w, Stored(w, h).h)
  BY DEF Stored, Proper, IsInjective, Range

LEMMA PixelsInvariant == Spec => []PixelsOK
  <1>1. Init => PixelsOK
    <2> SUFFICES ASSUME Init PROVE PixelsOK
      OBVIOUS
    <2>1. PICK w \in Sizes, h \in Sizes : file = Stored(w, h)
      BY DEF Init
    <2>2. w \in Nat \ {0} /\ h \in Nat \ {0}
      BY SizesAssumption
    <2> QED BY <2>1, <2>2, StoredIsProper DEF Init, PixelsOK, Moved
  <1>2. PixelsOK /\ [Next]_vars => PixelsOK'
    <2> SUFFICES ASSUME PixelsOK, [Next]_vars PROVE PixelsOK'
      OBVIOUS
    <2>1. ASSUME NEW t \in Units, Step(t) PROVE PixelsOK'
      <3>1. Moved(image, image')
        BY <2>1, ApplyMoves DEF PixelsOK, Step, Moved
      <3>2. Moved(file, image')
        BY <3>1 DEF PixelsOK, Moved
      <3> QED BY <2>1, <3>2 DEF PixelsOK, Step
    <2>2. CASE Load
      <3>1. Moved(file, image')
        BY <2>2, AutorotateUnits, ApplyMoves DEF Load, PixelsOK
      <3> QED BY <2>2, <3>1 DEF Load, PixelsOK
    <2>3. \A type \in UserTypes : New(type) \in Units /\ Reversed(New(type)) \in Units
      BY ReverseUnits DEF UserTypes, Units, Types
    <2>4. CASE Transform
      BY <2>1, <2>3, <2>4 DEF Transform
    <2>5. CASE Undo
      BY <2>1, <2>3, <2>5 DEF Undo
    <2>6. CASE UNCHANGED vars
      BY <2>6 DEF vars, PixelsOK
    <2> QED BY <2>2, <2>4, <2>5, <2>6 DEF Next
  <1> QED BY <1>1, <1>2, PTL DEF Spec

(* Every pixel the user sees was written by the copying loop and is one of *)
(* the stored pixels, each exactly once, for images of every size and any  *)
(* series of transforms and undos.                                         *)
THEOREM PixelsKept == Spec => []NoPixelLost
  <1>1. PixelsOK => NoPixelLost
    BY DEF PixelsOK, Moved, Proper, NoPixelLost
  <1> QED BY <1>1, PixelsInvariant, PTL
-----------------------------------------------------------------------------
(* One transform after the other is their composition *)

LEMMA MirrorTwice ==
  ASSUME NEW a \in {-1, 1}, NEW c \in {-1, 1}, NEW n \in Nat \ {0}, NEW i \in 0 .. n - 1
  PROVE  Mirror(a, n, Mirror(c, n, i)) = Mirror(a * c, n, i)
  BY DEF Mirror

(* Two passes of the copying loop move the pixels as one pass with the     *)
(* composition does.                                                       *)
LEMMA ApplyCompose ==
  ASSUME NEW s \in Units, NEW t \in Units, NEW p, Proper(p)
  PROVE  Apply(t, Apply(s, p)) = Apply(Compose(s, t), p)
  <1>0. p.w \in Nat \ {0} /\ p.h \in Nat \ {0}
    BY DEF Proper
  <1>1. Proper(Apply(s, p))
    BY ApplyMoves DEF Moved
  <1>2. CASE s \in Diagonal
    <2>1. PICK a \in {-1, 1}, b \in {-1, 1} : s = Matrix(a, 0, 0, b)
      BY <1>2 DEF Diagonal
    <2> DEFINE q == Apply(s, p)
    <2>2. q = [w |-> p.w, h |-> p.h,
                   px |-> [d \in Pixels(p.w, p.h) |->
                             p.px[<<Mirror(a, p.w, d[1]), Mirror(b, p.h, d[2])>>]]]
      BY <2>1, ApplyDiagonal
    <2>3. q.w = p.w /\ q.h = p.h /\ Proper(q)
      BY <1>1, <2>2
    <2> HIDE DEF q
    <2>4. CASE t \in Diagonal
      <3>1. PICK c \in {-1, 1}, d \in {-1, 1} : t = Matrix(c, 0, 0, d)
        BY <2>4 DEF Diagonal
      <3>2. Compose(s, t) = Matrix(a * c, 0, 0, b * d)
        BY <2>1, <3>1, MatrixProducts DEF Compose
      <3>3. Apply(Compose(s, t), p) =
              [w |-> p.w, h |-> p.h,
               px |-> [e \in Pixels(p.w, p.h) |->
                         p.px[<<Mirror(a * c, p.w, e[1]), Mirror(b * d, p.h, e[2])>>]]]
        <4>1. a * c \in {-1, 1} /\ b * d \in {-1, 1}
          BY SignTimesSign
        <4> QED BY <3>2, <4>1, ApplyDiagonal
      <3>4. Apply(t, q) =
              [w |-> p.w, h |-> p.h,
               px |-> [e \in Pixels(p.w, p.h) |->
                         q.px[<<Mirror(c, p.w, e[1]), Mirror(d, p.h, e[2])>>]]]
        BY <2>3, <3>1, ApplyDiagonal
      <3>5. \A e \in Pixels(p.w, p.h) :
              q.px[<<Mirror(c, p.w, e[1]), Mirror(d, p.h, e[2])>>]
                = p.px[<<Mirror(a * c, p.w, e[1]), Mirror(b * d, p.h, e[2])>>]
        <4> SUFFICES ASSUME NEW i \in 0 .. p.w - 1, NEW j \in 0 .. p.h - 1
                     PROVE  q.px[<<Mirror(c, p.w, i), Mirror(d, p.h, j)>>]
                              = p.px[<<Mirror(a * c, p.w, i), Mirror(b * d, p.h, j)>>]
          BY DEF Pixels
        <4>1. Mirror(c, p.w, i) \in 0 .. p.w - 1 /\ Mirror(d, p.h, j) \in 0 .. p.h - 1
          BY <1>0, MirrorIsBijective
        <4>2. q.px[<<Mirror(c, p.w, i), Mirror(d, p.h, j)>>]
                = p.px[<<Mirror(a, p.w, Mirror(c, p.w, i)), Mirror(b, p.h, Mirror(d, p.h, j))>>]
          BY <2>2, <4>1 DEF Pixels
        <4> QED BY <1>0, <4>2, MirrorTwice
      <3> QED BY <3>3, <3>4, <3>5 DEF q
    <2>5. CASE t \in Antidiagonal
      <3>1. PICK c \in {-1, 1}, d \in {-1, 1} : t = Matrix(0, c, d, 0)
        BY <2>5 DEF Antidiagonal
      <3>2. Compose(s, t) = Matrix(0, a * c, b * d, 0)
        BY <2>1, <3>1, MatrixProducts DEF Compose
      <3>3. Apply(Compose(s, t), p) =
              [w |-> p.h, h |-> p.w,
               px |-> [e \in Pixels(p.h, p.w) |->
                         p.px[<<Mirror(a * c, p.w, e[2]), Mirror(b * d, p.h, e[1])>>]]]
        <4>1. a * c \in {-1, 1} /\ b * d \in {-1, 1}
          BY SignTimesSign
        <4> QED BY <3>2, <4>1, ApplyAntidiagonal
      <3>4. Apply(t, q) =
              [w |-> p.h, h |-> p.w,
               px |-> [e \in Pixels(p.h, p.w) |->
                         q.px[<<Mirror(c, p.w, e[2]), Mirror(d, p.h, e[1])>>]]]
        BY <2>3, <3>1, ApplyAntidiagonal
      <3>5. \A e \in Pixels(p.h, p.w) :
              q.px[<<Mirror(c, p.w, e[2]), Mirror(d, p.h, e[1])>>]
                = p.px[<<Mirror(a * c, p.w, e[2]), Mirror(b * d, p.h, e[1])>>]
        <4> SUFFICES ASSUME NEW i \in 0 .. p.w - 1, NEW j \in 0 .. p.h - 1
                     PROVE  q.px[<<Mirror(c, p.w, i), Mirror(d, p.h, j)>>]
                              = p.px[<<Mirror(a * c, p.w, i), Mirror(b * d, p.h, j)>>]
          BY DEF Pixels
        <4>1. Mirror(c, p.w, i) \in 0 .. p.w - 1 /\ Mirror(d, p.h, j) \in 0 .. p.h - 1
          BY <1>0, MirrorIsBijective
        <4>2. q.px[<<Mirror(c, p.w, i), Mirror(d, p.h, j)>>]
                = p.px[<<Mirror(a, p.w, Mirror(c, p.w, i)), Mirror(b, p.h, Mirror(d, p.h, j))>>]
          BY <2>2, <4>1 DEF Pixels
        <4> QED BY <1>0, <4>2, MirrorTwice
      <3> QED BY <3>3, <3>4, <3>5 DEF q
    <2> QED BY <2>4, <2>5, UnitsAre
  <1>3. CASE s \in Antidiagonal
    <2>1. PICK a \in {-1, 1}, b \in {-1, 1} : s = Matrix(0, a, b, 0)
      BY <1>3 DEF Antidiagonal
    <2> DEFINE q == Apply(s, p)
    <2>2. q = [w |-> p.h, h |-> p.w,
                   px |-> [d \in Pixels(p.h, p.w) |->
                             p.px[<<Mirror(a, p.w, d[2]), Mirror(b, p.h, d[1])>>]]]
      BY <2>1, ApplyAntidiagonal
    <2>3. q.w = p.h /\ q.h = p.w /\ Proper(q)
      BY <1>1, <2>2
    <2> HIDE DEF q
    <2>4. CASE t \in Diagonal
      <3>1. PICK c \in {-1, 1}, d \in {-1, 1} : t = Matrix(c, 0, 0, d)
        BY <2>4 DEF Diagonal
      <3>2. Compose(s, t) = Matrix(0, a * d, b * c, 0)
        BY <2>1, <3>1, MatrixProducts DEF Compose
      <3>3. Apply(Compose(s, t), p) =
              [w |-> p.h, h |-> p.w,
               px |-> [e \in Pixels(p.h, p.w) |->
                         p.px[<<Mirror(a * d, p.w, e[2]), Mirror(b * c, p.h, e[1])>>]]]
        <4>1. a * d \in {-1, 1} /\ b * c \in {-1, 1}
          BY SignTimesSign
        <4> QED BY <3>2, <4>1, ApplyAntidiagonal
      <3>4. Apply(t, q) =
              [w |-> p.h, h |-> p.w,
               px |-> [e \in Pixels(p.h, p.w) |->
                         q.px[<<Mirror(c, p.h, e[1]), Mirror(d, p.w, e[2])>>]]]
        BY <2>3, <3>1, ApplyDiagonal
      <3>5. \A e \in Pixels(p.h, p.w) :
              q.px[<<Mirror(c, p.h, e[1]), Mirror(d, p.w, e[2])>>]
                = p.px[<<Mirror(a * d, p.w, e[2]), Mirror(b * c, p.h, e[1])>>]
        <4> SUFFICES ASSUME NEW i \in 0 .. p.w - 1, NEW j \in 0 .. p.h - 1
                     PROVE  q.px[<<Mirror(c, p.h, j), Mirror(d, p.w, i)>>]
                              = p.px[<<Mirror(a * d, p.w, i), Mirror(b * c, p.h, j)>>]
          BY DEF Pixels
        <4>1. Mirror(c, p.h, j) \in 0 .. p.h - 1 /\ Mirror(d, p.w, i) \in 0 .. p.w - 1
          BY <1>0, MirrorIsBijective
        <4>2. q.px[<<Mirror(c, p.h, j), Mirror(d, p.w, i)>>]
                = p.px[<<Mirror(a, p.w, Mirror(d, p.w, i)), Mirror(b, p.h, Mirror(c, p.h, j))>>]
          BY <2>2, <4>1 DEF Pixels
        <4> QED BY <1>0, <4>2, MirrorTwice
      <3> QED BY <3>3, <3>4, <3>5 DEF q
    <2>5. CASE t \in Antidiagonal
      <3>1. PICK c \in {-1, 1}, d \in {-1, 1} : t = Matrix(0, c, d, 0)
        BY <2>5 DEF Antidiagonal
      <3>2. Compose(s, t) = Matrix(a * d, 0, 0, b * c)
        BY <2>1, <3>1, MatrixProducts DEF Compose
      <3>3. Apply(Compose(s, t), p) =
              [w |-> p.w, h |-> p.h,
               px |-> [e \in Pixels(p.w, p.h) |->
                         p.px[<<Mirror(a * d, p.w, e[1]), Mirror(b * c, p.h, e[2])>>]]]
        <4>1. a * d \in {-1, 1} /\ b * c \in {-1, 1}
          BY SignTimesSign
        <4> QED BY <3>2, <4>1, ApplyDiagonal
      <3>4. Apply(t, q) =
              [w |-> p.w, h |-> p.h,
               px |-> [e \in Pixels(p.w, p.h) |->
                         q.px[<<Mirror(c, p.h, e[2]), Mirror(d, p.w, e[1])>>]]]
        BY <2>3, <3>1, ApplyAntidiagonal
      <3>5. \A e \in Pixels(p.w, p.h) :
              q.px[<<Mirror(c, p.h, e[2]), Mirror(d, p.w, e[1])>>]
                = p.px[<<Mirror(a * d, p.w, e[1]), Mirror(b * c, p.h, e[2])>>]
        <4> SUFFICES ASSUME NEW i \in 0 .. p.w - 1, NEW j \in 0 .. p.h - 1
                     PROVE  q.px[<<Mirror(c, p.h, j), Mirror(d, p.w, i)>>]
                              = p.px[<<Mirror(a * d, p.w, i), Mirror(b * c, p.h, j)>>]
          BY DEF Pixels
        <4>1. Mirror(c, p.h, j) \in 0 .. p.h - 1 /\ Mirror(d, p.w, i) \in 0 .. p.w - 1
          BY <1>0, MirrorIsBijective
        <4>2. q.px[<<Mirror(c, p.h, j), Mirror(d, p.w, i)>>]
                = p.px[<<Mirror(a, p.w, Mirror(d, p.w, i)), Mirror(b, p.h, Mirror(c, p.h, j))>>]
          BY <2>2, <4>1 DEF Pixels
        <4> QED BY <1>0, <4>2, MirrorTwice
      <3> QED BY <3>3, <3>4, <3>5 DEF q
    <2> QED BY <2>4, <2>5, UnitsAre
  <1> QED BY <1>2, <1>3, UnitsAre
-----------------------------------------------------------------------------
(* What is on the screen, in terms of the stored pixels *)

Turn == New(AutorotateType(orientation))
Shown == Compose(Turn, trans)

StepsInv ==
  /\ \E w, h \in Nat \ {0} : file = Stored(w, h)
  /\ orientation \in 1 .. 8
  /\ trans \in Units
  /\ IF loaded THEN image = Apply(Shown, file) ELSE trans = Identity

LEMMA StepsInvariant == Spec => []StepsInv
  <1>1. Init => StepsInv
    <2> SUFFICES ASSUME Init PROVE StepsInv
      OBVIOUS
    <2>1. \E w, h \in Nat \ {0} : file = Stored(w, h)
      BY SizesAssumption DEF Init
    <2> QED BY <2>1, IdentityIsUnit DEF Init, StepsInv
  <1>2. StepsInv /\ [Next]_vars => StepsInv'
    <2> SUFFICES ASSUME StepsInv, [Next]_vars PROVE StepsInv'
      OBVIOUS
    <2>1. Turn \in Units /\ trans \in Units /\ Proper(file)
      BY AutorotateUnits, StoredIsProper DEF StepsInv, Turn
    <2>2. CASE Load
      <3>1. Shown' = Turn
        BY <2>1, <2>2, ComposeIdentity DEF Load, StepsInv, Shown, Turn
      <3> QED BY <2>2, <3>1 DEF Load, StepsInv, Turn
    <2>3. ASSUME NEW t \in Units, Step(t) PROVE StepsInv'
      <3>1. Shown \in Units /\ trans' \in Units
        BY <2>1, <2>3, ComposeUnits DEF Shown, Step
      <3>2. image' = Apply(Compose(Shown, t), file)
        BY <2>1, <2>3, <3>1, ApplyCompose DEF Step, StepsInv
      <3>3. Shown' = Compose(Shown, t)
        BY <2>1, <2>3, ComposeAssociative DEF Step, Shown, Turn
      <3> QED BY <2>3, <3>1, <3>2, <3>3 DEF Step, StepsInv
    <2>4. \A type \in UserTypes : New(type) \in Units /\ Reversed(New(type)) \in Units
      BY ReverseUnits DEF UserTypes, Units, Types
    <2>5. CASE Transform
      BY <2>3, <2>4, <2>5 DEF Transform
    <2>6. CASE Undo
      BY <2>3, <2>4, <2>6 DEF Undo
    <2>7. CASE UNCHANGED vars
      BY <2>7 DEF vars, StepsInv, Shown, Turn
    <2> QED BY <2>2, <2>5, <2>6, <2>7 DEF Next
  <1> QED BY <1>1, <1>2, PTL DEF Spec

(* The copying loop applied to a fresh pixbuf in one go gives what it gave *)
(* step by step, in every series of transforms and undos, for images of    *)
(* every size.                                                             *)
THEOREM ComposedSequential == Spec => []ComposedIsSequential
  <1>1. StepsInv => ComposedIsSequential
    <2> SUFFICES ASSUME StepsInv, loaded PROVE image = Apply(trans, Apply(Turn, file))
      BY DEF ComposedIsSequential, Upright, Turn
    <2>1. Turn \in Units /\ trans \in Units /\ Proper(file)
      BY AutorotateUnits, StoredIsProper DEF StepsInv, Turn
    <2> QED BY <2>1, ApplyCompose DEF StepsInv, Shown
  <1> QED BY <1>1, StepsInvariant, PTL

(* Which stored pixel is where on the screen *)
LEMMA ShownPixels ==
  ASSUME StepsInv, loaded
  PROVE  \E w, h \in Nat \ {0}, type \in Types :
           /\ file = Stored(w, h) /\ New(type) = Shown
           /\ \A a, b \in {-1, 1} :
                /\ Shown = Matrix(a, 0, 0, b) =>
                     /\ image.w = w /\ image.h = h
                     /\ \A d \in Pixels(w, h) :
                          image.px[d] = <<Mirror(a, w, d[1]), Mirror(b, h, d[2])>>
                /\ Shown = Matrix(0, a, b, 0) =>
                     /\ image.w = h /\ image.h = w
                     /\ \A d \in Pixels(h, w) :
                          image.px[d] = <<Mirror(a, w, d[2]), Mirror(b, h, d[1])>>
  <1>1. PICK w \in Nat \ {0}, h \in Nat \ {0} : file = Stored(w, h)
    BY DEF StepsInv
  <1>2. Proper(file) /\ file.w = w /\ file.h = h
    BY <1>1, StoredIsProper DEF Stored
  <1>3. Shown \in Units /\ image = Apply(Shown, file)
    BY AutorotateUnits, ComposeUnits DEF StepsInv, Shown, Turn
  <1>4. PICK type \in Types : New(type) = Shown
    BY <1>3 DEF Units
  <1>5. \A d \in Pixels(w, h) : file.px[d] = d
    BY <1>1 DEF Stored
  <1>6. ASSUME NEW a \in {-1, 1}, NEW b \in {-1, 1}, Shown = Matrix(a, 0, 0, b)
        PROVE  /\ image.w = w /\ image.h = h
               /\ \A d \in Pixels(w, h) :
                    image.px[d] = <<Mirror(a, w, d[1]), Mirror(b, h, d[2])>>
    <2>1. image = [w |-> w, h |-> h,
                   px |-> [d \in Pixels(w, h) |->
                             file.px[<<Mirror(a, w, d[1]), Mirror(b, h, d[2])>>]]]
      BY <1>2, <1>3, <1>6, ApplyDiagonal
    <2>2. \A d \in Pixels(w, h) : <<Mirror(a, w, d[1]), Mirror(b, h, d[2])>> \in Pixels(w, h)
      BY MirrorIsBijective DEF Pixels
    <2> QED BY <1>5, <2>1, <2>2
  <1>7. ASSUME NEW a \in {-1, 1}, NEW b \in {-1, 1}, Shown = Matrix(0, a, b, 0)
        PROVE  /\ image.w = h /\ image.h = w
               /\ \A d \in Pixels(h, w) :
                    image.px[d] = <<Mirror(a, w, d[2]), Mirror(b, h, d[1])>>
    <2>1. image = [w |-> h, h |-> w,
                   px |-> [d \in Pixels(h, w) |->
                             file.px[<<Mirror(a, w, d[2]), Mirror(b, h, d[1])>>]]]
      BY <1>2, <1>3, <1>7, ApplyAntidiagonal
    <2>2. \A d \in Pixels(h, w) : <<Mirror(a, w, d[2]), Mirror(b, h, d[1])>> \in Pixels(w, h)
      BY MirrorIsBijective DEF Pixels
    <2> QED BY <1>5, <2>1, <2>2
  <1> QED BY <1>1, <1>4, <1>6, <1>7

Swapping == {"ROT_90", "ROT_270", "TRANSPOSE", "TRANSVERSE"}

(* The screen as libjpeg would make it: the type of the composition says   *)
(* where each pixel comes from.                                            *)
ShownAs(type) ==
  /\ New(type) = Shown
  /\ image.w = (IF type \in Swapping THEN file.h ELSE file.w)
  /\ image.h = (IF type \in Swapping THEN file.w ELSE file.h)
  /\ \A d \in Pixels(image.w, image.h) :
       image.px[d] = JxformSource(type, file, d[1], d[2])

LEMMA ShownHasType ==
  ASSUME StepsInv, loaded
  PROVE  /\ \E w, h \in Nat \ {0} : file = Stored(w, h)
         /\ \E type \in Types : ShownAs(type)
  <1>1. PICK w \in Nat \ {0}, h \in Nat \ {0}, type \in Types :
           /\ file = Stored(w, h) /\ New(type) = Shown
           /\ \A a, b \in {-1, 1} :
                /\ Shown = Matrix(a, 0, 0, b) =>
                     /\ image.w = w /\ image.h = h
                     /\ \A d \in Pixels(w, h) :
                          image.px[d] = <<Mirror(a, w, d[1]), Mirror(b, h, d[2])>>
                /\ Shown = Matrix(0, a, b, 0) =>
                     /\ image.w = h /\ image.h = w
                     /\ \A d \in Pixels(h, w) :
                          image.px[d] = <<Mirror(a, w, d[2]), Mirror(b, h, d[1])>>
    BY ShownPixels
  <1>2. file.w = w /\ file.h = h
    BY <1>1 DEF Stored
  <1>3. ASSUME NEW a \in {-1, 1}, NEW b \in {-1, 1}, Shown = Matrix(a, 0, 0, b),
               type \notin Swapping,
               \A x, y \in Int : JxformSource(type, file, x, y) = <<Mirror(a, w, x), Mirror(b, h, y)>>
        PROVE  ShownAs(type)
    <2>1. /\ image.w = w /\ image.h = h
          /\ \A d \in Pixels(w, h) : image.px[d] = <<Mirror(a, w, d[1]), Mirror(b, h, d[2])>>
      BY <1>1, <1>3
    <2>2. \A d \in Pixels(w, h) :
            JxformSource(type, file, d[1], d[2]) = <<Mirror(a, w, d[1]), Mirror(b, h, d[2])>>
      BY <1>3 DEF Pixels
    <2> QED BY <1>1, <1>2, <1>3, <2>1, <2>2 DEF ShownAs
  <1>4. ASSUME NEW a \in {-1, 1}, NEW b \in {-1, 1}, Shown = Matrix(0, a, b, 0),
               type \in Swapping,
               \A x, y \in Int : JxformSource(type, file, x, y) = <<Mirror(a, w, y), Mirror(b, h, x)>>
        PROVE  ShownAs(type)
    <2>1. /\ image.w = h /\ image.h = w
          /\ \A d \in Pixels(h, w) : image.px[d] = <<Mirror(a, w, d[2]), Mirror(b, h, d[1])>>
      BY <1>1, <1>4
    <2>2. \A d \in Pixels(h, w) :
            JxformSource(type, file, d[1], d[2]) = <<Mirror(a, w, d[2]), Mirror(b, h, d[1])>>
      BY <1>4 DEF Pixels
    <2> QED BY <1>1, <1>2, <1>4, <2>1, <2>2 DEF ShownAs
  <1> USE DEF JxformSource, Mirror, Swapping
  <1>5. CASE type = "NONE"
    BY <1>1, <1>2, <1>3, <1>5, NewMatrices
  <1>6. CASE type = "FLIP_HORIZONTAL"
    BY <1>1, <1>2, <1>3, <1>6, NewMatrices
  <1>7. CASE type = "FLIP_VERTICAL"
    BY <1>1, <1>2, <1>3, <1>7, NewMatrices
  <1>8. CASE type = "ROT_180"
    BY <1>1, <1>2, <1>3, <1>8, NewMatrices
  <1>9. CASE type = "TRANSPOSE"
    BY <1>1, <1>2, <1>4, <1>9, NewMatrices
  <1>10. CASE type = "TRANSVERSE"
    BY <1>1, <1>2, <1>4, <1>10, NewMatrices
  <1>11. CASE type = "ROT_90"
    BY <1>1, <1>2, <1>4, <1>11, NewMatrices
  <1>12. CASE type = "ROT_270"
    BY <1>1, <1>2, <1>4, <1>12, NewMatrices
  <1> QED BY <1>1, <1>5, <1>6, <1>7, <1>8, <1>9, <1>10, <1>11, <1>12 DEF Types

LEMMA TypeOfShown ==
  ASSUME NEW type \in Types, ShownAs(type)
  PROVE  TransformType(Shown) = type
  BY TypeOfUnit DEF ShownAs

(* libjpeg's transform of the file, by the code that init_transform_info   *)
(* finds for the composition, is what is on the screen, for images of      *)
(* every size whose file has no orientation.                               *)
THEOREM LosslessAgrees == Spec => []LosslessSaveAgrees
  <1>1. StepsInv => LosslessSaveAgrees
    <2> SUFFICES ASSUME StepsInv, loaded, orientation = 1,
                        NEW d \in Pixels(image.w, image.h)
                 PROVE  image.px[d] =
                          file.px[JxformSource(Jxform(TransformType(trans)), file, d[1], d[2])]
      BY DEF LosslessSaveAgrees
    <2>1. PICK w \in Nat \ {0}, h \in Nat \ {0} : file = Stored(w, h)
      BY ShownHasType
    <2>2. PICK type \in Types : ShownAs(type)
      BY ShownHasType
    <2>3. Shown = trans
      <3>1. Turn = Identity
        BY NewMatrices DEF Turn, AutorotateType, Identity
      <3> QED BY <3>1, ComposeIdentity DEF StepsInv, Shown
    <2>4. Jxform(TransformType(trans)) = type
      BY <2>2, <2>3, TypeOfShown DEF Jxform
    <2> DEFINE c == JxformSource(type, file, d[1], d[2])
    <2>5. image.px[d] = c
      BY <2>2 DEF ShownAs
    <2>6. c \in Pixels(w, h)
      <3>1. file.w = w /\ file.h = h
        BY <2>1 DEF Stored
      <3>2. image.w = (IF type \in Swapping THEN h ELSE w)
            /\ image.h = (IF type \in Swapping THEN w ELSE h)
        BY <2>2, <3>1 DEF ShownAs
      <3>3. d[1] \in 0 .. image.w - 1 /\ d[2] \in 0 .. image.h - 1
        BY DEF Pixels
      <3> QED BY <3>1, <3>2, <3>3 DEF Types, Swapping, Pixels, JxformSource
    <2>7. file.px[c] = c
      <3> HIDE DEF c
      <3> QED BY <2>1, <2>6 DEF Stored
    <2> QED BY <2>4, <2>5, <2>7
  <1> QED BY <1>1, StepsInvariant, PTL

(* The printer's table moves every pixel of the file, of every size, to    *)
(* where it is on the screen.                                              *)
THEOREM PrintedShown == Spec => []PrintedIsShown
  <1>1. StepsInv => PrintedIsShown
    <2> SUFFICES ASSUME StepsInv, loaded,
                        NEW d \in Pixels(image.w, image.h)
                 PROVE  Painted(TransformType(Shown), image.w, image.h, image.px[d])
                          = <<2 * d[1] + 1, 2 * d[2] + 1>>
      BY DEF PrintedIsShown, Shown, Turn
    <2>1. PICK w \in Nat \ {0}, h \in Nat \ {0} : file = Stored(w, h)
      BY ShownHasType
    <2>2. PICK type \in Types : ShownAs(type)
      BY ShownHasType
    <2>3. TransformType(Shown) = type
      BY <2>2, TypeOfShown
    <2>4. file.w = w /\ file.h = h
      BY <2>1 DEF Stored
    <2>5. /\ image.w = (IF type \in Swapping THEN h ELSE w)
          /\ image.h = (IF type \in Swapping THEN w ELSE h)
      BY <2>2, <2>4 DEF ShownAs
    <2>6. image.px[d] = JxformSource(type, file, d[1], d[2])
      BY <2>2 DEF ShownAs
    <2>7. d[1] \in Int /\ d[2] \in Int
      BY <2>5 DEF Pixels
    <2> DEFINE x == d[1]
    <2> DEFINE y == d[2]
    <2> SUFFICES Painted(type, image.w, image.h, JxformSource(type, file, x, y))
                   = <<2 * x + 1, 2 * y + 1>>
      BY <2>3, <2>6
    <2>8. x \in Int /\ y \in Int
      BY <2>7
    <2> HIDE DEF x, y
    <2> QED
      <3> USE <2>4, <2>5, <2>8 DEF Swapping, JxformSource, Painted, PaintOffset
      <3>1. CASE type = "NONE"
        <4>1. PaintMatrix(type) = Matrix(1, 0, 0, 1)
          BY <3>1 DEF PaintMatrix, Identity
        <4> QED BY <3>1, <4>1 DEF Point, Matrix
      <3>2. CASE type = "FLIP_HORIZONTAL"
        <4>1. PaintMatrix(type) = Matrix(-1, 0, 0, 1)
          BY <3>2 DEF PaintMatrix, FlipNew, Flip, Identity, Matrix
        <4> QED BY <3>2, <4>1 DEF Point, Matrix
      <3>3. CASE type = "FLIP_VERTICAL"
        <4>1. PaintMatrix(type) = Matrix(1, 0, 0, -1)
          BY <3>3 DEF PaintMatrix, FlipNew, Flip, Identity, Matrix
        <4> QED BY <3>3, <4>1 DEF Point, Matrix
      <3>4. CASE type = "ROT_180"
        <4>1. PaintMatrix(type) = Matrix(-1, 0, 0, -1)
          BY <3>4 DEF PaintMatrix, Rotate
        <4> QED BY <3>4, <4>1 DEF Point, Matrix
      <3>5. CASE type = "TRANSPOSE"
        <4>1. PaintMatrix(type) = Matrix(0, 1, 1, 0)
          BY <3>5 DEF PaintMatrix, Rotate, Multiply, Flip, Identity, Matrix
        <4> QED BY <3>5, <4>1 DEF Point, Matrix
      <3>6. CASE type = "TRANSVERSE"
        <4>1. PaintMatrix(type) = Matrix(0, -1, -1, 0)
          BY <3>6 DEF PaintMatrix, Rotate, Multiply, Flip, Identity, Matrix
        <4> QED BY <3>6, <4>1 DEF Point, Matrix
      <3>7. CASE type = "ROT_90"
        <4>1. PaintMatrix(type) = Matrix(0, 1, -1, 0)
          BY <3>7 DEF PaintMatrix, Rotate
        <4> QED BY <3>7, <4>1 DEF Point, Matrix
      <3>8. CASE type = "ROT_270"
        <4>1. PaintMatrix(type) = Matrix(0, -1, 1, 0)
          BY <3>8 DEF PaintMatrix, Rotate
        <4> QED BY <3>8, <4>1 DEF Point, Matrix
      <3> QED BY <3>1, <3>2, <3>3, <3>4, <3>5, <3>6, <3>7, <3>8 DEF Types
  <1> QED BY <1>1, StepsInvariant, PTL

(* Where a stored pixel is on the screen: the quarter turns undo each      *)
(* other, every other type undoes itself.                                  *)
Back(type) == IF type = "ROT_90" THEN "ROT_270"
              ELSE IF type = "ROT_270" THEN "ROT_90" ELSE type

LEMMA SourceOfBack ==
  ASSUME NEW w \in Nat, NEW h \in Nat, file.w = w, file.h = h,
         NEW type \in Types, ShownAs(type),
         NEW x \in Int, NEW y \in Int, NEW d, d = JxformSource(Back(type), image, x, y)
  PROVE  JxformSource(type, file, d[1], d[2]) = <<x, y>>
  <1>1. /\ image.w = (IF type \in Swapping THEN h ELSE w)
        /\ image.h = (IF type \in Swapping THEN w ELSE h)
    BY DEF ShownAs
  <1>2. CASE type \in {"NONE", "FLIP_HORIZONTAL", "FLIP_VERTICAL", "ROT_180"}
    BY <1>1, <1>2 DEF Back, Swapping, JxformSource
  <1>3. CASE type \in Swapping
    BY <1>1, <1>3 DEF Back, Swapping, JxformSource
  <1> QED BY <1>2, <1>3 DEF Types, Swapping

(* A side of the screen shows a side of the file if the one goes into the  *)
(* other both ways.                                                        *)
LEMMA SideIsSide ==
  ASSUME NEW w \in Nat, NEW h \in Nat, file.w = w, file.h = h,
         NEW type \in Types, ShownAs(type),
         NEW S \in SUBSET Pixels(image.w, image.h), NEW T \in SUBSET Pixels(w, h),
         \A d \in S : JxformSource(type, file, d[1], d[2]) \in T,
         \A p \in T : JxformSource(Back(type), image, p[1], p[2]) \in S
  PROVE  {image.px[d] : d \in S} = T
  <1>1. \A d \in S : image.px[d] \in T
    BY DEF ShownAs
  <1>2. ASSUME NEW p \in T
        PROVE  \E d \in S : image.px[d] = p
    <2> DEFINE d == JxformSource(Back(type), image, p[1], p[2])
    <2>1. d \in S /\ d \in Pixels(image.w, image.h)
      OBVIOUS
    <2>2. p \in Pixels(w, h)
      OBVIOUS
    <2>3. p[1] \in Int /\ p[2] \in Int /\ p = <<p[1], p[2]>>
      BY <2>2 DEF Pixels
    <2>4. JxformSource(type, file, d[1], d[2]) = p
      BY <2>3, SourceOfBack
    <2> HIDE DEF d
    <2>5. image.px[d] = p
      BY <2>1, <2>4 DEF ShownAs
    <2> QED BY <2>1, <2>5
  <1> QED BY <1>1, <1>2

(* The two sides that an orientation names, as pixels of the screen        *)
LEMMA SidesAre ==
  ASSUME NEW o \in 1 .. 8, NEW p
  PROVE  /\ Side(p, ExifSides(o)[1]) =
              {d \in Pixels(p.w, p.h) : IF o \in {1, 2} THEN d[2] = 0
                                        ELSE IF o \in {3, 4} THEN d[2] = p.h - 1
                                        ELSE IF o \in {5, 8} THEN d[1] = 0
                                        ELSE d[1] = p.w - 1}
         /\ Side(p, ExifSides(o)[2]) =
              {d \in Pixels(p.w, p.h) : IF o \in {1, 4} THEN d[1] = 0
                                        ELSE IF o \in {2, 3} THEN d[1] = p.w - 1
                                        ELSE IF o \in {5, 6} THEN d[2] = 0
                                        ELSE d[2] = p.h - 1}
  <1>1. /\ ExifSides(o)[1] = (IF o \in {1, 2} THEN "top" ELSE IF o \in {3, 4} THEN "bottom"
                              ELSE IF o \in {5, 8} THEN "left" ELSE "right")
        /\ ExifSides(o)[2] = (IF o \in {1, 4} THEN "left" ELSE IF o \in {2, 3} THEN "right"
                              ELSE IF o \in {5, 6} THEN "top" ELSE "bottom")
    BY DEF ExifSides
  <1> QED BY <1>1 DEF Side

(* For images of every size, autorotation puts the stored rows and columns *)
(* where each of the eight orientations of EXIF says that they are.        *)
THEOREM UprightShown == Spec => []ShownUpright
  <1>1. StepsInv => ShownUpright
    <2> SUFFICES ASSUME StepsInv, loaded, IsIdentity(trans)
                 PROVE  ShownUpright
      BY DEF ShownUpright
    <2>1. PICK w \in Nat \ {0}, h \in Nat \ {0} : file = Stored(w, h)
      BY ShownHasType
    <2>2. PICK type \in Types : ShownAs(type)
      BY ShownHasType
    <2>3. file.w = w /\ file.h = h /\ w \in Nat /\ h \in Nat /\ w > 0 /\ h > 0
      BY <2>1 DEF Stored
    <2>4. orientation \in 1 .. 8
      BY DEF StepsInv
    <2>5. type = AutorotateType(orientation)
      <3>1. Shown = Turn
        BY AutorotateUnits, ComposeIdentity DEF StepsInv, Shown, Turn, IsIdentity
      <3>2. AutorotateType(orientation) \in Types
        BY <2>4 DEF AutorotateType, Types
      <3> QED BY <2>2, <3>1, <3>2, TypeOfUnit, TypeOfShown DEF Turn
    <2>6. /\ image.w = (IF type \in Swapping THEN h ELSE w)
          /\ image.h = (IF type \in Swapping THEN w ELSE h)
      BY <2>2, <2>3 DEF ShownAs
    <2> DEFINE S(i) == Side(image, ExifSides(orientation)[i])
    <2> DEFINE T(k) == {p \in Pixels(w, h) : p[k] = 0}
    <2>7. ASSUME NEW i \in {1, 2}, NEW k \in {1, 2},
                 \A d \in S(i) : JxformSource(type, file, d[1], d[2]) \in T(k),
                 \A p \in T(k) : JxformSource(Back(type), image, p[1], p[2]) \in S(i)
          PROVE  {image.px[d] : d \in S(i)} = T(k)
      <3>1. S(i) \subseteq Pixels(image.w, image.h) /\ T(k) \subseteq Pixels(w, h)
        BY <2>4, SidesAre
      <3> HIDE DEF S, T
      <3> QED BY <2>2, <2>3, <2>7, <3>1, SideIsSide
    <2>8. ASSUME NEW x \in Int, NEW y \in Int,
                 x \in 0 .. image.w - 1, y \in 0 .. image.h - 1
          PROVE  LET s == JxformSource(type, file, x, y)
                 IN /\ s[1] \in 0 .. w - 1 /\ s[2] \in 0 .. h - 1
                    /\ s = <<s[1], s[2]>>
                    /\ (IF orientation \in {1, 2} THEN y = 0
                        ELSE IF orientation \in {3, 4} THEN y = image.h - 1
                        ELSE IF orientation \in {5, 8} THEN x = 0
                        ELSE x = image.w - 1) => s[2] = 0
                    /\ (IF orientation \in {1, 4} THEN x = 0
                        ELSE IF orientation \in {2, 3} THEN x = image.w - 1
                        ELSE IF orientation \in {5, 6} THEN y = 0
                        ELSE y = image.h - 1) => s[1] = 0
      <3>1. CASE orientation = 1
        <4>1. type = "NONE"
          BY <2>5, <3>1 DEF AutorotateType
        <4> QED BY <2>3, <2>6, <2>8, <3>1, <4>1 DEF JxformSource, Swapping
      <3>2. CASE orientation = 2
        <4>1. type = "FLIP_HORIZONTAL"
          BY <2>5, <3>2 DEF AutorotateType
        <4> QED BY <2>3, <2>6, <2>8, <3>2, <4>1 DEF JxformSource, Swapping
      <3>3. CASE orientation = 3
        <4>1. type = "ROT_180"
          BY <2>5, <3>3 DEF AutorotateType
        <4> QED BY <2>3, <2>6, <2>8, <3>3, <4>1 DEF JxformSource, Swapping
      <3>4. CASE orientation = 4
        <4>1. type = "FLIP_VERTICAL"
          BY <2>5, <3>4 DEF AutorotateType
        <4> QED BY <2>3, <2>6, <2>8, <3>4, <4>1 DEF JxformSource, Swapping
      <3>5. CASE orientation = 5
        <4>1. type = "TRANSPOSE"
          BY <2>5, <3>5 DEF AutorotateType
        <4> QED BY <2>3, <2>6, <2>8, <3>5, <4>1 DEF JxformSource, Swapping
      <3>6. CASE orientation = 6
        <4>1. type = "ROT_90"
          BY <2>5, <3>6 DEF AutorotateType
        <4> QED BY <2>3, <2>6, <2>8, <3>6, <4>1 DEF JxformSource, Swapping
      <3>7. CASE orientation = 7
        <4>1. type = "TRANSVERSE"
          BY <2>5, <3>7 DEF AutorotateType
        <4> QED BY <2>3, <2>6, <2>8, <3>7, <4>1 DEF JxformSource, Swapping
      <3>8. CASE orientation = 8
        <4>1. type = "ROT_270"
          BY <2>5, <3>8 DEF AutorotateType
        <4> QED BY <2>3, <2>6, <2>8, <3>8, <4>1 DEF JxformSource, Swapping
      <3> QED BY <2>4, <3>1, <3>2, <3>3, <3>4, <3>5, <3>6, <3>7, <3>8
    <2>9. ASSUME NEW x \in Int, NEW y \in Int,
                 x \in 0 .. w - 1, y \in 0 .. h - 1
          PROVE  LET s == JxformSource(Back(type), image, x, y)
                 IN /\ s[1] \in 0 .. image.w - 1 /\ s[2] \in 0 .. image.h - 1
                    /\ s = <<s[1], s[2]>>
                    /\ y = 0 => (IF orientation \in {1, 2} THEN s[2] = 0
                        ELSE IF orientation \in {3, 4} THEN s[2] = image.h - 1
                        ELSE IF orientation \in {5, 8} THEN s[1] = 0
                        ELSE s[1] = image.w - 1)
                    /\ x = 0 => (IF orientation \in {1, 4} THEN s[1] = 0
                        ELSE IF orientation \in {2, 3} THEN s[1] = image.w - 1
                        ELSE IF orientation \in {5, 6} THEN s[2] = 0
                        ELSE s[2] = image.h - 1)
      <3>1. CASE orientation = 1
        <4>1. type = "NONE" /\ Back(type) = "NONE"
          BY <2>5, <3>1 DEF AutorotateType, Back
        <4> QED BY <2>3, <2>6, <2>9, <3>1, <4>1 DEF JxformSource, Swapping
      <3>2. CASE orientation = 2
        <4>1. type = "FLIP_HORIZONTAL" /\ Back(type) = "FLIP_HORIZONTAL"
          BY <2>5, <3>2 DEF AutorotateType, Back
        <4> QED BY <2>3, <2>6, <2>9, <3>2, <4>1 DEF JxformSource, Swapping
      <3>3. CASE orientation = 3
        <4>1. type = "ROT_180" /\ Back(type) = "ROT_180"
          BY <2>5, <3>3 DEF AutorotateType, Back
        <4> QED BY <2>3, <2>6, <2>9, <3>3, <4>1 DEF JxformSource, Swapping
      <3>4. CASE orientation = 4
        <4>1. type = "FLIP_VERTICAL" /\ Back(type) = "FLIP_VERTICAL"
          BY <2>5, <3>4 DEF AutorotateType, Back
        <4> QED BY <2>3, <2>6, <2>9, <3>4, <4>1 DEF JxformSource, Swapping
      <3>5. CASE orientation = 5
        <4>1. type = "TRANSPOSE" /\ Back(type) = "TRANSPOSE"
          BY <2>5, <3>5 DEF AutorotateType, Back
        <4> QED BY <2>3, <2>6, <2>9, <3>5, <4>1 DEF JxformSource, Swapping
      <3>6. CASE orientation = 6
        <4>1. type = "ROT_90" /\ Back(type) = "ROT_270"
          BY <2>5, <3>6 DEF AutorotateType, Back
        <4> QED BY <2>3, <2>6, <2>9, <3>6, <4>1 DEF JxformSource, Swapping
      <3>7. CASE orientation = 7
        <4>1. type = "TRANSVERSE" /\ Back(type) = "TRANSVERSE"
          BY <2>5, <3>7 DEF AutorotateType, Back
        <4> QED BY <2>3, <2>6, <2>9, <3>7, <4>1 DEF JxformSource, Swapping
      <3>8. CASE orientation = 8
        <4>1. type = "ROT_270" /\ Back(type) = "ROT_90"
          BY <2>5, <3>8 DEF AutorotateType, Back
        <4> QED BY <2>3, <2>6, <2>9, <3>8, <4>1 DEF JxformSource, Swapping
      <3> QED BY <2>4, <3>1, <3>2, <3>3, <3>4, <3>5, <3>6, <3>7, <3>8
    <2>10. \A d \in S(1) : JxformSource(type, file, d[1], d[2]) \in T(2)
      <3> SUFFICES ASSUME NEW d \in S(1)
                   PROVE  JxformSource(type, file, d[1], d[2]) \in T(2)
        OBVIOUS
      <3>1. d[1] \in 0 .. image.w - 1 /\ d[2] \in 0 .. image.h - 1
        BY <2>4, SidesAre DEF Pixels
      <3> DEFINE s == JxformSource(type, file, d[1], d[2])
      <3>2. s[1] \in 0 .. w - 1 /\ s[2] \in 0 .. h - 1 /\ s = <<s[1], s[2]>> /\ s[2] = 0
        BY <2>4, <2>8, <3>1, SidesAre
      <3> HIDE DEF s
      <3>3. s \in Pixels(w, h)
        BY <3>2 DEF Pixels
      <3> QED BY <3>2, <3>3 DEF s
    <2>11. \A d \in S(2) : JxformSource(type, file, d[1], d[2]) \in T(1)
      <3> SUFFICES ASSUME NEW d \in S(2)
                   PROVE  JxformSource(type, file, d[1], d[2]) \in T(1)
        OBVIOUS
      <3>1. d[1] \in 0 .. image.w - 1 /\ d[2] \in 0 .. image.h - 1
        BY <2>4, SidesAre DEF Pixels
      <3> DEFINE s == JxformSource(type, file, d[1], d[2])
      <3>2. s[1] \in 0 .. w - 1 /\ s[2] \in 0 .. h - 1 /\ s = <<s[1], s[2]>> /\ s[1] = 0
        BY <2>4, <2>8, <3>1, SidesAre
      <3> HIDE DEF s
      <3>3. s \in Pixels(w, h)
        BY <3>2 DEF Pixels
      <3> QED BY <3>2, <3>3 DEF s
    <2>12. ASSUME NEW p \in Pixels(w, h)
           PROVE  /\ p[2] = 0 => JxformSource(Back(type), image, p[1], p[2]) \in S(1)
                  /\ p[1] = 0 => JxformSource(Back(type), image, p[1], p[2]) \in S(2)
      <3>1. p[1] \in 0 .. w - 1 /\ p[2] \in 0 .. h - 1
        BY DEF Pixels
      <3> DEFINE s == JxformSource(Back(type), image, p[1], p[2])
      <3>2. /\ s[1] \in 0 .. image.w - 1 /\ s[2] \in 0 .. image.h - 1
            /\ s = <<s[1], s[2]>>
            /\ p[2] = 0 => (IF orientation \in {1, 2} THEN s[2] = 0
                            ELSE IF orientation \in {3, 4} THEN s[2] = image.h - 1
                            ELSE IF orientation \in {5, 8} THEN s[1] = 0
                            ELSE s[1] = image.w - 1)
            /\ p[1] = 0 => (IF orientation \in {1, 4} THEN s[1] = 0
                            ELSE IF orientation \in {2, 3} THEN s[1] = image.w - 1
                            ELSE IF orientation \in {5, 6} THEN s[2] = 0
                            ELSE s[2] = image.h - 1)
        BY <2>9, <3>1
      <3> HIDE DEF s
      <3>3. s \in Pixels(image.w, image.h)
        BY <3>2 DEF Pixels
      <3>4. (p[2] = 0 => s \in S(1)) /\ (p[1] = 0 => s \in S(2))
        BY <2>4, <3>2, <3>3, SidesAre
      <3> QED BY <3>4 DEF s
    <2>13. {image.px[d] : d \in S(1)} = T(2) /\ {image.px[d] : d \in S(2)} = T(1)
      <3> HIDE DEF S
      <3> QED BY <2>7, <2>10, <2>11, <2>12
    <2> QED BY <2>3, <2>13 DEF ShownUpright
  <1> QED BY <1>1, StepsInvariant, PTL
=============================================================================
