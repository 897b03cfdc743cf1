--------------------------- MODULE EomImageProofs ---------------------------
(***************************************************************************)
(* Proofs about EomImage for every set of files, transforms and operations *)
(* and every length of the undo stack.                                     *)
(***************************************************************************)
EXTENDS EomImage, EomLemmas, SequenceTheorems

(* The values of EomImagePrivate, and of a file *)
Images == [image : Units \cup {None}, thumbnail : Units \cup {None},
           exif : 1 .. 8 \cup {None}, orientation : 0 .. 8,
           metadata : {"NOT_READ", "NOT_AVAILABLE", "READY"},
           autorotate : BOOLEAN, trans : Units \cup {None},
           auto : Units \cup {None}, undo : Seq(Units),
           modified : BOOLEAN, swapped : BOOLEAN, changed : BOOLEAN]
FileOK(f) == f \in [pix : Units, tag : 0 .. 8, format : Formats]

(* The sizes are those of the picture. *)
Sized(s) == s.image # None => s.swapped = Swaps(s.image)

(* What loading, reading and freeing do to an image: the user's transforms *)
(* stay as they are.                                                       *)
Keeps(s, t) == /\ t \in Images /\ Sized(t)
               /\ t.undo = s.undo /\ t.trans = s.trans

LEMMA NoneIsNoUnit == None \notin Units /\ None \notin 0 .. 8
  BY ImageAssumption

LEMMA OrUnits ==
  ASSUME NEW t \in Units \cup {None}
  PROVE  Or(t) \in Units
  BY IdentityIsUnit DEF Or

LEMMA SwapsBoolean == \A m : Swaps(m) \in BOOLEAN
  BY DEF Swaps

LEMMA CompositionUnits ==
  ASSUME NEW s \in Images
  PROVE  Composition(s) \in Units
  BY OrUnits, ComposeUnits DEF Images, Composition

LEMMA UprightUnits ==
  ASSUME NEW f, FileOK(f)
  PROVE  Upright(f) \in Units
  BY AutorotateUnits, IdentityIsUnit, ComposeUnits DEF FileOK, Upright

(* The orientation that the EXIF data have                                 *)
ExifOf(f) == IF f.format = "jpeg" /\ f.tag # 0 THEN f.tag ELSE None

LEMMA ReadMetadataEffect ==
  ASSUME FileOK(file), NEW s \in Images
  PROVE  LET t == ReadMetadata(s)
         IN /\ t \in Images
            /\ t.exif = ExifOf(file)
            /\ t.orientation = (IF s.autorotate /\ t.exif # None THEN t.exif ELSE s.orientation)
            /\ t.undo = s.undo /\ t.trans = s.trans /\ t.auto = s.auto
            /\ t.image = s.image /\ t.swapped = s.swapped /\ t.thumbnail = s.thumbnail
            /\ t.autorotate = s.autorotate /\ t.modified = s.modified
  <1> DEFINE exif == ExifOf(file)
  <1> DEFINE orientation == IF s.autorotate /\ exif # None THEN exif ELSE s.orientation
  <1> DEFINE metadata == IF file.format \in {"jpeg", "png"} THEN "READY" ELSE "NOT_AVAILABLE"
  <1>1. exif \in 1 .. 8 \cup {None}
    BY DEF FileOK, ExifOf
  <1>2. orientation \in 0 .. 8
    BY <1>1 DEF Images
  <1>3. metadata \in {"NOT_AVAILABLE", "READY"}
    OBVIOUS
  <1>4. ReadMetadata(s) = [s EXCEPT !.exif = exif, !.metadata = metadata,
                                    !.orientation = orientation]
    BY DEF ReadMetadata, Images, ExifOf
  <1>5. orientation = IF s.autorotate /\ exif # None THEN exif ELSE s.orientation
    OBVIOUS
  <1> HIDE DEF exif, orientation, metadata
  <1>6. LET t == ReadMetadata(s)
        IN /\ t \in Images /\ t.exif = exif /\ t.orientation = orientation
           /\ t.undo = s.undo /\ t.trans = s.trans /\ t.auto = s.auto
           /\ t.image = s.image /\ t.swapped = s.swapped /\ t.thumbnail = s.thumbnail
           /\ t.autorotate = s.autorotate /\ t.modified = s.modified
    BY <1>1, <1>2, <1>3, <1>4 DEF Images
  <1>7. exif = ExifOf(file)
    BY DEF exif
  <1> QED BY <1>5, <1>6, <1>7

LEMMA ReadMetadataKeeps ==
  ASSUME FileOK(file), NEW s \in Images, Sized(s)
  PROVE  Keeps(s, ReadMetadata(s)) /\ ReadMetadata(s).image = s.image
  BY ReadMetadataEffect DEF Keeps, Sized

LEMMA RealAutorotateKeeps ==
  ASSUME NEW s \in Images, Sized(s)
  PROVE  LET t == RealAutorotate(s)
         IN /\ Keeps(s, t)
            /\ t.image = s.image /\ t.thumbnail = s.thumbnail /\ t.modified = s.modified
            /\ t.autorotate = FALSE /\ t.orientation = s.orientation /\ t.exif = s.exif
            /\ t.auto = (IF s.orientation \in 2 .. 8
                         THEN New(AutorotateType(s.orientation)) ELSE s.auto)
  <1> DEFINE auto == IF s.orientation \in 2 .. 8
                     THEN New(AutorotateType(s.orientation)) ELSE s.auto
  <1>1. auto \in Units \cup {None}
    BY AutorotateUnits DEF Images
  <1>2. RealAutorotate(s) = [s EXCEPT !.autorotate = FALSE, !.auto = auto]
    BY DEF RealAutorotate, Images
  <1> HIDE DEF auto
  <1>3. LET t == RealAutorotate(s)
        IN /\ Keeps(s, t) /\ t.auto = auto
           /\ t.image = s.image /\ t.thumbnail = s.thumbnail /\ t.modified = s.modified
           /\ t.autorotate = FALSE /\ t.orientation = s.orientation /\ t.exif = s.exif
    BY <1>1, <1>2 DEF Keeps, Images, Sized
  <1> QED BY <1>3 DEF auto

LEMMA ApplyTransformationsKeeps ==
  ASSUME NEW s \in Images, Sized(s)
  PROVE  /\ Keeps(s, ApplyTransformations(s))
         /\ s.image # None => ApplyTransformations(s).image = Compose(s.image, Composition(s))
         /\ s.image = None => ApplyTransformations(s) = s
         /\ ApplyTransformations(s).auto = s.auto
         /\ ApplyTransformations(s).autorotate = s.autorotate
         /\ ApplyTransformations(s).thumbnail = s.thumbnail
         /\ ApplyTransformations(s).modified = s.modified
         /\ ApplyTransformations(s).exif = s.exif
         /\ ApplyTransformations(s).orientation = s.orientation
  <1>1. CASE s.image = None \/ (s.trans = None /\ s.auto = None)
    <2>1. ApplyTransformations(s) = s
      BY <1>1 DEF ApplyTransformations
    <2>2. s.image # None => Compose(s.image, Composition(s)) = s.image
      BY <1>1, ComposeIdentity, IdentityIsUnit DEF Composition, Or, Images
    <2> QED BY <2>1, <2>2 DEF Keeps
  <1>2. CASE ~(s.image = None \/ (s.trans = None /\ s.auto = None))
    <2> DEFINE m == Compose(s.image, Composition(s))
    <2>1. m \in Units /\ Swaps(m) \in BOOLEAN
      BY <1>2, CompositionUnits, ComposeUnits, SwapsBoolean DEF Images
    <2>2. ApplyTransformations(s) = [s EXCEPT !.image = m, !.swapped = Swaps(m)]
      BY <1>2 DEF ApplyTransformations
    <2> HIDE DEF m
    <2>3. Keeps(s, ApplyTransformations(s))
      BY <2>1, <2>2 DEF Keeps, Images, Sized
    <2> QED BY <1>2, <2>2, <2>3 DEF Images, m
  <1> QED BY <1>1, <1>2

LEMMA FreeMemKeeps ==
  ASSUME NEW s \in Images
  PROVE  Keeps(s, FreeMem(s)) /\ FreeMem(s).image = None
  BY DEF Keeps, Images, Sized, FreeMem

(* What looking at a file of orientation o, the first time, comes to       *)
TurnedUpright(s, t, o) ==
  /\ t.autorotate = FALSE /\ t.exif = ExifOf(file)
  /\ t.orientation = (IF s.autorotate /\ o # 0 THEN o ELSE s.orientation)
  /\ t.auto = (IF s.autorotate /\ t.orientation \in 2 .. 8
               THEN New(AutorotateType(t.orientation)) ELSE s.auto)
  /\ t.thumbnail = s.thumbnail /\ t.modified = s.modified

LEMMA LoadedKeeps ==
  ASSUME FileOK(file), NEW s \in Images
  PROVE  /\ Keeps(s, Loaded(s)) /\ Loaded(s).image \in Units
         /\ TurnedUpright(s, Loaded(s), file.tag)
         /\ Loaded(s).image = Compose(file.pix, Compose(Or(s.trans), Or(Loaded(s).auto)))
  <1> DEFINE read == [ReadMetadata(s) EXCEPT
                        !.image = file.pix, !.swapped = Swaps(file.pix), !.changed = FALSE,
                        !.orientation = IF s.autorotate /\ file.tag # 0 THEN file.tag ELSE @]
  <1> DEFINE turned == IF read.autorotate THEN RealAutorotate(read) ELSE read
  <1> DEFINE o == IF s.autorotate /\ file.tag # 0 THEN file.tag ELSE s.orientation
  <1> DEFINE m == ReadMetadata(s)
  <1>1. /\ m \in Images /\ m.undo = s.undo /\ m.trans = s.trans /\ m.auto = s.auto
        /\ m.autorotate = s.autorotate /\ m.exif = ExifOf(file)
        /\ m.thumbnail = s.thumbnail /\ m.modified = s.modified
        /\ m.orientation = (IF s.autorotate /\ m.exif # None THEN m.exif ELSE s.orientation)
    BY ReadMetadataEffect
  <1>2. o \in 0 .. 8
    BY DEF FileOK, Images
  <1>3. read = [m EXCEPT !.image = file.pix, !.swapped = Swaps(file.pix),
                         !.changed = FALSE, !.orientation = o]
    <2>1. o = IF s.autorotate /\ file.tag # 0 THEN file.tag ELSE m.orientation
      BY <1>1 DEF ExifOf
    <2> HIDE DEF o, m
    <2> QED BY <1>1, <2>1 DEF m, Images
  <1>4. file.pix \in Units /\ Swaps(file.pix) \in BOOLEAN
    BY SwapsBoolean DEF FileOK
  <1>5. Loaded(s) = ApplyTransformations(turned)
    BY DEF Loaded
  <1>6. o = (IF s.autorotate /\ file.tag # 0 THEN file.tag ELSE s.orientation)
    OBVIOUS
  <1>7. turned = IF read.autorotate THEN RealAutorotate(read) ELSE read
    OBVIOUS
  <1> HIDE DEF m, o, read, turned
  <1>8. /\ Keeps(s, read) /\ read.image = file.pix /\ read.orientation = o
        /\ read.auto = s.auto /\ read.autorotate = s.autorotate
        /\ read.exif = ExifOf(file) /\ read.thumbnail = s.thumbnail
        /\ read.modified = s.modified
    BY <1>1, <1>2, <1>3, <1>4 DEF Keeps, Images, Sized
  <1>9. /\ Keeps(s, turned) /\ turned.image = file.pix /\ turned.orientation = o
        /\ turned.autorotate = FALSE /\ turned.exif = ExifOf(file)
        /\ turned.thumbnail = s.thumbnail /\ turned.modified = s.modified
        /\ turned.auto = (IF s.autorotate /\ o \in 2 .. 8
                          THEN New(AutorotateType(o)) ELSE s.auto)
    <2>1. s.autorotate \in BOOLEAN
      BY DEF Images
    <2>2. CASE s.autorotate
      BY <1>7, <1>8, <2>2, RealAutorotateKeeps DEF Keeps
    <2>3. CASE ~s.autorotate
      <3>1. turned = read
        BY <1>7, <1>8, <2>3
      <3> QED BY <1>8, <2>1, <2>3, <3>1
    <2> QED BY <2>2, <2>3
  <1>10. turned \in Images /\ Sized(turned) /\ turned.image # None
    BY <1>4, <1>9, NoneIsNoUnit DEF Keeps
  <1>11. /\ Keeps(turned, Loaded(s))
         /\ Loaded(s).image = Compose(turned.image, Composition(turned))
         /\ Loaded(s).auto = turned.auto /\ Loaded(s).autorotate = turned.autorotate
         /\ Loaded(s).thumbnail = turned.thumbnail /\ Loaded(s).modified = turned.modified
         /\ Loaded(s).exif = turned.exif /\ Loaded(s).orientation = turned.orientation
    BY <1>5, <1>10, ApplyTransformationsKeeps
  <1>12. Loaded(s).image \in Units
    BY <1>4, <1>9, <1>10, <1>11, CompositionUnits, ComposeUnits
  <1>13. TurnedUpright(s, Loaded(s), file.tag)
    BY <1>6, <1>9, <1>11 DEF TurnedUpright
  <1>14. Loaded(s).image = Compose(file.pix, Compose(Or(s.trans), Or(Loaded(s).auto)))
    BY <1>9, <1>11 DEF Composition, Keeps
  <1> QED BY <1>9, <1>11, <1>12, <1>13, <1>14 DEF Keeps

LEMMA NotLoadedKeeps ==
  ASSUME FileOK(file), NEW s \in Images, Sized(s), NEW read \in BOOLEAN
  PROVE  /\ Keeps(s, NotLoaded(s, read)) /\ NotLoaded(s, read).image = s.image
         /\ IF read THEN TurnedUpright(s, NotLoaded(s, read),
                                       IF file.format = "jpeg" THEN file.tag ELSE 0)
                    ELSE NotLoaded(s, read) = s
  <1> DEFINE m == ReadMetadata(s)
             o == IF file.format = "jpeg" THEN file.tag ELSE 0
  <1>1. /\ m \in Images /\ m.undo = s.undo /\ m.trans = s.trans /\ m.auto = s.auto
        /\ m.image = s.image /\ m.swapped = s.swapped
        /\ m.autorotate = s.autorotate /\ m.exif = ExifOf(file)
        /\ m.thumbnail = s.thumbnail /\ m.modified = s.modified
        /\ m.orientation = (IF s.autorotate /\ m.exif # None THEN m.exif ELSE s.orientation)
    BY ReadMetadataEffect
  <1>2. m.orientation = (IF s.autorotate /\ o # 0 THEN o ELSE s.orientation)
    <2>1. o # 0 <=> ExifOf(file) # None
      BY NoneIsNoUnit DEF FileOK, ExifOf
    <2>2. o # 0 => ExifOf(file) = o
      BY DEF ExifOf
    <2> HIDE DEF o, m
    <2> QED BY <1>1, <2>1, <2>2
  <1>3. NotLoaded(s, read) = IF ~read THEN s ELSE IF s.autorotate THEN RealAutorotate(m) ELSE m
    BY DEF NotLoaded
  <1> HIDE DEF m, o
  <1>4. Keeps(s, m)
    BY <1>1 DEF Keeps, Sized
  <1>5. CASE ~read
    BY <1>3, <1>5 DEF Keeps
  <1>6. CASE read /\ s.autorotate
    <2>1. NotLoaded(s, read) = RealAutorotate(m)
      BY <1>3, <1>6
    <2>2. m \in Images /\ Sized(m)
      BY <1>4 DEF Keeps
    <2>3. TurnedUpright(s, RealAutorotate(m), o)
      BY <1>1, <1>2, <1>6, <2>2, RealAutorotateKeeps DEF TurnedUpright
    <2> QED BY <1>1, <1>4, <1>6, <2>1, <2>2, <2>3, RealAutorotateKeeps DEF Keeps, o
  <1>7. CASE read /\ ~s.autorotate
    <2>1. NotLoaded(s, read) = m
      BY <1>3, <1>7
    <2>2. s.autorotate = FALSE
      BY <1>7 DEF Images
    <2>3. TurnedUpright(s, m, o)
      BY <1>1, <1>2, <2>2 DEF TurnedUpright
    <2> QED BY <1>1, <1>4, <1>7, <2>1, <2>3 DEF o
  <1> QED BY <1>5, <1>6, <1>7

LEMMA NeededKeeps ==
  ASSUME FileOK(file), NEW s \in Images, Sized(s)
  PROVE  Keeps(s, Needed(s)) /\ Needed(s).image \in Units
  BY LoadedKeeps DEF Needed, Keeps, Images

LEMMA DroppedKeeps ==
  ASSUME NEW s \in Images, Sized(s)
  PROVE  Keeps(s, Dropped(s))
  BY FreeMemKeeps DEF Dropped, Keeps
-----------------------------------------------------------------------------
(* The undo stack and the transform *)

(* The compositions after each transform on a stack, the last one first *)
History(undo, t) ==
  LET n == Len(undo)
  IN \E done \in [0 .. n -> Units] :
       /\ done[0] = Identity /\ done[n] = t
       /\ \A i \in 1 .. n : done[i] = Compose(done[i - 1], undo[n + 1 - i])

LEMMA HistoryPushed ==
  ASSUME NEW undo \in Seq(Units), NEW t \in Units, NEW u \in Units, History(undo, u)
  PROVE  History(<<t>> \o undo, Compose(u, t))
  <1> DEFINE n == Len(undo)
  <1> DEFINE pushed == <<t>> \o undo
  <1>1. n \in Nat
    BY LenProperties
  <1>2. /\ Len(pushed) = n + 1
        /\ pushed[1] = t /\ \A i \in 2 .. n + 1 : pushed[i] = undo[i - 1]
    <2>1. <<t>> \in Seq(Units) /\ Len(<<t>>) = 1 /\ <<t>>[1] = t
      OBVIOUS
    <2> QED BY <1>1, <2>1, ConcatProperties
  <1>3. PICK done \in [0 .. n -> Units] :
           /\ done[0] = Identity /\ done[n] = u
           /\ \A i \in 1 .. n : done[i] = Compose(done[i - 1], undo[n + 1 - i])
    BY DEF History
  <1> DEFINE next == [i \in 0 .. n + 1 |-> IF i = n + 1 THEN Compose(u, t) ELSE done[i]]
  <1>4. Compose(u, t) \in Units
    BY ComposeUnits
  <1> HIDE DEF n, pushed
  <1>5. next \in [0 .. n + 1 -> Units]
    BY <1>1, <1>3, <1>4
  <1>6. next[0] = Identity /\ next[n + 1] = Compose(u, t)
    BY <1>1, <1>3
  <1>7. ASSUME NEW i \in 1 .. n + 1
        PROVE  next[i] = Compose(next[i - 1], pushed[n + 2 - i])
    <2>1. CASE i = n + 1
      <3>1. next[i] = Compose(u, t) /\ next[i - 1] = u /\ pushed[n + 2 - i] = t
        BY <1>1, <1>2, <1>3, <2>1
      <3> QED BY <3>1
    <2>2. CASE i \in 1 .. n
      <3>1. next[i] = done[i] /\ next[i - 1] = done[i - 1]
        BY <1>1, <2>2
      <3>2. n + 2 - i \in 2 .. n + 1 /\ n + 2 - i - 1 = n + 1 - i
        BY <1>1, <2>2
      <3>3. pushed[n + 2 - i] = undo[n + 1 - i]
        <4> DEFINE k == n + 2 - i
        <4>1. k \in 2 .. n + 1 /\ k - 1 = n + 1 - i
          BY <1>1, <2>2
        <4> HIDE DEF k
        <4>2. pushed[k] = undo[k - 1]
          BY <1>2, <4>1
        <4> QED BY <4>1, <4>2 DEF k
      <3>4. done[i] = Compose(done[i - 1], undo[n + 1 - i])
        BY <1>3, <2>2
      <3> HIDE DEF next
      <3> QED BY <3>1, <3>3, <3>4
    <2> QED BY <1>1, <2>1, <2>2
  <1> HIDE DEF next
  <1>8. \A i \in 1 .. n + 1 : next[i] = Compose(next[i - 1], pushed[n + 1 + 1 - i])
    BY <1>1, <1>7
  <1>9. History(pushed, Compose(u, t))
    BY <1>2, <1>5, <1>6, <1>8 DEF History
  <1> QED BY <1>9 DEF pushed

LEMMA HistoryPopped ==
  ASSUME NEW undo \in Seq(Units), undo # <<>>, NEW u \in Units, History(undo, u)
  PROVE  History(Tail(undo), Compose(u, Reversed(Head(undo))))
  <1> DEFINE n == Len(undo)
  <1> DEFINE popped == Tail(undo)
  <1>1. n \in Nat /\ n > 0 /\ Head(undo) = undo[1] /\ Head(undo) \in Units
    BY LenProperties, EmptySeq, HeadTailProperties
  <1>2. /\ Len(popped) = n - 1
        /\ \A i \in 1 .. n - 1 : popped[i] = undo[i + 1]
    BY HeadTailProperties
  <1>3. PICK done \in [0 .. n -> Units] :
           /\ done[0] = Identity /\ done[n] = u
           /\ \A i \in 1 .. n : done[i] = Compose(done[i - 1], undo[n + 1 - i])
    BY DEF History
  <1> DEFINE rest == [i \in 0 .. n - 1 |-> done[i]]
  <1> HIDE DEF n, popped
  <1>4. rest \in [0 .. n - 1 -> Units] /\ rest[0] = Identity
    BY <1>1, <1>3
  <1>5. rest[n - 1] = Compose(u, Reversed(Head(undo)))
    <2>1. n - 1 \in 0 .. n - 1 /\ n - 1 \in 0 .. n /\ n \in 1 .. n /\ n + 1 - n = 1
      BY <1>1
    <2>2. u = Compose(done[n - 1], Head(undo)) /\ done[n - 1] \in Units
      BY <1>1, <1>3, <2>1
    <2>3. Compose(u, Reversed(Head(undo)))
            = Compose(done[n - 1], Compose(Head(undo), Reversed(Head(undo))))
      BY <1>1, <2>2, ReverseUnits, ComposeAssociative
    <2>4. Compose(u, Reversed(Head(undo))) = done[n - 1]
      BY <1>1, <2>2, <2>3, ReverseUnits, ComposeIdentity
    <2> QED BY <2>1, <2>4
  <1>6. ASSUME NEW i \in 1 .. n - 1
        PROVE  rest[i] = Compose(rest[i - 1], popped[n - 1 + 1 - i])
    <2>1. i \in 0 .. n - 1 /\ i - 1 \in 0 .. n - 1 /\ i \in 1 .. n
          /\ n - 1 + 1 - i \in 1 .. n - 1 /\ n - 1 + 1 - i + 1 = n + 1 - i
      BY <1>1
    <2>2. popped[n - 1 + 1 - i] = undo[n + 1 - i]
      BY <1>2, <2>1
    <2> QED BY <1>3, <2>1, <2>2
  <1> HIDE DEF rest
  <1>7. History(popped, Compose(u, Reversed(Head(undo))))
    BY <1>2, <1>4, <1>5, <1>6, ZenonT(30) DEF History
  <1> QED BY <1>7 DEF popped

LEMMA HistoryEmpty == History(<<>>, Identity)
  <1> DEFINE done == [i \in 0 .. 0 |-> Identity]
  <1>1. done \in [0 .. 0 -> Units] /\ done[0] = Identity
    BY IdentityIsUnit
  <1>2. Len(<<>>) = 0
    OBVIOUS
  <1> HIDE DEF done
  <1> QED BY <1>1, <1>2 DEF History
-----------------------------------------------------------------------------
(* Transforming *)

LEMMA TransformedTypes ==
  ASSUME NEW s \in Images, Sized(s), NEW t \in Units, NEW isUndo \in BOOLEAN
  PROVE  LET r == Transformed(s, t, isUndo)
         IN /\ r \in Images /\ Sized(r)
            /\ r.image = IF s.image = None THEN None ELSE Compose(s.image, t)
            /\ r.trans = Compose(Or(s.trans), t)
            /\ r.undo = (IF isUndo THEN s.undo ELSE <<t>> \o s.undo)
            /\ r.auto = s.auto /\ r.autorotate = s.autorotate
            /\ s.exif \in {1, None} => r.exif \in {1, None}
            /\ r.orientation \in {s.orientation, 1}
            /\ r.thumbnail = IF s.thumbnail = None THEN None ELSE Compose(s.thumbnail, t)
  <1> DEFINE has == s.image # None \/ s.thumbnail # None
             image == IF s.image = None THEN None ELSE Compose(s.image, t)
             swapped == IF s.image = None THEN s.swapped ELSE Swaps(Compose(s.image, t))
             thumbnail == IF s.thumbnail = None THEN None ELSE Compose(s.thumbnail, t)
             modified == s.modified \/ has
             exif == IF has /\ s.exif # None THEN 1 ELSE s.exif
             orientation == IF has /\ s.exif # None THEN 1 ELSE s.orientation
             trans == IF s.trans = None THEN t ELSE Compose(s.trans, t)
             undo == IF isUndo THEN s.undo ELSE <<t>> \o s.undo
  <1>1. /\ image \in Units \cup {None} /\ thumbnail \in Units \cup {None}
        /\ image # None => swapped = Swaps(image)
        /\ trans \in Units
    BY ComposeUnits DEF Images
  <1>2. swapped \in BOOLEAN /\ modified \in BOOLEAN
    BY SwapsBoolean DEF Images
  <1>3. exif \in 1 .. 8 \cup {None} /\ orientation \in 0 .. 8
    BY DEF Images
  <1>4. undo \in Seq(Units)
    <2>1. <<t>> \in Seq(Units)
      OBVIOUS
    <2>2. s.undo \in Seq(Units)
      BY DEF Images
    <2> QED BY <2>1, <2>2, ConcatProperties
  <1>5. trans = Compose(Or(s.trans), t)
    BY ComposeIdentity DEF Or
  <1>6. /\ s.exif \in {1, None} => exif \in {1, None}
        /\ orientation \in {s.orientation, 1}
    OBVIOUS
  <1>7. Transformed(s, t, isUndo) =
          [image |-> image, thumbnail |-> thumbnail, exif |-> exif,
           orientation |-> orientation, metadata |-> s.metadata,
           autorotate |-> s.autorotate, trans |-> trans, auto |-> s.auto,
           undo |-> undo, modified |-> modified, swapped |-> swapped,
           changed |-> s.changed]
    <2>1. Transformed(s, t, isUndo) =
            [s EXCEPT !.image = image, !.swapped = swapped, !.thumbnail = thumbnail,
                      !.modified = modified, !.exif = exif, !.orientation = orientation,
                      !.trans = trans, !.undo = undo]
      BY DEF Transformed, Images
    <2> HIDE DEF image, swapped, thumbnail, modified, exif, orientation, trans, undo
    <2> QED BY <2>1 DEF Images
  <1>8. image = (IF s.image = None THEN None ELSE Compose(s.image, t))
        /\ thumbnail = (IF s.thumbnail = None THEN None ELSE Compose(s.thumbnail, t))
        /\ undo = (IF isUndo THEN s.undo ELSE <<t>> \o s.undo)
    OBVIOUS
  <1> HIDE DEF image, swapped, thumbnail, modified, exif, orientation, trans, undo
  <1>9. /\ Transformed(s, t, isUndo) \in Images /\ Sized(Transformed(s, t, isUndo))
        /\ Transformed(s, t, isUndo).image = image
        /\ Transformed(s, t, isUndo).trans = trans
        /\ Transformed(s, t, isUndo).undo = undo
        /\ Transformed(s, t, isUndo).auto = s.auto
        /\ Transformed(s, t, isUndo).autorotate = s.autorotate
        /\ Transformed(s, t, isUndo).exif = exif
        /\ Transformed(s, t, isUndo).orientation = orientation
        /\ Transformed(s, t, isUndo).thumbnail = thumbnail
    BY <1>1, <1>2, <1>3, <1>4, <1>7 DEF Images, Sized
  <1> QED BY <1>5, <1>6, <1>8, <1>9

LEMMA UndoneTypes ==
  ASSUME NEW s \in Images, Sized(s), s.undo # <<>>
  PROVE  LET t == Reversed(Head(s.undo))
             r == Undone(s)
         IN /\ t \in Units
            /\ r \in Images /\ Sized(r)
            /\ r.image = IF s.image = None THEN None ELSE Compose(s.image, t)
            /\ Or(r.trans) = Compose(Or(s.trans), t)
            /\ r.undo = Tail(s.undo)
            /\ r.auto = s.auto /\ r.autorotate = s.autorotate
            /\ s.exif \in {1, None} => r.exif \in {1, None}
            /\ r.orientation \in {s.orientation, 1}
  <1> DEFINE t == Reversed(Head(s.undo))
             r == Transformed(s, t, TRUE)
             trans == IF IsIdentity(r.trans) THEN None ELSE r.trans
             modified == Tail(s.undo) # <<>>
  <1>1. Head(s.undo) \in Units /\ Tail(s.undo) \in Seq(Units)
    BY HeadTailProperties DEF Images
  <1>2. t \in Units
    BY <1>1, ReverseUnits
  <1> HIDE DEF t
  <1>3. /\ r \in Images /\ Sized(r)
        /\ r.image = IF s.image = None THEN None ELSE Compose(s.image, t)
        /\ r.trans = Compose(Or(s.trans), t)
        /\ r.auto = s.auto /\ r.autorotate = s.autorotate
        /\ s.exif \in {1, None} => r.exif \in {1, None}
        /\ r.orientation \in {s.orientation, 1}
    BY <1>2, TransformedTypes
  <1> HIDE DEF r
  <1>4. trans \in Units \cup {None} /\ Or(trans) = r.trans
    <2>1. r.trans \in Units
      BY <1>2, <1>3, OrUnits, ComposeUnits DEF Images
    <2> QED BY <2>1, NoneIsNoUnit DEF Or, IsIdentity
  <1>5. modified \in BOOLEAN
    OBVIOUS
  <1>6. Undone(s) = [r EXCEPT !.undo = Tail(s.undo), !.trans = trans, !.modified = modified]
    <2>1. r = Transformed(s, Reversed(Head(s.undo)), TRUE)
      BY DEF r, t
    <2>2. r.undo = s.undo
      BY <1>2, TransformedTypes DEF r
    <2> QED BY <1>3, <2>1, <2>2 DEF Undone, Images
  <1> HIDE DEF trans, modified
  <1>7. Undone(s) \in Images /\ Sized(Undone(s)) /\ Undone(s).image = r.image
        /\ Undone(s).trans = trans /\ Undone(s).undo = Tail(s.undo)
        /\ Undone(s).auto = r.auto /\ Undone(s).autorotate = r.autorotate
        /\ Undone(s).exif = r.exif /\ Undone(s).orientation = r.orientation
    BY <1>1, <1>3, <1>4, <1>5, <1>6 DEF Images, Sized
  <1>8. t = Reversed(Head(s.undo))
    BY DEF t
  <1> QED BY <1>2, <1>3, <1>4, <1>7, <1>8
-----------------------------------------------------------------------------
(* The invariant *)

IInv == TypeOK /\ SizeMatches /\ UndoMatchesTrans

(* The image alone *)
ImgInv == /\ img \in Images /\ Sized(img) /\ Len(img.undo) <= setting.maxUndo
          /\ History(img.undo, Or(img.trans))

LEMMA IInvParts ==
  IInv <=> /\ setting \in Settings /\ FileOK(file) /\ ImgInv /\ viewed \in BOOLEAN
           /\ made \in Units \cup {None} /\ cache \in Units \cup {None}
           /\ expected \in Units
  BY DEF IInv, TypeOK, SizeMatches, UndoMatchesTrans, FileOK, ImgInv, Images, Sized, History

LEMMA KeepsImgInv ==
  ASSUME ImgInv, Keeps(img, img'), UNCHANGED setting
  PROVE  ImgInv'
  BY DEF ImgInv, Keeps, Sized, History, Or

LEMMA ResetKeeps ==
  ASSUME NEW s \in Images, Sized(s)
  PROVE  LET t == ResetModifications(s)
         IN /\ t \in Images /\ Sized(t) /\ t.undo = <<>> /\ t.trans = None
            /\ t.image = s.image /\ t.exif = s.exif /\ t.auto = None
            /\ t.orientation = s.orientation
  <1> DEFINE t == ResetModifications(s)
  <1>1. t = [s EXCEPT !.undo = <<>>, !.trans = None, !.auto = None, !.modified = FALSE]
    BY DEF ResetModifications
  <1>2. <<>> \in Seq(Units)
    OBVIOUS
  <1> HIDE DEF t
  <1>3. t \in Images /\ Sized(t) /\ t.undo = <<>> /\ t.trans = None
        /\ t.image = s.image /\ t.exif = s.exif /\ t.auto = None
        /\ t.orientation = s.orientation
    BY <1>1, <1>2 DEF Images, Sized
  <1> QED BY <1>3 DEF t

LEMMA WrittenOK ==
  ASSUME FileOK(file), NEW s \in Images, s.image \in Units
  PROVE  /\ FileOK(Written(s))
         /\ \A format \in Formats : FileOK(WrittenAs(s, format))
  <1>1. Compose(file.pix, Composition(s)) \in Units
    BY CompositionUnits, ComposeUnits DEF FileOK
  <1>2. (IF s.exif = None THEN 0 ELSE s.exif) \in 0 .. 8
    BY DEF Images
  <1>3. FileOK(Lossless(s)) /\ FileOK(Recompressed(s))
    BY <1>1, <1>2 DEF Lossless, Recompressed, FileOK, Formats
  <1>4. \A format \in Formats : FileOK(PixbufSaved(s, format))
    BY DEF PixbufSaved, FileOK
  <1> QED BY <1>3, <1>4 DEF Written, WrittenAs, FileOK, Formats

LEMMA SettingIs ==
  ASSUME NEW s \in Settings
  PROVE  /\ s.files \subseteq [pix : {Identity}, tag : 0 .. 8, format : Formats]
         /\ s.userTypes \subseteq Types /\ s.maxUndo \in Nat
  BY ImageAssumption

LEMMA InitIInv == Init => IInv
  <1> SUFFICES ASSUME Init PROVE IInv
    OBVIOUS
  <1>1. setting \in Settings /\ FileOK(file)
    BY SettingIs, IdentityIsUnit DEF Init, FileOK
  <1>2. img \in Images /\ img.undo = <<>> /\ Or(img.trans) = Identity /\ Sized(img)
    BY DEF Init, Images, Sized, Or
  <1>3. ImgInv
    BY <1>1, <1>2, HistoryEmpty, SettingIs DEF ImgInv
  <1> QED BY <1>1, <1>3, IInvParts, UprightUnits DEF Init

\* No step changes the setting.
LEMMA SettingKept == [Next]_vars => UNCHANGED setting
  BY DEF Next, vars, Load, Display, Leave, LoadExif, Transform, Undo, MakeThumbnail,
         SetThumbnail, UnsetThumbnail, FileChanged, Save, SaveAs

LEMMA NextIInv == IInv /\ [Next]_vars => IInv'
  <1> SUFFICES ASSUME IInv, [Next]_vars PROVE IInv'
    OBVIOUS
  <1>1. /\ FileOK(file) /\ ImgInv /\ viewed \in BOOLEAN
        /\ made \in Units \cup {None} /\ cache \in Units \cup {None}
        /\ expected \in Units /\ setting \in Settings /\ UNCHANGED setting
    BY IInvParts, SettingKept
  <1>2. img \in Images /\ Sized(img) /\ Keeps(img, img)
    BY <1>1 DEF ImgInv, Keeps
  <1>3. ASSUME FileOK(file'), ImgInv', viewed' \in BOOLEAN,
               made' \in Units \cup {None}, cache' \in Units \cup {None},
               expected' \in Units
        PROVE  IInv'
    BY <1>1, <1>3, IInvParts DEF IInv, TypeOK, SizeMatches, UndoMatchesTrans, FileOK, ImgInv,
       Images, Sized, History
  <1>4. CASE Load
    <2>1. Keeps(img, Loaded(img))
      BY <1>1, <1>2, LoadedKeeps
    <2>2. \A read \in BOOLEAN : Keeps(img, NotLoaded(img, read))
      BY <1>1, <1>2, NotLoadedKeeps
    <2>3. Keeps(img, img')
      BY <1>4, <2>1, <2>2 DEF Load
    <2>4. ImgInv'
      BY <1>1, <2>3, KeepsImgInv
    <2> QED BY <1>1, <1>3, <1>4, <2>4 DEF Load
  <1>5. CASE Display
    <2>1. ImgInv'
      BY <1>1, <1>2, <1>5, KeepsImgInv DEF Display
    <2> QED BY <1>1, <1>3, <1>5, <2>1 DEF Display
  <1>6. CASE Leave
    <2>1. ImgInv'
      BY <1>1, <1>2, <1>6, FreeMemKeeps, KeepsImgInv DEF Leave
    <2> QED BY <1>1, <1>3, <1>6, <2>1 DEF Leave
  <1>7. CASE LoadExif
    <2>1. Keeps(img, ReadMetadata(img))
      BY <1>1, <1>2, ReadMetadataKeeps
    <2>2. Keeps(img, ApplyTransformations(ReadMetadata(img)))
      BY <2>1, ApplyTransformationsKeeps DEF Keeps
    <2>3. ImgInv'
      BY <1>1, <1>7, <2>2, KeepsImgInv DEF LoadExif
    <2> QED BY <1>1, <1>3, <1>7, <2>3 DEF LoadExif
  <1>8. CASE Transform
    <2>1. PICK type \in setting.userTypes : /\ img' = Transformed(img, New(type), FALSE)
                                    /\ expected' = Compose(expected, New(type))
      BY <1>8 DEF Transform
    <2>2. New(type) \in Units
      BY <1>1, SettingIs DEF Units
    <2> DEFINE t == New(type)
    <2>3. /\ img' \in Images /\ Sized(img') /\ img'.trans = Compose(Or(img.trans), t)
          /\ img'.undo = <<t>> \o img.undo
      BY <1>2, <2>1, <2>2, TransformedTypes
    <2>4. Or(img.trans) \in Units /\ img.undo \in Seq(Units)
      BY <1>2, OrUnits DEF Images
    <2>5. Or(img'.trans) = img'.trans
      BY <2>2, <2>3, <2>4, ComposeUnits, NoneIsNoUnit DEF Or
    <2>6. History(img'.undo, Or(img'.trans))
      BY <1>1, <2>2, <2>3, <2>4, <2>5, HistoryPushed DEF ImgInv
    <2>7. Len(img'.undo) <= setting.maxUndo
      <3>1. <<t>> \in Seq(Units) /\ Len(<<t>>) = 1
        BY <2>2
      <3>2. Len(img'.undo) = 1 + Len(img.undo)
        BY <2>3, <2>4, <3>1, ConcatProperties
      <3>3. Len(img.undo) \in Nat /\ setting.maxUndo \in Nat /\ Len(img.undo) < setting.maxUndo
        BY <1>1, <1>8, <2>4, LenProperties, SettingIs DEF Transform
      <3> QED BY <3>2, <3>3
    <2>8. ImgInv'
      BY <1>1, <2>3, <2>6, <2>7 DEF ImgInv, Sized, History, Or
    <2>9. expected' \in Units
      BY <1>1, <2>1, <2>2, ComposeUnits
    <2> QED BY <1>1, <1>3, <1>8, <2>8, <2>9 DEF Transform
  <1>9. CASE Undo
    <2>1. CASE img.undo = <<>>
      <3>1. Keeps(img, [img EXCEPT !.modified = FALSE])
        BY <1>2 DEF Keeps, Images, Sized
      <3>2. ImgInv'
        BY <1>1, <1>9, <2>1, <3>1, KeepsImgInv DEF Undo
      <3> QED BY <1>1, <1>3, <1>9, <2>1, <3>2 DEF Undo
    <2>2. CASE img.undo # <<>>
      <3> DEFINE t == Reversed(Head(img.undo))
      <3>1. img' = Undone(img) /\ expected' = Compose(expected, t)
        BY <1>9, <2>2 DEF Undo
      <3>2. /\ t \in Units /\ img' \in Images /\ Sized(img')
            /\ Or(img'.trans) = Compose(Or(img.trans), t)
            /\ img'.undo = Tail(img.undo)
        BY <1>2, <2>2, <3>1, UndoneTypes
      <3>3. Or(img.trans) \in Units /\ img.undo \in Seq(Units)
        BY <1>2, OrUnits DEF Images
      <3>4. History(img'.undo, Or(img'.trans))
        BY <1>1, <2>2, <3>2, <3>3, HistoryPopped DEF ImgInv
      <3>5. Len(img'.undo) <= setting.maxUndo
        <4>1. Len(img'.undo) = Len(img.undo) - 1 /\ Len(img.undo) \in Nat
          BY <2>2, <3>2, <3>3, HeadTailProperties, LenProperties
        <4>2. Len(img.undo) <= setting.maxUndo /\ setting.maxUndo \in Nat
          BY <1>1, SettingIs DEF ImgInv
        <4> QED BY <4>1, <4>2
      <3>6. ImgInv'
        BY <1>1, <3>2, <3>4, <3>5 DEF ImgInv, Sized, History, Or
      <3>7. expected' \in Units
        BY <1>1, <3>1, <3>2, ComposeUnits
      <3> QED BY <1>1, <1>3, <1>9, <3>6, <3>7 DEF Undo
    <2> QED BY <2>1, <2>2
  <1>10. CASE MakeThumbnail
    <2>1. ImgInv'
      BY <1>1, <1>2, <1>10, KeepsImgInv DEF MakeThumbnail
    <2>2. made' \in Units \cup {None}
      BY <1>1, <1>2, <1>10, UprightUnits DEF MakeThumbnail, Images
    <2> QED BY <1>1, <1>3, <1>10, <2>1, <2>2 DEF MakeThumbnail
  <1>11. CASE SetThumbnail
    <2>1. Compose(made, Or(img.trans)) \in Units
      BY <1>1, <1>2, <1>11, OrUnits, ComposeUnits DEF SetThumbnail, Images
    <2>2. Keeps(img, img')
      <3> DEFINE m == Compose(made, Or(img.trans))
      <3>1. img' = [img EXCEPT !.thumbnail = m]
        BY <1>11 DEF SetThumbnail, Thumbnailed
      <3>2. m \in Units
        BY <2>1
      <3> HIDE DEF m
      <3> QED BY <1>2, <3>1, <3>2 DEF Keeps, Images, Sized
    <2>3. ImgInv'
      BY <1>1, <2>2, KeepsImgInv
    <2> QED BY <1>1, <1>3, <1>11, <2>3 DEF SetThumbnail
  <1>12. CASE UnsetThumbnail
    <2>1. Keeps(img, img')
      BY <1>2, <1>12 DEF UnsetThumbnail, Keeps, Images, Sized
    <2>2. ImgInv'
      BY <1>1, <2>1, KeepsImgInv
    <2> QED BY <1>1, <1>3, <1>12, <2>2 DEF UnsetThumbnail
  <1>13. CASE FileChanged
    <2>1. Keeps(img, img')
      BY <1>2, <1>13 DEF FileChanged, Keeps, Images, Sized
    <2>2. ImgInv'
      BY <1>1, <2>1, KeepsImgInv
    <2> QED BY <1>1, <1>3, <1>13, <2>2 DEF FileChanged
  <1>14. ASSUME UNCHANGED <<viewed, made, expected>>, FileOK(file'),
                cache' \in Units \cup {None},
                \/ \E s \in Images : Keeps(img, s) /\ img' = Dropped(s)
                \/ \E s \in Images : Sized(s) /\ img' = Dropped(ResetModifications(s))
         PROVE  IInv'
    <2>1. CASE \E s \in Images : Keeps(img, s) /\ img' = Dropped(s)
      <3>1. Keeps(img, img')
        BY <2>1, DroppedKeeps DEF Keeps
      <3> QED BY <1>1, <1>3, <1>14, <3>1, KeepsImgInv
    <2>2. CASE \E s \in Images : Sized(s) /\ img' = Dropped(ResetModifications(s))
      <3>1. /\ img' \in Images /\ Sized(img') /\ img'.undo = <<>> /\ img'.trans = None
        BY <2>2, ResetKeeps, DroppedKeeps DEF Keeps
      <3>2. Len(img'.undo) = 0 /\ 0 <= setting.maxUndo /\ Or(img'.trans) = Identity
        BY <1>1, <3>1, SettingIs DEF Or
      <3>3. ImgInv'
        BY <1>1, <3>1, <3>2, HistoryEmpty DEF ImgInv, Sized, History, Or
      <3> QED BY <1>1, <1>3, <1>14, <3>3
    <2> QED BY <1>14, <2>1, <2>2
  <1>15. /\ Needed(img) \in Images /\ Keeps(img, Needed(img)) /\ Sized(Needed(img))
         /\ Needed(img).image \in Units
    BY <1>1, <1>2, NeededKeeps DEF Keeps
  <1>16. CASE Save
    <2>1. \A read \in BOOLEAN : NotLoaded(img, read) \in Images /\ Keeps(img, NotLoaded(img, read))
      BY <1>1, <1>2, NotLoadedKeeps DEF Keeps
    <2>2. FileOK(Written(Needed(img)))
      BY <1>1, <1>15, WrittenOK
    <2>3. UNCHANGED <<viewed, made, expected>>
      BY <1>16 DEF Save
    <2>4. CASE img' = Dropped(Needed(img)) /\ UNCHANGED <<file, cache>>
      BY <1>1, <1>14, <1>15, <2>3, <2>4
    <2>5. CASE /\ file' = Written(Needed(img)) /\ cache' = None
               /\ img' = Dropped(ResetModifications(Needed(img)))
      BY <1>1, <1>14, <1>15, <2>2, <2>3, <2>5
    <2>6. CASE \E read \in BOOLEAN : /\ img' = Dropped(NotLoaded(img, read))
                                     /\ UNCHANGED <<file, cache>>
      BY <1>1, <1>14, <2>1, <2>3, <2>6
    <2> QED BY <1>16, <2>4, <2>5, <2>6 DEF Save
  <1>17. CASE SaveAs
    <2>1. {f.format : f \in setting.files} \subseteq Formats
      BY <1>1, SettingIs
    <2>2. \A format \in Formats : FileOK(WrittenAs(Needed(img), format))
      BY <1>1, <1>15, WrittenOK
    <2>3. UNCHANGED <<viewed, made, expected>>
      BY <1>17 DEF SaveAs
    <2>4. CASE img' = Dropped(Needed(img)) /\ UNCHANGED <<file, cache>>
      BY <1>1, <1>14, <1>15, <2>3, <2>4
    <2>5. CASE \E format \in {f.format : f \in setting.files} :
                 /\ file' = WrittenAs(Needed(img), format) /\ cache' = None
                 /\ img' = Dropped(ResetModifications(Needed(img)))
      <3>1. FileOK(file') /\ cache' = None
        BY <2>1, <2>2, <2>5
      <3> QED BY <1>14, <1>15, <2>3, <2>5, <3>1
    <2> QED BY <1>17, <2>4, <2>5 DEF SaveAs
  <1>18. CASE UNCHANGED vars
    <2>1. ImgInv'
      BY <1>1, <1>2, <1>18, KeepsImgInv DEF vars
    <2> QED BY <1>1, <1>3, <1>18, <2>1 DEF vars
  <1> QED BY <1>4, <1>5, <1>6, <1>7, <1>8, <1>9, <1>10, <1>11, <1>12, <1>13, <1>16,
             <1>17, <1>18 DEF Next

(* Every field keeps its type, whatever files, transforms and operations.  *)
THEOREM TypeCorrect == Spec => []TypeOK
  <1>1. Spec => []IInv
    BY InitIInv, NextIInv, PTL DEF Spec
  <1>2. IInv => TypeOK
    BY DEF IInv
  <1> QED BY <1>1, <1>2, PTL

(* The sizes the object answers are always those of the picture, in every  *)
(* order of loads, metadata loads, transforms, undos and saves.            *)
THEOREM SizesMatch == Spec => []SizeMatches
  <1>1. Spec => []IInv
    BY InitIInv, NextIInv, PTL DEF Spec
  <1>2. IInv => SizeMatches
    BY DEF IInv
  <1> QED BY <1>1, <1>2, PTL

(* The composed transform is always that of the stack, for stacks of every *)
(* length: what is applied at the next load is what can be undone.         *)
THEOREM UndoMatches == Spec => []UndoMatchesTrans
  <1>1. Spec => []IInv
    BY InitIInv, NextIInv, PTL DEF Spec
  <1>2. IInv => UndoMatchesTrans
    BY DEF IInv
  <1> QED BY <1>1, <1>2, PTL
-----------------------------------------------------------------------------
(* Images that need no autorotation *)

PlainImage(s) ==
  /\ s.auto = None /\ s.orientation \in {0, 1} /\ s.exif \in {1, None}
  /\ s.image # None => s.image = Compose(file.pix, Or(s.trans))

PlainInv == /\ file.tag \in {0, 1} /\ PlainImage(img)
            /\ expected = Compose(file.pix, Or(img.trans))

LEMMA LoadedPlain ==
  ASSUME FileOK(file), file.tag \in {0, 1}, NEW s \in Images, Sized(s), PlainImage(s)
  PROVE  /\ PlainImage(Loaded(s)) /\ PlainImage(Needed(s))
         /\ \A read \in BOOLEAN : PlainImage(NotLoaded(s, read))
  <1>1. ASSUME NEW t, NEW o \in {0, 1}, TurnedUpright(s, t, o)
        PROVE  t.auto = None /\ t.orientation \in {0, 1} /\ t.exif \in {1, None}
    BY <1>1 DEF TurnedUpright, ExifOf, PlainImage
  <1>2. PlainImage(Loaded(s))
    <2> DEFINE t == Loaded(s)
    <2>1. Keeps(s, t) /\ TurnedUpright(s, t, file.tag)
          /\ t.image = Compose(file.pix, Compose(Or(s.trans), Or(t.auto)))
      BY LoadedKeeps
    <2> HIDE DEF t
    <2>2. t.auto = None /\ t.orientation \in {0, 1} /\ t.exif \in {1, None}
      BY <1>1, <2>1
    <2>3. Compose(Or(s.trans), Or(t.auto)) = Or(t.trans)
      BY <2>1, <2>2, OrUnits, ComposeIdentity DEF Or, Images, Keeps
    <2>4. PlainImage(t)
      BY <2>1, <2>2, <2>3 DEF PlainImage
    <2> QED BY <2>4 DEF t
  <1>3. ASSUME NEW read \in BOOLEAN
        PROVE  PlainImage(NotLoaded(s, read))
    <2> DEFINE t == NotLoaded(s, read)
               o == IF file.format = "jpeg" THEN file.tag ELSE 0
    <2>1. Keeps(s, t) /\ t.image = s.image
          /\ IF read THEN TurnedUpright(s, t, o) ELSE t = s
      BY NotLoadedKeeps
    <2>2. o \in {0, 1}
      OBVIOUS
    <2> HIDE DEF t, o
    <2>3. read => t.auto = None /\ t.orientation \in {0, 1} /\ t.exif \in {1, None}
      BY <1>1, <2>1, <2>2
    <2>4. PlainImage(t)
      BY <2>1, <2>3 DEF PlainImage, Keeps
    <2> QED BY <2>4 DEF t
  <1>4. PlainImage(Needed(s))
    BY <1>2 DEF Needed
  <1> QED BY <1>2, <1>3, <1>4

LEMMA DroppedPlain ==
  ASSUME NEW s \in Images, PlainImage(s)
  PROVE  PlainImage(FreeMem(s)) /\ PlainImage(Dropped(s))
  <1>1. PlainImage(FreeMem(s))
    BY DEF PlainImage, FreeMem, Images
  <1> QED BY <1>1 DEF Dropped

(* A save writes the picture on the screen, with a tag that turns nothing. *)
LEMMA WrittenPlain ==
  ASSUME FileOK(file), file.tag \in {0, 1},
         NEW s \in Images, PlainImage(s), s.image \in Units
  PROVE  Written(s).pix = Compose(file.pix, Or(s.trans)) /\ Written(s).tag \in {0, 1}
  <1>1. Composition(s) = Or(s.trans)
    BY OrUnits, ComposeIdentity DEF PlainImage, Composition, Or, Images
  <1>2. s.image = Compose(file.pix, Or(s.trans)) /\ s.exif \in {1, None}
    BY NoneIsNoUnit DEF PlainImage
  <1> QED BY <1>1, <1>2 DEF Written, Lossless, PixbufSaved

LEMMA NextPlainInv ==
  ASSUME Plain, IInv, PlainInv, [Next]_vars
  PROVE  PlainInv'
  <1>1. /\ FileOK(file) /\ ImgInv /\ img \in Images /\ Sized(img)
        /\ expected \in Units /\ file.pix \in Units
        /\ Or(img.trans) \in Units /\ img.undo \in Seq(Units) /\ setting \in Settings
    BY IInvParts, OrUnits DEF ImgInv, Images, FileOK
  <1>2. file.tag \in {0, 1} /\ PlainImage(img) /\ expected = Compose(file.pix, Or(img.trans))
    BY DEF PlainInv
  <1>3. ASSUME UNCHANGED <<file, expected>>, PlainImage(img'), img'.trans = img.trans
        PROVE  PlainInv'
    BY <1>2, <1>3 DEF PlainInv, PlainImage, Or
  <1>4. CASE Load
    <2>1. PlainImage(img') /\ img'.trans = img.trans
      BY <1>1, <1>2, <1>4, LoadedPlain, LoadedKeeps, NotLoadedKeeps DEF Load, Keeps
    <2> QED BY <1>3, <1>4, <2>1 DEF Load
  <1>5. CASE Display
    BY <1>2, <1>3, <1>5 DEF Display
  <1>6. CASE Leave
    <2>1. PlainImage(img') /\ img'.trans = img.trans
      BY <1>1, <1>2, <1>6, DroppedPlain, FreeMemKeeps DEF Leave, Keeps
    <2> QED BY <1>3, <1>6, <2>1 DEF Leave
  <1>7. ~LoadExif /\ ~SaveAs
    BY DEF Plain, LoadExif, SaveAs
  <1>8. ASSUME NEW t \in Units, UNCHANGED file,
               img'.image = (IF img.image = None THEN None ELSE Compose(img.image, t)),
               Or(img'.trans) = Compose(Or(img.trans), t), img'.auto = img.auto,
               img.exif \in {1, None} => img'.exif \in {1, None},
               img'.orientation \in {img.orientation, 1},
               expected' = Compose(expected, t)
        PROVE  PlainInv'
    <2>1. Compose(expected, t) = Compose(file.pix, Or(img'.trans))
      BY <1>1, <1>2, <1>8, ComposeAssociative
    <2>2. img'.image # None => img'.image = Compose(file.pix, Or(img'.trans))
      BY <1>1, <1>2, <1>8, <2>1, ComposeAssociative DEF PlainImage
    <2> QED BY <1>2, <1>8, <2>1, <2>2 DEF PlainInv, PlainImage, Or
  <1>9. CASE Transform
    <2>1. PICK type \in setting.userTypes : /\ img' = Transformed(img, New(type), FALSE)
                                    /\ expected' = Compose(expected, New(type))
      BY <1>9 DEF Transform
    <2>2. New(type) \in Units
      BY <1>1, SettingIs DEF Units
    <2> DEFINE t == New(type)
    <2>3. /\ img'.image = (IF img.image = None THEN None ELSE Compose(img.image, t))
          /\ img'.trans = Compose(Or(img.trans), t) /\ img'.auto = img.auto
          /\ img.exif \in {1, None} => img'.exif \in {1, None}
          /\ img'.orientation \in {img.orientation, 1}
      BY <1>1, <2>1, <2>2, TransformedTypes
    <2>4. Or(img'.trans) = img'.trans
      BY <1>1, <2>2, <2>3, ComposeUnits, NoneIsNoUnit DEF Or
    <2> HIDE DEF t
    <2> QED BY <1>8, <1>9, <2>1, <2>2, <2>3, <2>4 DEF Transform, t
  <1>10. CASE Undo
    <2>1. CASE img.undo = <<>>
      <3>1. img' = [img EXCEPT !.modified = FALSE] /\ UNCHANGED <<file, expected>>
        BY <1>10, <2>1 DEF Undo
      <3>2. PlainImage(img') /\ img'.trans = img.trans
        BY <1>1, <1>2, <3>1 DEF PlainImage, Images
      <3> QED BY <1>3, <3>1, <3>2
    <2>2. CASE img.undo # <<>>
      <3> DEFINE t == Reversed(Head(img.undo))
      <3>1. img' = Undone(img) /\ expected' = Compose(expected, t) /\ UNCHANGED file
        BY <1>10, <2>2 DEF Undo
      <3>2. /\ t \in Units
            /\ img'.image = (IF img.image = None THEN None ELSE Compose(img.image, t))
            /\ Or(img'.trans) = Compose(Or(img.trans), t) /\ img'.auto = img.auto
            /\ img.exif \in {1, None} => img'.exif \in {1, None}
            /\ img'.orientation \in {img.orientation, 1}
        BY <1>1, <2>2, <3>1, UndoneTypes
      <3> HIDE DEF t
      <3> QED BY <1>8, <3>1, <3>2
    <2> QED BY <2>1, <2>2
  <1>11. CASE MakeThumbnail
    BY <1>2, <1>3, <1>11 DEF MakeThumbnail
  <1>12. CASE SetThumbnail \/ UnsetThumbnail \/ FileChanged
    <2>1. UNCHANGED <<file, expected>>
      BY <1>12 DEF SetThumbnail, UnsetThumbnail, FileChanged
    <2>2. /\ img'.image = img.image /\ img'.trans = img.trans /\ img'.auto = img.auto
          /\ img'.exif = img.exif /\ img'.orientation = img.orientation
      BY <1>1, <1>12 DEF SetThumbnail, UnsetThumbnail, FileChanged, Thumbnailed, Images
    <2>3. PlainImage(img')
      BY <1>2, <2>2 DEF PlainImage
    <2> QED BY <1>3, <2>1, <2>2, <2>3
  <1>13. CASE Save
    <2> DEFINE s == Needed(img)
    <2>1. Keeps(img, s) /\ s \in Images /\ Sized(s) /\ s.image \in Units /\ PlainImage(s)
      BY <1>1, <1>2, NeededKeeps, LoadedPlain DEF Keeps
    <2>2. s.trans = img.trans
      BY <2>1 DEF Keeps
    <2>3. UNCHANGED expected
      BY <1>13 DEF Save
    <2>4. CASE img' = Dropped(s) /\ UNCHANGED file
      <3>1. PlainImage(img') /\ img'.trans = img.trans
        BY <2>1, <2>2, <2>4, DroppedPlain, DroppedKeeps DEF Keeps
      <3> QED BY <1>3, <2>3, <2>4, <3>1
    <2>5. CASE file' = Written(s) /\ img' = Dropped(ResetModifications(s))
      <3> DEFINE r == ResetModifications(s)
      <3>1. /\ r \in Images /\ Sized(r) /\ r.trans = None /\ r.auto = None
            /\ r.image = s.image /\ r.exif = s.exif /\ r.orientation = s.orientation
        BY <2>1, ResetKeeps
      <3>2. file'.pix = expected /\ file'.tag \in {0, 1}
        BY <1>1, <1>2, <2>1, <2>2, <2>5, WrittenPlain
      <3>3. s.image = expected
        BY <1>2, <2>1, <2>2, NoneIsNoUnit DEF PlainImage
      <3>4. img' = r \/ img' = FreeMem(r)
        BY <2>5 DEF Dropped
      <3>5. FreeMem(r) = [r EXCEPT !.image = None, !.exif = None, !.metadata = "NOT_READ"]
        BY DEF FreeMem
      <3> HIDE DEF r, s
      <3>6. /\ img'.trans = None /\ img'.auto = None /\ img'.exif \in {s.exif, None}
            /\ img'.orientation = s.orientation /\ img'.image \in {s.image, None}
        <4>1. CASE img' = r
          BY <3>1, <4>1
        <4>2. CASE img' = FreeMem(r)
          <5>1. /\ img'.trans = r.trans /\ img'.auto = r.auto /\ img'.exif = None
                /\ img'.orientation = r.orientation /\ img'.image = None
            BY <3>1, <3>5, <4>2 DEF Images
          <5> QED BY <3>1, <5>1
        <4> QED BY <3>4, <4>1, <4>2
      <3>7. Compose(file'.pix, Or(img'.trans)) = expected
        BY <1>1, <3>2, <3>6, ComposeIdentity DEF Or
      <3> QED BY <2>1, <2>3, <3>2, <3>3, <3>6, <3>7 DEF PlainInv, PlainImage, Or
    <2>6. CASE \E read \in BOOLEAN : img' = Dropped(NotLoaded(img, read)) /\ UNCHANGED file
      <3>1. PICK read \in BOOLEAN : img' = Dropped(NotLoaded(img, read))
        BY <2>6
      <3>2. /\ NotLoaded(img, read) \in Images /\ Sized(NotLoaded(img, read))
            /\ PlainImage(NotLoaded(img, read)) /\ NotLoaded(img, read).trans = img.trans
        BY <1>1, <1>2, NotLoadedKeeps, LoadedPlain DEF Keeps
      <3>3. PlainImage(img') /\ img'.trans = img.trans
        BY <3>1, <3>2, DroppedPlain, DroppedKeeps DEF Keeps
      <3> QED BY <1>3, <2>3, <2>6, <3>3
    <2> HIDE DEF s
    <2> QED BY <1>13, <2>4, <2>5, <2>6 DEF Save, s
  <1>14. CASE UNCHANGED vars
    BY <1>2, <1>3, <1>14 DEF vars
  <1> QED BY <1>4, <1>5, <1>6, <1>7, <1>9, <1>10, <1>11, <1>12, <1>13, <1>14 DEF Next

LEMMA InitPlainInv ==
  ASSUME Plain, Init
  PROVE  PlainInv
  <1>1. file \in setting.files /\ file.pix = Identity /\ file.tag \in {0, 1}
    BY SettingIs DEF Init, Plain
  <1>2. Upright(file) = Identity
    <2>1. file.tag = 1 => New(AutorotateType(file.tag)) = Identity
      BY NewMatrices DEF AutorotateType, Identity
    <2> QED BY <1>1, <2>1, ComposeIdentity, IdentityIsUnit DEF Upright
  <1>3. PlainImage(img) /\ Or(img.trans) = Identity
    BY DEF Init, PlainImage, Or
  <1> QED BY <1>1, <1>2, <1>3, ComposeIdentity, IdentityIsUnit DEF Init, PlainInv

LEMMA SpecPlainInv == Spec => [](IInv /\ (Plain => PlainInv))
  <1>1. Init => IInv /\ (Plain => PlainInv)
    BY InitIInv, InitPlainInv
  <1>2. [Next]_vars => Plain' = Plain
    BY SettingKept DEF Plain
  <1>3. IInv /\ (Plain => PlainInv) /\ [Next]_vars => IInv' /\ (Plain' => PlainInv')
    BY <1>2, NextIInv, NextPlainInv
  <1> QED BY <1>1, <1>3, PTL DEF Spec

(* For images without an orientation, of every format, with every choice   *)
(* of transforms and undo stacks of every length: when nothing is left to  *)
(* undo, the picture the user made is the one in the file, whatever loads, *)
(* failures, frees and saves came between.                                 *)
THEOREM PlainSaved == Spec => []PlainSavedIsShown
  <1>1. IInv /\ (Plain => PlainInv) => PlainSavedIsShown
    <2> SUFFICES ASSUME IInv, PlainInv PROVE SavedIsShown
      BY DEF PlainSavedIsShown
    <2>1. FileOK(file) /\ History(img.undo, Or(img.trans))
      BY IInvParts DEF ImgInv
    <2>2. ASSUME img.undo = <<>> PROVE Upright(file) = expected
      <3>1. Or(img.trans) = Identity
        <4>1. Len(img.undo) = 0
          BY <2>2
        <4> QED BY <2>1, <4>1 DEF History
      <3>2. file.pix \in Units
        BY <2>1 DEF FileOK
      <3>3. file.tag = 1 => New(AutorotateType(file.tag)) = Identity
        BY NewMatrices DEF AutorotateType, Identity
      <3>4. file.tag \in {0, 1} /\ expected = Compose(file.pix, Or(img.trans))
        BY DEF PlainInv
      <3> QED BY <3>1, <3>2, <3>3, <3>4 DEF Upright
    <2> QED BY <2>2 DEF SavedIsShown
  <1> QED BY <1>1, SpecPlainInv, PTL
-----------------------------------------------------------------------------
(* Photographs of every orientation                                        *)

AutoOf(f) == IF f.tag \in 2 .. 8 THEN New(AutorotateType(f.tag)) ELSE None

(* The orientation is looked at once; the transform it asks for stays.     *)
CameraImage(s) ==
  /\ s.trans = None /\ s.undo = <<>> /\ s.modified = FALSE
  /\ IF s.autorotate THEN s.auto = None /\ s.orientation = 0 /\ s.image = None
                     ELSE s.auto = AutoOf(file)
  /\ {s.image, s.thumbnail} \subseteq {None, Upright(file)}

CameraInv == /\ file \in setting.files /\ expected = Upright(file) /\ CameraImage(img)
             /\ {made, cache} \subseteq {None, expected}

LEMMA AutoUpright ==
  ASSUME FileOK(file)
  PROVE  Upright(file) = Compose(file.pix, Or(AutoOf(file)))
  <1>1. CASE file.tag \in 2 .. 8
    <2>1. AutoOf(file) = New(AutorotateType(file.tag)) /\ AutoOf(file) \in Units
          /\ file.tag \in 1 .. 8
      BY <1>1, AutorotateUnits DEF AutoOf
    <2>2. Or(AutoOf(file)) = New(AutorotateType(file.tag))
      BY <2>1, NoneIsNoUnit DEF Or
    <2> QED BY <2>1, <2>2 DEF Upright
  <1>2. CASE file.tag \in {0, 1}
    <2>1. file.tag = 1 => New(AutorotateType(file.tag)) = Identity
      BY NewMatrices DEF AutorotateType, Identity
    <2> QED BY <1>2, <2>1 DEF Upright, AutoOf, Or
  <1> QED BY <1>1, <1>2 DEF FileOK

LEMMA LoadedCamera ==
  ASSUME FileOK(file), file.format = "jpeg" \/ file.tag \in {0, 1},
         NEW s \in Images, Sized(s), CameraImage(s)
  PROVE  /\ CameraImage(Loaded(s)) /\ CameraImage(Needed(s))
         /\ \A read \in BOOLEAN : CameraImage(NotLoaded(s, read))
  <1>1. ASSUME NEW t, NEW o \in 0 .. 8, TurnedUpright(s, t, o),
               o \in 2 .. 8 \/ file.tag \in 2 .. 8 => o = file.tag
        PROVE  t.autorotate = FALSE /\ t.auto = AutoOf(file) /\ t.modified = FALSE
               /\ t.thumbnail = s.thumbnail
    <2>1. s.autorotate \in BOOLEAN
      BY DEF Images
    <2>2. CASE s.autorotate
      <3>1. t.orientation = o
        BY <1>1, <2>2 DEF TurnedUpright, CameraImage
      <3>2. t.auto = IF o \in 2 .. 8 THEN New(AutorotateType(o)) ELSE None
        BY <1>1, <2>2, <3>1 DEF TurnedUpright, CameraImage
      <3> QED BY <1>1, <3>2 DEF TurnedUpright, CameraImage, AutoOf
    <2>3. CASE ~s.autorotate
      BY <1>1, <2>3 DEF TurnedUpright, CameraImage
    <2> QED BY <2>2, <2>3
  <1>2. CameraImage(Loaded(s))
    <2> DEFINE t == Loaded(s)
    <2>1. Keeps(s, t) /\ TurnedUpright(s, t, file.tag)
          /\ t.image = Compose(file.pix, Compose(Or(s.trans), Or(t.auto)))
      BY LoadedKeeps
    <2> HIDE DEF t
    <2>2. /\ t.autorotate = FALSE /\ t.auto = AutoOf(file) /\ t.modified = FALSE
          /\ t.thumbnail = s.thumbnail
      BY <1>1, <2>1 DEF FileOK
    <2>3. t.image = Upright(file)
      <3>1. s.trans = None /\ t.auto \in Units \cup {None}
        BY <2>1 DEF CameraImage, Keeps, Images
      <3>2. Compose(Or(s.trans), Or(t.auto)) = Or(t.auto)
        BY <3>1, OrUnits, ComposeIdentity DEF Or
      <3> QED BY <2>1, <2>2, <3>2, AutoUpright
    <2>4. CameraImage(t)
      BY <2>1, <2>2, <2>3 DEF CameraImage, Keeps
    <2> QED BY <2>4 DEF t
  <1>3. ASSUME NEW read \in BOOLEAN
        PROVE  CameraImage(NotLoaded(s, read))
    <2> DEFINE t == NotLoaded(s, read)
               o == IF file.format = "jpeg" THEN file.tag ELSE 0
    <2>1. Keeps(s, t) /\ t.image = s.image
          /\ IF read THEN TurnedUpright(s, t, o) ELSE t = s
      BY NotLoadedKeeps
    <2>2. o \in 0 .. 8 /\ (o \in 2 .. 8 \/ file.tag \in 2 .. 8 => o = file.tag)
      BY DEF FileOK
    <2> HIDE DEF t, o
    <2>3. read => /\ t.autorotate = FALSE /\ t.auto = AutoOf(file) /\ t.modified = FALSE
                  /\ t.thumbnail = s.thumbnail
      BY <1>1, <2>1, <2>2
    <2>4. CameraImage(t)
      BY <2>1, <2>3 DEF CameraImage, Keeps
    <2> QED BY <2>4 DEF t
  <1>4. CameraImage(Needed(s))
    BY <1>2 DEF Needed
  <1> QED BY <1>2, <1>3, <1>4

LEMMA DroppedCamera ==
  ASSUME NEW s \in Images, CameraImage(s)
  PROVE  CameraImage(FreeMem(s)) /\ CameraImage(Dropped(s))
  <1>1. CameraImage(FreeMem(s))
    <2>1. LET t == FreeMem(s)
          IN /\ t.image = None /\ t.thumbnail = s.thumbnail /\ t.trans = s.trans
             /\ t.undo = s.undo /\ t.modified = s.modified /\ t.auto = s.auto
             /\ t.autorotate = s.autorotate /\ t.orientation = s.orientation
      BY DEF FreeMem, Images
    <2> QED BY <2>1 DEF CameraImage
  <1> QED BY <1>1 DEF Dropped

LEMMA NextCameraInv ==
  ASSUME Camera, IInv, CameraInv, [Next]_vars
  PROVE  CameraInv'
  <1>1. /\ FileOK(file) /\ img \in Images /\ Sized(img) /\ UNCHANGED setting
    BY IInvParts, SettingKept DEF ImgInv
  <1>2. /\ file.format = "jpeg" \/ file.tag \in {0, 1}
        /\ CameraImage(img) /\ expected = Upright(file)
        /\ {made, cache} \subseteq {None, expected} /\ file \in setting.files
    BY DEF Camera, CameraInv
  <1>3. ASSUME UNCHANGED <<file, expected>>, CameraImage(img'),
               {made', cache'} \subseteq {None, expected}
        PROVE  CameraInv'
    BY <1>1, <1>2, <1>3 DEF CameraInv, CameraImage, AutoOf, Upright
  <1>4. CASE Load
    <2>1. CameraImage(img')
      BY <1>1, <1>2, <1>4, LoadedCamera DEF Load
    <2> QED BY <1>2, <1>3, <1>4, <2>1 DEF Load
  <1>5. CASE Display
    BY <1>2, <1>3, <1>5 DEF Display
  <1>6. CASE Leave
    <2>1. CameraImage(img')
      BY <1>1, <1>2, <1>6, DroppedCamera DEF Leave
    <2> QED BY <1>2, <1>3, <1>6, <2>1 DEF Leave
  <1>7. ~LoadExif /\ ~SaveAs /\ ~Transform
    BY DEF Camera, LoadExif, SaveAs, Transform
  <1>8. CASE Undo
    <2>1. img' = [img EXCEPT !.modified = FALSE] /\ UNCHANGED <<file, expected, made, cache>>
      BY <1>2, <1>8 DEF Undo, CameraImage
    <2>2. img' = img
      BY <1>1, <1>2, <2>1 DEF Images, CameraImage
    <2> QED BY <1>2, <1>3, <2>1, <2>2
  <1>9. CASE MakeThumbnail
    <2>1. made' \in {None, expected} /\ cache' = made'
      BY <1>2, <1>9 DEF MakeThumbnail, CameraImage
    <2> QED BY <1>2, <1>3, <1>9, <2>1 DEF MakeThumbnail
  <1>10. CASE SetThumbnail
    <2>1. made = expected /\ made \in Units /\ img.trans = None
      BY <1>1, <1>2, <1>10, UprightUnits DEF SetThumbnail, CameraImage
    <2>2. Compose(made, Or(img.trans)) = expected
      BY <2>1, ComposeIdentity DEF Or
    <2>3. img' = [img EXCEPT !.thumbnail = expected]
      BY <1>10, <2>2 DEF SetThumbnail, Thumbnailed
    <2>4. /\ img'.image = img.image /\ img'.thumbnail = expected /\ img'.trans = img.trans
          /\ img'.undo = img.undo /\ img'.modified = img.modified /\ img'.auto = img.auto
          /\ img'.autorotate = img.autorotate /\ img'.orientation = img.orientation
      BY <1>1, <2>3 DEF Images
    <2>5. CameraImage(img')
      BY <1>2, <2>4 DEF CameraImage
    <2> QED BY <1>2, <1>3, <1>10, <2>5 DEF SetThumbnail
  <1>11. CASE UnsetThumbnail \/ FileChanged
    <2>1. /\ img'.image = img.image /\ img'.thumbnail \in {img.thumbnail, None}
          /\ img'.trans = img.trans /\ img'.undo = img.undo
          /\ img'.modified = img.modified /\ img'.auto = img.auto
          /\ img'.autorotate = img.autorotate /\ img'.orientation = img.orientation
      BY <1>1, <1>11 DEF UnsetThumbnail, FileChanged, Images
    <2>2. CameraImage(img')
      BY <1>2, <2>1 DEF CameraImage
    <2> QED BY <1>2, <1>3, <1>11, <2>2 DEF UnsetThumbnail, FileChanged
  <1>12. CASE Save
    <2>1. ~img.modified
      BY <1>2 DEF CameraImage
    <2>2. /\ Needed(img) \in Images /\ CameraImage(Needed(img))
          /\ \A read \in BOOLEAN : /\ NotLoaded(img, read) \in Images
                                   /\ CameraImage(NotLoaded(img, read))
      BY <1>1, <1>2, NeededKeeps, NotLoadedKeeps, LoadedCamera DEF Keeps
    <2>3. UNCHANGED <<file, cache, made, expected>>
      BY <1>12, <2>1 DEF Save
    <2>4. CameraImage(img')
      BY <1>12, <2>1, <2>2, DroppedCamera DEF Save
    <2> QED BY <1>2, <1>3, <2>3, <2>4
  <1>13. CASE UNCHANGED vars
    BY <1>2, <1>3, <1>13 DEF vars
  <1> QED BY <1>4, <1>5, <1>6, <1>7, <1>8, <1>9, <1>10, <1>11, <1>12, <1>13 DEF Next

LEMMA SpecCameraInv == Spec => [](IInv /\ (Camera => CameraInv))
  <1>1. Init => IInv /\ (Camera => CameraInv)
    <2> SUFFICES ASSUME Init PROVE CameraInv
      BY InitIInv
    <2> QED BY DEF Init, CameraInv, CameraImage
  <1>2. [Next]_vars => Camera' = Camera
    BY SettingKept DEF Camera
  <1>3. IInv /\ (Camera => CameraInv) /\ [Next]_vars => IInv' /\ (Camera' => CameraInv')
    BY <1>2, NextIInv, NextCameraInv
  <1> QED BY <1>1, <1>3, PTL DEF Spec

(* For photographs of every orientation, that the user does not turn: the  *)
(* thumbnail, whether it was made from the pixels, the file or the cache,  *)
(* stands upright once, whatever loads, failures, frees, saves and writes  *)
(* by others came between.                                                 *)
THEOREM CameraThumbnail == Spec => []CameraThumbnailIsExpected
  <1>1. (Camera => CameraInv) => CameraThumbnailIsExpected
    BY DEF CameraInv, CameraImage, ThumbnailIsExpected, CameraThumbnailIsExpected
  <1> QED BY <1>1, SpecCameraInv, PTL

(* The picture in memory is the file upright, once, with what the user did *)
(* to it: for images without an orientation and for photographs of every   *)
(* orientation that the user does not turn.                                *)
THEOREM LoadedExpected == Spec => []LoadedIsExpected
  <1>1. (Plain => PlainInv) /\ (Camera => CameraInv) => LoadedIsExpected
    BY DEF PlainInv, PlainImage, CameraInv, CameraImage, ShownIsExpected, LoadedIsExpected
  <1> QED BY <1>1, SpecPlainInv, SpecCameraInv, PTL

(* And such a photograph's file stays upright as it is.                    *)
THEOREM CameraSaved == Spec => [](Camera => SavedIsShown)
  <1>1. (Camera => CameraInv) => (Camera => SavedIsShown)
    BY DEF CameraInv, SavedIsShown
  <1> QED BY <1>1, SpecCameraInv, PTL
=============================================================================
