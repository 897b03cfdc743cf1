------------------------ MODULE EomMetadataReaderJpg ------------------------
(***************************************************************************)
(* src/src/eom-metadata-reader-jpg.c: the parser that takes the EXIF, XMP, *)
(* ICC and IPTC segments out of a JPEG file while the file is read, buffer *)
(* by buffer (eom_image_real_load). A buffer may end anywhere. A step is   *)
(* one round of the loop in eom_metadata_reader_jpg_consume.               *)
(*                                                                         *)
(* The identifications are shorter than the real ones ("Exif", the name    *)
(* space of XMP, "ICC_PROFILE") and one number in 0..255 is a byte.        *)
(***************************************************************************)
EXTENDS Integers, Sequences, SequencesExt

CONSTANTS Files    \* sequences of segments, [marker, body]

VARIABLES file,   \* the segments of the file
          pos,    \* bytes of it that have been consumed
          end,    \* the end of the buffer being consumed
          r,      \* EomMetadataReaderJpgPrivate
          image   \* the metadata of the image

readerVars == <<file, pos, end, r, image>>

Start == 255  Soi == 216  Dqt == 219
App1 == 225  App2 == 226  App14 == 237
Com == 254

ExifId == <<1, 1>>
XmpId == <<1, 2, 3>>
IccId == <<7, 7>>
OnlyChunk == <<1, 1>>    \* chunk 1 of 1
Invalid == 0             \* lcms does not take the profile

Kinds == {"EXIF", "XMP", "ICC", "IPTC"}
Words == 0..65535        \* two bytes
Null == [len |-> -1, data |-> <<>>]    \* NULL
NotRead == [exif |-> Null, xmp |-> Null, profile |-> "NOT_READ"]

\* A segment and its size, which counts the two bytes it takes
Encoded(s) ==
  LET size == Len(s.body) + 2
  IN <<Start, s.marker, size \div 256, size % 256>> \o s.body
Bytes == <<Start, Soi>> \o FlattenSeq([k \in DOMAIN file |-> Encoded(file[k])])
         \o <<Start, Dqt, 0, 3, 0>>

\* Where the body of a segment begins
BodyAt(k) == 7 + Len(FlattenSeq([n \in 1..(k - 1) |-> Encoded(file[n])]))

Init ==
  /\ file \in Files
  /\ pos = 0 /\ end = 0 /\ image = NotRead
  /\ r = [state |-> "READ", size |-> 0, marker |-> 0, read |-> 0,
          chunk |-> [kind \in Kinds |-> Null],
          astray |-> FALSE, guessed |-> FALSE]    \* history, see SegmentsAsWritten
-----------------------------------------------------------------------------
Byte == Bytes[pos + 1]
Left == end - pos    \* len - i

IsFinished(s) == s.state = "READ" /\ \A kind \in Kinds : s.chunk[kind] # Null

\* The loop goes on after n bytes.
Goes(s, n) == r' = s /\ pos' = pos + n /\ UNCHANGED <<file, end, image>>

\* eom_image_real_load: the next buffer. The first one has the marker that makes a
\* reader (check_for_metadata_img_format).
Consume ==
  /\ pos = end /\ r.state # "FINISHED"
  /\ end' \in (end + 1)..Len(Bytes) /\ end' >= 2
  /\ UNCHANGED <<file, pos, r, image>>

In(state) == Left > 0 /\ r.state = state

ReadStart ==
  /\ In("READ")
  /\ Goes([r EXCEPT !.state = IF Byte = Start THEN "READ_MARKER" ELSE "FINISHED"], 1)

\* APPn and COM have a size; any other marker is passed over.
ReadMarker ==
  /\ In("READ_MARKER")
  /\ Goes(IF Byte \in 224..239 \cup {Com}
          THEN [r EXCEPT !.marker = Byte, !.size = 0, !.state = "READ_SIZE_HIGH_BYTE"]
          ELSE [r EXCEPT !.state = "READ"], 1)

ReadSizeHighByte ==
  /\ In("READ_SIZE_HIGH_BYTE")
  /\ Goes([r EXCEPT !.size = 256 * Byte, !.state = "READ_SIZE_LOW_BYTE"], 1)

\* The two bytes of the size do not count, unless there are no others.
ReadSizeLowByte ==
  /\ In("READ_SIZE_LOW_BYTE")
  /\ LET given == r.size + Byte
         size == IF given > 2 THEN given - 2 ELSE given
         Wanted(kind) == r.chunk[kind] = Null
         state == CASE size = 0 -> "READ"
                    [] size # 0 /\ r.marker = App1 /\ (Wanted("EXIF") \/ Wanted("XMP")) -> "READ_APP1"
                    [] size # 0 /\ r.marker = App2 /\ Wanted("ICC")
                       /\ size > Len(IccId \o OnlyChunk) -> "ICC"
                    [] size # 0 /\ r.marker = App14 /\ Wanted("IPTC") -> "IPTC"
                    [] OTHER -> "SKIP_BYTES"
     IN Goes([r EXCEPT !.size = size, !.marker = 0, !.state = state,
                       !.astray = @ \/ given = 2], 1)

SkipBytes ==
  /\ In("SKIP_BYTES")
  /\ IF r.size < Left THEN Goes([r EXCEPT !.size = 0, !.state = "READ"], r.size)
     ELSE Goes([r EXCEPT !.size = @ - Left, !.state = IF r.size = Left THEN "READ" ELSE @], Left)

\* Mutant: what has been read of a chunk is forgotten between two buffers.
NextBlockAnew(s, kind) ==
  LET n == IF s.size < Left THEN s.size ELSE Left
      took == [k \in DOMAIN s.chunk[kind].data |->
                 IF k <= n THEN pos + k ELSE s.chunk[kind].data[k]]
  IN [s EXCEPT !.chunk[kind].data = took, !.size = @ - n,
               !.state = IF s.size < Left THEN "READ" ELSE kind]

\* get_next_block: as much of a chunk as there is in the buffer
NextBlock(s, kind) ==
  LET n == IF s.size < Left THEN s.size ELSE Left
      took == [k \in DOMAIN s.chunk[kind].data |->
                 IF k \in (s.read + 1)..(s.read + n) THEN pos + k - s.read
                 ELSE s.chunk[kind].data[k]]
  IN IF s.size < Left
     THEN [s EXCEPT !.chunk[kind].data = took, !.state = "READ"]
     ELSE [s EXCEPT !.chunk[kind].data = took, !.read = @ + n, !.size = @ - n, !.state = kind]

Allocated(s, kind) ==
  [s EXCEPT !.chunk[kind] = [len |-> s.size, data |-> [k \in 1..s.size |-> 0]], !.read = 0]

Finish(s) == IF IsFinished(s) THEN [s EXCEPT !.state = "FINISHED"] ELSE s

Advance(s, t) == Goes(Finish(t), IF s.size < Left THEN s.size ELSE Left)

\* strncmp with the bytes at hand; past the end of the buffer there may be anything.
Matches(id) ==
  LET seen == IF Len(id) < Left THEN Len(id) ELSE Left
  IN SubSeq(Bytes, pos + 1, pos + seen) = SubSeq(id, 1, seen)
AllRead(id) == Len(id) <= Left

\* eom_metadata_identify_app1: what it may answer
App1Types ==
  LET Agrees(id) == r.size >= Len(id) /\ Matches(id)
      Surely(id) == Agrees(id) /\ AllRead(id)
  IN CASE Surely(ExifId) -> {"EXIF"}
       [] ~Surely(ExifId) /\ Surely(XmpId) -> {"XMP"}
       [] OTHER -> {"OTHER"} \cup {type \in {"EXIF", "XMP"} :
                                     Agrees(IF type = "EXIF" THEN ExifId ELSE XmpId)}

ReadApp1 ==
  /\ In("READ_APP1")
  /\ \E type \in App1Types :
       LET s == [r EXCEPT !.guessed = @ \/ App1Types # {type}]
       IN IF type = "OTHER" \/ r.chunk[type] # Null
          THEN Goes([s EXCEPT !.state = "SKIP_BYTES", !.astray = TRUE], 1)
          ELSE Advance(s, NextBlock(Allocated(s, type), type))

\* The rest of an EXIF or XMP chunk, or an IPTC chunk from its beginning
ReadChunk(kind) ==
  /\ In(kind)
  /\ LET s == IF r.chunk[kind] = Null THEN Allocated(r, kind) ELSE r
     IN Advance(s, NextBlock(s, kind))

\* Only when it is complete it is looked at.
ReadIcc ==
  /\ In("ICC")
  /\ LET s == IF r.chunk["ICC"] = Null THEN Allocated(r, "ICC") ELSE r
         t == NextBlock(s, "ICC")
         content == [k \in DOMAIN t.chunk["ICC"].data |-> Bytes[t.chunk["ICC"].data[k]]]
         valid == IsPrefix(IccId \o OnlyChunk, content)
     IN Advance(s, IF t.state = "READ" /\ ~valid THEN [t EXCEPT !.chunk["ICC"] = Null] ELSE t)

\* get_icc_profile: the embedded profile, or else what EXIF says of the colours
IccProfile(icc, exif) ==
  LET Content(chunk) == Bytes[chunk.data[chunk.len]]    \* stands for the content
  IN CASE icc # Null /\ Content(icc) # Invalid -> "embedded"
       [] (icc = Null \/ Content(icc) = Invalid) /\ exif # Null ->
            CASE Content(exif) = 1 -> "sRGB" [] Content(exif) = 255 -> "calibrated" [] OTHER -> "none"
       [] OTHER -> "none"

\* eom_image_real_load takes the metadata when the reader is finished, once.
SetMetadata ==
  /\ r.state = "FINISHED" /\ image = NotRead
  /\ image' = [exif |-> r.chunk["EXIF"], xmp |-> r.chunk["XMP"],
               profile |-> IccProfile(r.chunk["ICC"], r.chunk["EXIF"])]
  /\ UNCHANGED <<file, pos, end, r>>

Next ==
  \/ Consume \/ SetMetadata
  \/ ReadStart \/ ReadMarker \/ ReadSizeHighByte \/ ReadSizeLowByte
  \/ SkipBytes \/ ReadApp1 \/ ReadIcc
  \/ \E kind \in {"EXIF", "XMP", "IPTC"} : ReadChunk(kind)
-----------------------------------------------------------------------------
(* Properties *)

IsKind(s, kind) ==
  CASE kind = "EXIF" -> s.marker = App1 /\ IsPrefix(ExifId, s.body)
    [] kind = "XMP" -> s.marker = App1 /\ IsPrefix(XmpId, s.body)
    [] kind = "ICC" -> /\ s.marker = App2 /\ IsPrefix(IccId \o OnlyChunk, s.body)
                       /\ Len(s.body) > Len(IccId \o OnlyChunk)
    [] kind = "IPTC" -> s.marker = App14 /\ s.body # <<>>

\* The positions of the first segment of a kind
FirstOf(kind) ==
  LET k == SelectInSeq(file, LAMBDA s : IsKind(s, kind))
  IN IF k = 0 THEN Null
     ELSE [len |-> Len(file[k].body), data |-> [n \in DOMAIN file[k].body |-> BodyAt(k) + n - 1]]

AllFound ==
  /\ \A kind \in Kinds : r.chunk[kind] = FirstOf(kind)
  /\ image # NotRead =>
       image = [exif |-> FirstOf("EXIF"), xmp |-> FirstOf("XMP"),
                profile |-> IccProfile(FirstOf("ICC"), FirstOf("EXIF"))]

\* Every variable has its type; the parser is in the buffer.
TypeOK ==
  /\ file \in Files /\ pos \in 0..end /\ end \in 0..Len(Bytes)
  /\ r.state \in Kinds \cup {"READ", "READ_MARKER", "READ_SIZE_HIGH_BYTE", "READ_SIZE_LOW_BYTE",
                           "READ_APP1", "SKIP_BYTES", "FINISHED"}
  /\ r.size \in Words /\ r.marker \in 0..255 /\ r.read \in Nat
  /\ \A kind \in Kinds : r.chunk[kind].len \in {-1} \cup Words

\* Wherever the buffers end, a chunk that is complete is the first segment of its
\* kind, byte for byte, and when the parser is done it has found all there are. It
\* goes astray (eom_metadata_reader_jpg_consume) when it skips an APP1 segment, one
\* byte too far, or an empty segment, two bytes too far; and it has to guess when the
\* end of a buffer cuts an identification in two.
SegmentsAsWritten ==
  ~r.astray /\ ~r.guessed =>
    /\ \A kind \in Kinds \ {r.state} : r.chunk[kind] \in {Null, FirstOf(kind)}
    /\ r.state = "FINISHED" \/ pos = Len(Bytes) => AllFound
=============================================================================
