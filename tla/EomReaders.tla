------------------------------ MODULE EomReaders ------------------------------
(***************************************************************************)
(* The two metadata readers, side by side: each gets a file in buffers     *)
(* that end anywhere, and picks the segments or chunks that are metadata.  *)
(***************************************************************************)
EXTENDS EomPart, Integers, Sequences

CONSTANTS JpegFiles,                                     \* of EomMetadataReaderJpg
          PngImages, PngSignature, XmpBegin, ChunkSizes,
          Checksum(_, _)                                 \* of EomMetadataReaderPng

VARIABLES source, readTo, buffered, reader, metadata

Jpg == INSTANCE EomMetadataReaderJpg WITH
  Files <- JpegFiles,
  file <- source, pos <- readTo, end <- buffered, r <- reader, image <- metadata
Png == INSTANCE EomMetadataReaderPng WITH
  Images <- PngImages, Signature <- PngSignature, XmpId <- XmpBegin, Sizes <- ChunkSizes,
  Crc32 <- Checksum,
  chunks <- source, pos <- readTo, end <- buffered, r <- reader, image <- metadata

\* A segment that is not APPn or COM ends what the reader has to do with, and a size has two
\* bytes.
Segments == [marker : 224..239 \cup {Jpg!Com}, body : Seq(0..255)]
JpgAssumption ==
  \A f \in JpegFiles : f \in Seq(Segments) /\ \A k \in DOMAIN f : Len(f[k].body) <= 65533

\* The end of an image is its last chunk.  All that is known of a checksum is that it has four
\* bytes.
Chunks == [name : DOMAIN Png!NameByte, body : Seq(0..255), good : BOOLEAN]
PngAssumption ==
  /\ PngSignature \in Seq(0..255) /\ PngSignature # <<>> /\ XmpBegin \in Seq(0..255)
  /\ ChunkSizes \in [(Png!Kinds \cup {"IHDR"}) \ {"iCCP"} -> Nat]
  /\ \A f \in PngImages : f \in Seq(Chunks) /\ \A k \in DOMAIN f :
       /\ Len(f[k].body) <= Png!MaxSize
       /\ Checksum(Png!Name(f[k]), f[k].body) \in [1..4 -> 0..255]
       /\ f[k].name = "IEND" => k = Len(f)

ASSUME ReadersAssumption == JpgAssumption /\ PngAssumption

readerVars == <<source, readTo, buffered, reader, metadata>>

ReadersInit ==
  CASE part = "jpg" -> Jpg!Init
    [] part = "png" -> Png!Init
    [] OTHER -> /\ source = Off /\ readTo = Off /\ buffered = Off /\ reader = Off
                /\ metadata = Off

ReadersNext ==
  \/ part = "jpg" /\ Jpg!Next /\ UNCHANGED part
  \/ part = "png" /\ Png!Next /\ UNCHANGED part

ReadersSpec == ReadersInit /\ [][ReadersNext]_<<part, readerVars>>
-----------------------------------------------------------------------------
\* However the file is cut into buffers, the metadata are those of its segments or chunks
\* (eom_metadata_reader_jpg_consume, eom_metadata_reader_png_consume).
MetadataAsWritten ==
  /\ part = "jpg" => Jpg!SegmentsAsWritten
  /\ part = "png" => Png!ChunksAsWritten
=============================================================================
