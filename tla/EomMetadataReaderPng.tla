------------------------ MODULE EomMetadataReaderPng ------------------------
(***************************************************************************)
(* src/src/eom-metadata-reader-png.c: the parser that takes the chunks     *)
(* about colours and the XMP packet out of a PNG file while the file is    *)
(* read, buffer by buffer. A step is one round of the loop in              *)
(* eom_metadata_reader_png_consume.                                        *)
(*                                                                         *)
(* A chunk of the file is [name, body, good]: good if its CRC is right. A  *)
(* number in 0..255 is a byte, and a name one byte four times; the         *)
(* signature and the identification of an XMP packet are constants.        *)
(***************************************************************************)
EXTENDS Integers, Sequences, SequencesExt

CONSTANTS Images,      \* sequences of chunks
          Signature,   \* PNGMAGIC
          XmpId,       \* what an iTXt chunk with an XMP packet begins with
          Sizes,       \* the size that is asked of a chunk, by name
          Crc32(_, _)  \* of the name and the body of a chunk

VARIABLES chunks,  \* the chunks of the file
          pos,     \* bytes of it that have been consumed
          end,     \* the end of the buffer being consumed
          r,       \* EomMetadataReaderPngPrivate
          image    \* the metadata of the image

readerVars == <<chunks, pos, end, r, image>>

Word == 4                \* bytes of a size, a name, a CRC
MaxSize == 2147483647    \* of a chunk
NameByte == [IHDR |-> 101, iTXt |-> 102, iCCP |-> 103, sRGB |-> 104, cHRM |-> 105,
             gAMA |-> 106, IEND |-> 107, other |-> 108]
Kinds == {"iTXt", "iCCP", "sRGB", "cHRM", "gAMA"}
Null == [len |-> -1, data |-> <<>>]    \* NULL
NotRead == [xmp |-> Null, profile |-> "NOT_READ"]
Deflate == 9    \* a profile of another compression method is not taken

Field(byte) == [n \in 1..Word |-> byte]
Name(c) == Field(NameByte[c.name])
Size(c) ==
  LET n == Len(c.body)
      high == (n \div 256) \div 256
  IN <<high \div 256, high % 256, (n \div 256) % 256, n % 256>>
Damaged(crc) == [n \in 1..Word |-> IF n = 1 THEN (crc[n] + 1) % 256 ELSE crc[n]]

Encoded(c) ==
  LET crc == Crc32(Name(c), c.body)
  IN Size(c) \o Name(c) \o c.body \o IF c.good THEN crc ELSE Damaged(crc)
Bytes == Signature \o FlattenSeq([k \in DOMAIN chunks |-> Encoded(chunks[k])])

Init ==
  /\ chunks \in Images
  /\ pos = 0 /\ end = 0 /\ image = NotRead
  /\ r = [state |-> "MAGIC", step |-> 0, size |-> 0, read |-> 0, hasIHDR |-> FALSE,
          name |-> <<>>,          \* chunk_name
          target |-> <<>>,        \* target_crc
          crcFor |-> "none",      \* crc_chunk and crc_len
          chunk |-> [kind \in Kinds |-> Null],
          cut |-> FALSE]          \* history, see ChunksAsWritten
-----------------------------------------------------------------------------
Left == end - pos    \* len - i
Byte == Bytes[pos + 1]
Lower(p, q) == IF p < q THEN p ELSE q

\* The loop goes on after n bytes.
Goes(s, n) == r' = s /\ pos' = pos + n /\ UNCHANGED <<chunks, end, image>>

In(state) == Left > 0 /\ r.state = state

\* eom_image_real_load: the next buffer. The first one has the signature that makes a
\* reader (check_for_metadata_img_format).
Consume ==
  /\ pos = end /\ r.state # "FINISHED"
  /\ end' \in (end + 1)..Len(Bytes) /\ end' >= Len(Signature)
  /\ UNCHANGED <<chunks, pos, r, image>>

ReadMagic ==
  /\ In("MAGIC")
  /\ Goes(IF Byte = Signature[r.step + 1]
          THEN [r EXCEPT !.step = @ + 1, !.state = IF r.step = Len(Signature) - 1 THEN "SIZE" ELSE @]
          ELSE [r EXCEPT !.state = "FINISHED"], 1)

\* The states EMR_READ_SIZE_HIGH_HIGH_BYTE and so on, counted by width. The first three
\* bytes tell whether the size is more than a chunk may have.
ReadSize(width) ==
  /\ In("SIZE") /\ r.read = width
  /\ LET s == [r EXCEPT !.size = 256 * @ + Byte]
     IN Goes(CASE width < Word - 1 -> [s EXCEPT !.read = width + 1]
               [] width = Word - 1 /\ r.size <= MaxSize \div 256 ->
                    [s EXCEPT !.read = 0, !.step = 0, !.name = <<>>, !.state = "NAME"]
               [] OTHER -> [r EXCEPT !.state = "FINISHED"], 1)

Is(name, kind) == name = Field(NameByte[kind])

\* What to do with a chunk, by its name
Wanted(s) ==
  LET New(kind) == Is(s.name, kind) /\ s.chunk[kind] = Null
  IN CASE New("iTXt") /\ s.size > Sizes["iTXt"] -> "iTXt"
       [] New("iCCP") -> "iCCP"
       [] \E kind \in {"sRGB", "cHRM", "gAMA"} : New(kind) /\ s.size = Sizes[kind] ->
            CHOOSE kind \in {"sRGB", "cHRM", "gAMA"} : New(kind)
       [] Is(s.name, "IEND") -> "FINISHED"
       [] OTHER -> "SKIP_BYTES"

\* That the first chunk is none of the header's is noted (FINISHED) and then
\* overwritten by what its name says.
ReadChunkName ==
  /\ In("NAME")
  /\ LET s == [r EXCEPT !.name = Append(@, Byte), !.step = @ + 1]
         t == [s EXCEPT !.hasIHDR = @ \/ (Is(s.name, "IHDR") /\ s.size = Sizes["IHDR"]),
                        !.state = Wanted(s), !.step = 0,
                        !.size = IF Wanted(s) = "SKIP_BYTES" THEN @ + Word ELSE @]
     IN Goes(IF s.step < Word THEN s ELSE t, 1)

\* The rest of a chunk and its CRC, or the CRC alone, which is skipped anew when a
\* buffer ends in it
SkipBytes ==
  /\ Left > 0 /\ r.state \in {"SKIP_BYTES", "SKIP_CRC"}
  /\ LET size == IF r.state = "SKIP_CRC" THEN Word ELSE r.size
     IN IF size < Left THEN Goes([r EXCEPT !.size = 0, !.read = 0, !.state = "SIZE"], size)
        ELSE Goes([r EXCEPT !.size = size - Left, !.cut = @ \/ r.state = "SKIP_CRC"], Left)

CheckCrc ==
  /\ In("CHECK_CRC")
  /\ LET s == [r EXCEPT !.target = IF r.step = 0 THEN <<Byte>> ELSE Append(@, Byte),
                        !.step = @ + 1]
         body == [n \in 1..r.chunk[r.crcFor].len |->
                    IF r.chunk[r.crcFor].data[n] = 0 THEN 0 ELSE Bytes[r.chunk[r.crcFor].data[n]]]
     IN Goes(IF s.step < Word THEN s
             ELSE IF s.target = Crc32(r.name, body) THEN [s EXCEPT !.state = "SIZE", !.step = 0, !.read = 0]
             ELSE [s EXCEPT !.state = "FINISHED", !.step = 0, !.chunk[r.crcFor] = Null], 1)

Allocated(s, kind) ==
  IF s.chunk[kind] # Null THEN s
  ELSE [s EXCEPT !.chunk[kind] = [len |-> s.size, data |-> [n \in 1..s.size |-> 0]],
                 !.crcFor = kind, !.read = 0]

\* get_next_block: as much of a chunk as there is in the buffer
NextBlock(s, kind, state) ==
  LET n == Lower(s.size, Left)
      took == [k \in DOMAIN s.chunk[kind].data |->
                 IF k \in (s.read + 1)..(s.read + n) THEN pos + k - s.read
                 ELSE s.chunk[kind].data[k]]
      t == [s EXCEPT !.chunk[kind].data = took]
  IN IF s.size < Left THEN [t EXCEPT !.size = 0, !.state = "CHECK_CRC"]
     ELSE [t EXCEPT !.size = @ - n, !.read = @ + n, !.state = state]

\* Mutant: every chunk goes on as a profile.
ReadColoursMixed(kind) ==
  /\ In(kind)
  /\ LET s == Allocated(r, kind)
     IN Goes(NextBlock(s, kind, "iCCP"), Lower(s.size, Left))

\* The chunks cHRM and gAMA go on as iCCP when they do not end in the buffer.
ReadColours(kind) ==
  /\ In(kind)
  /\ LET s == Allocated(r, kind)
         profile == kind \in {"cHRM", "gAMA"}
         t == NextBlock(s, kind, IF profile THEN "iCCP" ELSE kind)
     IN Goes([t EXCEPT !.cut = @ \/ (profile /\ t.state = "iCCP")], Lower(s.size, Left))

\* Only when it is complete it is looked at.
ReadXmp ==
  /\ In("iTXt")
  /\ LET s == Allocated(r, "iTXt")
         t == NextBlock(s, "iTXt", "iTXt")
         content == [k \in DOMAIN t.chunk["iTXt"].data |-> Bytes[t.chunk["iTXt"].data[k]]]
     IN Goes(IF t.state = "CHECK_CRC" /\ ~IsPrefix(XmpId, content)
             THEN [t EXCEPT !.chunk["iTXt"] = Null, !.state = "SKIP_CRC"] ELSE t,
             Lower(s.size, Left))

\* get_icc_profile: the embedded one; if there is none, sRGB, or one that is computed
IccProfile(chunk) ==
  CASE chunk["iCCP"] # Null ->
         IF Bytes[chunk["iCCP"].data[1]] = Deflate THEN "embedded" ELSE "none"
    [] chunk["iCCP"] = Null /\ chunk["sRGB"] # Null -> "sRGB"
    [] chunk["iCCP"] = Null /\ chunk["sRGB"] = Null /\ Null \notin {chunk["cHRM"], chunk["gAMA"]} ->
         "calibrated"
    [] OTHER -> "none"

\* eom_image_real_load takes the metadata when the reader is finished, once.
SetMetadata ==
  /\ r.state = "FINISHED" /\ image = NotRead
  /\ image' = [xmp |-> r.chunk["iTXt"], profile |-> IccProfile(r.chunk)]
  /\ UNCHANGED <<chunks, pos, end, r>>

Next ==
  \/ Consume \/ SetMetadata
  \/ ReadMagic \/ ReadChunkName \/ SkipBytes \/ CheckCrc \/ ReadXmp
  \/ \E width \in 0..(Word - 1) : ReadSize(width)
  \/ \E kind \in Kinds \ {"iTXt"} : ReadColours(kind)
-----------------------------------------------------------------------------
(* Properties *)

Asked(c, kind) ==
  /\ c.name = kind
  /\ CASE kind = "iTXt" -> Len(c.body) > Sizes[kind] /\ IsPrefix(XmpId, c.body)
       [] kind = "iCCP" -> TRUE
       [] OTHER -> Len(c.body) = Sizes[kind]

\* As far as the chunks can be trusted: to the first that is read and has a wrong CRC
FirstOf(kind) == SelectInSeq(chunks, LAMBDA c : Asked(c, kind))
Damage == {k \in DOMAIN chunks : ~chunks[k].good /\ \E kind \in Kinds : FirstOf(kind) = k}
Found(kind) ==
  LET k == FirstOf(kind)
      at == Len(Signature \o FlattenSeq([n \in 1..(k - 1) |-> Encoded(chunks[n])])) + 2 * Word
  IN IF k = 0 \/ \E d \in Damage : d <= k THEN Null
     ELSE [len |-> Len(chunks[k].body), data |-> [n \in DOMAIN chunks[k].body |-> at + n]]

\* Every variable has its type; the parser is in the buffer.
TypeOK ==
  /\ chunks \in Images /\ pos \in 0..end /\ end \in 0..Len(Bytes)
  /\ r.state \in Kinds \cup {"MAGIC", "SIZE", "NAME", "SKIP_BYTES", "SKIP_CRC", "CHECK_CRC", "FINISHED"}
  /\ r.step \in Nat /\ r.size \in Nat /\ r.read \in Nat
  /\ r.hasIHDR \in BOOLEAN /\ r.crcFor \in Kinds \cup {"none"}
  /\ \A kind \in Kinds : r.chunk[kind].len \in {-1} \cup Nat

\* Wherever the buffers end, when the parser is done it has the first chunk of every
\* kind, byte for byte, up to the first one with a wrong CRC; unless a buffer ends in a
\* cHRM or gAMA chunk, which then goes on as another one, or in the CRC of a text
\* chunk that is none (eom_metadata_reader_png_consume).
ChunksAsWritten ==
  ~r.cut /\ (r.state = "FINISHED" \/ pos = Len(Bytes)) =>
    LET found == [kind \in Kinds |-> Found(kind)]
    IN /\ r.chunk = found
       /\ image # NotRead => image = [xmp |-> found["iTXt"], profile |-> IccProfile(found)]
=============================================================================
