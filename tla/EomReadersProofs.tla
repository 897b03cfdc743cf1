-------------------------- MODULE EomReadersProofs --------------------------
(***************************************************************************)
(* Proofs about the metadata readers of EomReaders: for files of any length, *)
(* cut into buffers anywhere, the metadata taken are those of the file.    *)
(***************************************************************************)
EXTENDS EomReaders, EomLemmas, SequenceTheorems, FiniteSetTheorems, TLAPS

-----------------------------------------------------------------------------
(* The metadata readers: the bytes of a JPEG file *)

JpgSpec == Jpg!Init /\ [][Jpg!Next]_(Jpg!readerVars)

ByteValues == 0 .. 255

Sent(f) == [k \in DOMAIN f |-> Jpg!Encoded(f[k])]

JpgBytes(f) == <<255, 216>> \o FlattenSeq(Sent(f)) \o <<255, 219, 0, 3, 0>>

\* Where the body of a segment begins
JpgAt(f, k) == 7 + Len(Joined(Sent(f), k - 1))

Marker(s) == s.marker
Body(s) == s.body
Length(s) == Len(s.body)

SegmentAt(b, a, s) ==
  /\ b[a - 4] = 255 /\ b[a - 3] = Marker(s)
  /\ b[a - 2] = (Length(s) + 2) \div 256 /\ b[a - 1] = (Length(s) + 2) % 256
  /\ \A n \in 1 .. Length(s) : b[a - 1 + n] = Body(s)[n]

JpgLaid(f) ==
  /\ Len(f) \in Nat /\ DOMAIN f = 1 .. Len(f)
  /\ \A k \in 1 .. Len(f) : f[k] \in Segments /\ Length(f[k]) \in Nat
  /\ JpgBytes(f) \in Seq(ByteValues) /\ Len(JpgBytes(f)) = JpgAt(f, Len(f) + 1)
  /\ JpgAt(f, 1) = 7 /\ \A k \in 1 .. Len(f) + 1 : JpgAt(f, k) \in 7 .. Len(JpgBytes(f))
  /\ \A k \in 1 .. Len(f) : JpgAt(f, k + 1) = JpgAt(f, k) + Length(f[k]) + 4
  /\ JpgBytes(f)[1] = 255 /\ JpgBytes(f)[2] = 216
  /\ \A k \in 1 .. Len(f) : SegmentAt(JpgBytes(f), JpgAt(f, k), f[k])
  /\ JpgBytes(f)[JpgAt(f, Len(f) + 1) - 4] = 255 /\ JpgBytes(f)[JpgAt(f, Len(f) + 1) - 3] = 219
  /\ JpgBytes(f)[JpgAt(f, Len(f) + 1) - 2] = 0

\* Four bytes and a body
LEMMA HeadAndBody ==
  ASSUME NEW x \in ByteValues, NEW y \in ByteValues, NEW z \in ByteValues, NEW w \in ByteValues,
         NEW body \in Seq(ByteValues), NEW n \in Nat, n = Len(body),
         NEW e, e = <<x, y, z, w>> \o body
  PROVE  /\ e \in Seq(ByteValues) /\ Len(e) = n + 4
         /\ e[1] = x /\ e[2] = y /\ e[3] = z /\ e[4] = w
         /\ \A i \in 1 .. n : e[4 + i] = body[i]
<1>0. PICK h : h = <<x, y, z, w>>
  OBVIOUS
<1>1. PICK four : four = Len(h) /\ four = 4
  BY <1>0
<1>2. h \in Seq(ByteValues) /\ h[1] = x /\ h[2] = y /\ h[3] = z /\ h[4] = w
  BY <1>0
<1>3. e \in Seq(ByteValues) /\ PutTogether(e, h, body, four, n)
  BY <1>0, <1>1, <1>2, ConcatElements
<1> QED BY <1>1, <1>2, <1>3 DEF PutTogether

\* The bytes e of a segment
SegmentBytes(e, body, marker, n) ==
  /\ e \in Seq(ByteValues) /\ Len(e) = n + 4 /\ n \in Nat
  /\ e[1] = 255 /\ e[2] = marker
  /\ e[3] = (n + 2) \div 256 /\ e[4] = (n + 2) % 256
  /\ \A i \in 1 .. n : e[4 + i] = body[i]

\* A segment has its marker and its size before its body.
LEMMA SegmentEncoded ==
  ASSUME NEW s \in Segments, NEW body, body = Body(s), NEW n, n = Length(s), n <= 65533,
         NEW marker, marker = Marker(s), NEW e, e = Jpg!Encoded(s)
  PROVE  SegmentBytes(e, body, marker, n)
<1>1. body \in Seq(0 .. 255) /\ n = Len(body) /\ marker \in 224 .. 239 \cup {254}
  BY DEF Segments, Jpg!Com, Body, Length, Marker
<1>2. body \in Seq(ByteValues) /\ n \in Nat /\ marker \in ByteValues
  <2>1. n \in Nat
    BY <1>1, LenProperties
  <2> QED BY <1>1, <2>1 DEF ByteValues
<1>3. PICK high, low : high = (n + 2) \div 256 /\ low = (n + 2) % 256
  OBVIOUS
<1>4. high \in ByteValues /\ low \in ByteValues
  <2>1. high \in Nat /\ high < 256 /\ low \in Nat /\ low < 256
    BY <1>2, <1>3
  <2> QED BY <2>1 DEF ByteValues
<1>5. PICK first \in ByteValues : first = 255
  BY DEF ByteValues
<1>6. e = <<first, marker, high, low>> \o body
  BY <1>1, <1>3, <1>5 DEF Jpg!Encoded, Jpg!Start, Body, Length, Marker
<1>7. /\ e \in Seq(ByteValues) /\ Len(e) = n + 4
      /\ e[1] = first /\ e[2] = marker /\ e[3] = high /\ e[4] = low
      /\ \A i \in 1 .. n : e[4 + i] = body[i]
  BY <1>1, <1>2, <1>4, <1>5, <1>6, HeadAndBody
<1> QED BY <1>2, <1>3, <1>5, <1>7 DEF SegmentBytes

\* The bytes that the reader gets are those of the segments, between the first marker and
\* the one that ends what it has to do with.
LEMMA JpgLayout ==
  ASSUME JpgAssumption, NEW f \in JpegFiles
  PROVE  JpgLaid(f)
<1>1. PICK last : last = Len(f)
  OBVIOUS
<1>2. last \in Nat /\ DOMAIN f = 1 .. last
      /\ \A k \in 1 .. last : f[k] \in Segments /\ Length(f[k]) <= 65533
  <2>1. f \in Seq(Segments) /\ \A k \in DOMAIN f : Length(f[k]) <= 65533
    BY DEF JpgAssumption, Length
  <2> QED BY <1>1, <2>1, LenProperties, ElementOfSeq
<1>3. PICK seqs : seqs = Sent(f)
  OBVIOUS
<1>4. \A k \in 1 .. last : seqs[k] = Jpg!Encoded(f[k])
  BY <1>2, <1>3 DEF Sent
<1>5. ASSUME NEW k \in 1 .. last
      PROVE  SegmentBytes(seqs[k], Body(f[k]), Marker(f[k]), Length(f[k]))
  <2>1. PICK s \in Segments : s = f[k] /\ Length(s) <= 65533
    BY <1>2
  <2>2. SegmentBytes(Jpg!Encoded(s), Body(s), Marker(s), Length(s))
    BY <2>1, SegmentEncoded
  <2> QED BY <1>4, <2>1, <2>2
<1>6. seqs \in Seq(Seq(ByteValues)) /\ Len(seqs) = last
  <2>1. seqs = [k \in 1 .. last |-> Jpg!Encoded(f[k])]
    BY <1>2, <1>3 DEF Sent
  <2>2. \A k \in 1 .. last : seqs[k] \in Seq(ByteValues)
    BY <1>5 DEF SegmentBytes
  <2> QED BY <1>2, <2>1, <2>2
<1>7. PICK all : all = FlattenSeq(seqs)
  OBVIOUS
<1>8. all \in Seq(ByteValues) /\ Placed(seqs, all)
  BY <1>6, <1>7, JoinedKeeps
<1>9. Len(Joined(seqs, 0)) = 0
  BY <1>6, JoinedIs
<1>10. PICK at : at = [k \in 1 .. last + 1 |-> Len(Joined(seqs, k - 1))]
  OBVIOUS
<1>11. /\ at[1] = 0 /\ at[last + 1] = Len(all) /\ Len(all) \in Nat
       /\ \A k \in 1 .. last :
            /\ at[k] \in Nat /\ at[k + 1] = at[k] + Len(seqs[k]) /\ at[k + 1] <= Len(all)
            /\ \A n \in 1 .. Len(seqs[k]) : all[at[k] + n] = seqs[k][n]
  <2>1. \A k \in 1 .. last + 1 : at[k] = Len(Joined(seqs, k - 1))
    BY <1>10
  <2>2. ASSUME NEW k \in 1 .. last
        PROVE  at[k] = Len(Joined(seqs, k - 1)) /\ at[k + 1] = Len(Joined(seqs, k))
    <3>1. k \in 1 .. last + 1 /\ k + 1 \in 1 .. last + 1 /\ (k + 1) - 1 = k
      BY <1>2
    <3> QED BY <2>1, <3>1
  <2>3. 1 \in 1 .. last + 1 /\ last + 1 \in 1 .. last + 1 /\ 1 - 1 = 0 /\ (last + 1) - 1 = last
    BY <1>2
  <2>4. at[1] = 0 /\ at[last + 1] = Len(all) /\ Len(all) \in Nat
    BY <1>6, <1>8, <1>9, <2>1, <2>3, LenProperties DEF Placed
  <2> QED BY <1>6, <1>8, <2>2, <2>4 DEF Placed
<1>12. PICK b : b = JpgBytes(f)
  OBVIOUS
<1>13. /\ b \in Seq(ByteValues) /\ Len(b) = Len(all) + 7
       /\ b[1] = 255 /\ b[2] = 216
       /\ \A n \in 1 .. Len(all) : b[n + 2] = all[n]
       /\ b[Len(all) + 3] = 255 /\ b[Len(all) + 4] = 219 /\ b[Len(all) + 5] = 0
  <2>1. PICK head, end : head = <<255, 216>> /\ end = <<255, 219, 0, 3, 0>>
    OBVIOUS
  <2>2. /\ head \in Seq(ByteValues) /\ Len(head) = 2 /\ head[1] = 255 /\ head[2] = 216
        /\ end \in Seq(ByteValues) /\ Len(end) = 5 /\ end[1] = 255 /\ end[2] = 219 /\ end[3] = 0
    BY <2>1 DEF ByteValues
  <2>3. PICK c, n : c = head \o all /\ n = Len(all)
    OBVIOUS
  <2>4. PICK two, five : two = Len(head) /\ two = 2 /\ five = Len(end) /\ five = 5
    BY <2>2
  <2>5. c \in Seq(ByteValues) /\ PutTogether(c, head, all, two, n)
    <3>1. head \in Seq(ByteValues) /\ all \in Seq(ByteValues) /\ two = Len(head) /\ n = Len(all)
          /\ c = head \o all
      BY <1>8, <2>2, <2>3, <2>4
    <3> QED BY <3>1, ConcatElements
  <2>6. PICK m : m = Len(c) /\ m = 2 + n /\ n \in Nat
    BY <2>4, <2>5 DEF PutTogether
  <2>7. b = c \o end
    BY <1>3, <1>7, <1>12, <2>1, <2>3 DEF JpgBytes
  <2>8. b \in Seq(ByteValues) /\ PutTogether(b, c, end, m, five)
    <3>1. c \in Seq(ByteValues) /\ end \in Seq(ByteValues) /\ m = Len(c) /\ five = Len(end)
          /\ b = c \o end
      BY <2>2, <2>4, <2>5, <2>6, <2>7
    <3> QED BY <3>1, ConcatElements
  <2>9. b[1] = 255 /\ b[2] = 216
    <3>1. 1 \in 1 .. m /\ 2 \in 1 .. m
      BY <2>6
    <3>2. c[1] = head[1] /\ c[2] = head[2]
      BY <2>4, <2>5 DEF PutTogether
    <3> QED BY <2>2, <2>8, <3>1, <3>2 DEF PutTogether
  <2>10. ASSUME NEW i \in 1 .. n PROVE b[i + 2] = all[i]
    <3>1. i + 2 \in 1 .. m /\ i + 2 = 2 + i
      BY <2>6
    <3> QED BY <2>4, <2>5, <2>8, <3>1 DEF PutTogether
  <2>11. b[m + 1] = 255 /\ b[m + 2] = 219 /\ b[m + 3] = 0
    BY <2>2, <2>4, <2>8 DEF PutTogether
  <2>12. m + 1 = n + 3 /\ m + 2 = n + 4 /\ m + 3 = n + 5 /\ m + 5 = n + 7
    BY <2>6
  <2> QED BY <2>3, <2>4, <2>8, <2>9, <2>10, <2>11, <2>12, SMTT(30) DEF PutTogether
<1>14. \A k \in 1 .. last + 1 : JpgAt(f, k) = 7 + at[k]
  BY <1>3, <1>10 DEF JpgAt
<1>15. PICK N : N = Len(all) /\ N \in Nat
  BY <1>11
<1>16. ASSUME NEW k \in 1 .. last
       PROVE  /\ at[k] \in Nat /\ at[k + 1] = at[k] + Length(f[k]) + 4 /\ at[k + 1] <= N
              /\ SegmentAt(b, 7 + at[k], f[k])
  <2>1. PICK p : p = at[k]
    OBVIOUS
  <2>2. PICK e, n, body, marker : e = seqs[k] /\ n = Length(f[k]) /\ body = Body(f[k])
                                  /\ marker = Marker(f[k])
    OBVIOUS
  <2>3. /\ Len(e) = n + 4 /\ n \in Nat /\ e[1] = 255 /\ e[2] = marker
        /\ e[3] = (n + 2) \div 256 /\ e[4] = (n + 2) % 256
        /\ \A i \in 1 .. n : e[4 + i] = body[i]
    <3>1. SegmentBytes(e, body, marker, n)
      BY <1>5, <2>2
    <3> QED BY <3>1 DEF SegmentBytes
  <2>4. p \in Nat /\ at[k + 1] = p + (n + 4) /\ p + (n + 4) <= N
        /\ \A m \in 1 .. n + 4 : all[p + m] = e[m]
    BY <1>11, <1>15, <2>1, <2>2, <2>3, SMTT(30)
  <2>5. ASSUME NEW m \in 1 .. n + 4 PROVE b[p + m + 2] = e[m]
    <3>1. p + m \in 1 .. N
      BY <1>15, <2>3, <2>4
    <3> QED BY <1>13, <1>15, <2>4, <3>1
  <2>6. /\ b[p + 3] = e[1] /\ b[p + 4] = e[2] /\ b[p + 5] = e[3] /\ b[p + 6] = e[4]
    <3>1. /\ 1 \in 1 .. n + 4 /\ 2 \in 1 .. n + 4 /\ 3 \in 1 .. n + 4 /\ 4 \in 1 .. n + 4
          /\ p + 1 + 2 = p + 3 /\ p + 2 + 2 = p + 4 /\ p + 3 + 2 = p + 5 /\ p + 4 + 2 = p + 6
      <4>1. n \in Nat /\ p \in Nat
        BY <2>3, <2>4
      <4> QED BY <4>1
    <3> QED BY <2>5, <3>1
  <2>7. ASSUME NEW m \in 1 .. n PROVE b[(7 + p) - 1 + m] = e[4 + m]
    <3>1. 4 + m \in 1 .. n + 4 /\ p + (4 + m) + 2 = (7 + p) - 1 + m
      BY <2>3, <2>4
    <3> QED BY <2>5, <3>1
  <2>8. (7 + p) - 4 = p + 3 /\ (7 + p) - 3 = p + 4 /\ (7 + p) - 2 = p + 5 /\ (7 + p) - 1 = p + 6
    BY <2>4
  <2>9. \A m \in 1 .. n : b[(7 + p) - 1 + m] = body[m]
    <3>1. \A m \in 1 .. n : e[4 + m] = body[m]
      BY <2>3
    <3> QED BY <2>7, <3>1
  <2>10. SegmentAt(b, 7 + p, f[k])
    BY <2>2, <2>3, <2>6, <2>8, <2>9, SMTT(30) DEF SegmentAt
  <2>11. at[k + 1] = at[k] + n + 4
    <3>1. n \in Nat /\ p \in Nat /\ at[k + 1] = p + (n + 4)
      BY <2>3, <2>4
    <3> QED BY <2>1, <3>1
  <2> QED BY <2>1, <2>2, <2>4, <2>10, <2>11
<1>17. at[last + 1] = N /\ at[1] = 0
  BY <1>11, <1>15
<1>18. \A k \in 1 .. last + 1 : at[k] \in 0 .. N
  <2>1. ASSUME NEW k \in 1 .. last + 1 PROVE at[k] \in 0 .. N
    <3>1. CASE k = last + 1
      BY <1>15, <1>17, <3>1
    <3>2. CASE k # last + 1
      <4>1. k \in 1 .. last
        BY <1>2, <3>2
      <4>2. at[k] \in Nat /\ at[k + 1] = at[k] + Length(f[k]) + 4 /\ at[k + 1] <= N
        BY <1>16, <4>1
      <4>3. Length(f[k]) \in Nat
        BY <1>5, <4>1 DEF SegmentBytes
      <4> QED BY <1>15, <4>2, <4>3
    <3> QED BY <3>1, <3>2
  <2> QED BY <2>1
<1>19. Len(b) = JpgAt(f, last + 1) /\ JpgAt(f, 1) = 7
  <2>1. last + 1 \in 1 .. last + 1 /\ 1 \in 1 .. last + 1
    BY <1>2
  <2>2. JpgAt(f, last + 1) = 7 + N /\ JpgAt(f, 1) = 7 + 0 /\ Len(b) = N + 7
    BY <1>13, <1>14, <1>15, <1>17, <2>1
  <2> QED BY <1>15, <2>2
<1>20. \A k \in 1 .. last + 1 : JpgAt(f, k) \in 7 .. Len(b)
  <2>1. Len(b) = N + 7
    BY <1>13, <1>15
  <2> QED BY <1>14, <1>15, <1>18, <2>1
<1>21. ASSUME NEW k \in 1 .. last
       PROVE  /\ JpgAt(f, k + 1) = JpgAt(f, k) + Length(f[k]) + 4
              /\ SegmentAt(b, JpgAt(f, k), f[k])
  <2>1. k \in 1 .. last + 1 /\ k + 1 \in 1 .. last + 1
    BY <1>2
  <2>2. JpgAt(f, k) = 7 + at[k] /\ JpgAt(f, k + 1) = 7 + at[k + 1]
    BY <1>14, <2>1
  <2>3. Length(f[k]) \in Nat /\ at[k] \in Nat
    BY <1>5, <1>16 DEF SegmentBytes
  <2>4. at[k + 1] = at[k] + Length(f[k]) + 4 /\ SegmentAt(b, 7 + at[k], f[k])
    BY <1>16
  <2> QED BY <2>2, <2>3, <2>4
<1>22. /\ b[JpgAt(f, last + 1) - 4] = 255 /\ b[JpgAt(f, last + 1) - 3] = 219
       /\ b[JpgAt(f, last + 1) - 2] = 0
  <2>1. JpgAt(f, last + 1) = N + 7
    BY <1>13, <1>15, <1>19
  <2>2. (N + 7) - 4 = N + 3 /\ (N + 7) - 3 = N + 4 /\ (N + 7) - 2 = N + 5
    BY <1>15
  <2> QED BY <1>13, <1>15, <2>1, <2>2
<1>23. \A k \in 1 .. last : Length(f[k]) \in Nat
  BY <1>5 DEF SegmentBytes
<1> QED BY <1>1, <1>2, <1>23, <1>12, <1>13, <1>19, <1>20, <1>21, <1>22 DEF JpgLaid

\* Where a segment is, and the one that follows
LEMMA JpgSegmentIs ==
  ASSUME NEW f, JpgLaid(f), NEW k \in 1 .. Len(f)
  PROVE  /\ f[k] \in Segments /\ Length(f[k]) \in Nat
         /\ k \in 1 .. Len(f) + 1 /\ k + 1 \in 1 .. Len(f) + 1
         /\ JpgAt(f, k) \in Nat /\ JpgAt(f, k) >= 7
         /\ JpgAt(f, k + 1) = JpgAt(f, k) + Length(f[k]) + 4
         /\ SegmentAt(JpgBytes(f), JpgAt(f, k), f[k])
<1>1. Len(f) \in Nat
  BY DEF JpgLaid
<1>2. k \in 1 .. Len(f) + 1 /\ k + 1 \in 1 .. Len(f) + 1
  BY <1>1
<1>3. JpgAt(f, k) \in 7 .. Len(JpgBytes(f))
  BY <1>2 DEF JpgLaid
<1>4. JpgAt(f, k) \in Nat /\ JpgAt(f, k) >= 7
  BY <1>3
<1>5. /\ f[k] \in Segments /\ Length(f[k]) \in Nat
      /\ JpgAt(f, k + 1) = JpgAt(f, k) + Length(f[k]) + 4
      /\ SegmentAt(JpgBytes(f), JpgAt(f, k), f[k])
  BY Zenon DEF JpgLaid
<1> QED BY <1>2, <1>4, <1>5

\* They are those of the model.
LEMMA JpgBytesAre ==
  ASSUME JpgAssumption, source \in JpegFiles
  PROVE  Jpg!Bytes = JpgBytes(source)
         /\ \A k \in 1 .. Len(source) + 1 : Jpg!BodyAt(k) = JpgAt(source, k)
<1>1. \A s : Jpg!FlattenSeq(s) = FlattenSeq(s)
  BY DEF Jpg!FlattenSeq, FlattenSeq
<1>2. Jpg!Bytes = JpgBytes(source)
  BY <1>1 DEF Jpg!Bytes, JpgBytes, Sent, Jpg!Start, Jpg!Soi, Jpg!Dqt
<1>3. ASSUME NEW k \in 1 .. Len(source) + 1 PROVE Jpg!BodyAt(k) = JpgAt(source, k)
  <2>1. Len(source) \in Nat /\ DOMAIN source = 1 .. Len(source)
    BY JpgLayout DEF JpgLaid
  <2>2. \A n \in 1 .. (k - 1) : n \in DOMAIN source
    BY <2>1
  <2>3. [n \in 1 .. (k - 1) |-> Jpg!Encoded(source[n])] = [n \in 1 .. (k - 1) |-> Sent(source)[n]]
    BY <2>2 DEF Sent
  <2> QED BY <1>1, <2>3 DEF Jpg!BodyAt, JpgAt, Joined
<1> QED BY <1>2, <1>3
-----------------------------------------------------------------------------
(* The metadata readers: the segments that a JPEG file has of each kind *)

\* What a chunk is when all of a segment has been read, and when n bytes of it have
AllOf(f, k) == [len |-> Length(f[k]), data |-> [m \in 1 .. Length(f[k]) |-> JpgAt(f, k) + m - 1]]
PartOf(f, k, n) ==
  [len |-> Length(f[k]),
   data |-> [m \in 1 .. Length(f[k]) |-> IF m <= n THEN JpgAt(f, k) + m - 1 ELSE 0]]

\* What it is when it is allocated
Zeros(n) == [len |-> n, data |-> [m \in 1 .. n |-> 0]]

JpgIndex(f, kind) == SelectInSeq(f, LAMBDA s : Jpg!IsKind(s, kind))

\* What the reader has of a kind before the k-th segment
JpgFound(f, k, kind) ==
  IF JpgIndex(f, kind) \in 1 .. k - 1 THEN AllOf(f, JpgIndex(f, kind)) ELSE Jpg!Null

\* The first segment of a kind
LEMMA JpgIndexIs ==
  ASSUME NEW f, JpgLaid(f), NEW kind, NEW i, i = JpgIndex(f, kind)
  PROVE  /\ i \in 0 .. Len(f) /\ (i # 0 => Jpg!IsKind(f[i], kind))
         /\ \A n \in 1 .. Len(f) : Jpg!IsKind(f[n], kind) => i \in 1 .. n
<1>1. Len(f) \in Nat
  BY DEF JpgLaid
<1>2. PICK I : I = {n \in 1 .. Len(f) : Jpg!IsKind(f[n], kind)}
  OBVIOUS
<1>3. i = IF I # {} THEN Min(I) ELSE 0
  BY <1>2 DEF JpgIndex, SelectInSeq
<1>4. I \in SUBSET Nat
  BY <1>1, <1>2
<1>5. CASE I = {}
  BY <1>1, <1>2, <1>3, <1>5
<1>6. CASE I # {}
  <2>1. i \in I /\ \A n \in I : i <= n
    BY <1>3, <1>4, <1>6, LeastIs
  <2> QED BY <1>1, <1>2, <2>1
<1> QED BY <1>5, <1>6

\* A segment that has been read is all of it, and one that has not is empty.
LEMMA AllOfIs ==
  ASSUME NEW f, JpgLaid(f), NEW k \in 1 .. Len(f)
  PROVE  /\ PartOf(f, k, Length(f[k])) = AllOf(f, k) /\ AllOf(f, k) # Jpg!Null
         /\ PartOf(f, k, 0) = Zeros(Length(f[k]))
<1>1. PICK n : n = Length(f[k]) /\ n \in Nat
  BY DEF JpgLaid
<1>2. \A m \in 1 .. n : m <= n /\ ~(m <= 0)
  BY <1>1
<1>3. [m \in 1 .. n |-> IF m <= n THEN JpgAt(f, k) + m - 1 ELSE 0]
        = [m \in 1 .. n |-> JpgAt(f, k) + m - 1]
  BY <1>2
<1>4. [m \in 1 .. n |-> IF m <= 0 THEN JpgAt(f, k) + m - 1 ELSE 0] = [m \in 1 .. n |-> 0]
  BY <1>2
<1>5. AllOf(f, k).len = n /\ Jpg!Null.len = -1
  BY <1>1 DEF AllOf, Jpg!Null
<1>6. AllOf(f, k) # Jpg!Null
  <2>1. n # -1
    BY <1>1
  <2> QED BY <1>5, <2>1
<1> QED BY <1>1, <1>3, <1>4, <1>6 DEF PartOf, AllOf, Zeros

\* A segment is found when it is the first of its kind.
LEMMA JpgFoundNext ==
  ASSUME NEW f, JpgLaid(f), NEW k \in 1 .. Len(f), NEW kind
  PROVE  JpgFound(f, k + 1, kind)
           = IF Jpg!IsKind(f[k], kind) /\ JpgFound(f, k, kind) = Jpg!Null
             THEN AllOf(f, k) ELSE JpgFound(f, k, kind)
<1>1. PICK i : i = JpgIndex(f, kind)
  OBVIOUS
<1>2. /\ i \in 0 .. Len(f) /\ (i # 0 => Jpg!IsKind(f[i], kind))
      /\ \A n \in 1 .. Len(f) : Jpg!IsKind(f[n], kind) => i \in 1 .. n
  BY <1>1, JpgIndexIs
<1>3. /\ JpgFound(f, k, kind) = IF i \in 1 .. k - 1 THEN AllOf(f, i) ELSE Jpg!Null
      /\ JpgFound(f, k + 1, kind) = IF i \in 1 .. (k + 1) - 1 THEN AllOf(f, i) ELSE Jpg!Null
  BY <1>1 DEF JpgFound
<1>4. Len(f) \in Nat
  BY DEF JpgLaid
<1>5. CASE i \in 1 .. k - 1
  <2>1. i \in 1 .. Len(f) /\ i \in 1 .. (k + 1) - 1
    BY <1>4, <1>5
  <2>2. AllOf(f, i) # Jpg!Null
    BY <2>1, AllOfIs
  <2> QED BY <1>3, <1>5, <2>1, <2>2
<1>6. CASE i = k
  <2>1. i \in 1 .. (k + 1) - 1 /\ i \notin 1 .. k - 1 /\ i # 0
    BY <1>4, <1>6
  <2> QED BY <1>2, <1>3, <1>6, <2>1
<1>7. CASE i \notin 1 .. k
  <2>1. i \notin 1 .. (k + 1) - 1 /\ i \notin 1 .. k - 1
    BY <1>2, <1>4, <1>7
  <2> QED BY <1>2, <1>3, <1>7, <2>1
<1> QED BY <1>4, <1>5, <1>6, <1>7

\* What is not Null stays.
LEMMA JpgFoundStays ==
  ASSUME NEW f, JpgLaid(f), NEW k \in 1 .. Len(f) + 1, NEW kind,
         JpgFound(f, k, kind) # Jpg!Null
  PROVE  JpgFound(f, Len(f) + 1, kind) = JpgFound(f, k, kind)
<1>1. PICK i : i = JpgIndex(f, kind)
  OBVIOUS
<1>2. i \in 1 .. k - 1
  BY <1>1 DEF JpgFound
<1>3. i \in 1 .. (Len(f) + 1) - 1
  <2>1. Len(f) \in Nat
    BY DEF JpgLaid
  <2> QED BY <1>2, <2>1
<1> QED BY <1>1, <1>2, <1>3 DEF JpgFound

\* A prefix, element by element
LEMMA PrefixIs ==
  ASSUME NEW S, NEW s \in Seq(S), NEW T, NEW t \in Seq(T), NEW n, n = Len(s)
  PROVE  IsPrefix(s, t) <=> n <= Len(t) /\ \A i \in 1 .. n : t[i] = s[i]
<1>1. n \in Nat /\ Len(t) \in Nat
  BY LenProperties
<1>2. IsPrefix(s, t) <=> n <= Len(t) /\ SubSeq(s, 1, n) = SubSeq(t, 1, n)
  BY DEF IsPrefix
<1>3. ASSUME n <= Len(t)
      PROVE  (SubSeq(s, 1, n) = SubSeq(t, 1, n)) <=> \A i \in 1 .. n : t[i] = s[i]
  <2>1. SubSeq(s, 1, n) = [i \in 1 .. n |-> s[i]] /\ SubSeq(t, 1, n) = [i \in 1 .. n |-> t[i]]
    BY <1>1, <1>3
  <2> QED BY <2>1
<1> QED BY <1>2, <1>3

\* What makes a segment one of a kind
LEMMA KindIs ==
  ASSUME NEW s, NEW kind
  PROVE  /\ kind = "EXIF" => (Jpg!IsKind(s, kind)
                                <=> Marker(s) = 225 /\ Jpg!IsPrefix(Jpg!ExifId, Body(s)))
         /\ kind = "XMP" => (Jpg!IsKind(s, kind)
                               <=> Marker(s) = 225 /\ Jpg!IsPrefix(Jpg!XmpId, Body(s)))
         /\ kind = "ICC" =>
              (Jpg!IsKind(s, kind)
                 <=> /\ Marker(s) = 226 /\ Jpg!IsPrefix(Jpg!IccId \o Jpg!OnlyChunk, Body(s))
                     /\ Length(s) > Len(Jpg!IccId \o Jpg!OnlyChunk))
         /\ kind = "IPTC" => (Jpg!IsKind(s, kind) <=> Marker(s) = 237 /\ Body(s) # <<>>)
         /\ kind \in Jpg!Kinds => kind \in {"EXIF", "XMP", "ICC", "IPTC"}
<1>1. CASE kind = "EXIF"
  BY <1>1 DEF Jpg!IsKind, Marker, Body, Jpg!App1
<1>2. CASE kind = "XMP"
  BY <1>2 DEF Jpg!IsKind, Marker, Body, Jpg!App1
<1>3. CASE kind = "ICC"
  BY <1>3 DEF Jpg!IsKind, Marker, Body, Length, Jpg!App2
<1>4. CASE kind = "IPTC"
  BY <1>4 DEF Jpg!IsKind, Marker, Body, Jpg!App14
<1> QED BY <1>1, <1>2, <1>3, <1>4 DEF Jpg!Kinds

\* No segment is of two kinds.
LEMMA OneKind ==
  ASSUME NEW s \in Segments, NEW a \in Jpg!Kinds, NEW b \in Jpg!Kinds,
         Jpg!IsKind(s, a), Jpg!IsKind(s, b)
  PROVE  a = b
<1>1. ASSUME NEW id, NEW n \in Nat, n >= 2, id \in Seq(Nat), Len(id) = n, Jpg!IsPrefix(id, Body(s))
      PROVE  Body(s)[2] = id[2]
  <2>1. PICK body : body = Body(s) /\ body \in Seq(ByteValues)
    BY DEF Body, Segments, ByteValues
  <2>2. IsPrefix(id, body)
    BY <1>1, <2>1 DEF Jpg!IsPrefix, IsPrefix
  <2>3. \A i \in 1 .. n : body[i] = id[i]
    BY <1>1, <2>1, <2>2, PrefixIs
  <2> QED BY <1>1, <2>1, <2>3
<1>2. ~(Jpg!IsPrefix(Jpg!ExifId, Body(s)) /\ Jpg!IsPrefix(Jpg!XmpId, Body(s)))
  <2>1. SUFFICES ASSUME Jpg!IsPrefix(Jpg!ExifId, Body(s)), Jpg!IsPrefix(Jpg!XmpId, Body(s))
                 PROVE  FALSE
    OBVIOUS
  <2>2. PICK x, y : x = Jpg!ExifId /\ y = Jpg!XmpId
    OBVIOUS
  <2>3. /\ x \in Seq(Nat) /\ Len(x) = 2 /\ x[2] = 1
        /\ y \in Seq(Nat) /\ Len(y) = 3 /\ y[2] = 2
    BY <2>2 DEF Jpg!ExifId, Jpg!XmpId
  <2>4. Body(s)[2] = x[2]
    BY <1>1, <2>1, <2>2, <2>3
  <2>5. Body(s)[2] = y[2]
    BY <1>1, <2>1, <2>2, <2>3
  <2> QED BY <2>3, <2>4, <2>5
<1> QED BY <1>2, KindIs

\* What the reader is to find is what is found before the end.
LEMMA JpgFirstIs ==
  ASSUME JpgAssumption, source \in JpegFiles, NEW kind
  PROVE  Jpg!FirstOf(kind) = JpgFound(source, Len(source) + 1, kind)
<1>1. JpgLaid(source)
  BY JpgLayout
<1>2. PICK i : i = JpgIndex(source, kind)
  OBVIOUS
<1>3. i \in 0 .. Len(source) /\ Len(source) \in Nat
  <2>1. Len(source) \in Nat
    BY <1>1 DEF JpgLaid
  <2> QED BY <1>1, <1>2, <2>1, JpgIndexIs
<1>4. Jpg!SelectInSeq(source, LAMBDA s : Jpg!IsKind(s, kind)) = i
  BY <1>2 DEF JpgIndex, Jpg!SelectInSeq, SelectInSeq, Jpg!Min, Min
<1>5. i # 0 => /\ DOMAIN source[i].body = 1 .. Length(source[i])
               /\ Jpg!BodyAt(i) = JpgAt(source, i)
  <2>1. SUFFICES ASSUME i # 0 PROVE /\ DOMAIN source[i].body = 1 .. Length(source[i])
                                    /\ Jpg!BodyAt(i) = JpgAt(source, i)
    OBVIOUS
  <2>2. i \in 1 .. Len(source) /\ i \in 1 .. Len(source) + 1
    BY <1>3, <2>1
  <2>3. source[i] \in Segments
    BY <1>1, <2>2 DEF JpgLaid
  <2>4. source[i].body \in Seq(0 .. 255)
    BY <2>3 DEF Segments
  <2> QED BY <2>2, <2>4, JpgBytesAre, LenProperties DEF Length
<1>6. i \in 1 .. (Len(source) + 1) - 1 <=> i # 0
  BY <1>3
<1>7. Jpg!FirstOf(kind) = IF i = 0 THEN Jpg!Null
                          ELSE [len |-> Len(source[i].body),
                                data |-> [n \in DOMAIN source[i].body |-> Jpg!BodyAt(i) + n - 1]]
  BY <1>4 DEF Jpg!FirstOf
<1>8. JpgFound(source, Len(source) + 1, kind) = IF i # 0 THEN AllOf(source, i) ELSE Jpg!Null
  BY <1>2, <1>6 DEF JpgFound
<1> QED BY <1>5, <1>7, <1>8 DEF AllOf, Length
-----------------------------------------------------------------------------
(* The metadata readers: where the reader of a JPEG file is *)

Highs == {256 * x : x \in ByteValues}

JpgChunks == [len : {-1} \cup Jpg!Words, data : Seq(Nat)]

JpgReaders ==
  [state : Jpg!Kinds \cup {"READ", "READ_MARKER", "READ_SIZE_HIGH_BYTE", "READ_SIZE_LOW_BYTE",
                           "READ_APP1", "SKIP_BYTES", "FINISHED"},
   size : Jpg!Words, marker : ByteValues, read : Nat, chunk : [Jpg!Kinds -> JpgChunks],
   astray : BOOLEAN, guessed : BOOLEAN]

\* The chunks are those of the segments before the k-th; all of them, or all but one.
JpgBefore(f, c, k) == \A kind \in Jpg!Kinds : c[kind] = JpgFound(f, k, kind)
JpgBeforeBut(f, c, k, kind) == \A other \in Jpg!Kinds \ {kind} : c[other] = JpgFound(f, k, other)

\* The reader comes to the k-th segment,
JpgBetween(f, s, p, k) ==
  /\ JpgBefore(f, s.chunk, k)
  /\ \/ s.state = "READ" /\ p = JpgAt(f, k) - 5
     \/ s.state = "READ_MARKER" /\ p = JpgAt(f, k) - 4
     \/ s.state = "SKIP_BYTES" /\ p + s.size = JpgAt(f, k) - 5

\* has read something of what is before its body,
JpgHeader(f, s, p, k) ==
  /\ JpgBefore(f, s.chunk, k)
  /\ \/ s.state = "READ_SIZE_HIGH_BYTE" /\ p = JpgAt(f, k) - 3 /\ s.marker = Marker(f[k])
     \/ /\ s.state = "READ_SIZE_LOW_BYTE" /\ p = JpgAt(f, k) - 2 /\ s.marker = Marker(f[k])
        /\ s.size = 256 * ((Length(f[k]) + 2) \div 256)
     \/ /\ s.state = "READ_APP1" /\ p = JpgAt(f, k) - 1 /\ Marker(f[k]) = 225
        /\ s.size = Length(f[k])

\* or something of its body.
MayBe(s, kind) ==
  IF kind = "ICC" THEN Marker(s) = 226 /\ Length(s) > Len(Jpg!IccId \o Jpg!OnlyChunk)
  ELSE Jpg!IsKind(s, kind)

JpgBody(f, s, p, k, kind) ==
  /\ MayBe(f[k], kind)
  /\ JpgFound(f, k, kind) = Jpg!Null /\ JpgBeforeBut(f, s.chunk, k, kind)
  /\ \/ s.chunk[kind] = Jpg!Null /\ p = JpgAt(f, k) - 1 /\ s.size = Length(f[k])
     \/ /\ s.chunk[kind] = PartOf(f, k, s.read) /\ p = JpgAt(f, k) - 1 + s.read
        /\ s.read + s.size = Length(f[k])

\* Before the first segment there are two bytes, and after the last a marker.
JpgEnds(f, s, p) ==
  \/ /\ JpgBefore(f, s.chunk, 1)
     /\ (s.state = "READ" /\ p = 0) \/ (s.state = "READ_MARKER" /\ p = 1)
  \/ /\ JpgBefore(f, s.chunk, Len(f) + 1)
     /\ (s.state = "READ" /\ p = JpgAt(f, Len(f) + 1) - 3) \/ s.state = "FINISHED"

JpgWhere(f, s, p) ==
  \/ JpgEnds(f, s, p)
  \/ \E k \in 1 .. Len(f) + 1 : JpgBetween(f, s, p, k)
  \/ \E k \in 1 .. Len(f) : JpgHeader(f, s, p, k)
  \/ \E k \in 1 .. Len(f), kind \in Jpg!Kinds : s.state = kind /\ JpgBody(f, s, p, k, kind)

JpgTaken(s) ==
  [exif |-> s.chunk["EXIF"], xmp |-> s.chunk["XMP"],
   profile |-> Jpg!IccProfile(s.chunk["ICC"], s.chunk["EXIF"])]

JpgInv ==
  /\ source \in JpegFiles /\ readTo \in 0 .. buffered /\ buffered \in 0 .. Len(JpgBytes(source))
  /\ reader \in JpgReaders /\ (reader.state = "READ_SIZE_LOW_BYTE" => reader.size \in Highs)
  /\ metadata # Jpg!NotRead => reader.state = "FINISHED" /\ metadata = JpgTaken(reader)
  /\ ~reader.astray /\ ~reader.guessed => JpgWhere(source, reader, readTo)

\* A size is made of two bytes.
LEMMA WordsAre ==
  /\ \A x \in ByteValues : x \in Nat /\ x \in Jpg!Words /\ 256 * x \in Highs
  /\ \A x \in Jpg!Words : x \in Nat /\ \A n \in Nat : n <= x => x - n \in Jpg!Words
  /\ \A h \in Highs : h \in Jpg!Words /\ \A x \in ByteValues : h + x \in Jpg!Words
<1>1. \A x : x \in ByteValues <=> x \in Nat /\ x <= 255
  BY DEF ByteValues
<1>2. PICK n : n = 65535
  OBVIOUS
<1>3. Jpg!Words = 0 .. n
  BY <1>2 DEF Jpg!Words
<1>4. n \in Nat /\ n >= 256 * 255 + 255
  BY <1>2
<1>5. \A x : x \in Jpg!Words <=> x \in Nat /\ x <= n
  BY <1>3, <1>4
<1>6. ASSUME NEW x \in ByteValues PROVE x \in Nat /\ x \in Jpg!Words /\ 256 * x \in Highs
  BY <1>1, <1>4, <1>5 DEF Highs
<1>7. ASSUME NEW h \in Highs
      PROVE  h \in Jpg!Words /\ \A x \in ByteValues : h + x \in Jpg!Words
  <2>1. PICK y \in ByteValues : h = 256 * y
    BY DEF Highs
  <2>2. y \in Nat /\ y <= 255 /\ h \in Nat /\ h <= 256 * 255
    BY <1>1, <2>1
  <2>3. h \in Jpg!Words
    BY <1>4, <1>5, <2>2
  <2>4. ASSUME NEW x \in ByteValues PROVE h + x \in Jpg!Words
    BY <1>1, <1>4, <1>5, <2>2
  <2> QED BY <2>3, <2>4
<1>8. ASSUME NEW x \in Jpg!Words
      PROVE  x \in Nat /\ \A m \in Nat : m <= x => x - m \in Jpg!Words
  <2>1. x \in Nat /\ x <= n
    BY <1>5
  <2>2. ASSUME NEW m \in Nat, m <= x PROVE x - m \in Jpg!Words
    <3>1. x - m \in Nat /\ x - m <= n
      BY <1>4, <2>1, <2>2
    <3> QED BY <1>5, <3>1
  <2> QED BY <2>1, <2>2
<1> QED BY <1>6, <1>7, <1>8

\* The states of a reader that are not the name of a kind
LEMMA StatesDiffer ==
  /\ {"READ", "READ_MARKER", "READ_SIZE_HIGH_BYTE", "READ_SIZE_LOW_BYTE", "READ_APP1",
      "SKIP_BYTES", "FINISHED"} \cap Jpg!Kinds = {}
  /\ {"EXIF", "XMP", "ICC", "IPTC"} = Jpg!Kinds
<1> QED BY DEF Jpg!Kinds

\* The next byte of the buffer is that of the file.
LEMMA JpgByteIs ==
  ASSUME JpgAssumption, JpgInv, Jpg!Left > 0, NEW b, b = JpgBytes(source)
  PROVE  /\ JpgLaid(source) /\ readTo \in Nat /\ buffered \in Nat /\ Jpg!Left \in Nat
         /\ Jpg!Left = buffered - readTo
         /\ Jpg!Byte = b[readTo + 1] /\ Jpg!Byte \in ByteValues /\ Jpg!Bytes = b
<1>1. source \in JpegFiles /\ readTo \in 0 .. buffered /\ buffered \in 0 .. Len(b)
  BY DEF JpgInv
<1>2. JpgLaid(source)
  BY <1>1, JpgLayout
<1>3. b \in Seq(ByteValues) /\ Len(b) \in Nat
  BY <1>2, LenProperties DEF JpgLaid
<1>4. Jpg!Bytes = b
  BY <1>1, JpgBytesAre
<1>5. Jpg!Left = buffered - readTo
  BY DEF Jpg!Left
<1>6. readTo + 1 \in 1 .. Len(b) /\ readTo \in Nat /\ buffered \in Nat /\ Jpg!Left \in Nat
  BY <1>1, <1>3, <1>5
<1>7. b[readTo + 1] \in ByteValues
  BY <1>3, <1>6, ElementOfSeq
<1> QED BY <1>2, <1>4, <1>5, <1>6, <1>7 DEF Jpg!Byte

\* The states tell where the reader is.
LEMMA JpgIsWhere ==
  ASSUME NEW f, NEW s, NEW p, JpgWhere(f, s, p)
  PROVE  /\ s.state = "READ" =>
              \/ JpgBefore(f, s.chunk, 1) /\ p = 0
              \/ JpgBefore(f, s.chunk, Len(f) + 1) /\ p = JpgAt(f, Len(f) + 1) - 3
              \/ \E k \in 1 .. Len(f) + 1 : JpgBefore(f, s.chunk, k) /\ p = JpgAt(f, k) - 5
         /\ s.state = "READ_MARKER" =>
              \/ JpgBefore(f, s.chunk, 1) /\ p = 1
              \/ \E k \in 1 .. Len(f) + 1 : JpgBefore(f, s.chunk, k) /\ p = JpgAt(f, k) - 4
         /\ s.state = "SKIP_BYTES" =>
              \E k \in 1 .. Len(f) + 1 : JpgBefore(f, s.chunk, k) /\ p + s.size = JpgAt(f, k) - 5
         /\ s.state \in {"READ_SIZE_HIGH_BYTE", "READ_SIZE_LOW_BYTE", "READ_APP1"} =>
              \E k \in 1 .. Len(f) : JpgHeader(f, s, p, k)
         /\ s.state = "FINISHED" => JpgBefore(f, s.chunk, Len(f) + 1)
         /\ \A kind \in Jpg!Kinds : s.state = kind =>
              \E k \in 1 .. Len(f) : JpgBody(f, s, p, k, kind)
<1>1. ASSUME JpgEnds(f, s, p)
      PROVE  /\ s.state = "READ" =>
                  \/ JpgBefore(f, s.chunk, 1) /\ p = 0
                  \/ JpgBefore(f, s.chunk, Len(f) + 1) /\ p = JpgAt(f, Len(f) + 1) - 3
             /\ s.state = "READ_MARKER" => JpgBefore(f, s.chunk, 1) /\ p = 1
             /\ s.state = "FINISHED" => JpgBefore(f, s.chunk, Len(f) + 1)
             /\ s.state \in {"READ", "READ_MARKER", "FINISHED"}
  BY <1>1 DEF JpgEnds
<1>2. ASSUME NEW k, JpgBetween(f, s, p, k)
      PROVE  /\ JpgBefore(f, s.chunk, k)
             /\ s.state = "READ" => p = JpgAt(f, k) - 5
             /\ s.state = "READ_MARKER" => p = JpgAt(f, k) - 4
             /\ s.state = "SKIP_BYTES" => p + s.size = JpgAt(f, k) - 5
             /\ s.state \in {"READ", "READ_MARKER", "SKIP_BYTES"}
  BY <1>2 DEF JpgBetween
<1>3. ASSUME NEW k, JpgHeader(f, s, p, k)
      PROVE  s.state \in {"READ_SIZE_HIGH_BYTE", "READ_SIZE_LOW_BYTE", "READ_APP1"}
  BY <1>3 DEF JpgHeader
<1>5. CASE JpgEnds(f, s, p)
  BY <1>1, <1>5, StatesDiffer
<1>6. CASE \E k \in 1 .. Len(f) + 1 : JpgBetween(f, s, p, k)
  <2>1. PICK k \in 1 .. Len(f) + 1 : JpgBetween(f, s, p, k)
    BY <1>6
  <2> QED BY <1>2, <2>1, StatesDiffer
<1>7. CASE \E k \in 1 .. Len(f) : JpgHeader(f, s, p, k)
  BY <1>3, <1>7, StatesDiffer
<1>8. CASE \E k \in 1 .. Len(f), kind \in Jpg!Kinds : s.state = kind /\ JpgBody(f, s, p, k, kind)
  BY <1>8, StatesDiffer
<1> QED BY <1>5, <1>6, <1>7, <1>8 DEF JpgWhere

\* What has to be shown of a round of the loop
LEMMA JpgGoes ==
  ASSUME JpgInv, reader.state # "FINISHED", NEW t, t \in JpgReaders, NEW n \in Nat, n <= Jpg!Left,
         Jpg!Goes(t, n), t.state = "READ_SIZE_LOW_BYTE" => t.size \in Highs,
         ~t.astray /\ ~t.guessed => JpgWhere(source, t, readTo + n)
  PROVE  JpgInv'
<1>1. reader' = t /\ readTo' = readTo + n /\ source' = source /\ buffered' = buffered
      /\ metadata' = metadata
  BY DEF Jpg!Goes
<1>2. metadata = Jpg!NotRead
  BY DEF JpgInv
<1>3. metadata' = Jpg!NotRead
  BY <1>1, <1>2
<1>4. readTo + n \in 0 .. buffered
  <2>1. readTo \in 0 .. buffered /\ buffered \in 0 .. Len(JpgBytes(source))
    BY Zenon DEF JpgInv
  <2>2. PICK b : b = JpgBytes(source)
    BY Zenon
  <2>3. readTo \in 0 .. buffered /\ buffered \in 0 .. Len(b)
    BY <2>1, <2>2
  <2>4. n <= buffered - readTo
    BY DEF Jpg!Left
  <2> QED BY <2>3, <2>4
<1>5. source' \in JpegFiles /\ readTo' \in 0 .. buffered' /\ buffered' \in 0 .. Len(JpgBytes(source'))
  BY <1>1, <1>4 DEF JpgInv
<1>6. reader' \in JpgReaders /\ (reader'.state = "READ_SIZE_LOW_BYTE" => reader'.size \in Highs)
  BY <1>1
<1>7. ~reader'.astray /\ ~reader'.guessed => JpgWhere(source', reader', readTo')
  BY <1>1
<1>8. metadata' # Jpg!NotRead' => reader'.state = "FINISHED" /\ metadata' = JpgTaken(reader)'
  BY <1>3 DEF Jpg!NotRead, Jpg!Null
<1> QED BY <1>5, <1>6, <1>7, <1>8 DEF JpgInv

\* A byte outside of the segments
LEMMA JpgReadStart ==
  ASSUME JpgAssumption, JpgInv, Jpg!ReadStart
  PROVE  JpgInv'
<1>1. Jpg!Left > 0 /\ reader.state = "READ"
  BY DEF Jpg!ReadStart, Jpg!In
<1>2. PICK b, f, p, byte : b = JpgBytes(source) /\ f = source /\ p = readTo /\ byte = Jpg!Byte
  OBVIOUS
<1>3. /\ JpgLaid(f) /\ p \in Nat /\ Jpg!Left \in Nat /\ byte = b[p + 1]
  BY <1>1, <1>2, JpgByteIs
<1>4. PICK t : t = [reader EXCEPT !.state = IF byte = 255 THEN "READ_MARKER" ELSE "FINISHED"]
  OBVIOUS
<1>5. Jpg!Goes(t, 1)
  BY <1>2, <1>4 DEF Jpg!ReadStart, Jpg!Start
<1>6. reader \in JpgReaders
  BY DEF JpgInv
<1>7. /\ t \in JpgReaders /\ t.state = IF byte = 255 THEN "READ_MARKER" ELSE "FINISHED"
      /\ t.chunk = reader.chunk /\ t.astray = reader.astray /\ t.guessed = reader.guessed
  BY <1>4, <1>6 DEF JpgReaders
<1>8. ASSUME ~t.astray, ~t.guessed PROVE JpgWhere(f, t, p + 1)
  <2>1. JpgWhere(f, reader, p)
    BY <1>2, <1>7, <1>8 DEF JpgInv
  <2>2. PICK last : last = Len(f) /\ last \in Nat
    BY <1>3 DEF JpgLaid
  <2>3. \/ JpgBefore(f, t.chunk, 1) /\ p = 0
        \/ JpgBefore(f, t.chunk, last + 1) /\ p = JpgAt(f, last + 1) - 3
        \/ \E k \in 1 .. last + 1 : JpgBefore(f, t.chunk, k) /\ p = JpgAt(f, k) - 5
    BY <1>1, <1>7, <2>1, <2>2, JpgIsWhere
  <2>4. CASE JpgBefore(f, t.chunk, 1) /\ p = 0
    <3>1. byte = 255
      BY <1>2, <1>3, <2>4 DEF JpgLaid
    <3> QED BY <1>7, <2>4, <3>1 DEF JpgWhere, JpgEnds
  <2>5. CASE JpgBefore(f, t.chunk, last + 1) /\ p = JpgAt(f, last + 1) - 3
    <3>1. JpgAt(f, last + 1) \in Nat /\ b[JpgAt(f, last + 1) - 2] = 0
      BY <1>2, <1>3, <2>2 DEF JpgLaid
    <3>2. p + 1 = JpgAt(f, last + 1) - 2
      BY <2>5, <3>1
    <3>3. byte = 0
      BY <1>3, <3>1, <3>2
    <3> QED BY <1>7, <2>2, <2>5, <3>3 DEF JpgWhere, JpgEnds
  <2>6. CASE \E k \in 1 .. last + 1 : JpgBefore(f, t.chunk, k) /\ p = JpgAt(f, k) - 5
    <3>1. PICK k \in 1 .. last + 1 : JpgBefore(f, t.chunk, k) /\ p = JpgAt(f, k) - 5
      BY <2>6
    <3>2. b[JpgAt(f, k) - 4] = 255 /\ JpgAt(f, k) \in Nat
      <4>1. JpgAt(f, k) \in 7 .. Len(b)
        BY <1>2, <1>3, <2>2 DEF JpgLaid
      <4>2. CASE k = last + 1
        BY <1>2, <1>3, <2>2, <4>1, <4>2 DEF JpgLaid
      <4>3. CASE k # last + 1
        <5>1. k \in 1 .. last
          BY <2>2, <4>3
        <5>2. SegmentAt(b, JpgAt(f, k), f[k])
          BY <1>2, <1>3, <2>2, <5>1, JpgSegmentIs
        <5> QED BY <4>1, <5>2 DEF SegmentAt
      <4> QED BY <4>2, <4>3
    <3>3. p + 1 = JpgAt(f, k) - 4
      BY <3>1, <3>2
    <3>4. byte = 255
      BY <1>3, <3>2, <3>3
    <3>5. JpgBetween(f, t, p + 1, k)
      BY <1>7, <3>1, <3>3, <3>4 DEF JpgBetween
    <3> QED BY <2>2, <3>5 DEF JpgWhere
  <2> QED BY <2>3, <2>4, <2>5, <2>6
<1>9. 1 \in Nat /\ 1 <= Jpg!Left /\ reader.state # "FINISHED" /\ t.state # "READ_SIZE_LOW_BYTE"
  BY <1>1, <1>3, <1>7
<1> QED BY <1>2, <1>5, <1>7, <1>8, <1>9, JpgGoes

\* The marker of a segment
LEMMA JpgReadMarker ==
  ASSUME JpgAssumption, JpgInv, Jpg!ReadMarker
  PROVE  JpgInv'
<1>1. Jpg!Left > 0 /\ reader.state = "READ_MARKER"
  BY DEF Jpg!ReadMarker, Jpg!In
<1>2. PICK b, f, p, byte : b = JpgBytes(source) /\ f = source /\ p = readTo /\ byte = Jpg!Byte
  OBVIOUS
<1>3. /\ JpgLaid(f) /\ p \in Nat /\ Jpg!Left \in Nat /\ byte = b[p + 1] /\ byte \in ByteValues
  BY <1>1, <1>2, JpgByteIs
<1>4. PICK t : t = IF byte \in 224 .. 239 \cup {254}
                   THEN [reader EXCEPT !.marker = byte, !.size = 0, !.state = "READ_SIZE_HIGH_BYTE"]
                   ELSE [reader EXCEPT !.state = "READ"]
  OBVIOUS
<1>5. Jpg!Goes(t, 1)
  BY <1>2, <1>4 DEF Jpg!ReadMarker, Jpg!Com
<1>6. reader \in JpgReaders
  BY DEF JpgInv
<1>7. /\ t \in JpgReaders /\ t.chunk = reader.chunk
      /\ t.astray = reader.astray /\ t.guessed = reader.guessed
      /\ IF byte \in 224 .. 239 \cup {254} THEN t.state = "READ_SIZE_HIGH_BYTE" /\ t.marker = byte
         ELSE t.state = "READ"
  <2>1. 0 \in Jpg!Words
    BY WordsAre DEF ByteValues
  <2>2. CASE byte \in 224 .. 239 \cup {254}
    BY <1>3, <1>4, <1>6, <2>1, <2>2 DEF JpgReaders
  <2>3. CASE byte \notin 224 .. 239 \cup {254}
    BY <1>4, <1>6, <2>3 DEF JpgReaders
  <2> QED BY <2>2, <2>3
<1>8. ASSUME ~t.astray, ~t.guessed PROVE JpgWhere(f, t, p + 1)
  <2>1. JpgWhere(f, reader, p)
    BY <1>2, <1>7, <1>8 DEF JpgInv
  <2>2. PICK last : last = Len(f) /\ last \in Nat
    BY <1>3 DEF JpgLaid
  <2>3. \/ JpgBefore(f, t.chunk, 1) /\ p = 1
        \/ \E k \in 1 .. last + 1 : JpgBefore(f, t.chunk, k) /\ p = JpgAt(f, k) - 4
    BY <1>1, <1>7, <2>1, <2>2, JpgIsWhere
  <2>4. CASE JpgBefore(f, t.chunk, 1) /\ p = 1
    <3>1. byte = 216 /\ JpgAt(f, 1) = 7
      BY <1>2, <1>3, <2>4 DEF JpgLaid
    <3>2. t.state = "READ" /\ p + 1 = JpgAt(f, 1) - 5
      BY <1>7, <2>4, <3>1
    <3>3. 1 \in 1 .. last + 1 /\ JpgBetween(f, t, p + 1, 1)
      BY <2>2, <2>4, <3>2 DEF JpgBetween
    <3> QED BY <2>2, <3>3 DEF JpgWhere
  <2>5. ASSUME NEW k \in 1 .. last + 1, JpgBefore(f, t.chunk, k), p = JpgAt(f, k) - 4
        PROVE  JpgWhere(f, t, p + 1)
    <3>1. JpgAt(f, k) \in 7 .. Len(b)
      BY <1>2, <1>3, <2>2 DEF JpgLaid
    <3>2. JpgAt(f, k) \in Nat /\ p + 1 = JpgAt(f, k) - 3
      BY <2>5, <3>1
    <3>3. CASE k = last + 1
      <4>1. b[JpgAt(f, k) - 3] = 219
        BY <1>2, <1>3, <2>2, <3>3 DEF JpgLaid
      <4>2. byte = 219
        BY <1>3, <3>2, <4>1
      <4>3. t.state = "READ"
        BY <1>7, <4>2
      <4> QED BY <2>2, <2>5, <3>2, <3>3, <4>3 DEF JpgWhere, JpgEnds
    <3>4. CASE k # last + 1
      <4>1. k \in 1 .. last
        BY <2>2, <3>4
      <4>2. f[k] \in Segments /\ SegmentAt(b, JpgAt(f, k), f[k])
        BY <1>2, <1>3, <2>2, <4>1, JpgSegmentIs
      <4>3. byte = Marker(f[k])
        BY <1>3, <3>2, <4>2 DEF SegmentAt
      <4>4. Marker(f[k]) \in 224 .. 239 \cup {254}
        BY <4>2 DEF Segments, Jpg!Com, Marker
      <4>5. t.state = "READ_SIZE_HIGH_BYTE" /\ t.marker = Marker(f[k])
        BY <1>7, <4>3, <4>4
      <4>6. JpgHeader(f, t, p + 1, k)
        BY <2>5, <3>2, <4>5 DEF JpgHeader
      <4> QED BY <2>2, <4>1, <4>6 DEF JpgWhere
    <3> QED BY <3>3, <3>4
  <2> QED BY <2>3, <2>4, <2>5
<1>9. 1 \in Nat /\ 1 <= Jpg!Left /\ reader.state # "FINISHED" /\ t.state # "READ_SIZE_LOW_BYTE"
  BY <1>1, <1>3, <1>7
<1> QED BY <1>2, <1>5, <1>7, <1>8, <1>9, JpgGoes

\* The high byte of its size
LEMMA JpgReadSizeHighByte ==
  ASSUME JpgAssumption, JpgInv, Jpg!ReadSizeHighByte
  PROVE  JpgInv'
<1>1. Jpg!Left > 0 /\ reader.state = "READ_SIZE_HIGH_BYTE"
  BY DEF Jpg!ReadSizeHighByte, Jpg!In
<1>2. PICK b, f, p, byte : b = JpgBytes(source) /\ f = source /\ p = readTo /\ byte = Jpg!Byte
  OBVIOUS
<1>3. /\ JpgLaid(f) /\ p \in Nat /\ Jpg!Left \in Nat /\ byte = b[p + 1] /\ byte \in ByteValues
  BY <1>1, <1>2, JpgByteIs
<1>0. PICK size : size = 256 * byte
  OBVIOUS
<1>4. PICK t : t = [reader EXCEPT !.size = size, !.state = "READ_SIZE_LOW_BYTE"]
  OBVIOUS
<1>5. Jpg!Goes(t, 1)
  BY <1>0, <1>2, <1>4 DEF Jpg!ReadSizeHighByte
<1>6. reader \in JpgReaders
  BY DEF JpgInv
<1>7. size \in Highs /\ size \in Jpg!Words
  BY <1>0, <1>3, WordsAre
<1>8. /\ t \in JpgReaders /\ t.chunk = reader.chunk /\ t.marker = reader.marker
      /\ t.astray = reader.astray /\ t.guessed = reader.guessed
      /\ t.state = "READ_SIZE_LOW_BYTE" /\ t.size = size
  BY <1>4, <1>6, <1>7 DEF JpgReaders
<1>9. ASSUME ~t.astray, ~t.guessed PROVE JpgWhere(f, t, p + 1)
  <2>1. JpgWhere(f, reader, p)
    BY <1>2, <1>8, <1>9 DEF JpgInv
  <2>2. PICK last : last = Len(f) /\ last \in Nat
    BY <1>3 DEF JpgLaid
  <2>3. PICK k \in 1 .. last : JpgHeader(f, reader, p, k)
    BY <1>1, <2>1, <2>2, JpgIsWhere
  <2>4. JpgBefore(f, t.chunk, k) /\ p = JpgAt(f, k) - 3 /\ t.marker = Marker(f[k])
    BY <1>1, <1>8, <2>3 DEF JpgHeader
  <2>5. JpgAt(f, k) \in Nat /\ SegmentAt(b, JpgAt(f, k), f[k])
    BY <1>2, <1>3, <2>2, JpgSegmentIs
  <2>6. p + 1 = JpgAt(f, k) - 2
    BY <2>4, <2>5
  <2>7. byte = (Length(f[k]) + 2) \div 256
    BY <1>3, <2>5, <2>6 DEF SegmentAt
  <2>8. JpgHeader(f, t, p + 1, k)
    BY <1>0, <1>8, <2>4, <2>6, <2>7 DEF JpgHeader
  <2> QED BY <2>2, <2>8 DEF JpgWhere
<1>10. 1 \in Nat /\ 1 <= Jpg!Left /\ reader.state # "FINISHED"
  BY <1>1, <1>3
<1> QED BY <1>2, <1>5, <1>7, <1>8, <1>9, <1>10, JpgGoes

\* A segment that is passed over is of no kind that the reader still looks for.
LEMMA JpgPassed ==
  ASSUME NEW f, JpgLaid(f), NEW k \in 1 .. Len(f), NEW c, JpgBefore(f, c, k),
         \A kind \in Jpg!Kinds : Jpg!IsKind(f[k], kind) => c[kind] # Jpg!Null
  PROVE  JpgBefore(f, c, k + 1)
<1>1. SUFFICES ASSUME NEW kind \in Jpg!Kinds PROVE c[kind] = JpgFound(f, k + 1, kind)
  BY DEF JpgBefore
<1>2. c[kind] = JpgFound(f, k, kind)
  BY DEF JpgBefore
<1>3. ~(Jpg!IsKind(f[k], kind) /\ JpgFound(f, k, kind) = Jpg!Null)
  BY <1>2
<1> QED BY <1>2, <1>3, JpgFoundNext

\* The low byte of its size, which decides what becomes of its body
LEMMA JpgReadSizeLowByte ==
  ASSUME JpgAssumption, JpgInv, Jpg!ReadSizeLowByte
  PROVE  JpgInv'
<1>1. Jpg!Left > 0 /\ reader.state = "READ_SIZE_LOW_BYTE"
  BY DEF Jpg!ReadSizeLowByte, Jpg!In
<1>2. PICK b, f, p, byte : b = JpgBytes(source) /\ f = source /\ p = readTo /\ byte = Jpg!Byte
  OBVIOUS
<1>3. /\ JpgLaid(f) /\ p \in Nat /\ Jpg!Left \in Nat /\ byte = b[p + 1] /\ byte \in ByteValues
  BY <1>1, <1>2, JpgByteIs
<1>4. PICK given : given = reader.size + byte
  OBVIOUS
<1>5. PICK size : size = IF given > 2 THEN given - 2 ELSE given
  OBVIOUS
<1>6. PICK state :
        state = CASE size = 0 -> "READ"
                  [] size # 0 /\ reader.marker = 225
                     /\ (reader.chunk["EXIF"] = Jpg!Null \/ reader.chunk["XMP"] = Jpg!Null) -> "READ_APP1"
                  [] size # 0 /\ reader.marker = 226 /\ reader.chunk["ICC"] = Jpg!Null
                     /\ size > Len(Jpg!IccId \o Jpg!OnlyChunk) -> "ICC"
                  [] size # 0 /\ reader.marker = 237 /\ reader.chunk["IPTC"] = Jpg!Null -> "IPTC"
                  [] OTHER -> "SKIP_BYTES"
  OBVIOUS
<1>7. PICK t : t = [reader EXCEPT !.size = size, !.marker = 0, !.state = state,
                                  !.astray = @ \/ given = 2]
  OBVIOUS
<1>8. Jpg!Goes(t, 1)
  BY <1>2, <1>4, <1>5, <1>6, <1>7 DEF Jpg!ReadSizeLowByte, Jpg!App1, Jpg!App2, Jpg!App14
<1>9. reader \in JpgReaders /\ reader.size \in Highs
  BY <1>1 DEF JpgInv
<1>10. given \in Jpg!Words /\ given \in Nat /\ size \in Jpg!Words /\ size \in Nat
  <2>1. given \in Jpg!Words /\ given \in Nat
    BY <1>3, <1>4, <1>9, WordsAre
  <2>2. given > 2 => 2 \in Nat /\ 2 <= given
    BY <2>1
  <2>3. size \in Jpg!Words
    BY <1>5, <2>1, <2>2, WordsAre
  <2> QED BY <2>1, <2>3, WordsAre
<1>11. /\ state \in {"READ", "READ_APP1", "ICC", "IPTC", "SKIP_BYTES"}
       /\ state = "READ" => size = 0
       /\ state = "READ_APP1" => reader.marker = 225
       /\ state = "ICC" => /\ reader.marker = 226 /\ reader.chunk["ICC"] = Jpg!Null
                           /\ size > Len(Jpg!IccId \o Jpg!OnlyChunk)
       /\ state = "IPTC" => reader.marker = 237 /\ reader.chunk["IPTC"] = Jpg!Null
       /\ state = "SKIP_BYTES" =>
            /\ reader.marker = 225 => reader.chunk["EXIF"] # Jpg!Null /\ reader.chunk["XMP"] # Jpg!Null
            /\ reader.marker = 226 /\ size > Len(Jpg!IccId \o Jpg!OnlyChunk) =>
                 reader.chunk["ICC"] # Jpg!Null
            /\ reader.marker = 237 => reader.chunk["IPTC"] # Jpg!Null
  BY <1>6
<1>12. /\ t \in JpgReaders /\ t.chunk = reader.chunk /\ t.state = state /\ t.size = size
       /\ t.guessed = reader.guessed /\ t.astray = (reader.astray \/ given = 2)
  <2>1. state \in Jpg!Kinds \cup {"READ", "READ_MARKER", "READ_SIZE_HIGH_BYTE",
                                  "READ_SIZE_LOW_BYTE", "READ_APP1", "SKIP_BYTES", "FINISHED"}
    BY <1>11, StatesDiffer
  <2>2. 0 \in ByteValues
    BY DEF ByteValues
  <2>3. PICK gone \in BOOLEAN : gone = (reader.astray \/ given = 2)
    OBVIOUS
  <2>4. t = [reader EXCEPT !.size = size, !.marker = 0, !.state = state, !.astray = gone]
    BY <1>7, <2>3
  <2>5. /\ t \in JpgReaders /\ t.chunk = reader.chunk /\ t.state = state /\ t.size = size
        /\ t.guessed = reader.guessed /\ t.astray = gone
    BY <1>9, <1>10, <2>1, <2>2, <2>4 DEF JpgReaders
  <2> QED BY <2>3, <2>5
<1>13. ASSUME ~t.astray, ~t.guessed PROVE JpgWhere(f, t, p + 1)
  <2>1. JpgWhere(f, reader, p) /\ given # 2
    BY <1>2, <1>12, <1>13 DEF JpgInv
  <2>2. PICK last : last = Len(f) /\ last \in Nat
    BY <1>3 DEF JpgLaid
  <2>3. PICK k \in 1 .. last : JpgHeader(f, reader, p, k)
    BY <1>1, <2>1, <2>2, JpgIsWhere
  <2>4. PICK at, n : at = JpgAt(f, k) /\ n = Length(f[k])
    OBVIOUS
  <2>5. JpgBefore(f, t.chunk, k) /\ p = at - 2 /\ reader.marker = Marker(f[k])
        /\ reader.size = 256 * ((n + 2) \div 256)
    BY <1>1, <1>12, <2>3, <2>4 DEF JpgHeader
  <2>6. at \in Nat /\ n \in Nat /\ SegmentAt(b, at, f[k]) /\ JpgAt(f, k + 1) = at + n + 4
        /\ f[k] \in Segments
    BY <1>2, <1>3, <2>2, <2>4, JpgSegmentIs
  <2>7. p + 1 = at - 1
    BY <2>5, <2>6
  <2>8. byte = (n + 2) % 256
    BY <1>3, <2>4, <2>6, <2>7 DEF SegmentAt
  <2>9. given = n + 2
    <3>1. PICK m : m = n + 2 /\ m \in Nat
      BY <2>6
    <3>2. 256 * (m \div 256) + (m % 256) = m
      BY <3>1
    <3> QED BY <1>4, <2>5, <2>8, <3>1, <3>2
  <2>10. size = n /\ n # 0
    BY <1>5, <2>1, <2>6, <2>9
  <2>11. CASE state = "READ_APP1"
    <3>1. JpgHeader(f, t, p + 1, k)
      BY <1>11, <1>12, <2>4, <2>5, <2>7, <2>10, <2>11 DEF JpgHeader
    <3> QED BY <2>2, <3>1 DEF JpgWhere
  <2>12. ASSUME NEW kind \in Jpg!Kinds, state = kind, t.chunk[kind] = Jpg!Null, MayBe(f[k], kind)
         PROVE  JpgWhere(f, t, p + 1)
    <3>1. JpgFound(f, k, kind) = Jpg!Null
      BY <2>5, <2>12 DEF JpgBefore
    <3>2. JpgBeforeBut(f, t.chunk, k, kind)
      BY <2>5 DEF JpgBefore, JpgBeforeBut
    <3>3. JpgBody(f, t, p + 1, k, kind)
      BY <1>12, <2>4, <2>7, <2>10, <2>12, <3>1, <3>2 DEF JpgBody
    <3> QED BY <1>12, <2>2, <2>12, <3>3 DEF JpgWhere
  <2>13. CASE state = "ICC"
    <3>1. MayBe(f[k], "ICC")
      BY <1>11, <2>4, <2>5, <2>10, <2>13 DEF MayBe
    <3> QED BY <1>11, <1>12, <2>12, <2>13, <3>1, StatesDiffer
  <2>14. CASE state = "IPTC"
    <3>1. Body(f[k]) # <<>>
      <4>1. Len(Body(f[k])) # 0
        BY <2>4, <2>10 DEF Body, Length
      <4> QED BY <4>1
    <3>2. Jpg!IsKind(f[k], "IPTC")
      BY <1>11, <2>5, <2>14, <3>1, KindIs
    <3>3. MayBe(f[k], "IPTC")
      BY <3>2 DEF MayBe
    <3> QED BY <1>11, <1>12, <2>12, <2>14, <3>3, StatesDiffer
  <2>15. CASE state = "SKIP_BYTES"
    <3>1. ASSUME NEW kind \in Jpg!Kinds, Jpg!IsKind(f[k], kind) PROVE t.chunk[kind] # Jpg!Null
      <4>1. CASE kind = "EXIF"
        BY <1>11, <1>12, <2>5, <2>15, <3>1, <4>1, KindIs
      <4>2. CASE kind = "XMP"
        BY <1>11, <1>12, <2>5, <2>15, <3>1, <4>2, KindIs
      <4>3. CASE kind = "ICC"
        BY <1>11, <1>12, <2>4, <2>5, <2>10, <2>15, <3>1, <4>3, KindIs
      <4>4. CASE kind = "IPTC"
        BY <1>11, <1>12, <2>5, <2>15, <3>1, <4>4, KindIs
      <4> QED BY <4>1, <4>2, <4>3, <4>4, KindIs
    <3>2. JpgBefore(f, t.chunk, k + 1)
      BY <1>3, <2>2, <2>5, <3>1, JpgPassed
    <3>3. p + 1 + t.size = JpgAt(f, k + 1) - 5
      BY <1>12, <2>6, <2>7, <2>10
    <3>4. k + 1 \in 1 .. last + 1 /\ JpgBetween(f, t, p + 1, k + 1)
      BY <1>12, <2>2, <2>15, <3>2, <3>3 DEF JpgBetween
    <3> QED BY <2>2, <3>4 DEF JpgWhere
  <2>16. state # "READ"
    BY <1>11, <2>10
  <2> QED BY <1>11, <2>11, <2>13, <2>14, <2>15, <2>16
<1>14. 1 \in Nat /\ 1 <= Jpg!Left /\ reader.state # "FINISHED" /\ t.state # "READ_SIZE_LOW_BYTE"
  BY <1>1, <1>3, <1>11, <1>12
<1> QED BY <1>2, <1>8, <1>12, <1>13, <1>14, JpgGoes

\* A body that is passed over
LEMMA JpgSkipBytes ==
  ASSUME JpgAssumption, JpgInv, Jpg!SkipBytes
  PROVE  JpgInv'
<1>1. Jpg!Left > 0 /\ reader.state = "SKIP_BYTES"
  BY DEF Jpg!SkipBytes, Jpg!In
<1>2. PICK f, p, left : f = source /\ p = readTo /\ left = Jpg!Left
  OBVIOUS
<1>3. /\ JpgLaid(f) /\ p \in Nat /\ left \in Nat
  BY <1>1, <1>2, JpgByteIs
<1>4. reader \in JpgReaders
  BY DEF JpgInv
<1>5. PICK size : size = reader.size /\ size \in Jpg!Words /\ size \in Nat
  BY <1>4, WordsAre DEF JpgReaders
<1>6. PICK n : n = IF size < left THEN size ELSE left
  OBVIOUS
<1>7. n \in Nat /\ n <= left /\ n <= size /\ size - n \in Jpg!Words
  <2>1. n \in Nat /\ n <= left /\ n <= size
    BY <1>3, <1>5, <1>6
  <2> QED BY <1>5, <2>1, WordsAre
<1>8. PICK t : t = IF size < left THEN [reader EXCEPT !.size = 0, !.state = "READ"]
                   ELSE [reader EXCEPT !.size = @ - left,
                                       !.state = IF size = left THEN "READ" ELSE @]
  OBVIOUS
<1>9. Jpg!Goes(t, n)
  BY <1>2, <1>5, <1>6, <1>8 DEF Jpg!SkipBytes
<1>10. /\ t \in JpgReaders /\ t.chunk = reader.chunk /\ t.size = size - n
       /\ t.guessed = reader.guessed /\ t.astray = reader.astray
       /\ t.state \in {"READ", "SKIP_BYTES"} /\ (t.state = "READ" => n = size)
  <2>1. CASE size < left
    <3>1. size - n = 0 /\ 0 \in Jpg!Words /\ n = size
      BY <1>5, <1>6, <1>7, <2>1
    <3> QED BY <1>4, <1>8, <2>1, <3>1 DEF JpgReaders
  <2>2. CASE ~(size < left)
    <3>1. n = left /\ size - left \in Jpg!Words /\ (size = left => n = size)
      BY <1>6, <1>7, <2>2
    <3>2. PICK state \in {"READ", "SKIP_BYTES"} :
            state = (IF size = left THEN "READ" ELSE "SKIP_BYTES")
      OBVIOUS
    <3>3. t = [reader EXCEPT !.size = size - left, !.state = state]
      BY <1>1, <1>4, <1>5, <1>8, <2>2, <3>2 DEF JpgReaders
    <3> QED BY <1>4, <3>1, <3>2, <3>3 DEF JpgReaders
  <2> QED BY <2>1, <2>2
<1>11. ASSUME ~t.astray, ~t.guessed PROVE JpgWhere(f, t, p + n)
  <2>1. JpgWhere(f, reader, p)
    BY <1>2, <1>10, <1>11 DEF JpgInv
  <2>2. PICK last : last = Len(f) /\ last \in Nat
    BY <1>3 DEF JpgLaid
  <2>3. PICK k \in 1 .. last + 1 : JpgBefore(f, t.chunk, k) /\ p + size = JpgAt(f, k) - 5
    BY <1>1, <1>5, <1>10, <2>1, <2>2, JpgIsWhere
  <2>4. p + n + t.size = JpgAt(f, k) - 5 /\ (t.state = "READ" => p + n = JpgAt(f, k) - 5)
    <3>1. p + n + (size - n) = p + size
      BY <1>3, <1>5, <1>7
    <3> QED BY <1>10, <2>3, <3>1
  <2>5. JpgBetween(f, t, p + n, k)
    BY <1>10, <2>3, <2>4 DEF JpgBetween
  <2> QED BY <2>2, <2>5 DEF JpgWhere
<1>12. n <= Jpg!Left /\ reader.state # "FINISHED" /\ t.state # "READ_SIZE_LOW_BYTE"
  BY <1>1, <1>2, <1>7, <1>10
<1> QED BY <1>2, <1>7, <1>9, <1>10, <1>11, <1>12, JpgGoes

\* The part of a chunk that a buffer has
Took(d, read, n, p) ==
  [k \in DOMAIN d |-> IF k \in (read + 1) .. (read + n) THEN p + k - read ELSE d[k]]

\* What a buffer adds to the part that has been read is the part that follows.
LEMMA TookPart ==
  ASSUME NEW f, JpgLaid(f), NEW k \in 1 .. Len(f), NEW read \in Nat, NEW n \in Nat,
         read + n <= Length(f[k]), NEW p, p = JpgAt(f, k) - 1 + read
  PROVE  Took(PartOf(f, k, read).data, read, n, p) = PartOf(f, k, read + n).data
<1>1. PICK at, size : at = JpgAt(f, k) /\ size = Length(f[k])
  OBVIOUS
<1>2. at \in Nat /\ size \in Nat
  BY <1>1, JpgSegmentIs
<1>3. PICK d : d = [m \in 1 .. size |-> IF m <= read THEN at + m - 1 ELSE 0]
  OBVIOUS
<1>4. DOMAIN d = 1 .. size
  BY <1>3
<1>5. ASSUME NEW m \in 1 .. size
      PROVE  (IF m \in (read + 1) .. (read + n) THEN p + m - read ELSE d[m])
               = IF m <= read + n THEN at + m - 1 ELSE 0
  BY <1>1, <1>2, <1>3
<1>6. Took(d, read, n, p) = [m \in 1 .. size |-> IF m <= read + n THEN at + m - 1 ELSE 0]
  BY <1>4, <1>5 DEF Took
<1> QED BY <1>1, <1>3, <1>6 DEF PartOf

\* What has been read are places in the file.
LEMMA TookType ==
  ASSUME NEW d \in Seq(Nat), NEW read \in Nat, NEW n \in Nat, NEW p \in Nat
  PROVE  Took(d, read, n, p) \in Seq(Nat)
<1>1. PICK size \in Nat : DOMAIN d = 1 .. size /\ \A k \in 1 .. size : d[k] \in Nat
  BY LenProperties, ElementOfSeq
<1>2. ASSUME NEW k \in 1 .. size
      PROVE  (IF k \in (read + 1) .. (read + n) THEN p + k - read ELSE d[k]) \in Nat
  BY <1>1
<1>3. Took(d, read, n, p)
        = [k \in 1 .. size |-> IF k \in (read + 1) .. (read + n) THEN p + k - read ELSE d[k]]
  BY <1>1 DEF Took
<1> QED BY <1>1, <1>2, <1>3

\* What get_next_block leaves
LEMMA JpgBlock ==
  ASSUME JpgAssumption, JpgInv, Jpg!Left > 0, NEW s, s \in JpgReaders, NEW kind \in Jpg!Kinds,
         NEW t, t = Jpg!NextBlock(s, kind), NEW n, n = IF s.size < Jpg!Left THEN s.size ELSE Jpg!Left
  PROVE  /\ n \in Nat /\ n <= Jpg!Left /\ n <= s.size
         /\ t \in JpgReaders /\ t.astray = s.astray /\ t.guessed = s.guessed
         /\ \A other \in Jpg!Kinds \ {kind} : t.chunk[other] = s.chunk[other]
         /\ t.chunk[kind] = [len |-> s.chunk[kind].len,
                             data |-> Took(s.chunk[kind].data, s.read, n, readTo)]
         /\ IF s.size < Jpg!Left THEN t.state = "READ" /\ n = s.size
            ELSE t.state = kind /\ t.read = s.read + n /\ t.size = s.size - n
<1>1. PICK size, read, left : size = s.size /\ read = s.read /\ left = Jpg!Left
  OBVIOUS
<1>2. size \in Jpg!Words /\ size \in Nat /\ read \in Nat /\ left \in Nat /\ readTo \in Nat
  BY <1>1, JpgByteIs, WordsAre DEF JpgReaders
<1>3. n \in Nat /\ n <= left /\ n <= size /\ size - n \in Jpg!Words
  <2>1. n \in Nat /\ n <= left /\ n <= size
    BY <1>1, <1>2
  <2> QED BY <1>2, <2>1, WordsAre
<1>4. PICK c : c = s.chunk /\ c \in [Jpg!Kinds -> JpgChunks]
  BY DEF JpgReaders
<1>5. c[kind] \in JpgChunks
  BY <1>4
<1>6. PICK took : took = Took(c[kind].data, read, n, readTo) /\ took \in Seq(Nat)
  <2>1. c[kind].data \in Seq(Nat)
    BY <1>5 DEF JpgChunks
  <2> QED BY <1>2, <1>3, <2>1, TookType
<1>7. PICK x : x = [c[kind] EXCEPT !.data = took]
  OBVIOUS
<1>8. x \in JpgChunks /\ x = [len |-> c[kind].len, data |-> took]
  BY <1>5, <1>6, <1>7 DEF JpgChunks
<1>9. PICK d : d = [c EXCEPT ![kind] = x]
  OBVIOUS
<1>10. d \in [Jpg!Kinds -> JpgChunks] /\ d[kind] = x
       /\ \A other \in Jpg!Kinds \ {kind} : d[other] = c[other]
  BY <1>4, <1>8, <1>9
<1>11. PICK u, v : u = [s EXCEPT !.chunk = d, !.state = "READ"]
                   /\ v = [s EXCEPT !.chunk = d, !.read = @ + n, !.size = @ - n, !.state = kind]
  OBVIOUS
<1>12. t = IF size < left THEN u ELSE v
  BY <1>1, <1>4, <1>6, <1>7, <1>9, <1>11 DEF Jpg!NextBlock, Took
<1>13. /\ u \in JpgReaders /\ u.astray = s.astray /\ u.guessed = s.guessed /\ u.chunk = d
       /\ u.state = "READ"
  BY <1>10, <1>11 DEF JpgReaders
<1>14. /\ v \in JpgReaders /\ v.astray = s.astray /\ v.guessed = s.guessed /\ v.chunk = d
       /\ v.state = kind /\ v.read = read + n /\ v.size = size - n
  <2>1. read + n \in Nat
    BY <1>2, <1>3
  <2>2. v = [s EXCEPT !.chunk = d, !.read = read + n, !.size = size - n, !.state = kind]
    BY <1>1, <1>11 DEF JpgReaders
  <2> QED BY <1>3, <1>10, <2>1, <2>2 DEF JpgReaders
<1>15. t \in JpgReaders /\ t.astray = s.astray /\ t.guessed = s.guessed /\ t.chunk = d
  BY <1>12, <1>13, <1>14
<1>16. IF size < left THEN t.state = "READ" /\ n = size
       ELSE t.state = kind /\ t.read = read + n /\ t.size = size - n
  BY <1>1, <1>12, <1>13, <1>14
<1> QED BY <1>1, <1>3, <1>4, <1>6, <1>8, <1>10, <1>15, <1>16

\* A chunk is allocated with the size that is given.
LEMMA JpgAllocated ==
  ASSUME NEW r, r \in JpgReaders, NEW kind \in Jpg!Kinds, NEW s, s = Jpg!Allocated(r, kind)
  PROVE  /\ s \in JpgReaders /\ s.size = r.size /\ s.read = 0 /\ s.state = r.state
         /\ s.astray = r.astray /\ s.guessed = r.guessed
         /\ s.chunk[kind] = Zeros(r.size)
         /\ \A other \in Jpg!Kinds \ {kind} : s.chunk[other] = r.chunk[other]
<1>1. PICK size : size = r.size /\ size \in Jpg!Words /\ size \in Nat
  BY WordsAre DEF JpgReaders
<1>2. PICK x : x = Zeros(size)
  OBVIOUS
<1>3. x \in JpgChunks
  BY <1>1, <1>2 DEF JpgChunks, Zeros
<1>4. PICK c : c = r.chunk /\ c \in [Jpg!Kinds -> JpgChunks]
  BY DEF JpgReaders
<1>5. PICK d : d = [c EXCEPT ![kind] = x]
  OBVIOUS
<1>6. d \in [Jpg!Kinds -> JpgChunks] /\ d[kind] = x
      /\ \A other \in Jpg!Kinds \ {kind} : d[other] = c[other]
  BY <1>3, <1>4, <1>5
<1>7. PICK none \in Nat : none = 0 /\ s = [r EXCEPT !.chunk = d, !.read = none]
  BY <1>1, <1>2, <1>4, <1>5 DEF Jpg!Allocated, Zeros
<1>8. /\ s \in JpgReaders /\ s.size = r.size /\ s.read = none /\ s.state = r.state
      /\ s.astray = r.astray /\ s.guessed = r.guessed /\ s.chunk = d
  BY <1>6, <1>7 DEF JpgReaders
<1> QED BY <1>1, <1>2, <1>4, <1>6, <1>7, <1>8

\* When a body has been read, what the reader has is that of the segments up to it.
LEMMA JpgBodyRead ==
  ASSUME NEW f, JpgLaid(f), NEW k \in 1 .. Len(f), NEW kind \in Jpg!Kinds, MayBe(f[k], kind),
         JpgFound(f, k, kind) = Jpg!Null, NEW c, JpgBeforeBut(f, c, k, kind),
         c[kind] = IF Jpg!IsKind(f[k], kind) THEN AllOf(f, k) ELSE Jpg!Null
  PROVE  JpgBefore(f, c, k + 1)
<1>1. SUFFICES ASSUME NEW other \in Jpg!Kinds PROVE c[other] = JpgFound(f, k + 1, other)
  BY DEF JpgBefore
<1>2. JpgFound(f, k + 1, other)
        = IF Jpg!IsKind(f[k], other) /\ JpgFound(f, k, other) = Jpg!Null
          THEN AllOf(f, k) ELSE JpgFound(f, k, other)
  BY JpgFoundNext
<1>3. CASE other = kind
  BY <1>2, <1>3
<1>4. CASE other # kind
  <2>1. c[other] = JpgFound(f, k, other)
    BY <1>4 DEF JpgBeforeBut
  <2>2. f[k] \in Segments
    BY JpgSegmentIs
  <2>3. ~Jpg!IsKind(f[k], other)
    <3>1. CASE Jpg!IsKind(f[k], kind)
      BY <1>4, <2>2, <3>1, OneKind
    <3>2. CASE ~Jpg!IsKind(f[k], kind)
      <4>1. kind = "ICC" /\ Marker(f[k]) = 226
        BY <3>2 DEF MayBe
      <4>2. other \in {"EXIF", "XMP", "IPTC"}
        BY <1>4, <4>1, StatesDiffer
      <4> QED BY <4>1, <4>2, KindIs
    <3> QED BY <3>1, <3>2
  <2> QED BY <1>2, <2>1, <2>3
<1> QED BY <1>3, <1>4

\* A round that reads something of a chunk
LEMMA JpgChunkWhere ==
  ASSUME JpgAssumption, JpgInv, Jpg!Left > 0, NEW kind \in Jpg!Kinds, NEW f, f = source,
         JpgLaid(f), NEW k \in 1 .. Len(f), NEW s, s \in JpgReaders,
         MayBe(f[k], kind), JpgFound(f, k, kind) = Jpg!Null, JpgBeforeBut(f, s.chunk, k, kind),
         s.chunk[kind] = PartOf(f, k, s.read), readTo = JpgAt(f, k) - 1 + s.read,
         s.read + s.size = Length(f[k]),
         NEW t, t = Jpg!NextBlock(s, kind),
         NEW n, n = IF s.size < Jpg!Left THEN s.size ELSE Jpg!Left
  PROVE  /\ t.state = kind => JpgBody(f, t, readTo + n, k, kind)
         /\ t.state = "READ" => /\ t.chunk[kind] = AllOf(f, k)
                                /\ JpgBeforeBut(f, t.chunk, k, kind)
                                /\ readTo + n = JpgAt(f, k + 1) - 5
<1>1. /\ n \in Nat /\ n <= s.size /\ t \in JpgReaders
      /\ \A other \in Jpg!Kinds \ {kind} : t.chunk[other] = s.chunk[other]
      /\ t.chunk[kind] = [len |-> s.chunk[kind].len,
                          data |-> Took(s.chunk[kind].data, s.read, n, readTo)]
      /\ IF s.size < Jpg!Left THEN t.state = "READ" /\ n = s.size
         ELSE t.state = kind /\ t.read = s.read + n /\ t.size = s.size - n
  BY JpgBlock
<1>2. PICK at, long, size, read, p :
        at = JpgAt(f, k) /\ long = Length(f[k]) /\ size = s.size /\ read = s.read /\ p = readTo
  OBVIOUS
<1>3. /\ at \in Nat /\ long \in Nat /\ size \in Nat /\ read \in Nat
      /\ JpgAt(f, k + 1) = at + long + 4 /\ p = at - 1 + read /\ read + size = long
      /\ n \in Nat /\ n <= size
  <2>1. s.size \in Nat /\ s.read \in Nat
    BY WordsAre DEF JpgReaders
  <2> QED BY <1>1, <1>2, <2>1, JpgSegmentIs
<1>4. t.chunk[kind] = PartOf(f, k, read + n)
  <2>1. read + n <= long
    BY <1>3
  <2>2. Took(PartOf(f, k, read).data, read, n, p) = PartOf(f, k, read + n).data
    <3>1. read \in Nat /\ n \in Nat /\ read + n <= Length(f[k]) /\ p = JpgAt(f, k) - 1 + read
      BY <1>2, <1>3, <2>1
    <3> QED BY <3>1, TookPart
  <2>3. PartOf(f, k, read).len = long /\ PartOf(f, k, read + n).len = long
    BY <1>2 DEF PartOf
  <2>4. PartOf(f, k, read + n) = [len |-> long, data |-> PartOf(f, k, read + n).data]
    BY <1>2 DEF PartOf
  <2> QED BY <1>1, <1>2, <2>2, <2>3, <2>4
<1>5. JpgBeforeBut(f, t.chunk, k, kind)
  BY <1>1 DEF JpgBeforeBut
<1>6. ASSUME t.state = kind PROVE JpgBody(f, t, p + n, k, kind)
  <2>1. t.read = read + n /\ t.size = size - n
    BY <1>1, <1>2, <1>6, StatesDiffer
  <2>2. p + n = at - 1 + (read + n) /\ (read + n) + (size - n) = long
    BY <1>3, SMTT(30)
  <2> QED BY <1>2, <1>4, <1>5, <2>1, <2>2 DEF JpgBody
<1>7. ASSUME t.state = "READ" PROVE t.chunk[kind] = AllOf(f, k) /\ p + n = JpgAt(f, k + 1) - 5
  <2>1. n = size
    BY <1>1, <1>2, <1>7, StatesDiffer
  <2>2. read + n = long /\ p + n = JpgAt(f, k + 1) - 5
    BY <1>3, <2>1, SMTT(30)
  <2> QED BY <1>2, <1>4, <2>2, AllOfIs
<1> QED BY <1>2, <1>5, <1>6, <1>7

\* What has to be shown of a round that reads a chunk
LEMMA JpgAdvance ==
  ASSUME JpgInv, reader.state # "FINISHED", JpgLaid(source), NEW s, NEW t, t \in JpgReaders,
         Jpg!Advance(s, t), NEW n, n = IF s.size < Jpg!Left THEN s.size ELSE Jpg!Left,
         n \in Nat, n <= Jpg!Left, t.state # "READ_SIZE_LOW_BYTE",
         ~t.astray /\ ~t.guessed => JpgWhere(source, t, readTo + n)
  PROVE  JpgInv'
<1>1. PICK u : u = Jpg!Finish(t)
  OBVIOUS
<1>2. Jpg!Goes(u, n)
  BY <1>1 DEF Jpg!Advance
<1>3. CASE ~Jpg!IsFinished(t)
  <2>1. u = t
    BY <1>1, <1>3 DEF Jpg!Finish
  <2> QED BY <1>2, <2>1, JpgGoes
<1>4. CASE Jpg!IsFinished(t)
  <2>1. t.state = "READ" /\ \A kind \in Jpg!Kinds : t.chunk[kind] # Jpg!Null
    BY <1>4 DEF Jpg!IsFinished
  <2>2. u = [t EXCEPT !.state = "FINISHED"]
    BY <1>1, <1>4 DEF Jpg!Finish
  <2>3. /\ u \in JpgReaders /\ u.state = "FINISHED" /\ u.chunk = t.chunk
        /\ u.astray = t.astray /\ u.guessed = t.guessed
    BY <2>2 DEF JpgReaders
  <2>4. ASSUME ~u.astray, ~u.guessed PROVE JpgWhere(source, u, readTo + n)
    <3>1. PICK last : last = Len(source) /\ last \in Nat
      BY DEF JpgLaid
    <3>2. JpgWhere(source, t, readTo + n)
      BY <2>3, <2>4
    <3>3. \/ JpgBefore(source, t.chunk, 1) \/ JpgBefore(source, t.chunk, last + 1)
          \/ \E k \in 1 .. last + 1 : JpgBefore(source, t.chunk, k)
      BY <2>1, <3>1, <3>2, JpgIsWhere
    <3>4. PICK k \in 1 .. last + 1 : JpgBefore(source, t.chunk, k)
      BY <3>1, <3>3
    <3>5. ASSUME NEW kind \in Jpg!Kinds PROVE u.chunk[kind] = JpgFound(source, last + 1, kind)
      <4>1. u.chunk[kind] = JpgFound(source, k, kind) /\ u.chunk[kind] # Jpg!Null
        BY <2>1, <2>3, <3>4 DEF JpgBefore
      <4> QED BY <3>1, <3>4, <4>1, JpgFoundStays
    <3>6. JpgBefore(source, u.chunk, last + 1)
      BY <3>5 DEF JpgBefore
    <3> QED BY <2>3, <3>1, <3>6 DEF JpgWhere, JpgEnds
  <2> QED BY <1>2, <2>3, <2>4, JpgGoes
<1> QED BY <1>3, <1>4

\* A chunk may be thrown away when it is complete.
Kept(t, kind, valid) ==
  IF t.state = "READ" /\ ~valid THEN [t EXCEPT !.chunk[kind] = Jpg!Null] ELSE t

\* What is thrown away is the chunk itself only.
LEMMA JpgKept ==
  ASSUME NEW kind \in Jpg!Kinds, NEW t, t \in JpgReaders, NEW valid \in BOOLEAN,
         NEW u, u = Kept(t, kind, valid)
  PROVE  /\ u \in JpgReaders /\ u.state = t.state /\ u.astray = t.astray /\ u.guessed = t.guessed
         /\ u.size = t.size /\ u.read = t.read
         /\ \A other \in Jpg!Kinds \ {kind} : u.chunk[other] = t.chunk[other]
         /\ u.chunk[kind] = IF t.state = "READ" /\ ~valid THEN Jpg!Null ELSE t.chunk[kind]
         /\ ~(t.state = "READ" /\ ~valid) => u = t
<1>1. PICK c : c = t.chunk /\ c \in [Jpg!Kinds -> JpgChunks]
  BY DEF JpgReaders
<1>2. Jpg!Null \in JpgChunks
  <2>1. <<>> \in Seq(Nat)
    OBVIOUS
  <2> QED BY <2>1 DEF Jpg!Null, JpgChunks
<1>3. CASE t.state = "READ" /\ ~valid
  <2>1. PICK d : d = [c EXCEPT ![kind] = Jpg!Null]
    OBVIOUS
  <2>2. /\ d \in [Jpg!Kinds -> JpgChunks] /\ d[kind] = Jpg!Null
        /\ \A other \in Jpg!Kinds \ {kind} : d[other] = c[other]
    BY <1>1, <1>2, <2>1
  <2>3. u = [t EXCEPT !.chunk = d]
    BY <1>1, <1>3, <2>1 DEF Kept
  <2>4. /\ u \in JpgReaders /\ u.state = t.state /\ u.astray = t.astray /\ u.guessed = t.guessed
        /\ u.size = t.size /\ u.read = t.read /\ u.chunk = d
    BY <2>2, <2>3 DEF JpgReaders
  <2> QED BY <1>1, <1>3, <2>2, <2>4
<1>4. CASE ~(t.state = "READ" /\ ~valid)
  BY <1>4 DEF Kept
<1> QED BY <1>3, <1>4

\* A round that reads something of a chunk, and throws it away if it is not valid
LEMMA JpgChunkGoes ==
  ASSUME JpgAssumption, JpgInv, Jpg!Left > 0, reader.state # "FINISHED",
         NEW kind \in Jpg!Kinds, NEW r, r \in JpgReaders,
         ~r.astray /\ ~r.guessed => \E k \in 1 .. Len(source) : JpgBody(source, r, readTo, k, kind),
         NEW s, s = IF r.chunk[kind] = Jpg!Null THEN Jpg!Allocated(r, kind) ELSE r,
         NEW t, t = Jpg!NextBlock(s, kind),
         NEW valid \in BOOLEAN,
         \A k \in 1 .. Len(source) :
           MayBe(source[k], kind) /\ t.chunk[kind] = AllOf(source, k) =>
             valid = Jpg!IsKind(source[k], kind),
         NEW u, u = Kept(t, kind, valid), Jpg!Advance(s, u)
  PROVE  JpgInv'
<1>0. JpgLaid(source)
  BY JpgByteIs
<1>1. /\ s \in JpgReaders /\ s.astray = r.astray /\ s.guessed = r.guessed /\ s.size = r.size
      /\ \A other \in Jpg!Kinds \ {kind} : s.chunk[other] = r.chunk[other]
      /\ r.chunk[kind] # Jpg!Null => s = r
      /\ r.chunk[kind] = Jpg!Null =>
           /\ s.read = 0
           /\ s.chunk[kind] = Zeros(r.size)
  <2>1. CASE r.chunk[kind] = Jpg!Null
    <3>1. s = Jpg!Allocated(r, kind)
      BY <2>1
    <3> QED BY <2>1, <3>1, JpgAllocated
  <2>2. CASE r.chunk[kind] # Jpg!Null
    BY <2>2
  <2> QED BY <2>1, <2>2
<1>2. PICK n : n = IF s.size < Jpg!Left THEN s.size ELSE Jpg!Left
  OBVIOUS
<1>3. /\ n \in Nat /\ n <= Jpg!Left /\ t \in JpgReaders
      /\ t.astray = s.astray /\ t.guessed = s.guessed /\ t.state \in {"READ", kind}
  <2>1. s \in JpgReaders
    BY <1>1
  <2>2. /\ n \in Nat /\ n <= Jpg!Left /\ n <= s.size
        /\ t \in JpgReaders /\ t.astray = s.astray /\ t.guessed = s.guessed
        /\ \A other \in Jpg!Kinds \ {kind} : t.chunk[other] = s.chunk[other]
        /\ t.chunk[kind] = [len |-> s.chunk[kind].len,
                            data |-> Took(s.chunk[kind].data, s.read, n, readTo)]
        /\ IF s.size < Jpg!Left THEN t.state = "READ" /\ n = s.size
           ELSE t.state = kind /\ t.read = s.read + n /\ t.size = s.size - n
    BY <1>2, <2>1, JpgBlock
  <2> QED BY <2>2
<1>10. /\ u \in JpgReaders /\ u.state = t.state /\ u.astray = t.astray /\ u.guessed = t.guessed
       /\ \A other \in Jpg!Kinds \ {kind} : u.chunk[other] = t.chunk[other]
       /\ u.chunk[kind] = IF t.state = "READ" /\ ~valid THEN Jpg!Null ELSE t.chunk[kind]
       /\ ~(t.state = "READ" /\ ~valid) => u = t
  BY <1>3, JpgKept
<1>11. ASSUME ~u.astray, ~u.guessed PROVE JpgWhere(source, u, readTo + n)
  <2>1. PICK k \in 1 .. Len(source) : JpgBody(source, r, readTo, k, kind)
    BY <1>1, <1>3, <1>10, <1>11
  <2>2. MayBe(source[k], kind) /\ JpgFound(source, k, kind) = Jpg!Null
        /\ JpgBeforeBut(source, s.chunk, k, kind)
    BY <1>1, <2>1 DEF JpgBody, JpgBeforeBut
  <2>3. /\ s.chunk[kind] = PartOf(source, k, s.read) /\ readTo = JpgAt(source, k) - 1 + s.read
        /\ s.read + s.size = Length(source[k])
    <3>1. JpgAt(source, k) \in Nat /\ Length(source[k]) \in Nat
      BY <1>0, JpgSegmentIs
    <3>2. CASE r.chunk[kind] # Jpg!Null
      BY <1>1, <2>1, <3>2 DEF JpgBody
    <3>3. CASE r.chunk[kind] = Jpg!Null
      <4>1. PartOf(source, k, r.read) # Jpg!Null
        <5>1. PartOf(source, k, r.read).len # -1
          BY <3>1 DEF PartOf
        <5> QED BY <5>1 DEF Jpg!Null
      <4>2. readTo = JpgAt(source, k) - 1 /\ r.size = Length(source[k])
        BY <2>1, <3>3, <4>1 DEF JpgBody
      <4>3. s.chunk[kind] = PartOf(source, k, 0)
        BY <1>0, <1>1, <3>3, <4>2, AllOfIs
      <4> QED BY <1>1, <3>1, <3>3, <4>2, <4>3
    <3> QED BY <3>2, <3>3
  <2>4. /\ t.state = kind => JpgBody(source, t, readTo + n, k, kind)
        /\ t.state = "READ" => /\ t.chunk[kind] = AllOf(source, k)
                               /\ JpgBeforeBut(source, t.chunk, k, kind)
                               /\ readTo + n = JpgAt(source, k + 1) - 5
    BY <1>0, <1>1, <1>2, <2>2, <2>3, JpgChunkWhere
  <2>5. CASE t.state = kind
    <3>1. u = t
      BY <1>10, <2>5, StatesDiffer
    <3> QED BY <2>4, <2>5, <3>1 DEF JpgWhere
  <2>6. CASE t.state = "READ"
    <3>1. valid = Jpg!IsKind(source[k], kind)
      BY <2>2, <2>4, <2>6
    <3>2. u.chunk[kind] = IF Jpg!IsKind(source[k], kind) THEN AllOf(source, k) ELSE Jpg!Null
      BY <1>10, <2>4, <2>6, <3>1
    <3>3. JpgBeforeBut(source, u.chunk, k, kind)
      BY <1>10, <2>4, <2>6 DEF JpgBeforeBut
    <3>4. JpgBefore(source, u.chunk, k + 1)
      BY <1>0, <2>2, <3>2, <3>3, JpgBodyRead
    <3>5. k + 1 \in 1 .. Len(source) + 1
      BY <1>0, JpgSegmentIs
    <3>6. JpgBetween(source, u, readTo + n, k + 1)
      BY <1>10, <2>4, <2>6, <3>4 DEF JpgBetween
    <3> QED BY <3>5, <3>6 DEF JpgWhere
  <2> QED BY <1>3, <2>5, <2>6
<1>12. u.state # "READ_SIZE_LOW_BYTE"
  BY <1>3, <1>10, StatesDiffer
<1> QED BY <1>0, <1>2, <1>3, <1>10, <1>11, <1>12, JpgAdvance

\* The chunks that are known by their identification or their marker are what they seem.
LEMMA SureIs ==
  ASSUME NEW s, NEW kind \in {"EXIF", "XMP", "IPTC"}, MayBe(s, kind)
  PROVE  TRUE = Jpg!IsKind(s, kind)
<1>1. Jpg!IsKind(s, kind)
  BY DEF MayBe
<1>2. Jpg!IsKind(s, kind) \in BOOLEAN
  BY DEF Jpg!IsKind
<1> QED BY <1>1, <1>2

\* More of a chunk
LEMMA JpgReadChunk ==
  ASSUME JpgAssumption, JpgInv, NEW kind \in {"EXIF", "XMP", "IPTC"}, Jpg!ReadChunk(kind)
  PROVE  JpgInv'
<1>1. Jpg!Left > 0 /\ reader.state = kind /\ kind \in Jpg!Kinds
  BY StatesDiffer DEF Jpg!ReadChunk, Jpg!In
<1>2. reader.state # "FINISHED" /\ reader \in JpgReaders
  BY <1>1, StatesDiffer DEF JpgInv
<1>3. PICK s : s = IF reader.chunk[kind] = Jpg!Null THEN Jpg!Allocated(reader, kind) ELSE reader
  OBVIOUS
<1>4. PICK t : t = Jpg!NextBlock(s, kind)
  OBVIOUS
<1>5. Jpg!Advance(s, t)
  BY <1>3, <1>4 DEF Jpg!ReadChunk
<1>6. ~reader.astray /\ ~reader.guessed =>
        \E k \in 1 .. Len(source) : JpgBody(source, reader, readTo, k, kind)
  BY <1>1, JpgIsWhere DEF JpgInv
<1>7. PICK valid \in BOOLEAN : valid = TRUE
  OBVIOUS
<1>8. \A k \in 1 .. Len(source) :
        MayBe(source[k], kind) /\ t.chunk[kind] = AllOf(source, k) =>
          valid = Jpg!IsKind(source[k], kind)
  BY <1>7, SureIs
<1>9. t = Kept(t, kind, valid)
  BY <1>7 DEF Kept
<1> QED BY <1>1, <1>2, <1>3, <1>4, <1>5, <1>6, <1>8, <1>9, JpgChunkGoes

\* A beginning of the body that has been read is that of the segment.
LEMMA JpgBodyBegins ==
  ASSUME NEW f, JpgLaid(f), NEW k \in 1 .. Len(f), NEW n \in Nat, n <= Length(f[k])
  PROVE  \A m \in 1 .. n : JpgBytes(f)[JpgAt(f, k) - 1 + m] = Body(f[k])[m]
<1>1. SegmentAt(JpgBytes(f), JpgAt(f, k), f[k]) /\ Length(f[k]) \in Nat
  BY JpgSegmentIs
<1> QED BY <1>1 DEF SegmentAt

\* The identification is read as a whole.
LEMMA JpgIdentified ==
  ASSUME JpgAssumption, JpgInv, Jpg!Left > 0, NEW f, f = source, JpgLaid(f),
         NEW k \in 1 .. Len(f), readTo = JpgAt(f, k) - 1,
         NEW id \in Seq(Nat), NEW n, n = Len(id), n <= Length(f[k]),
         Jpg!Matches(id), Jpg!AllRead(id)
  PROVE  Jpg!IsPrefix(id, Body(f[k]))
<1>1. PICK b, p, left : b = JpgBytes(f) /\ p = readTo /\ left = Jpg!Left
  OBVIOUS
<1>2. b \in Seq(ByteValues) /\ Jpg!Bytes = b /\ p \in Nat /\ left \in Nat
      /\ left = buffered - p /\ buffered \in Nat
  BY <1>1, JpgByteIs DEF JpgLaid
<1>3. n \in Nat /\ n <= left
  BY <1>1, LenProperties DEF Jpg!AllRead
<1>4. p + n <= Len(b)
  <2>1. buffered \in 0 .. Len(b)
    BY <1>1 DEF JpgInv
  <2>2. Len(b) \in Nat
    BY <1>2, LenProperties
  <2> QED BY <1>2, <1>3, <2>1, <2>2
<1>5. (IF n < left THEN n ELSE left) = n
  BY <1>2, <1>3
<1>6. SubSeq(b, p + 1, p + n) = SubSeq(id, 1, n)
  BY <1>1, <1>2, <1>5 DEF Jpg!Matches
<1>7. \A m \in 1 .. n : b[p + m] = id[m]
  <2>1. ASSUME NEW m \in 1 .. n PROVE b[p + m] = id[m]
    <3>1. Len(b) \in Nat
      BY <1>2, LenProperties
    <3>2. SubSeq(b, p + 1, p + n)[m] = b[(p + 1) + m - 1]
      BY <1>2, <1>3, <1>4, <3>1
    <3>3. SubSeq(id, 1, n)[m] = id[m]
      BY <1>3
    <3>4. (p + 1) + m - 1 = p + m
      BY <1>2, <1>3
    <3> QED BY <1>6, <3>2, <3>3, <3>4
  <2> QED BY <2>1
<1>8. \A m \in 1 .. n : b[p + m] = Body(f[k])[m]
  BY <1>1, <1>3, JpgBodyBegins, ZenonT(30)
<1>9. PICK body : body = Body(f[k]) /\ body \in Seq(ByteValues)
  <2>1. f[k] \in Segments
    BY JpgSegmentIs
  <2> QED BY <2>1 DEF Segments, Body, ByteValues
<1>10. IsPrefix(id, body)
  <2>1. n <= Len(body) /\ \A m \in 1 .. n : body[m] = id[m]
    BY <1>7, <1>8, <1>9 DEF Body, Length
  <2> QED BY <1>9, <2>1, PrefixIs
<1> QED BY <1>9, <1>10 DEF Jpg!IsPrefix, IsPrefix

\* The identification of an APP1 segment, with as much of it as the buffer has
LEMMA JpgReadApp1 ==
  ASSUME JpgAssumption, JpgInv, Jpg!ReadApp1
  PROVE  JpgInv'
<1>1. Jpg!Left > 0 /\ reader.state = "READ_APP1" /\ reader.state # "FINISHED"
  BY DEF Jpg!ReadApp1, Jpg!In
<1>2. PICK f, p : f = source /\ p = readTo
  OBVIOUS
<1>3. JpgLaid(f) /\ p \in Nat /\ Jpg!Left \in Nat /\ reader \in JpgReaders
  BY <1>1, <1>2, JpgByteIs DEF JpgInv
<1>4. PICK type \in Jpg!App1Types :
        \E s : /\ s = [reader EXCEPT !.guessed = @ \/ Jpg!App1Types # {type}]
              /\ IF type = "OTHER" \/ reader.chunk[type] # Jpg!Null
                 THEN Jpg!Goes([s EXCEPT !.state = "SKIP_BYTES", !.astray = TRUE], 1)
                 ELSE Jpg!Advance(s, Jpg!NextBlock(Jpg!Allocated(s, type), type))
  BY DEF Jpg!ReadApp1
<1>9. PICK s :
        /\ s = [reader EXCEPT !.guessed = @ \/ Jpg!App1Types # {type}]
        /\ IF type = "OTHER" \/ reader.chunk[type] # Jpg!Null
           THEN Jpg!Goes([s EXCEPT !.state = "SKIP_BYTES", !.astray = TRUE], 1)
           ELSE Jpg!Advance(s, Jpg!NextBlock(Jpg!Allocated(s, type), type))
  BY <1>4
<1>5. PICK guessed \in BOOLEAN : guessed = (reader.guessed \/ Jpg!App1Types # {type})
  OBVIOUS
<1>6. /\ s \in JpgReaders /\ s.state = reader.state /\ s.chunk = reader.chunk
      /\ s.size = reader.size /\ s.read = reader.read
      /\ s.astray = reader.astray /\ s.guessed = guessed
  <2>1. s = [reader EXCEPT !.guessed = guessed]
    BY <1>5, <1>9
  <2> QED BY <1>3, <2>1 DEF JpgReaders
<1>7. CASE type = "OTHER" \/ reader.chunk[type] # Jpg!Null
  <2>1. PICK t : t = [s EXCEPT !.state = "SKIP_BYTES", !.astray = TRUE]
    OBVIOUS
  <2>2. t \in JpgReaders /\ t.state = "SKIP_BYTES" /\ t.astray
    BY <1>6, <2>1 DEF JpgReaders
  <2>3. Jpg!Goes(t, 1) /\ 1 \in Nat /\ 1 <= Jpg!Left
    BY <1>1, <1>3, <1>7, <1>9, <2>1
  <2> QED BY <1>1, <2>2, <2>3, JpgGoes
<1>8. CASE ~(type = "OTHER" \/ reader.chunk[type] # Jpg!Null)
  <2>1. type \in {"EXIF", "XMP"} /\ type \in Jpg!Kinds
    BY <1>8, StatesDiffer DEF Jpg!App1Types
  <2>2. PICK r : r = Jpg!Allocated(s, type)
    OBVIOUS
  <2>3. r = IF s.chunk[type] = Jpg!Null THEN Jpg!Allocated(s, type) ELSE s
    BY <1>6, <1>8, <2>2
  <2>4. r.size = s.size
    BY <1>6, <2>1, <2>2, JpgAllocated
  <2>5. PICK t : t = Jpg!NextBlock(r, type)
    OBVIOUS
  <2>6. Jpg!Advance(r, t)
    <3>1. Jpg!Advance(s, t)
      BY <1>8, <1>9, <2>2, <2>5
    <3> QED BY <2>4, <3>1 DEF Jpg!Advance
  <2>7. ASSUME ~s.astray, ~s.guessed
        PROVE  \E k \in 1 .. Len(f) : JpgBody(f, s, p, k, type)
    <3>1. ~reader.astray /\ ~reader.guessed /\ Jpg!App1Types = {type}
      BY <1>5, <1>6, <2>7
    <3>2. PICK k \in 1 .. Len(f) : JpgHeader(f, reader, p, k)
      BY <1>1, <1>2, <3>1, JpgIsWhere DEF JpgInv
    <3>3. /\ JpgBefore(f, reader.chunk, k) /\ p = JpgAt(f, k) - 1 /\ Marker(f[k]) = 225
          /\ reader.size = Length(f[k])
      BY <1>1, <3>2 DEF JpgHeader
    <3>4. PICK id \in Seq(Nat) : /\ Len(id) <= Length(f[k])
                                 /\ Jpg!Matches(id) /\ Jpg!AllRead(id)
                                 /\ id = IF type = "EXIF" THEN Jpg!ExifId ELSE Jpg!XmpId
      <4>1. Jpg!ExifId \in Seq(Nat) /\ Jpg!XmpId \in Seq(Nat)
        BY DEF Jpg!ExifId, Jpg!XmpId
      <4>3. "OTHER" \notin Jpg!App1Types
        BY <2>1, <3>1
      <4>4. LET id == IF type = "EXIF" THEN Jpg!ExifId ELSE Jpg!XmpId
            IN reader.size >= Len(id) /\ Jpg!Matches(id) /\ Jpg!AllRead(id)
        BY <2>1, <3>1, <4>3 DEF Jpg!App1Types
      <4> QED BY <3>3, <4>1, <4>4
    <3>5. Jpg!IsPrefix(id, Body(f[k]))
      BY <1>1, <1>2, <1>3, <3>3, <3>4, JpgIdentified
    <3>6. Jpg!IsKind(f[k], type)
      BY <2>1, <3>3, <3>4, <3>5, KindIs
    <3>7. MayBe(f[k], type)
      BY <2>1, <3>6 DEF MayBe
    <3>8. JpgFound(f, k, type) = Jpg!Null /\ JpgBeforeBut(f, s.chunk, k, type)
      BY <1>6, <1>8, <2>1, <3>3 DEF JpgBefore, JpgBeforeBut
    <3> QED BY <1>6, <1>8, <3>3, <3>7, <3>8 DEF JpgBody
  <2>8. PICK valid \in BOOLEAN : valid = TRUE
    OBVIOUS
  <2>9. \A k \in 1 .. Len(source) :
          MayBe(source[k], type) /\ t.chunk[type] = AllOf(source, k) =>
            valid = Jpg!IsKind(source[k], type)
    BY <2>1, <2>8, SureIs
  <2>10. t = Kept(t, type, valid)
    BY <2>8 DEF Kept
  <2> QED BY <1>1, <1>2, <1>6, <2>1, <2>3, <2>5, <2>6, <2>7, <2>9, <2>10, JpgChunkGoes
<1> QED BY <1>7, <1>8

\* More of a colour profile, which has to be the only chunk of it
LEMMA JpgReadIcc ==
  ASSUME JpgAssumption, JpgInv, Jpg!ReadIcc
  PROVE  JpgInv'
<1>1. Jpg!Left > 0 /\ reader.state = "ICC" /\ "ICC" \in Jpg!Kinds
  BY StatesDiffer DEF Jpg!ReadIcc, Jpg!In
<1>2. reader.state # "FINISHED" /\ reader \in JpgReaders
  BY <1>1, StatesDiffer DEF JpgInv
<1>3. PICK s : s = IF reader.chunk["ICC"] = Jpg!Null THEN Jpg!Allocated(reader, "ICC") ELSE reader
  OBVIOUS
<1>4. PICK t : t = Jpg!NextBlock(s, "ICC")
  OBVIOUS
<1>5. PICK content :
        content = [k \in DOMAIN t.chunk["ICC"].data |-> Jpg!Bytes[t.chunk["ICC"].data[k]]]
  OBVIOUS
<1>6. PICK valid \in BOOLEAN : valid = Jpg!IsPrefix(Jpg!IccId \o Jpg!OnlyChunk, content)
  <2>1. Jpg!IsPrefix(Jpg!IccId \o Jpg!OnlyChunk, content) \in BOOLEAN
    BY DEF Jpg!IsPrefix
  <2> QED BY <2>1
<1>7. Jpg!Advance(s, Kept(t, "ICC", valid))
  BY <1>3, <1>4, <1>5, <1>6 DEF Jpg!ReadIcc, Kept
<1>8. ~reader.astray /\ ~reader.guessed =>
        \E k \in 1 .. Len(source) : JpgBody(source, reader, readTo, k, "ICC")
  BY <1>1, JpgIsWhere DEF JpgInv
<1>9. ASSUME NEW k \in 1 .. Len(source), MayBe(source[k], "ICC"), t.chunk["ICC"] = AllOf(source, k)
      PROVE  valid = Jpg!IsKind(source[k], "ICC")
  <2>1. PICK b, body, at, n : /\ b = JpgBytes(source) /\ body = Body(source[k])
                              /\ at = JpgAt(source, k) /\ n = Length(source[k])
    OBVIOUS
  <2>2. JpgLaid(source) /\ Jpg!Bytes = b
    BY <1>1, <2>1, JpgByteIs
  <2>3. at \in Nat /\ n \in Nat /\ \A m \in 1 .. n : b[at - 1 + m] = body[m]
    <3>1. n <= Length(source[k]) /\ at \in Nat /\ n \in Nat
      BY <2>1, <2>2, JpgSegmentIs
    <3> QED BY <2>1, <2>2, <3>1, JpgBodyBegins
  <2>4. body = [m \in 1 .. n |-> body[m]]
    <3>1. source[k] \in Segments
      BY <2>2, JpgSegmentIs
    <3>2. body \in Seq(ByteValues) /\ n = Len(body)
      BY <2>1, <3>1 DEF Segments, Body, Length, ByteValues
    <3> QED BY <3>2
  <2>5. PICK d : d = [m \in 1 .. n |-> at + m - 1] /\ t.chunk["ICC"].data = d
    BY <1>9, <2>1 DEF AllOf
  <2>6. \A m \in 1 .. n : b[d[m]] = body[m]
    <3>1. ASSUME NEW m \in 1 .. n PROVE b[d[m]] = body[m]
      <4>1. d[m] = at - 1 + m
        BY <2>3, <2>5
      <4> QED BY <2>3, <4>1
    <3> QED BY <3>1
  <2>7. DOMAIN d = 1 .. n
    BY <2>5
  <2>8. content = [m \in 1 .. n |-> b[d[m]]]
    BY <1>5, <2>2, <2>5, <2>7
  <2>9. content = body
    BY <2>4, <2>6, <2>8
  <2>10. PICK kind : kind = "ICC"
    OBVIOUS
  <2>11. Jpg!IsKind(source[k], kind) <=> Jpg!IsPrefix(Jpg!IccId \o Jpg!OnlyChunk, body)
    <3>1. Marker(source[k]) = 226 /\ Length(source[k]) > Len(Jpg!IccId \o Jpg!OnlyChunk)
      BY <1>9 DEF MayBe
    <3> QED BY <2>1, <2>10, <3>1, KindIs
  <2>12. Jpg!IsKind(source[k], "ICC") \in BOOLEAN
    BY DEF Jpg!IsKind
  <2>13. Jpg!IsKind(source[k], "ICC") <=> valid
    BY <1>6, <2>9, <2>10, <2>11
  <2> QED BY <2>12, <2>13
<1>10. \A k \in 1 .. Len(source) :
         MayBe(source[k], "ICC") /\ t.chunk["ICC"] = AllOf(source, k) =>
           valid = Jpg!IsKind(source[k], "ICC")
  BY <1>9
<1> QED BY <1>1, <1>2, <1>3, <1>4, <1>7, <1>8, <1>10, JpgChunkGoes

\* The next buffer of a JPEG file
LEMMA JpgConsume ==
  ASSUME JpgAssumption, JpgInv, Jpg!Consume
  PROVE  JpgInv'
<1>1. PICK b : b = JpgBytes(source)
  OBVIOUS
<1>2. source \in JpegFiles /\ readTo \in 0 .. buffered /\ buffered \in 0 .. Len(b)
  BY <1>1 DEF JpgInv
<1>3. Jpg!Bytes = b /\ Len(b) \in Nat
  <2>1. JpgLaid(source)
    BY <1>2, JpgLayout
  <2>2. b \in Seq(ByteValues)
    BY <1>1, <2>1 DEF JpgLaid
  <2> QED BY <1>1, <1>2, <2>2, JpgBytesAre, LenProperties
<1>4. /\ readTo = buffered /\ buffered' \in (buffered + 1) .. Len(b)
      /\ source' = source /\ readTo' = readTo /\ reader' = reader /\ metadata' = metadata
  BY <1>3 DEF Jpg!Consume
<1>5. readTo' \in 0 .. buffered' /\ buffered' \in 0 .. Len(b)
  BY <1>2, <1>3, <1>4
<1>6. source' \in JpegFiles /\ readTo' \in 0 .. buffered' /\ buffered' \in 0 .. Len(JpgBytes(source'))
  BY <1>1, <1>2, <1>4, <1>5
<1>7. /\ reader' \in JpgReaders /\ (reader'.state = "READ_SIZE_LOW_BYTE" => reader'.size \in Highs)
      /\ ~reader'.astray /\ ~reader'.guessed => JpgWhere(source', reader', readTo')
  BY <1>4 DEF JpgInv
<1>8. metadata' = Jpg!NotRead
  BY <1>4 DEF JpgInv, Jpg!Consume
<1>9. metadata' # Jpg!NotRead' => reader'.state = "FINISHED" /\ metadata' = JpgTaken(reader)'
  BY <1>8 DEF Jpg!NotRead, Jpg!Null
<1> QED BY <1>6, <1>7, <1>9 DEF JpgInv

\* What is taken depends on the bytes of the file only.
LEMMA JpgTakenStays ==
  ASSUME source' = source, reader' = reader
  PROVE  JpgTaken(reader)' = JpgTaken(reader)
<1>1. Jpg!Bytes' = Jpg!Bytes
  BY DEF Jpg!Bytes
<1>2. Jpg!IccProfile(reader.chunk["ICC"], reader.chunk["EXIF"])'
        = Jpg!IccProfile(reader.chunk["ICC"], reader.chunk["EXIF"])
  BY <1>1 DEF Jpg!IccProfile, Jpg!Null, Jpg!Invalid
<1> QED BY <1>2 DEF JpgTaken

\* The metadata of a JPEG file are taken.
LEMMA JpgSetMetadata ==
  ASSUME JpgInv, Jpg!SetMetadata
  PROVE  JpgInv'
<1>1. /\ reader.state = "FINISHED" /\ metadata' = JpgTaken(reader)
      /\ source' = source /\ readTo' = readTo /\ buffered' = buffered /\ reader' = reader
  BY DEF Jpg!SetMetadata, JpgTaken
<1>2. source' \in JpegFiles /\ readTo' \in 0 .. buffered' /\ buffered' \in 0 .. Len(JpgBytes(source'))
  BY <1>1 DEF JpgInv
<1>3. /\ reader' \in JpgReaders /\ (reader'.state = "READ_SIZE_LOW_BYTE" => reader'.size \in Highs)
      /\ ~reader'.astray /\ ~reader'.guessed => JpgWhere(source', reader', readTo')
  BY <1>1 DEF JpgInv
<1>4. metadata' # Jpg!NotRead' => reader'.state = "FINISHED" /\ metadata' = JpgTaken(reader)'
  BY <1>1, JpgTakenStays
<1> QED BY <1>2, <1>3, <1>4 DEF JpgInv

\* A JPEG file of which nothing has been read
LEMMA JpgInit ==
  ASSUME JpgAssumption, Jpg!Init
  PROVE  JpgInv
<1>1. /\ source \in JpegFiles /\ readTo = 0 /\ buffered = 0 /\ metadata = Jpg!NotRead
      /\ reader = [state |-> "READ", size |-> 0, marker |-> 0, read |-> 0,
                   chunk |-> [kind \in Jpg!Kinds |-> Jpg!Null], astray |-> FALSE, guessed |-> FALSE]
  BY DEF Jpg!Init
<1>2. buffered \in 0 .. Len(JpgBytes(source)) /\ readTo \in 0 .. buffered
  <2>1. JpgLaid(source)
    BY <1>1, JpgLayout
  <2>2. PICK b : b = JpgBytes(source) /\ b \in Seq(ByteValues)
    BY <2>1 DEF JpgLaid
  <2>3. Len(b) \in Nat
    BY <2>2, LenProperties
  <2> QED BY <1>1, <2>2, <2>3
<1>3. reader \in JpgReaders
  <2>1. 0 \in ByteValues /\ 0 \in Jpg!Words
    BY WordsAre DEF ByteValues
  <2>2. Jpg!Null \in JpgChunks
    <3>1. <<>> \in Seq(Nat)
      OBVIOUS
    <3> QED BY <3>1 DEF Jpg!Null, JpgChunks
  <2> QED BY <1>1, <2>1, <2>2 DEF JpgReaders
<1>4. JpgBefore(source, reader.chunk, 1)
  BY <1>1 DEF JpgBefore, JpgFound
<1>5. JpgWhere(source, reader, readTo)
  BY <1>1, <1>4 DEF JpgWhere, JpgEnds
<1>6. reader.state # "READ_SIZE_LOW_BYTE"
  BY <1>1
<1> QED BY <1>1, <1>2, <1>3, <1>5, <1>6 DEF JpgInv

\* Every round keeps the invariant.
LEMMA JpgStep ==
  ASSUME JpgAssumption, JpgInv, [Jpg!Next]_(Jpg!readerVars)
  PROVE  JpgInv'
<1>1. CASE Jpg!Consume
  BY <1>1, JpgConsume
<1>2. CASE Jpg!SetMetadata
  BY <1>2, JpgSetMetadata
<1>3. CASE Jpg!ReadStart
  BY <1>3, JpgReadStart
<1>4. CASE Jpg!ReadMarker
  BY <1>4, JpgReadMarker
<1>5. CASE Jpg!ReadSizeHighByte
  BY <1>5, JpgReadSizeHighByte
<1>6. CASE Jpg!ReadSizeLowByte
  BY <1>6, JpgReadSizeLowByte
<1>7. CASE Jpg!SkipBytes
  BY <1>7, JpgSkipBytes
<1>8. CASE Jpg!ReadApp1
  BY <1>8, JpgReadApp1
<1>9. CASE Jpg!ReadIcc
  BY <1>9, JpgReadIcc
<1>10. ASSUME NEW kind \in {"EXIF", "XMP", "IPTC"}, Jpg!ReadChunk(kind) PROVE JpgInv'
  BY <1>10, JpgReadChunk
<1>11. CASE UNCHANGED Jpg!readerVars
  <2>1. source' = source /\ readTo' = readTo /\ buffered' = buffered /\ reader' = reader
        /\ metadata' = metadata
    BY <1>11 DEF Jpg!readerVars
  <2>2. metadata' # Jpg!NotRead' => reader'.state = "FINISHED" /\ metadata' = JpgTaken(reader)'
    <3>1. Jpg!NotRead' = Jpg!NotRead
      BY DEF Jpg!NotRead, Jpg!Null
    <3>2. JpgTaken(reader)' = JpgTaken(reader)
      BY <2>1, JpgTakenStays
    <3>3. metadata # Jpg!NotRead => reader.state = "FINISHED" /\ metadata = JpgTaken(reader)
      BY DEF JpgInv
    <3> QED BY <2>1, <3>1, <3>2, <3>3
  <2> QED BY <2>1, <2>2 DEF JpgInv
<1> QED BY <1>1, <1>2, <1>3, <1>4, <1>5, <1>6, <1>7, <1>8, <1>9, <1>10, <1>11 DEF Jpg!Next

\* A reader that is not finished has not come to the end.
LEMMA JpgNotEnded ==
  ASSUME NEW f, JpgLaid(f), NEW s, s \in JpgReaders, NEW p \in Nat, JpgWhere(f, s, p),
         s.state # "FINISHED", NEW b, b = JpgBytes(f)
  PROVE  p # Len(b)
<1>1. PICK last, end : last = Len(f) /\ end = Len(b)
  OBVIOUS
<1>2. last \in Nat /\ end \in Nat
  <2>1. b \in Seq(ByteValues)
    BY DEF JpgLaid
  <2>2. last \in Nat
    BY <1>1 DEF JpgLaid
  <2> QED BY <1>1, <2>1, <2>2, LenProperties
<1>3. ASSUME NEW k \in 1 .. last + 1 PROVE JpgAt(f, k) \in 7 .. end
  BY <1>1, <1>3 DEF JpgLaid
<1>4. s.size \in Nat /\ s.read \in Nat
  BY WordsAre DEF JpgReaders
<1>5. PICK size, read : size = s.size /\ read = s.read
  OBVIOUS
<1>6. ASSUME JpgEnds(f, s, p) PROVE p < end
  <2>1. 1 \in 1 .. last + 1 /\ last + 1 \in 1 .. last + 1
    BY <1>2
  <2>2. JpgAt(f, 1) \in 7 .. end /\ JpgAt(f, last + 1) \in 7 .. end
    BY <1>3, <2>1
  <2>3. p = 0 \/ p = 1 \/ p = JpgAt(f, last + 1) - 3
    BY <1>1, <1>6 DEF JpgEnds
  <2> QED BY <1>2, <2>2, <2>3
<1>7. ASSUME NEW k \in 1 .. last + 1, JpgBetween(f, s, p, k) PROVE p < end
  <2>1. p = JpgAt(f, k) - 5 \/ p = JpgAt(f, k) - 4 \/ p + size = JpgAt(f, k) - 5
    BY <1>5, <1>7 DEF JpgBetween
  <2> QED BY <1>2, <1>3, <1>4, <1>5, <2>1
<1>8. ASSUME NEW k \in 1 .. last, JpgHeader(f, s, p, k) PROVE p < end
  <2>1. p = JpgAt(f, k) - 3 \/ p = JpgAt(f, k) - 2 \/ p = JpgAt(f, k) - 1
    BY <1>8 DEF JpgHeader
  <2>2. k \in 1 .. last + 1
    BY <1>2
  <2> QED BY <1>2, <1>3, <2>1, <2>2
<1>9. ASSUME NEW k \in 1 .. last, NEW kind, JpgBody(f, s, p, k, kind) PROVE p < end
  <2>1. \/ p = JpgAt(f, k) - 1
        \/ p = JpgAt(f, k) - 1 + read /\ read + size = Length(f[k])
    BY <1>5, <1>9 DEF JpgBody
  <2>2. JpgAt(f, k + 1) = JpgAt(f, k) + Length(f[k]) + 4 /\ Length(f[k]) \in Nat
        /\ k \in 1 .. last + 1 /\ k + 1 \in 1 .. last + 1
    BY <1>1, JpgSegmentIs
  <2>3. JpgAt(f, k) \in 7 .. end /\ JpgAt(f, k + 1) \in 7 .. end
    BY <1>3, <2>2
  <2> QED BY <1>2, <1>4, <1>5, <2>1, <2>2, <2>3
<1>10. p < end
  BY <1>1, <1>6, <1>7, <1>8, <1>9 DEF JpgWhere
<1> QED BY <1>1, <1>2, <1>10

\* Every chunk but the one that is being read is that of the segments before some one.
LEMMA JpgChunksAre ==
  ASSUME NEW f, NEW s, NEW p, JpgWhere(f, s, p), Len(f) \in Nat, NEW kind \in Jpg!Kinds,
         s.state # kind
  PROVE  \E k \in 1 .. Len(f) + 1 : s.chunk[kind] = JpgFound(f, k, kind)
<1>1. PICK last : last = Len(f) /\ last \in Nat
  OBVIOUS
<1>2. 1 \in 1 .. last + 1 /\ last + 1 \in 1 .. last + 1 /\ \A k \in 1 .. last : k \in 1 .. last + 1
  BY <1>1
<1>3. CASE JpgEnds(f, s, p)
  BY <1>1, <1>2, <1>3 DEF JpgEnds, JpgBefore
<1>4. CASE \E k \in 1 .. last + 1 : JpgBetween(f, s, p, k)
  BY <1>1, <1>4 DEF JpgBetween, JpgBefore
<1>5. CASE \E k \in 1 .. last : JpgHeader(f, s, p, k)
  BY <1>1, <1>2, <1>5 DEF JpgHeader, JpgBefore
<1>6. CASE \E k \in 1 .. last, other \in Jpg!Kinds : s.state = other /\ JpgBody(f, s, p, k, other)
  BY <1>1, <1>2, <1>6 DEF JpgBody, JpgBeforeBut
<1> QED BY <1>1, <1>3, <1>4, <1>5, <1>6 DEF JpgWhere

\* What the invariant says of the metadata
LEMMA JpgMeaning ==
  ASSUME JpgAssumption, JpgInv
  PROVE  Jpg!TypeOK /\ Jpg!SegmentsAsWritten
<1>1. PICK f, b : f = source /\ b = JpgBytes(source)
  OBVIOUS
<1>2. /\ f \in JpegFiles /\ readTo \in 0 .. buffered /\ buffered \in 0 .. Len(b)
      /\ reader \in JpgReaders
  BY <1>1 DEF JpgInv
<1>3. JpgLaid(f) /\ Len(f) \in Nat
  <2>1. JpgLaid(f)
    BY <1>2, JpgLayout
  <2> QED BY <2>1 DEF JpgLaid
<1>4. Jpg!Bytes = b
  BY <1>1, <1>2, JpgBytesAre
<1>5. Jpg!TypeOK
  <2>1. /\ reader.state \in Jpg!Kinds \cup {"READ", "READ_MARKER", "READ_SIZE_HIGH_BYTE",
                              "READ_SIZE_LOW_BYTE", "READ_APP1", "SKIP_BYTES", "FINISHED"}
        /\ reader.size \in Jpg!Words /\ reader.marker \in ByteValues /\ reader.read \in Nat
    BY <1>2 DEF JpgReaders
  <2>2. ASSUME NEW kind \in Jpg!Kinds PROVE reader.chunk[kind].len \in {-1} \cup Jpg!Words
    <3>1. reader.chunk[kind] \in JpgChunks
      BY <1>2 DEF JpgReaders
    <3> QED BY <3>1 DEF JpgChunks
  <2> QED BY <1>1, <1>2, <1>4, <2>1, <2>2 DEF Jpg!TypeOK, ByteValues
<1>6. ASSUME ~reader.astray, ~reader.guessed
      PROVE  /\ \A kind \in Jpg!Kinds \ {reader.state} :
                  reader.chunk[kind] \in {Jpg!Null, Jpg!FirstOf(kind)}
             /\ reader.state = "FINISHED" \/ readTo = Len(b) => Jpg!AllFound
  <2>1. JpgWhere(f, reader, readTo)
    BY <1>1, <1>6 DEF JpgInv
  <2>2. \A kind \in Jpg!Kinds : Jpg!FirstOf(kind) = JpgFound(f, Len(f) + 1, kind)
    BY <1>1, <1>2, JpgFirstIs
  <2>3. ASSUME NEW kind \in Jpg!Kinds, kind # reader.state
        PROVE  reader.chunk[kind] \in {Jpg!Null, Jpg!FirstOf(kind)}
    <3>1. PICK k \in 1 .. Len(f) + 1 : reader.chunk[kind] = JpgFound(f, k, kind)
      BY <1>3, <2>1, <2>3, JpgChunksAre
    <3>2. CASE JpgFound(f, k, kind) = Jpg!Null
      BY <3>1, <3>2
    <3>3. CASE JpgFound(f, k, kind) # Jpg!Null
      BY <1>3, <2>2, <3>1, <3>3, JpgFoundStays
    <3> QED BY <3>2, <3>3
  <2>4. ASSUME reader.state = "FINISHED" PROVE Jpg!AllFound
    <3>1. JpgBefore(f, reader.chunk, Len(f) + 1)
      BY <2>1, <2>4, JpgIsWhere
    <3>2. \A kind \in Jpg!Kinds : reader.chunk[kind] = Jpg!FirstOf(kind)
      BY <2>2, <3>1 DEF JpgBefore
    <3>3. metadata # Jpg!NotRead =>
            metadata = [exif |-> Jpg!FirstOf("EXIF"), xmp |-> Jpg!FirstOf("XMP"),
                        profile |-> Jpg!IccProfile(Jpg!FirstOf("ICC"), Jpg!FirstOf("EXIF"))]
      <4>1. reader.chunk["EXIF"] = Jpg!FirstOf("EXIF") /\ reader.chunk["XMP"] = Jpg!FirstOf("XMP")
            /\ reader.chunk["ICC"] = Jpg!FirstOf("ICC")
        BY <3>2, StatesDiffer
      <4>2. metadata # Jpg!NotRead => metadata = JpgTaken(reader)
        BY DEF JpgInv
      <4> QED BY <4>1, <4>2 DEF JpgTaken
    <3> QED BY <3>2, <3>3 DEF Jpg!AllFound
  <2>5. ASSUME readTo = Len(b) PROVE reader.state = "FINISHED"
    <3>1. readTo \in Nat
      BY <1>2
    <3> QED BY <1>1, <1>2, <1>3, <2>1, <2>5, <3>1, JpgNotEnded
  <2> QED BY <2>3, <2>4, <2>5
<1> QED BY <1>4, <1>5, <1>6 DEF Jpg!SegmentsAsWritten

\* The reader of a JPEG file, wherever the buffers end, has the segments of the file as they
\* are written (eom_metadata_reader_jpg_consume).
THEOREM JpgRead ==
  ASSUME JpgAssumption
  PROVE  JpgSpec => [](Jpg!TypeOK /\ Jpg!SegmentsAsWritten)
<1>1. Jpg!Init => JpgInv
  BY JpgInit
<1>2. JpgInv /\ [Jpg!Next]_(Jpg!readerVars) => JpgInv'
  BY JpgStep
<1>3. JpgInv => Jpg!TypeOK /\ Jpg!SegmentsAsWritten
  BY JpgMeaning
<1> QED BY <1>1, <1>2, <1>3, PTL DEF JpgSpec

-----------------------------------------------------------------------------
(* The metadata readers: the bytes of a PNG file *)

PngSpec == Png!Init /\ [][Png!Next]_(Png!readerVars)

SentChunks(f) == [k \in DOMAIN f |-> Png!Encoded(f[k])]

PngBytes(f) == PngSignature \o FlattenSeq(SentChunks(f))

\* What there is before a chunk
PngAt(f, k) == Len(PngSignature) + Len(Joined(SentChunks(f), k - 1))

\* The CRC that the file has
CrcOf(c) ==
  LET crc == Checksum(Png!Name(c), Body(c)) IN IF c.good THEN crc ELSE Png!Damaged(crc)

IsChunk(c) == c \in Chunks /\ Length(c) <= Png!MaxSize
              /\ Checksum(Png!Name(c), Body(c)) \in [1 .. 4 -> ByteValues]

ChunkAt(b, a, c) ==
  /\ \A n \in 1 .. 4 : /\ b[a + n] = Png!Size(c)[n] /\ b[a + 4 + n] = Png!Name(c)[n]
                       /\ b[a + 8 + Length(c) + n] = CrcOf(c)[n]
  /\ \A n \in 1 .. Length(c) : b[a + 8 + n] = Body(c)[n]

PngLaid(f) ==
  /\ Len(f) \in Nat /\ DOMAIN f = 1 .. Len(f) /\ Len(PngSignature) \in Nat
  /\ \A k \in 1 .. Len(f) : /\ IsChunk(f[k]) /\ Length(f[k]) \in Nat
                            /\ f[k].name = "IEND" => k = Len(f)
  /\ PngBytes(f) \in Seq(ByteValues) /\ Len(PngBytes(f)) = PngAt(f, Len(f) + 1)
  /\ PngAt(f, 1) = Len(PngSignature)
  /\ \A k \in 1 .. Len(f) + 1 : PngAt(f, k) \in Len(PngSignature) .. Len(PngBytes(f))
  /\ \A k \in 1 .. Len(f) : PngAt(f, k + 1) = PngAt(f, k) + Length(f[k]) + 12
  /\ \A n \in 1 .. Len(PngSignature) : PngBytes(f)[n] = PngSignature[n]
  /\ \A k \in 1 .. Len(f) : ChunkAt(PngBytes(f), PngAt(f, k), f[k])

SizeBytes(s, n) ==
  /\ s[1] = ((n \div 256) \div 256) \div 256 /\ s[2] = ((n \div 256) \div 256) % 256
  /\ s[3] = (n \div 256) % 256 /\ s[4] = n % 256

\* The bytes of the size of a chunk, from the high one
LEMMA SizeIs ==
  ASSUME NEW c, NEW n \in Nat, n = Length(c), n <= Png!MaxSize, NEW s, s = Png!Size(c)
  PROVE  s \in Seq(ByteValues) /\ Len(s) = 4 /\ SizeBytes(s, n)
<1>1. PICK low, middle, high, top :
        /\ middle = (n \div 256) % 256 /\ low = n % 256
        /\ high = ((n \div 256) \div 256) % 256 /\ top = ((n \div 256) \div 256) \div 256
  OBVIOUS
<1>2. /\ low \in Nat /\ low < 256 /\ middle \in Nat /\ middle < 256 /\ high \in Nat /\ high < 256
      /\ top \in Nat
  BY <1>1
<1>3. top < 256
  <2>1. n <= 2147483647
    BY DEF Png!MaxSize
  <2> QED BY <1>1, <2>1, SMT
<1>4. /\ low \in ByteValues /\ middle \in ByteValues /\ high \in ByteValues /\ top \in ByteValues
  BY <1>2, <1>3 DEF ByteValues
<1>5. s = <<top, high, middle, low>>
  BY <1>1 DEF Png!Size, Length
<1>6. s[1] = top /\ s[2] = high /\ s[3] = middle /\ s[4] = low
  BY <1>5
<1>7. s \in Seq(ByteValues) /\ Len(s) = 4
  BY <1>4, <1>5
<1>8. SizeBytes(s, n)
  BY <1>1, <1>6 DEF SizeBytes
<1> QED BY <1>7, <1>8

Parts(e, x, y, z, w, n) ==
  /\ Len(e) = n + 12
  /\ \A i \in 1 .. 4 : e[i] = x[i] /\ e[4 + i] = y[i] /\ e[8 + n + i] = w[i]
  /\ \A i \in 1 .. n : e[8 + i] = z[i]

\* Three parts of four bytes and a body
LEMMA FourParts ==
  ASSUME NEW x \in Seq(ByteValues), NEW y \in Seq(ByteValues), NEW z \in Seq(ByteValues),
         NEW w \in Seq(ByteValues), Len(x) = 4, Len(y) = 4, Len(w) = 4,
         NEW n \in Nat, n = Len(z), NEW e, e = ((x \o y) \o z) \o w
  PROVE  e \in Seq(ByteValues) /\ Parts(e, x, y, z, w, n)
<1>1. PICK four : four = Len(x) /\ four = Len(y) /\ four = Len(w) /\ four = 4
  OBVIOUS
<1>2. PICK p : p = x \o y
  OBVIOUS
<1>3. p \in Seq(ByteValues) /\ PutTogether(p, x, y, four, four)
  BY <1>1, <1>2, ConcatElements
<1>4. PICK eight : eight = Len(p) /\ eight = 8
  BY <1>1, <1>3 DEF PutTogether
<1>5. PICK q : q = p \o z
  OBVIOUS
<1>6. q \in Seq(ByteValues) /\ PutTogether(q, p, z, eight, n)
  BY <1>3, <1>4, <1>5, ConcatElements
<1>7. PICK m : m = Len(q) /\ m = 8 + n
  BY <1>4, <1>6 DEF PutTogether
<1>8. e = q \o w
  BY <1>2, <1>5
<1>9. e \in Seq(ByteValues) /\ PutTogether(e, q, w, m, four)
  BY <1>1, <1>6, <1>7, <1>8, ConcatElements
<1>10. Len(e) = n + 12
  BY <1>1, <1>7, <1>9 DEF PutTogether
<1>11. ASSUME NEW i \in 1 .. 4 PROVE e[i] = x[i] /\ e[4 + i] = y[i] /\ e[8 + n + i] = w[i]
  <2>1. p[i] = x[i] /\ p[4 + i] = y[i]
    BY <1>1, <1>3 DEF PutTogether
  <2>2. i \in 1 .. eight /\ 4 + i \in 1 .. eight
    BY <1>4
  <2>3. q[i] = p[i] /\ q[4 + i] = p[4 + i]
    BY <1>6, <2>2 DEF PutTogether
  <2>4. i \in 1 .. m /\ 4 + i \in 1 .. m
    BY <1>7
  <2>5. e[i] = q[i] /\ e[4 + i] = q[4 + i] /\ e[m + i] = w[i]
    BY <1>1, <1>9, <2>4 DEF PutTogether
  <2> QED BY <1>7, <2>1, <2>3, <2>5
<1>12. ASSUME NEW i \in 1 .. n PROVE e[8 + i] = z[i]
  <2>1. q[8 + i] = z[i]
    BY <1>4, <1>6 DEF PutTogether
  <2>2. 8 + i \in 1 .. m
    BY <1>7
  <2>3. e[8 + i] = q[8 + i]
    BY <1>9, <2>2 DEF PutTogether
  <2> QED BY <2>1, <2>3
<1> QED BY <1>9, <1>10, <1>11, <1>12 DEF Parts

\* A name is one byte four times.
LEMMA NameIs ==
  ASSUME NEW c, c \in Chunks
  PROVE  /\ Png!Name(c) = [n \in 1 .. 4 |-> Png!NameByte[c.name]]
         /\ Png!NameByte[c.name] \in ByteValues /\ Png!Name(c) \in Seq(ByteValues)
         /\ Len(Png!Name(c)) = 4
<1>1. PICK x : x = Png!NameByte[c.name]
  OBVIOUS
<1>2. x \in ByteValues
  <2>1. c.name \in {"IHDR", "iTXt", "iCCP", "sRGB", "cHRM", "gAMA", "IEND", "other"}
    BY DEF Chunks, Png!NameByte
  <2>2. x \in 101 .. 108
    BY <1>1, <2>1 DEF Png!NameByte
  <2> QED BY <2>2 DEF ByteValues
<1>3. Png!Name(c) = [n \in 1 .. 4 |-> x]
  BY <1>1 DEF Png!Name, Png!Field, Png!Word
<1>4. [n \in 1 .. 4 |-> x] \in Seq(ByteValues) /\ Len([n \in 1 .. 4 |-> x]) = 4
  BY <1>2
<1> QED BY <1>1, <1>2, <1>3, <1>4

\* A damaged CRC is four bytes, and another one.
LEMMA CrcIs ==
  ASSUME NEW c, IsChunk(c), NEW crc, crc = Checksum(Png!Name(c), Body(c))
  PROVE  /\ CrcOf(c) \in Seq(ByteValues) /\ Len(CrcOf(c)) = 4
         /\ (c.good <=> CrcOf(c) = crc)
         /\ crc \in [1 .. 4 -> ByteValues] /\ CrcOf(c) \in [1 .. 4 -> ByteValues]
<1>1. crc \in [1 .. 4 -> ByteValues] /\ c.good \in BOOLEAN
  BY DEF IsChunk, Chunks
<1>2. \A n \in 1 .. 4 : crc[n] \in Nat /\ crc[n] <= 255
  BY <1>1 DEF ByteValues
<1>3. PICK d : d = Png!Damaged(crc)
  OBVIOUS
<1>4. d = [n \in 1 .. 4 |-> IF n = 1 THEN (crc[n] + 1) % 256 ELSE crc[n]]
  BY <1>3 DEF Png!Damaged, Png!Word
<1>5. ASSUME NEW n \in 1 .. 4 PROVE d[n] \in ByteValues
  <2>1. (crc[n] + 1) % 256 \in ByteValues
    <3>1. PICK m : m = (crc[n] + 1) % 256
      OBVIOUS
    <3>2. m \in Nat /\ m < 256
      BY <1>2, <3>1
    <3> QED BY <3>1, <3>2 DEF ByteValues
  <2> QED BY <1>1, <1>4, <2>1
<1>6. d \in [1 .. 4 -> ByteValues]
  BY <1>4, <1>5
<1>7. d[1] # crc[1]
  <2>1. d[1] = (crc[1] + 1) % 256
    BY <1>4
  <2>2. crc[1] \in Nat /\ crc[1] <= 255
    BY <1>2
  <2> QED BY <2>1, <2>2
<1>8. CrcOf(c) = IF c.good THEN crc ELSE d
  BY <1>3 DEF CrcOf
<1>10. CrcOf(c) \in [1 .. 4 -> ByteValues]
  BY <1>1, <1>6, <1>8
<1>9. CrcOf(c) \in Seq(ByteValues) /\ Len(CrcOf(c)) = 4
  <2>1. PICK x : x = CrcOf(c)
    OBVIOUS
  <2>2. x = [n \in 1 .. 4 |-> x[n]] /\ \A n \in 1 .. 4 : x[n] \in ByteValues
    BY <1>10, <2>1
  <2>3. PICK four \in Nat : four = 4
    OBVIOUS
  <2>4. DOMAIN x = 1 .. four /\ x \in [1 .. four -> ByteValues]
    BY <1>10, <2>1, <2>3
  <2>5. x \in Seq(ByteValues)
    BY <2>4
  <2>6. Len(x) = four
    BY <2>4, <2>5
  <2> QED BY <2>1, <2>3, <2>5, <2>6
<1>11. c.good <=> CrcOf(c) = crc
  BY <1>7, <1>8
<1> QED BY <1>1, <1>9, <1>10, <1>11

\* A chunk has its size and its name before its body, and its CRC after.
LEMMA ChunkEncoded ==
  ASSUME NEW c, IsChunk(c), NEW e, e = Png!Encoded(c), NEW n, n = Length(c)
  PROVE  /\ n \in Nat /\ e \in Seq(ByteValues)
         /\ Parts(e, Png!Size(c), Png!Name(c), Body(c), CrcOf(c), n)
<1>1. c \in Chunks /\ n <= Png!MaxSize
  BY DEF IsChunk
<1>2. PICK body : body = Body(c) /\ body \in Seq(ByteValues)
  BY <1>1 DEF Chunks, Body, ByteValues
<1>3. n = Len(body) /\ n \in Nat
  <2>1. n = Len(body)
    BY <1>2 DEF Body, Length
  <2> QED BY <1>2, <2>1, LenProperties
<1>4. PICK size, name, crc : size = Png!Size(c) /\ name = Png!Name(c) /\ crc = CrcOf(c)
  OBVIOUS
<1>5. size \in Seq(ByteValues) /\ Len(size) = 4
  <2>1. n \in Nat /\ n = Length(c) /\ n <= Png!MaxSize /\ size = Png!Size(c)
    BY <1>1, <1>3, <1>4
  <2> QED BY <2>1, SizeIs
<1>6. name \in Seq(ByteValues) /\ Len(name) = 4
  BY <1>1, <1>4, NameIs
<1>7. crc \in Seq(ByteValues) /\ Len(crc) = 4
  BY <1>4, CrcIs
<1>8. e = ((size \o name) \o body) \o crc
  BY <1>2, <1>4 DEF Png!Encoded, CrcOf, Body
<1>9. e \in Seq(ByteValues) /\ Parts(e, size, name, body, crc, n)
  <2>1. /\ size \in Seq(ByteValues) /\ name \in Seq(ByteValues) /\ body \in Seq(ByteValues)
        /\ crc \in Seq(ByteValues) /\ Len(size) = 4 /\ Len(name) = 4 /\ Len(crc) = 4
        /\ n \in Nat /\ n = Len(body) /\ e = ((size \o name) \o body) \o crc
    BY <1>2, <1>3, <1>5, <1>6, <1>7, <1>8
  <2> QED BY <2>1, FourParts
<1> QED BY <1>2, <1>3, <1>4, <1>9

\* The chunks of a file, encoded
LEMMA PngSeqs ==
  ASSUME PngAssumption, NEW f \in PngImages
  PROVE  /\ Len(f) \in Nat /\ DOMAIN f = 1 .. Len(f)
         /\ \A k \in 1 .. Len(f) : IsChunk(f[k]) /\ (f[k].name = "IEND" => k = Len(f))
         /\ SentChunks(f) \in Seq(Seq(ByteValues)) /\ Len(SentChunks(f)) = Len(f)
<1>1. PICK last : last = Len(f)
  OBVIOUS
<1>2. f \in Seq(Chunks) /\ last \in Nat /\ DOMAIN f = 1 .. last
  BY <1>1, LenProperties DEF PngAssumption
<1>3. ASSUME NEW k \in 1 .. last PROVE IsChunk(f[k]) /\ (f[k].name = "IEND" => k = last)
  <2>1. f[k] \in Chunks /\ k \in DOMAIN f
    BY <1>2, ElementOfSeq
  <2>2. /\ Len(f[k].body) <= Png!MaxSize /\ (f[k].name = "IEND" => k = last)
        /\ Checksum(Png!Name(f[k]), f[k].body) \in [1 .. 4 -> ByteValues]
    BY <1>1, <2>1 DEF PngAssumption, ByteValues
  <2> QED BY <2>1, <2>2 DEF IsChunk, Length, Body
<1>4. PICK seqs : seqs = SentChunks(f) /\ seqs = [k \in 1 .. last |-> Png!Encoded(f[k])]
  BY <1>2 DEF SentChunks
<1>5. ASSUME NEW k \in 1 .. last PROVE seqs[k] \in Seq(ByteValues)
  <2>1. PICK e, n : e = Png!Encoded(f[k]) /\ n = Length(f[k])
    OBVIOUS
  <2>2. e \in Seq(ByteValues)
    <3>1. PICK c : c = f[k] /\ IsChunk(c)
      BY <1>3
    <3>2. e = Png!Encoded(c) /\ n = Length(c)
      BY <2>1, <3>1
    <3> QED BY <3>1, <3>2, ChunkEncoded
  <2> QED BY <1>4, <2>1, <2>2
<1>6. seqs \in Seq(Seq(ByteValues)) /\ Len(seqs) = last
  BY <1>2, <1>4, <1>5
<1> QED BY <1>1, <1>2, <1>3, <1>4, <1>6

\* The bytes that the reader gets are those of the chunks, after the signature.
LEMMA PngLayout ==
  ASSUME PngAssumption, NEW f \in PngImages
  PROVE  PngLaid(f)
<1>1. PICK last, sig : last = Len(f) /\ sig = Len(PngSignature)
  OBVIOUS
<1>2. last \in Nat /\ DOMAIN f = 1 .. last
  BY <1>1, PngSeqs
<1>3. \A k \in 1 .. last : IsChunk(f[k]) /\ (f[k].name = "IEND" => k = last)
  BY <1>1, PngSeqs
<1>4. PICK seqs : seqs = SentChunks(f)
  OBVIOUS
<1>5. \A k \in 1 .. last : seqs[k] = Png!Encoded(f[k])
  BY <1>2, <1>4 DEF SentChunks
<1>6. ASSUME NEW k \in 1 .. last
      PROVE  \E e, n : /\ e = seqs[k] /\ n = Length(f[k]) /\ n \in Nat
                       /\ Parts(e, Png!Size(f[k]), Png!Name(f[k]), Body(f[k]), CrcOf(f[k]), n)
  <2>1. PICK c : c = f[k] /\ IsChunk(c)
    BY <1>3
  <2>2. PICK e, n : e = Png!Encoded(c) /\ n = Length(c)
    OBVIOUS
  <2>3. n \in Nat /\ Parts(e, Png!Size(c), Png!Name(c), Body(c), CrcOf(c), n)
    BY <2>1, <2>2, ChunkEncoded
  <2>4. e = seqs[k]
    BY <1>5, <2>1, <2>2
  <2> QED BY <2>1, <2>2, <2>3, <2>4
<1>7. seqs \in Seq(Seq(ByteValues)) /\ Len(seqs) = last
  BY <1>1, <1>4, PngSeqs
<1>8. PICK all : all = FlattenSeq(seqs)
  OBVIOUS
<1>9. all \in Seq(ByteValues) /\ Placed(seqs, all)
  BY <1>7, <1>8, JoinedKeeps
<1>10. Len(Joined(seqs, 0)) = 0
  BY <1>7, JoinedIs
<1>11. PICK at : at = [k \in 1 .. last + 1 |-> Len(Joined(seqs, k - 1))]
  OBVIOUS
<1>12. /\ at[1] = 0 /\ at[last + 1] = Len(all) /\ Len(all) \in Nat
       /\ \A k \in 1 .. last :
            /\ at[k] \in Nat /\ at[k + 1] = at[k] + Len(seqs[k]) /\ at[k + 1] <= Len(all)
            /\ \A n \in 1 .. Len(seqs[k]) : all[at[k] + n] = seqs[k][n]
  <2>1. \A k \in 1 .. last + 1 : at[k] = Len(Joined(seqs, k - 1))
    BY <1>11
  <2>2. ASSUME NEW k \in 1 .. last
        PROVE  at[k] = Len(Joined(seqs, k - 1)) /\ at[k + 1] = Len(Joined(seqs, k))
    <3>1. k \in 1 .. last + 1 /\ k + 1 \in 1 .. last + 1 /\ (k + 1) - 1 = k
      BY <1>2
    <3> QED BY <2>1, <3>1
  <2>3. 1 \in 1 .. last + 1 /\ last + 1 \in 1 .. last + 1 /\ 1 - 1 = 0 /\ (last + 1) - 1 = last
    BY <1>2
  <2>4. at[1] = 0 /\ at[last + 1] = Len(all) /\ Len(all) \in Nat
    BY <1>7, <1>9, <1>10, <2>1, <2>3, LenProperties DEF Placed
  <2> QED BY <1>7, <1>9, <2>2, <2>4 DEF Placed
<1>13. PICK b, N : b = PngBytes(f) /\ N = Len(all)
  OBVIOUS
<1>14. b \in Seq(ByteValues) /\ PutTogether(b, PngSignature, all, sig, N)
  <2>1. PngSignature \in Seq(ByteValues)
    BY DEF PngAssumption, ByteValues
  <2>2. b = PngSignature \o all
    BY <1>4, <1>8, <1>13 DEF PngBytes
  <2>3. all \in Seq(ByteValues)
    BY <1>9
  <2> QED BY <1>1, <1>13, <2>1, <2>2, <2>3, ConcatElements
<1>15. N \in Nat /\ sig \in Nat /\ Len(b) = sig + N
  BY <1>14 DEF PutTogether
<1>16. \A k \in 1 .. last + 1 : PngAt(f, k) = sig + at[k]
  BY <1>1, <1>4, <1>11 DEF PngAt
<1>17. ASSUME NEW k \in 1 .. last
       PROVE  /\ at[k] \in Nat /\ at[k + 1] = at[k] + Length(f[k]) + 12 /\ at[k + 1] <= N
              /\ Length(f[k]) \in Nat /\ ChunkAt(b, sig + at[k], f[k])
  <2>1. PICK p : p = at[k]
    OBVIOUS
  <2>2. PICK e, n : /\ e = seqs[k] /\ n = Length(f[k]) /\ n \in Nat
                    /\ Parts(e, Png!Size(f[k]), Png!Name(f[k]), Body(f[k]), CrcOf(f[k]), n)
    BY <1>6
  <2>9. n \in Nat /\ e = seqs[k]
    BY <2>2
  <2>10. /\ Len(e) = n + 12 /\ \A i \in 1 .. n : e[8 + i] = Body(f[k])[i]
         /\ \A i \in 1 .. 4 : /\ e[i] = Png!Size(f[k])[i] /\ e[4 + i] = Png!Name(f[k])[i]
                              /\ e[8 + n + i] = CrcOf(f[k])[i]
    BY <2>2 DEF Parts
  <2>3. p \in Nat /\ at[k + 1] = p + (n + 12) /\ p + (n + 12) <= N
        /\ \A m \in 1 .. n + 12 : all[p + m] = e[m]
    BY <1>12, <1>13, <2>1, <2>9, <2>10
  <2>11. p \in Nat /\ p + (n + 12) <= N
    BY <2>3
  <2>4. ASSUME NEW m \in 1 .. n + 12 PROVE b[sig + (p + m)] = e[m]
    <3>1. p + m \in 1 .. N
      BY <1>15, <2>9, <2>11
    <3> QED BY <1>14, <2>3, <3>1 DEF PutTogether
  <2>5. ASSUME NEW i \in 1 .. 4
        PROVE  /\ b[sig + p + i] = e[i] /\ b[sig + p + 4 + i] = e[4 + i]
               /\ b[sig + p + 8 + n + i] = e[8 + n + i]
    <3>1. i \in 1 .. n + 12 /\ 4 + i \in 1 .. n + 12 /\ 8 + n + i \in 1 .. n + 12
      BY <2>9
    <3>2. sig + (p + i) = sig + p + i /\ sig + (p + (4 + i)) = sig + p + 4 + i
          /\ sig + (p + (8 + n + i)) = sig + p + 8 + n + i
      BY <1>15, <2>9, <2>11
    <3> QED BY <2>4, <3>1, <3>2
  <2>6. ASSUME NEW i \in 1 .. n PROVE b[sig + p + 8 + i] = e[8 + i]
    <3>1. 8 + i \in 1 .. n + 12 /\ sig + (p + (8 + i)) = sig + p + 8 + i
      BY <1>15, <2>9, <2>11
    <3> QED BY <2>4, <3>1
  <2>7. ChunkAt(b, sig + p, f[k])
    BY <2>2, <2>5, <2>6, <2>10 DEF ChunkAt
  <2>8. at[k + 1] = at[k] + n + 12
    <3>1. n \in Nat /\ p \in Nat /\ at[k + 1] = p + (n + 12)
      BY <2>9, <2>3
    <3> QED BY <2>1, <3>1
  <2>12. at[k + 1] <= N
    BY <2>3
  <2> QED BY <2>1, <2>2, <2>7, <2>8, <2>11, <2>12
<1>18. at[last + 1] = N /\ at[1] = 0
  BY <1>12, <1>13
<1>19. ASSUME NEW k \in 1 .. last + 1 PROVE at[k] \in 0 .. N
  <2>1. CASE k = last + 1
    BY <1>15, <1>18, <2>1
  <2>2. CASE k # last + 1
    <3>1. k \in 1 .. last
      BY <1>2, <2>2
    <3>2. at[k] \in Nat /\ at[k + 1] = at[k] + Length(f[k]) + 12 /\ at[k + 1] <= N
          /\ Length(f[k]) \in Nat
      BY <1>17, <3>1
    <3> QED BY <1>15, <3>2
  <2> QED BY <2>1, <2>2
<1>20. Len(b) = PngAt(f, last + 1) /\ PngAt(f, 1) = sig
  <2>1. last + 1 \in 1 .. last + 1 /\ 1 \in 1 .. last + 1
    BY <1>2
  <2>2. PngAt(f, last + 1) = sig + N /\ PngAt(f, 1) = sig + 0
    BY <1>16, <1>18, <2>1
  <2> QED BY <1>15, <2>2
<1>21. ASSUME NEW k \in 1 .. last + 1 PROVE PngAt(f, k) \in sig .. Len(b)
  BY <1>15, <1>16, <1>19
<1>22. ASSUME NEW k \in 1 .. last
       PROVE  /\ PngAt(f, k + 1) = PngAt(f, k) + Length(f[k]) + 12
              /\ ChunkAt(b, PngAt(f, k), f[k])
  <2>1. k \in 1 .. last + 1 /\ k + 1 \in 1 .. last + 1
    BY <1>2
  <2>2. PngAt(f, k) = sig + at[k] /\ PngAt(f, k + 1) = sig + at[k + 1]
    BY <1>16, <2>1
  <2>3. at[k] \in Nat /\ at[k + 1] = at[k] + Length(f[k]) + 12
        /\ Length(f[k]) \in Nat /\ ChunkAt(b, sig + at[k], f[k])
    BY <1>17
  <2> QED BY <1>15, <2>2, <2>3
<1>23. \A n \in 1 .. sig : b[n] = PngSignature[n]
  BY <1>14 DEF PutTogether
<1> QED BY <1>1, <1>2, <1>3, <1>13, <1>14, <1>17, <1>20, <1>21, <1>22, <1>23 DEF PngLaid

\* Where a chunk is, and the one that follows
LEMMA PngChunkIs ==
  ASSUME NEW f, PngLaid(f), NEW k \in 1 .. Len(f)
  PROVE  /\ IsChunk(f[k]) /\ Length(f[k]) \in Nat
         /\ k \in 1 .. Len(f) + 1 /\ k + 1 \in 1 .. Len(f) + 1
         /\ PngAt(f, k) \in Nat /\ PngAt(f, k + 1) \in Nat
         /\ PngAt(f, k + 1) = PngAt(f, k) + Length(f[k]) + 12
         /\ ChunkAt(PngBytes(f), PngAt(f, k), f[k])
<1>1. Len(f) \in Nat
  BY DEF PngLaid
<1>2. k \in 1 .. Len(f) + 1 /\ k + 1 \in 1 .. Len(f) + 1
  BY <1>1
<1>3. PngAt(f, k) \in Nat /\ PngAt(f, k + 1) \in Nat
  <2>1. PngAt(f, k) \in Len(PngSignature) .. Len(PngBytes(f))
        /\ PngAt(f, k + 1) \in Len(PngSignature) .. Len(PngBytes(f))
    BY <1>2 DEF PngLaid
  <2>2. Len(PngSignature) \in Nat
    BY DEF PngLaid
  <2> QED BY <2>1, <2>2
<1>4. /\ IsChunk(f[k]) /\ Length(f[k]) \in Nat
      /\ PngAt(f, k + 1) = PngAt(f, k) + Length(f[k]) + 12
      /\ ChunkAt(PngBytes(f), PngAt(f, k), f[k])
  BY Zenon DEF PngLaid
<1> QED BY <1>2, <1>3, <1>4

\* They are those of the model.
LEMMA PngBytesAre ==
  ASSUME PngAssumption, source \in PngImages
  PROVE  /\ Png!Bytes = PngBytes(source)
         /\ \A k \in 1 .. Len(source) :
              Len(PngSignature \o Png!FlattenSeq([n \in 1 .. (k - 1) |-> Png!Encoded(source[n])]))
                = PngAt(source, k)
<1>1. \A s : Png!FlattenSeq(s) = FlattenSeq(s)
  BY DEF Png!FlattenSeq, FlattenSeq
<1>2. Png!Bytes = PngBytes(source)
  BY <1>1 DEF Png!Bytes, PngBytes, SentChunks
<1>3. ASSUME NEW k \in 1 .. Len(source)
      PROVE  Len(PngSignature \o Png!FlattenSeq([n \in 1 .. (k - 1) |-> Png!Encoded(source[n])]))
               = PngAt(source, k)
  <2>1. PngLaid(source) /\ Len(source) \in Nat /\ DOMAIN source = 1 .. Len(source)
    <3>1. PngLaid(source)
      BY PngLayout
    <3> QED BY <3>1 DEF PngLaid
  <2>2. \A n \in 1 .. (k - 1) : n \in DOMAIN source
    BY <2>1
  <2>3. [n \in 1 .. (k - 1) |-> Png!Encoded(source[n])] = [n \in 1 .. (k - 1) |-> SentChunks(source)[n]]
    BY <2>2 DEF SentChunks
  <2>4. PICK before : before = Joined(SentChunks(source), k - 1)
    OBVIOUS
  <2>5. Png!FlattenSeq([n \in 1 .. (k - 1) |-> Png!Encoded(source[n])]) = before
    BY <1>1, <2>3, <2>4 DEF Joined
  <2>6. before \in Seq(ByteValues)
    <3>1. PICK seqs : seqs = SentChunks(source) /\ seqs \in Seq(Seq(ByteValues)) /\ Len(seqs) = Len(source)
      BY PngSeqs
    <3>2. Joined(seqs, 0) \in Seq(ByteValues) /\ \A n \in 1 .. Len(seqs) : Joined(seqs, n) \in Seq(ByteValues)
      BY <3>1, JoinedIs
    <3>3. k - 1 = 0 \/ k - 1 \in 1 .. Len(seqs)
      BY <2>1, <3>1
    <3> QED BY <2>4, <3>1, <3>2, <3>3
  <2>7. PngSignature \in Seq(ByteValues)
    BY DEF PngAssumption, ByteValues
  <2>8. Len(PngSignature \o before) = Len(PngSignature) + Len(before)
    BY <2>6, <2>7, ConcatProperties
  <2> QED BY <2>4, <2>5, <2>8 DEF PngAt
<1> QED BY <1>2, <1>3

-----------------------------------------------------------------------------
(* The metadata readers: where the reader of a PNG file is *)

\* What a chunk is when all of it has been read, and when n bytes of it have
ChunkOf(f, k) ==
  [len |-> Length(f[k]), data |-> [m \in 1 .. Length(f[k]) |-> PngAt(f, k) + 8 + m]]
ChunkPart(f, k, n) ==
  [len |-> Length(f[k]),
   data |-> [m \in 1 .. Length(f[k]) |-> IF m <= n THEN PngAt(f, k) + 8 + m ELSE 0]]

PngIndex(f, kind) == SelectInSeq(f, LAMBDA c : Png!Asked(c, kind))

\* What the reader has of a kind before the k-th chunk
PngFound(f, k, kind) ==
  IF PngIndex(f, kind) \in 1 .. k - 1 THEN ChunkOf(f, PngIndex(f, kind)) ELSE Png!Null

\* A chunk that ends it: one that is taken and has a wrong CRC
PngBad(f, k) == ~f[k].good /\ \E kind \in Png!Kinds : PngIndex(f, kind) = k
PngSound(f, k) == \A d \in 1 .. k - 1 : ~PngBad(f, d)

PngBefore(f, c, k) == PngSound(f, k) /\ \A kind \in Png!Kinds : c[kind] = PngFound(f, k, kind)
PngBeforeBut(f, c, k, kind) ==
  /\ PngSound(f, k) /\ PngFound(f, k, kind) = Png!Null
  /\ \A other \in Png!Kinds \ {kind} : c[other] = PngFound(f, k, other)

PngChunks == [len : {-1} \cup Nat, data : Seq(Nat)]

PngReaders ==
  [state : Png!Kinds \cup {"MAGIC", "SIZE", "NAME", "SKIP_BYTES", "SKIP_CRC", "CHECK_CRC", "FINISHED"},
   step : Nat, size : Nat, read : Nat, hasIHDR : BOOLEAN,
   name : Seq(ByteValues), target : Seq(ByteValues), crcFor : Png!Kinds \cup {"none"},
   chunk : [Png!Kinds -> PngChunks], cut : BOOLEAN]

\* The first bytes of the size n
SizePart(n, read) ==
  CASE read = 0 -> 0
    [] read = 1 -> ((n \div 256) \div 256) \div 256
    [] read = 2 -> (n \div 256) \div 256
    [] read = 3 -> n \div 256
    [] OTHER -> n

FirstAre(s, t, n) == Len(s) = n /\ \A m \in 1 .. n : s[m] = t[m]

PngMagic(f, s, p) ==
  /\ s.state = "MAGIC" /\ PngBefore(f, s.chunk, 1)
  /\ p = s.step /\ s.step < Len(PngSignature) /\ s.size = 0 /\ s.read = 0

\* The reader comes to the k-th chunk,
PngBetween(f, s, p, k) ==
  /\ PngBefore(f, s.chunk, k)
  /\ \/ s.state = "SIZE" /\ p = PngAt(f, k) /\ s.read = 0 /\ s.size = 0
     \/ s.state = "SKIP_BYTES" /\ p + s.size = PngAt(f, k)
     \/ s.state = "SKIP_CRC" /\ p + 4 = PngAt(f, k)

\* has read something of what is before its body,
PngHeader(f, s, p, k) ==
  /\ PngBefore(f, s.chunk, k)
  /\ \/ /\ s.state = "SIZE" /\ s.read \in 1 .. 3 /\ p = PngAt(f, k) + s.read
        /\ s.size = SizePart(Length(f[k]), s.read)
     \/ /\ s.state = "NAME" /\ s.step \in 0 .. 3 /\ p = PngAt(f, k) + 4 + s.step
        /\ s.size = Length(f[k]) /\ FirstAre(s.name, Png!Name(f[k]), s.step)

\* something of its body
PngMayBe(c, kind) ==
  IF kind = "iTXt" THEN c.name = kind /\ Length(c) > ChunkSizes[kind] ELSE Png!Asked(c, kind)

PngBody(f, s, p, k, kind) ==
  /\ PngMayBe(f[k], kind) /\ PngBeforeBut(f, s.chunk, k, kind)
  /\ s.state = kind /\ s.step = 0 /\ s.name = Png!Name(f[k])
  /\ \/ s.chunk[kind] = Png!Null /\ p = PngAt(f, k) + 8 /\ s.size = Length(f[k])
     \/ /\ s.chunk[kind] = ChunkPart(f, k, s.read) /\ p = PngAt(f, k) + 8 + s.read
        /\ s.read + s.size = Length(f[k]) /\ s.crcFor = kind

\* or something of what is after it.
PngCrc(f, s, p, k, kind) ==
  /\ Png!Asked(f[k], kind) /\ PngBeforeBut(f, s.chunk, k, kind)
  /\ s.state = "CHECK_CRC" /\ s.name = Png!Name(f[k]) /\ s.size = 0
  /\ s.chunk[kind] = ChunkOf(f, k) /\ s.crcFor = kind
  /\ s.step \in 0 .. 3 /\ p = PngAt(f, k) + 8 + Length(f[k]) + s.step
  /\ s.step # 0 => FirstAre(s.target, CrcOf(f[k]), s.step)

\* The last chunk ends it, or one that has a wrong CRC.
PngDone(f, s, k) ==
  /\ s.state = "FINISHED" /\ PngBefore(f, s.chunk, k)
  /\ k = Len(f) + 1 \/ PngBad(f, k)

PngWhere(f, s, p) ==
  \/ PngMagic(f, s, p)
  \/ \E k \in 1 .. Len(f) + 1 : PngBetween(f, s, p, k) \/ PngDone(f, s, k)
  \/ \E k \in 1 .. Len(f) : PngHeader(f, s, p, k)
  \/ \E k \in 1 .. Len(f), kind \in Png!Kinds :
       PngBody(f, s, p, k, kind) \/ PngCrc(f, s, p, k, kind)

PngTaken(s) == [xmp |-> s.chunk["iTXt"], profile |-> Png!IccProfile(s.chunk)]

PngInv ==
  /\ source \in PngImages /\ readTo \in 0 .. buffered /\ buffered \in 0 .. Len(PngBytes(source))
  /\ reader \in PngReaders
  /\ metadata # Png!NotRead => reader.state = "FINISHED" /\ metadata = PngTaken(reader)
  /\ ~reader.cut => PngWhere(source, reader, readTo)

\* What makes a chunk one that is asked for
LEMMA AskedIs ==
  ASSUME NEW c, NEW kind
  PROVE  /\ Png!Asked(c, kind) => c.name = kind
         /\ kind = "iTXt" => (Png!Asked(c, kind) <=> /\ c.name = kind /\ Length(c) > ChunkSizes[kind]
                                                     /\ Png!IsPrefix(XmpBegin, Body(c)))
         /\ kind = "iCCP" => (Png!Asked(c, kind) <=> c.name = kind)
         /\ kind \in {"sRGB", "cHRM", "gAMA"} =>
              (Png!Asked(c, kind) <=> c.name = kind /\ Length(c) = ChunkSizes[kind])
         /\ kind \in Png!Kinds => kind \in {"iTXt", "iCCP", "sRGB", "cHRM", "gAMA"}
         /\ kind \in Png!Kinds /\ Png!Asked(c, kind) => PngMayBe(c, kind)
<1>1. Png!Asked(c, kind) => c.name = kind
  BY DEF Png!Asked
<1>2. CASE kind = "iTXt"
  <2>1. Png!Asked(c, kind) <=> /\ c.name = kind /\ Length(c) > ChunkSizes[kind]
                               /\ Png!IsPrefix(XmpBegin, Body(c))
    BY <1>2, Zenon DEF Png!Asked, Length, Body
  <2> QED BY <1>1, <1>2, <2>1 DEF Png!Kinds, PngMayBe
<1>3. CASE kind = "iCCP"
  <2>1. Png!Asked(c, kind) <=> c.name = kind
    BY <1>3 DEF Png!Asked
  <2> QED BY <1>1, <1>3, <2>1 DEF Png!Kinds, PngMayBe
<1>4. CASE kind \notin {"iTXt", "iCCP"}
  <2>1. Png!Asked(c, kind) <=> c.name = kind /\ Length(c) = ChunkSizes[kind]
    BY <1>4 DEF Png!Asked, Length
  <2> QED BY <1>1, <1>4, <2>1 DEF Png!Kinds, PngMayBe
<1> QED BY <1>2, <1>3, <1>4

\* The first chunk of a kind
LEMMA PngIndexIs ==
  ASSUME NEW f, PngLaid(f), NEW kind, NEW i, i = PngIndex(f, kind)
  PROVE  /\ i \in 0 .. Len(f) /\ (i # 0 => Png!Asked(f[i], kind))
         /\ \A n \in 1 .. Len(f) : Png!Asked(f[n], kind) => i \in 1 .. n
<1>1. Len(f) \in Nat
  BY DEF PngLaid
<1>2. PICK I : I = {n \in 1 .. Len(f) : Png!Asked(f[n], kind)}
  OBVIOUS
<1>3. i = IF I # {} THEN Min(I) ELSE 0
  BY <1>2 DEF PngIndex, SelectInSeq
<1>4. I \in SUBSET Nat
  BY <1>1, <1>2
<1>5. CASE I = {}
  BY <1>1, <1>2, <1>3, <1>5
<1>6. CASE I # {}
  <2>1. i \in I /\ \A n \in I : i <= n
    BY <1>3, <1>4, <1>6, LeastIs
  <2> QED BY <1>1, <1>2, <2>1
<1> QED BY <1>5, <1>6

\* A chunk that has been read is all of it, and one that has not is empty.
LEMMA ChunkOfIs ==
  ASSUME NEW f, PngLaid(f), NEW k \in 1 .. Len(f)
  PROVE  /\ ChunkPart(f, k, Length(f[k])) = ChunkOf(f, k) /\ ChunkOf(f, k) # Png!Null
         /\ ChunkPart(f, k, 0) = Zeros(Length(f[k]))
         /\ \A n : ChunkPart(f, k, n) # Png!Null
<1>1. PICK n : n = Length(f[k]) /\ n \in Nat
  BY DEF PngLaid
<1>2. \A m \in 1 .. n : m <= n /\ ~(m <= 0)
  BY <1>1
<1>3. [m \in 1 .. n |-> IF m <= n THEN PngAt(f, k) + 8 + m ELSE 0]
        = [m \in 1 .. n |-> PngAt(f, k) + 8 + m]
  BY <1>2
<1>4. [m \in 1 .. n |-> IF m <= 0 THEN PngAt(f, k) + 8 + m ELSE 0] = [m \in 1 .. n |-> 0]
  BY <1>2
<1>5. /\ ChunkOf(f, k).len = n /\ Png!Null.len = -1 /\ \A m : ChunkPart(f, k, m).len = n
  BY <1>1 DEF ChunkOf, ChunkPart, Png!Null
<1>6. n # -1
  BY <1>1
<1>7. ChunkOf(f, k) # Png!Null /\ \A m : ChunkPart(f, k, m) # Png!Null
  BY <1>5, <1>6
<1> QED BY <1>1, <1>3, <1>4, <1>7 DEF ChunkPart, ChunkOf, Zeros

\* A chunk is found when it is the first of its kind.
LEMMA PngFoundNext ==
  ASSUME NEW f, PngLaid(f), NEW k \in 1 .. Len(f), NEW kind
  PROVE  /\ PngFound(f, k + 1, kind)
              = IF Png!Asked(f[k], kind) /\ PngFound(f, k, kind) = Png!Null
                THEN ChunkOf(f, k) ELSE PngFound(f, k, kind)
         /\ PngIndex(f, kind) = k <=> Png!Asked(f[k], kind) /\ PngFound(f, k, kind) = Png!Null
<1>1. PICK i : i = PngIndex(f, kind)
  OBVIOUS
<1>2. /\ i \in 0 .. Len(f) /\ (i # 0 => Png!Asked(f[i], kind))
      /\ \A n \in 1 .. Len(f) : Png!Asked(f[n], kind) => i \in 1 .. n
  BY <1>1, PngIndexIs
<1>3. /\ PngFound(f, k, kind) = IF i \in 1 .. k - 1 THEN ChunkOf(f, i) ELSE Png!Null
      /\ PngFound(f, k + 1, kind) = IF i \in 1 .. (k + 1) - 1 THEN ChunkOf(f, i) ELSE Png!Null
  BY <1>1 DEF PngFound
<1>4. Len(f) \in Nat
  BY DEF PngLaid
<1>5. CASE i \in 1 .. k - 1
  <2>1. i \in 1 .. Len(f) /\ i \in 1 .. (k + 1) - 1 /\ i # k
    BY <1>4, <1>5
  <2>2. ChunkOf(f, i) # Png!Null
    BY <2>1, ChunkOfIs
  <2> QED BY <1>1, <1>3, <1>5, <2>1, <2>2
<1>6. CASE i = k
  <2>1. i \in 1 .. (k + 1) - 1 /\ i \notin 1 .. k - 1 /\ i # 0
    BY <1>4, <1>6
  <2> QED BY <1>1, <1>2, <1>3, <1>6, <2>1
<1>7. CASE i \notin 1 .. k
  <2>1. i \notin 1 .. (k + 1) - 1 /\ i \notin 1 .. k - 1 /\ i # k
    BY <1>2, <1>4, <1>7
  <2> QED BY <1>1, <1>2, <1>3, <1>7, <2>1
<1> QED BY <1>4, <1>5, <1>6, <1>7

\* A chunk that is not bad leaves what is before it sound.
LEMMA PngSoundNext ==
  ASSUME NEW f, NEW k \in Nat \ {0}, PngSound(f, k), ~PngBad(f, k)
  PROVE  PngSound(f, k + 1)
<1>1. \A d \in 1 .. (k + 1) - 1 : d \in 1 .. k - 1 \/ d = k
  OBVIOUS
<1> QED BY <1>1 DEF PngSound

\* A chunk that is passed over is of no kind that the reader still looks for.
LEMMA PngPassed ==
  ASSUME NEW f, PngLaid(f), NEW k \in 1 .. Len(f), NEW c, PngBefore(f, c, k),
         \A kind \in Png!Kinds : Png!Asked(f[k], kind) => c[kind] # Png!Null
  PROVE  PngBefore(f, c, k + 1)
<1>1. ASSUME NEW kind \in Png!Kinds
      PROVE  /\ c[kind] = PngFound(f, k, kind)
             /\ ~(Png!Asked(f[k], kind) /\ PngFound(f, k, kind) = Png!Null)
  BY DEF PngBefore
<1>2. \A kind \in Png!Kinds : c[kind] = PngFound(f, k + 1, kind)
  BY <1>1, PngFoundNext
<1>3. ~PngBad(f, k)
  BY <1>1, PngFoundNext DEF PngBad
<1>4. PngSound(f, k + 1)
  BY <1>3, PngSoundNext DEF PngBefore
<1> QED BY <1>2, <1>4 DEF PngBefore

\* One that is taken, if it is what it seems to be, is found.
LEMMA PngBodyRead ==
  ASSUME NEW f, PngLaid(f), NEW k \in 1 .. Len(f), NEW kind \in Png!Kinds, NEW c,
         PngBeforeBut(f, c, k, kind), f[k].name = kind,
         c[kind] = IF Png!Asked(f[k], kind) THEN ChunkOf(f, k) ELSE Png!Null,
         Png!Asked(f[k], kind) => f[k].good
  PROVE  PngBefore(f, c, k + 1)
<1>1. \A other \in Png!Kinds \ {kind} : ~Png!Asked(f[k], other)
  BY AskedIs
<1>2. ASSUME NEW other \in Png!Kinds PROVE c[other] = PngFound(f, k + 1, other)
  <2>1. CASE other = kind
    BY <2>1, PngFoundNext DEF PngBeforeBut
  <2>2. CASE other # kind
    <3>1. c[other] = PngFound(f, k, other) /\ ~Png!Asked(f[k], other)
      BY <1>1, <2>2 DEF PngBeforeBut
    <3> QED BY <3>1, PngFoundNext
  <2> QED BY <2>1, <2>2
<1>3. ~PngBad(f, k)
  <2>1. \A other \in Png!Kinds : PngIndex(f, other) = k => Png!Asked(f[k], other)
    BY PngFoundNext
  <2> QED BY <1>1, <2>1 DEF PngBad
<1>4. PngSound(f, k + 1)
  BY <1>3, PngSoundNext DEF PngBeforeBut
<1> QED BY <1>2, <1>4 DEF PngBefore

\* The name of a chunk tells what it is.
LEMMA NameTells ==
  ASSUME NEW c, c \in Chunks, NEW kind \in Png!Kinds \cup {"IHDR", "IEND"}
  PROVE  Png!Is(Png!Name(c), kind) <=> c.name = kind
<1>1. PICK byte : byte = Png!NameByte
  OBVIOUS
<1>2. /\ Png!Name(c) = [n \in 1 .. 4 |-> byte[c.name]]
      /\ Png!Field(byte[kind]) = [n \in 1 .. 4 |-> byte[kind]]
  BY <1>1 DEF Png!Name, Png!Field, Png!Word
<1>3. Png!Name(c) = Png!Field(byte[kind]) <=> byte[c.name] = byte[kind]
  <2>1. ASSUME Png!Name(c) = Png!Field(byte[kind]) PROVE byte[c.name] = byte[kind]
    <3>1. Png!Name(c)[1] = byte[c.name] /\ Png!Field(byte[kind])[1] = byte[kind]
      BY <1>2
    <3> QED BY <2>1, <3>1
  <2> QED BY <1>2, <2>1
<1>4. byte[c.name] = byte[kind] <=> c.name = kind
  <2>1. c.name \in {"IHDR", "iTXt", "iCCP", "sRGB", "cHRM", "gAMA", "IEND", "other"}
    BY DEF Chunks, Png!NameByte
  <2>2. kind \in {"IHDR", "iTXt", "iCCP", "sRGB", "cHRM", "gAMA", "IEND"}
    BY DEF Png!Kinds
  <2>3. /\ byte["IHDR"] = 101 /\ byte["iTXt"] = 102 /\ byte["iCCP"] = 103 /\ byte["sRGB"] = 104
        /\ byte["cHRM"] = 105 /\ byte["gAMA"] = 106 /\ byte["IEND"] = 107 /\ byte["other"] = 108
    BY <1>1 DEF Png!NameByte
  <2> QED BY <2>1, <2>2, <2>3
<1> QED BY <1>1, <1>3, <1>4 DEF Png!Is

\* The states of a reader that are not the name of a kind
LEMMA PngStatesDiffer ==
  /\ {"MAGIC", "SIZE", "NAME", "SKIP_BYTES", "SKIP_CRC", "CHECK_CRC", "FINISHED"} \cap Png!Kinds = {}
  /\ {"iTXt", "iCCP", "sRGB", "cHRM", "gAMA"} = Png!Kinds /\ "none" \notin Png!Kinds
<1> QED BY DEF Png!Kinds

\* The next byte of the buffer is that of the file.
LEMMA PngByteIs ==
  ASSUME PngAssumption, PngInv, Png!Left > 0, NEW b, b = PngBytes(source)
  PROVE  /\ PngLaid(source) /\ readTo \in Nat /\ buffered \in Nat /\ Png!Left \in Nat
         /\ Png!Left = buffered - readTo
         /\ Png!Byte = b[readTo + 1] /\ Png!Byte \in ByteValues /\ Png!Bytes = b
<1>1. source \in PngImages /\ readTo \in 0 .. buffered /\ buffered \in 0 .. Len(b)
  BY DEF PngInv
<1>2. PngLaid(source)
  BY <1>1, PngLayout
<1>3. b \in Seq(ByteValues) /\ Len(b) \in Nat
  BY <1>2, LenProperties DEF PngLaid
<1>4. Png!Bytes = b
  BY <1>1, PngBytesAre
<1>5. Png!Left = buffered - readTo
  BY DEF Png!Left
<1>6. readTo + 1 \in 1 .. Len(b) /\ readTo \in Nat /\ buffered \in Nat /\ Png!Left \in Nat
  BY <1>1, <1>3, <1>5
<1>7. b[readTo + 1] \in ByteValues
  BY <1>3, <1>6, ElementOfSeq
<1> QED BY <1>2, <1>4, <1>5, <1>6, <1>7 DEF Png!Byte

-----------------------------------------------------------------------------
(* The metadata readers: the rounds of the reader of a PNG file *)


\* The states tell where the reader is.
LEMMA PngIsWhere ==
  ASSUME NEW f, NEW s, NEW p, PngWhere(f, s, p)
  PROVE  /\ s.state = "MAGIC" => PngMagic(f, s, p)
         /\ s.state = "SIZE" => \/ \E k \in 1 .. Len(f) + 1 : PngBetween(f, s, p, k)
                                \/ \E k \in 1 .. Len(f) : PngHeader(f, s, p, k)
         /\ s.state = "NAME" => \E k \in 1 .. Len(f) : PngHeader(f, s, p, k)
         /\ s.state \in {"SKIP_BYTES", "SKIP_CRC"} =>
              \E k \in 1 .. Len(f) + 1 : PngBetween(f, s, p, k)
         /\ s.state = "CHECK_CRC" =>
              \E k \in 1 .. Len(f), kind \in Png!Kinds : PngCrc(f, s, p, k, kind)
         /\ s.state = "FINISHED" => \E k \in 1 .. Len(f) + 1 : PngDone(f, s, k)
         /\ \A kind \in Png!Kinds : s.state = kind =>
              \E k \in 1 .. Len(f) : PngBody(f, s, p, k, kind)
<1>1. CASE PngMagic(f, s, p)
  <2>1. s.state = "MAGIC"
    BY <1>1 DEF PngMagic
  <2> QED BY <1>1, <2>1, PngStatesDiffer
<1>2. ASSUME NEW k \in 1 .. Len(f) + 1, PngBetween(f, s, p, k)
      PROVE  s.state \in {"SIZE", "SKIP_BYTES", "SKIP_CRC"}
  BY <1>2 DEF PngBetween
<1>3. CASE \E k \in 1 .. Len(f) + 1 : PngBetween(f, s, p, k)
  BY <1>2, <1>3, PngStatesDiffer
<1>4. CASE \E k \in 1 .. Len(f) + 1 : PngDone(f, s, k)
  <2>1. s.state = "FINISHED"
    BY <1>4 DEF PngDone
  <2> QED BY <1>4, <2>1, PngStatesDiffer
<1>5. CASE \E k \in 1 .. Len(f) : PngHeader(f, s, p, k)
  <2>1. s.state \in {"SIZE", "NAME"}
    BY <1>5 DEF PngHeader
  <2> QED BY <1>5, <2>1, PngStatesDiffer
<1>6. ASSUME NEW k \in 1 .. Len(f), NEW kind \in Png!Kinds, PngBody(f, s, p, k, kind)
      PROVE  s.state = kind
  BY <1>6 DEF PngBody
<1>7. CASE \E k \in 1 .. Len(f), kind \in Png!Kinds : PngBody(f, s, p, k, kind)
  BY <1>6, <1>7, PngStatesDiffer
<1>8. CASE \E k \in 1 .. Len(f), kind \in Png!Kinds : PngCrc(f, s, p, k, kind)
  <2>1. s.state = "CHECK_CRC"
    BY <1>8 DEF PngCrc
  <2> QED BY <1>8, <2>1, PngStatesDiffer
<1> QED BY <1>1, <1>3, <1>4, <1>5, <1>7, <1>8 DEF PngWhere

\* What has to be shown of a round of the loop
LEMMA PngGoes ==
  ASSUME PngInv, reader.state # "FINISHED", NEW t, t \in PngReaders, NEW n \in Nat, n <= Png!Left,
         Png!Goes(t, n), ~t.cut => PngWhere(source, t, readTo + n)
  PROVE  PngInv'
<1>1. reader' = t /\ readTo' = readTo + n /\ source' = source /\ buffered' = buffered
      /\ metadata' = metadata
  BY DEF Png!Goes
<1>2. metadata = Png!NotRead
  BY DEF PngInv
<1>3. metadata' = Png!NotRead
  BY <1>1, <1>2
<1>4. readTo + n \in 0 .. buffered
  <2>1. readTo \in 0 .. buffered /\ buffered \in 0 .. Len(PngBytes(source))
    BY Zenon DEF PngInv
  <2>2. PICK b : b = PngBytes(source)
    BY Zenon
  <2>3. readTo \in 0 .. buffered /\ buffered \in 0 .. Len(b)
    BY <2>1, <2>2
  <2>4. n <= buffered - readTo
    BY DEF Png!Left
  <2> QED BY <2>3, <2>4
<1>5. source' \in PngImages /\ readTo' \in 0 .. buffered' /\ buffered' \in 0 .. Len(PngBytes(source'))
  BY <1>1, <1>4 DEF PngInv
<1>6. reader' \in PngReaders /\ (~reader'.cut => PngWhere(source', reader', readTo'))
  BY <1>1
<1>7. metadata' # Png!NotRead' => reader'.state = "FINISHED" /\ metadata' = PngTaken(reader)'
  BY <1>3 DEF Png!NotRead, Png!Null
<1> QED BY <1>5, <1>6, <1>7 DEF PngInv

\* The next buffer of a PNG file
LEMMA PngConsume ==
  ASSUME PngAssumption, PngInv, Png!Consume
  PROVE  PngInv'
<1>1. PICK b : b = PngBytes(source)
  OBVIOUS
<1>2. source \in PngImages /\ readTo \in 0 .. buffered /\ buffered \in 0 .. Len(b)
  BY <1>1 DEF PngInv
<1>3. Png!Bytes = b /\ Len(b) \in Nat
  <2>1. PngLaid(source)
    BY <1>2, PngLayout
  <2>2. b \in Seq(ByteValues)
    BY <1>1, <2>1 DEF PngLaid
  <2> QED BY <1>1, <1>2, <2>2, PngBytesAre, LenProperties
<1>4. /\ readTo = buffered /\ buffered' \in (buffered + 1) .. Len(b)
      /\ source' = source /\ readTo' = readTo /\ reader' = reader /\ metadata' = metadata
  BY <1>3 DEF Png!Consume
<1>5. readTo' \in 0 .. buffered' /\ buffered' \in 0 .. Len(b)
  BY <1>2, <1>3, <1>4
<1>6. source' \in PngImages /\ readTo' \in 0 .. buffered' /\ buffered' \in 0 .. Len(PngBytes(source'))
  BY <1>1, <1>2, <1>4, <1>5
<1>7. reader' \in PngReaders /\ (~reader'.cut => PngWhere(source', reader', readTo'))
  BY <1>4 DEF PngInv
<1>8. metadata' = Png!NotRead
  BY <1>4 DEF PngInv, Png!Consume
<1>9. metadata' # Png!NotRead' => reader'.state = "FINISHED" /\ metadata' = PngTaken(reader)'
  BY <1>8 DEF Png!NotRead, Png!Null
<1> QED BY <1>6, <1>7, <1>9 DEF PngInv

\* What is taken depends on the bytes of the file only.
LEMMA PngTakenStays ==
  ASSUME source' = source, reader' = reader
  PROVE  PngTaken(reader)' = PngTaken(reader)
<1>1. Png!Bytes' = Png!Bytes
  BY DEF Png!Bytes
<1>2. Png!IccProfile(reader.chunk)' = Png!IccProfile(reader.chunk)
  BY <1>1 DEF Png!IccProfile, Png!Null, Png!Deflate
<1> QED BY <1>2 DEF PngTaken

\* The metadata of a PNG file are taken.
LEMMA PngSetMetadata ==
  ASSUME PngInv, Png!SetMetadata
  PROVE  PngInv'
<1>1. /\ reader.state = "FINISHED" /\ metadata' = PngTaken(reader)
      /\ source' = source /\ readTo' = readTo /\ buffered' = buffered /\ reader' = reader
  BY DEF Png!SetMetadata, PngTaken
<1>2. source' \in PngImages /\ readTo' \in 0 .. buffered' /\ buffered' \in 0 .. Len(PngBytes(source'))
  BY <1>1 DEF PngInv
<1>3. reader' \in PngReaders /\ (~reader'.cut => PngWhere(source', reader', readTo'))
  BY <1>1 DEF PngInv
<1>4. metadata' # Png!NotRead' => reader'.state = "FINISHED" /\ metadata' = PngTaken(reader)'
  BY <1>1, PngTakenStays
<1> QED BY <1>2, <1>3, <1>4 DEF PngInv

\* A PNG file of which nothing has been read
LEMMA PngInit ==
  ASSUME PngAssumption, Png!Init
  PROVE  PngInv
<1>1. /\ source \in PngImages /\ readTo = 0 /\ buffered = 0 /\ metadata = Png!NotRead
      /\ reader = [state |-> "MAGIC", step |-> 0, size |-> 0, read |-> 0, hasIHDR |-> FALSE,
                   name |-> <<>>, target |-> <<>>, crcFor |-> "none",
                   chunk |-> [kind \in Png!Kinds |-> Png!Null], cut |-> FALSE]
  BY DEF Png!Init
<1>0. PngLaid(source)
  BY <1>1, PngLayout
<1>2. buffered \in 0 .. Len(PngBytes(source)) /\ readTo \in 0 .. buffered
  <2>2. PICK b : b = PngBytes(source) /\ b \in Seq(ByteValues)
    BY <1>0 DEF PngLaid
  <2>3. Len(b) \in Nat
    BY <2>2, LenProperties
  <2> QED BY <1>1, <2>2, <2>3
<1>3. reader \in PngReaders
  <2>1. PICK none \in Nat : none = 0
    OBVIOUS
  <2>2. Png!Null \in PngChunks
    <3>1. <<>> \in Seq(Nat)
      OBVIOUS
    <3> QED BY <3>1 DEF Png!Null, PngChunks
  <2>3. <<>> \in Seq(ByteValues)
    OBVIOUS
  <2> QED BY <1>1, <2>1, <2>2, <2>3 DEF PngReaders
<1>4. PngBefore(source, reader.chunk, 1)
  BY <1>1 DEF PngBefore, PngFound, PngSound
<1>5. 0 < Len(PngSignature)
  <2>1. PngSignature \in Seq(0 .. 255) /\ PngSignature # <<>>
    BY DEF PngAssumption
  <2> QED BY <2>1, EmptySeq, LenProperties
<1>6. PngMagic(source, reader, readTo)
  BY <1>1, <1>4, <1>5 DEF PngMagic
<1> QED BY <1>1, <1>2, <1>3, <1>6 DEF PngInv, PngWhere

\* A byte of the signature
LEMMA PngReadMagic ==
  ASSUME PngAssumption, PngInv, Png!ReadMagic
  PROVE  PngInv'
<1>1. Png!Left > 0 /\ reader.state = "MAGIC"
  BY DEF Png!ReadMagic, Png!In
<1>2. PICK b, f, p, byte, sig : /\ b = PngBytes(source) /\ f = source /\ p = readTo /\ byte = Png!Byte
                                /\ sig = Len(PngSignature)
  OBVIOUS
<1>3. /\ PngLaid(f) /\ p \in Nat /\ Png!Left \in Nat /\ byte = b[p + 1] /\ sig \in Nat
  BY <1>1, <1>2, PngByteIs DEF PngLaid
<1>4. PICK t : t = IF byte = PngSignature[reader.step + 1]
                   THEN [reader EXCEPT !.step = @ + 1,
                                       !.state = IF reader.step = sig - 1 THEN "SIZE" ELSE @]
                   ELSE [reader EXCEPT !.state = "FINISHED"]
  OBVIOUS
<1>5. Png!Goes(t, 1)
  BY <1>2, <1>4 DEF Png!ReadMagic
<1>6. reader \in PngReaders
  BY DEF PngInv
<1>7. PICK step \in Nat : step = reader.step
  BY <1>6 DEF PngReaders
<1>8. /\ t \in PngReaders /\ t.chunk = reader.chunk /\ t.cut = reader.cut
      /\ t.size = reader.size /\ t.read = reader.read
      /\ byte = PngSignature[step + 1] =>
           t.step = step + 1 /\ t.state = IF step = sig - 1 THEN "SIZE" ELSE "MAGIC"
  <2>1. CASE byte = PngSignature[step + 1]
    <3>1. PICK next \in Nat : next = step + 1
      OBVIOUS
    <3>2. PICK state \in {"SIZE", "MAGIC"} : state = IF step = sig - 1 THEN "SIZE" ELSE "MAGIC"
      OBVIOUS
    <3>3. t = [reader EXCEPT !.step = next, !.state = state]
      BY <1>1, <1>4, <1>6, <1>7, <2>1, <3>1, <3>2 DEF PngReaders
    <3> QED BY <1>6, <3>1, <3>2, <3>3 DEF PngReaders
  <2>2. CASE byte # PngSignature[step + 1]
    <3>1. t = [reader EXCEPT !.state = "FINISHED"]
      BY <1>4, <1>7, <2>2
    <3> QED BY <1>6, <2>2, <3>1 DEF PngReaders
  <2> QED BY <2>1, <2>2
<1>9. ASSUME ~t.cut PROVE PngWhere(f, t, p + 1)
  <2>1. PngMagic(f, reader, p)
    BY <1>1, <1>2, <1>8, <1>9, PngIsWhere DEF PngInv
  <2>2. PngBefore(f, t.chunk, 1) /\ p = step /\ step < sig /\ t.size = 0 /\ t.read = 0
    BY <1>2, <1>7, <1>8, <2>1 DEF PngMagic
  <2>3. step + 1 \in 1 .. sig
    BY <1>3, <2>2
  <2>4. byte = PngSignature[step + 1]
    BY <1>2, <1>3, <2>2, <2>3 DEF PngLaid
  <2>5. CASE step = sig - 1
    <3>1. p + 1 = PngAt(f, 1)
      <4>1. PngAt(f, 1) = sig
        BY <1>2, <1>3 DEF PngLaid
      <4> QED BY <1>3, <2>2, <2>5, <4>1
    <3>2. PngBetween(f, t, p + 1, 1)
      BY <1>8, <2>2, <2>4, <2>5, <3>1 DEF PngBetween
    <3>3. 1 \in 1 .. Len(f) + 1
      <4>1. Len(f) \in Nat
        BY <1>3 DEF PngLaid
      <4> QED BY <4>1
    <3> QED BY <3>2, <3>3 DEF PngWhere
  <2>6. CASE step # sig - 1
    <3>1. t.state = "MAGIC" /\ t.step = step + 1 /\ step + 1 < sig
      BY <1>3, <1>8, <2>2, <2>4, <2>6
    <3>2. PngMagic(f, t, p + 1)
      BY <1>2, <2>2, <3>1 DEF PngMagic
    <3> QED BY <3>2 DEF PngWhere
  <2> QED BY <2>5, <2>6
<1>10. 1 \in Nat /\ 1 <= Png!Left /\ reader.state # "FINISHED"
  BY <1>1, <1>3
<1> QED BY <1>2, <1>5, <1>8, <1>9, <1>10, PngGoes

SizeGrows(n, s, read) == 256 * SizePart(n, read) + s[read + 1] = SizePart(n, read + 1)

\* A size is read from its high byte.
LEMMA SizeNext ==
  ASSUME NEW n \in Nat, NEW s, SizeBytes(s, n), NEW read \in 0 .. 3
  PROVE  SizeGrows(n, s, read)
<1>1. PICK a \in Nat : a = n \div 256
  OBVIOUS
<1>2. PICK d \in Nat : d = a \div 256
  OBVIOUS
<1>3. PICK e \in Nat : e = d \div 256
  OBVIOUS
<1>4. SizePart(n, 0) = 0 /\ SizePart(n, 1) = e /\ SizePart(n, 2) = d /\ SizePart(n, 3) = a
      /\ SizePart(n, 4) = n
  BY <1>1, <1>2, <1>3 DEF SizePart
<1>5. s[1] = e /\ s[2] = d % 256 /\ s[3] = a % 256 /\ s[4] = n % 256
  BY <1>1, <1>2, <1>3 DEF SizeBytes
<1>6. 256 * a + s[4] = n
  <2>1. s[4] = n % 256
    BY <1>5
  <2> QED BY <1>1, <2>1
<1>7. 256 * d + s[3] = a
  <2>1. s[3] = a % 256
    BY <1>5
  <2> QED BY <1>2, <2>1
<1>8. 256 * e + s[2] = d
  <2>1. s[2] = d % 256
    BY <1>5
  <2> QED BY <1>3, <2>1
<1>9. 256 * 0 + s[1] = e
  <2>1. s[1] = e
    BY <1>5
  <2> QED BY <1>3, <2>1
<1>10. read = 0 \/ read = 1 \/ read = 2 \/ read = 3
  OBVIOUS
<1>11. 256 * SizePart(n, read) + s[read + 1] = SizePart(n, read + 1)
  BY <1>4, <1>6, <1>7, <1>8, <1>9, <1>10
<1> QED BY <1>11 DEF SizeGrows

\* The next byte of the size of a chunk adds to what has been read of it.
LEMMA PngSizeByte ==
  ASSUME PngAssumption, PngInv, Png!Left > 0, reader.state = "SIZE", ~reader.cut
  PROVE  \E k \in 1 .. Len(source) :
           /\ PngBefore(source, reader.chunk, k) /\ reader.read \in 0 .. 3
           /\ readTo = PngAt(source, k) + reader.read
           /\ reader.size = SizePart(Length(source[k]), reader.read)
           /\ 256 * reader.size + Png!Byte = SizePart(Length(source[k]), reader.read + 1)
<1>1. PICK b, f, p, byte : b = PngBytes(source) /\ f = source /\ p = readTo /\ byte = Png!Byte
  OBVIOUS
<1>2. /\ PngLaid(f) /\ p \in Nat /\ buffered \in Nat /\ Png!Left = buffered - p /\ byte = b[p + 1]
  BY <1>1, PngByteIs
<1>3. p < Len(b) /\ Len(f) \in Nat
  <2>1. buffered \in 0 .. Len(b)
    BY <1>1 DEF PngInv
  <2>2. Len(b) \in Nat
    BY <1>1, <1>2, LenProperties DEF PngLaid
  <2>3. Len(f) \in Nat
    BY <1>2 DEF PngLaid
  <2> QED BY <1>2, <2>1, <2>2, <2>3
<1>4. reader \in PngReaders /\ PngWhere(f, reader, p)
  BY <1>1 DEF PngInv
<1>5. \E k \in 1 .. Len(f) :
        /\ PngBefore(f, reader.chunk, k) /\ reader.read \in 0 .. 3
        /\ p = PngAt(f, k) + reader.read /\ reader.size = SizePart(Length(f[k]), reader.read)
  <2>1. CASE \E k \in 1 .. Len(f) + 1 : PngBetween(f, reader, p, k)
    <3>1. PICK k \in 1 .. Len(f) + 1 : PngBetween(f, reader, p, k)
      BY <2>1
    <3>2. PngBefore(f, reader.chunk, k) /\ p = PngAt(f, k) /\ reader.read = 0 /\ reader.size = 0
      BY <3>1 DEF PngBetween
    <3>3. k # Len(f) + 1
      <4>1. PngAt(f, Len(f) + 1) = Len(b)
        BY <1>1, <1>2 DEF PngLaid
      <4> QED BY <1>2, <1>3, <3>2, <4>1
    <3>4. k \in 1 .. Len(f)
      BY <1>3, <3>3
    <3>5. SizePart(Length(f[k]), 0) = 0
      BY DEF SizePart
    <3>6. p = PngAt(f, k) + 0
      BY <1>2, <3>2
    <3>7. reader.read \in 0 .. 3
      BY <3>2
    <3> QED BY <3>2, <3>4, <3>5, <3>6, <3>7
  <2>2. CASE \E k \in 1 .. Len(f) : PngHeader(f, reader, p, k)
    <3>1. PICK k \in 1 .. Len(f) : PngHeader(f, reader, p, k)
      BY <2>2
    <3>2. PngBefore(f, reader.chunk, k) /\ reader.read \in 1 .. 3 /\ p = PngAt(f, k) + reader.read
          /\ reader.size = SizePart(Length(f[k]), reader.read)
      BY <3>1 DEF PngHeader
    <3>3. reader.read \in 0 .. 3
      BY <3>2
    <3> QED BY <3>2, <3>3
  <2> QED BY <1>4, <2>1, <2>2, PngIsWhere
<1>6. PICK k \in 1 .. Len(f) :
        /\ PngBefore(f, reader.chunk, k) /\ reader.read \in 0 .. 3
        /\ p = PngAt(f, k) + reader.read /\ reader.size = SizePart(Length(f[k]), reader.read)
  BY <1>5
<1>7. PICK read \in 0 .. 3 : read = reader.read
  BY <1>6
<1>8. PICK a, n : a = PngAt(f, k) /\ n = Length(f[k])
  OBVIOUS
<1>9. a \in Nat /\ n \in Nat /\ IsChunk(f[k]) /\ ChunkAt(b, a, f[k])
  BY <1>1, <1>2, <1>8, PngChunkIs
<1>10. PICK s : s = Png!Size(f[k])
  OBVIOUS
<1>11. SizeBytes(s, n)
  <2>1. n \in Nat /\ n = Length(f[k]) /\ n <= Png!MaxSize
    BY <1>8, <1>9 DEF IsChunk
  <2> QED BY <1>10, <2>1, SizeIs
<1>12. byte = s[read + 1]
  <2>1. \A m \in 1 .. 4 : b[a + m] = s[m]
    BY <1>9, <1>10 DEF ChunkAt
  <2>2. p + 1 = a + (read + 1) /\ read + 1 \in 1 .. 4
    BY <1>6, <1>7, <1>8, <1>9
  <2> QED BY <1>2, <2>1, <2>2
<1>13. 256 * SizePart(n, read) + s[read + 1] = SizePart(n, read + 1)
  <2>1. n \in Nat /\ SizeBytes(s, n) /\ read \in 0 .. 3
    BY <1>9, <1>11
  <2>2. SizeGrows(n, s, read)
    BY <2>1, SizeNext
  <2> QED BY <2>2 DEF SizeGrows
<1>14. 256 * reader.size + byte = SizePart(n, reader.read + 1)
  BY <1>6, <1>7, <1>8, <1>12, <1>13
<1> QED BY <1>1, <1>6, <1>8, <1>14

\* A byte of the size
LEMMA PngReadSize ==
  ASSUME PngAssumption, PngInv, NEW width \in 0 .. 3, Png!ReadSize(width)
  PROVE  PngInv'
<1>1. Png!Left > 0 /\ reader.state = "SIZE" /\ reader.read = width
  BY DEF Png!ReadSize, Png!In
<1>2. PICK f, p, byte : f = source /\ p = readTo /\ byte = Png!Byte
  OBVIOUS
<1>3. /\ PngLaid(f) /\ p \in Nat /\ Png!Left \in Nat /\ byte \in ByteValues
  BY <1>1, <1>2, PngByteIs
<1>4. reader \in PngReaders
  BY DEF PngInv
<1>5. PICK size \in Nat : size = reader.size
  BY <1>4 DEF PngReaders
<1>6. PICK sum \in Nat : sum = 256 * size + byte
  <2>1. byte \in Nat
    BY <1>3 DEF ByteValues
  <2> QED BY <2>1
<1>7. PICK big : big = Png!MaxSize \div 256
  OBVIOUS
<1>8. PICK t : t = CASE width < 3 -> [reader EXCEPT !.size = sum, !.read = width + 1]
                     [] width = 3 /\ size <= big ->
                          [reader EXCEPT !.size = sum, !.read = 0, !.step = 0, !.name = <<>>,
                                         !.state = "NAME"]
                     [] OTHER -> [reader EXCEPT !.state = "FINISHED"]
  OBVIOUS
<1>9. Png!Goes(t, 1)
  <2>1. Png!Word = 4 /\ 4 - 1 = 3
    BY DEF Png!Word
  <2>2. [[reader EXCEPT !.size = sum] EXCEPT !.read = width + 1]
          = [reader EXCEPT !.size = sum, !.read = width + 1]
    OBVIOUS
  <2>3. [[reader EXCEPT !.size = sum] EXCEPT !.read = 0, !.step = 0, !.name = <<>>, !.state = "NAME"]
          = [reader EXCEPT !.size = sum, !.read = 0, !.step = 0, !.name = <<>>, !.state = "NAME"]
    OBVIOUS
  <2> QED BY <1>2, <1>5, <1>6, <1>7, <1>8, <2>1, <2>2, <2>3 DEF Png!ReadSize
<1>10. 1 \in Nat /\ 1 <= Png!Left /\ reader.state # "FINISHED"
  BY <1>1, <1>3
<1>11. CASE width < 3
  <2>1. t = [reader EXCEPT !.size = sum, !.read = width + 1]
    BY <1>8, <1>11
  <2>2. PICK next \in 1 .. 3 : next = width + 1
    BY <1>11
  <2>3. t = [reader EXCEPT !.size = sum, !.read = next]
    BY <2>1, <2>2
  <2>4. /\ t \in PngReaders /\ t.chunk = reader.chunk /\ t.cut = reader.cut /\ t.state = "SIZE"
        /\ t.size = sum /\ t.read = next
    <3>1. next \in Nat
      OBVIOUS
    <3> QED BY <1>1, <1>4, <2>3, <3>1 DEF PngReaders
  <2>5. ASSUME ~t.cut PROVE PngWhere(f, t, p + 1)
    <3>1. PICK k \in 1 .. Len(f) :
            /\ PngBefore(f, reader.chunk, k) /\ reader.read \in 0 .. 3
            /\ p = PngAt(f, k) + reader.read
            /\ reader.size = SizePart(Length(f[k]), reader.read)
            /\ 256 * reader.size + byte = SizePart(Length(f[k]), reader.read + 1)
      BY <1>1, <1>2, <2>4, <2>5, PngSizeByte
    <3>2. PngAt(f, k) \in Nat
      BY <1>3, PngChunkIs
    <3>3. p + 1 = PngAt(f, k) + next
      BY <1>1, <2>2, <3>1, <3>2
    <3>4. sum = SizePart(Length(f[k]), next)
      BY <1>1, <1>5, <1>6, <2>2, <3>1
    <3>5. PngHeader(f, t, p + 1, k)
      BY <2>4, <3>1, <3>3, <3>4 DEF PngHeader
    <3> QED BY <3>5 DEF PngWhere
  <2> QED BY <1>2, <1>9, <1>10, <2>4, <2>5, PngGoes
<1>12. CASE width = 3 /\ size <= big
  <2>1. t = [reader EXCEPT !.size = sum, !.read = 0, !.step = 0, !.name = <<>>, !.state = "NAME"]
    BY <1>8, <1>12
  <2>2. PICK none \in Nat : none = 0
    OBVIOUS
  <2>3. t = [reader EXCEPT !.size = sum, !.read = none, !.step = none, !.name = <<>>, !.state = "NAME"]
    BY <2>1, <2>2
  <2>4. /\ t \in PngReaders /\ t.chunk = reader.chunk /\ t.cut = reader.cut /\ t.state = "NAME"
        /\ t.size = sum /\ t.step = none /\ t.name = <<>>
    <3>1. <<>> \in Seq(ByteValues)
      OBVIOUS
    <3> QED BY <1>4, <2>3, <3>1 DEF PngReaders
  <2>5. ASSUME ~t.cut PROVE PngWhere(f, t, p + 1)
    <3>1. PICK k \in 1 .. Len(f) :
            /\ PngBefore(f, reader.chunk, k) /\ reader.read \in 0 .. 3
            /\ p = PngAt(f, k) + reader.read
            /\ reader.size = SizePart(Length(f[k]), reader.read)
            /\ 256 * reader.size + byte = SizePart(Length(f[k]), reader.read + 1)
      BY <1>1, <1>2, <2>4, <2>5, PngSizeByte
    <3>2. PngAt(f, k) \in Nat
      BY <1>3, PngChunkIs
    <3>3. p + 1 = PngAt(f, k) + 4 + none /\ none \in 0 .. 3
      BY <1>1, <1>12, <2>2, <3>1, <3>2
    <3>4. SizePart(Length(f[k]), 4) = Length(f[k])
      BY DEF SizePart
    <3>5. sum = Length(f[k])
      <4>1. 3 + 1 = 4
        OBVIOUS
      <4> QED BY <1>1, <1>5, <1>6, <1>12, <3>1, <3>4, <4>1
    <3>6. FirstAre(t.name, Png!Name(f[k]), none)
      BY <2>2, <2>4 DEF FirstAre
    <3>7. PngHeader(f, t, p + 1, k)
      BY <2>4, <3>1, <3>3, <3>5, <3>6 DEF PngHeader
    <3> QED BY <3>7 DEF PngWhere
  <2> QED BY <1>2, <1>9, <1>10, <2>4, <2>5, PngGoes
<1>13. CASE width = 3 /\ ~(size <= big)
  <2>1. t = [reader EXCEPT !.state = "FINISHED"]
    BY <1>8, <1>13
  <2>2. t \in PngReaders /\ t.cut = reader.cut
    BY <1>4, <2>1 DEF PngReaders
  <2>3. ASSUME ~t.cut PROVE FALSE
    <3>1. PICK k \in 1 .. Len(f) : reader.size = SizePart(Length(f[k]), reader.read)
      BY <1>1, <1>2, <2>2, <2>3, PngSizeByte
    <3>2. PICK n \in Nat : n = Length(f[k]) /\ n <= Png!MaxSize
      BY <1>3, PngChunkIs DEF IsChunk
    <3>3. size = n \div 256
      BY <1>1, <1>5, <1>13, <3>1, <3>2 DEF SizePart
    <3>4. PICK max \in Nat : max = Png!MaxSize
      BY DEF Png!MaxSize
    <3>5. n <= max /\ big = max \div 256
      BY <1>7, <3>2, <3>4
    <3> QED BY <1>13, <3>3, <3>5
  <2> QED BY <1>2, <1>9, <1>10, <2>2, <2>3, PngGoes
<1> QED BY <1>11, <1>12, <1>13

\* What the reader goes on to, by the name of a chunk
LEMMA PngWantedType ==
  ASSUME NEW s, NEW w, w = Png!Wanted(s)
  PROVE  w \in Png!Kinds \cup {"FINISHED", "SKIP_BYTES"}
<1>1. PICK x : x = CHOOSE kind \in {"sRGB", "cHRM", "gAMA"} :
                     Png!Is(s.name, kind) /\ s.chunk[kind] = Png!Null
  OBVIOUS
<1>2. CASE \E kind \in {"sRGB", "cHRM", "gAMA"} : Png!Is(s.name, kind) /\ s.chunk[kind] = Png!Null
  <2>1. x \in {"sRGB", "cHRM", "gAMA"}
    BY <1>1, <1>2
  <2> QED BY <1>1, <2>1 DEF Png!Wanted, Png!Kinds
<1>3. CASE ~\E kind \in {"sRGB", "cHRM", "gAMA"} : Png!Is(s.name, kind) /\ s.chunk[kind] = Png!Null
  BY <1>3 DEF Png!Wanted, Png!Kinds
<1> QED BY <1>2, <1>3

\* By its name the reader goes on to a chunk of a kind that it has not got, to the end or to
\* the next one.
LEMMA PngWanted ==
  ASSUME NEW c, c \in Chunks, NEW s, s.name = Png!Name(c), s.size = Length(c),
         NEW w, w = Png!Wanted(s)
  PROVE  /\ \A kind \in Png!Kinds : w = kind => s.chunk[kind] = Png!Null /\ PngMayBe(c, kind)
         /\ w = "FINISHED" => c.name = "IEND"
         /\ w = "SKIP_BYTES" => \A kind \in Png!Kinds : Png!Asked(c, kind) => s.chunk[kind] # Png!Null
<1>1. \A kind \in {"iTXt", "iCCP", "sRGB", "cHRM", "gAMA", "IEND"} :
        Png!Is(s.name, kind) <=> c.name = kind
  BY NameTells DEF Png!Kinds
<1>2. PICK x : x = CHOOSE kind \in {"sRGB", "cHRM", "gAMA"} :
                     Png!Is(s.name, kind) /\ s.chunk[kind] = Png!Null
  OBVIOUS
<1>3. ASSUME NEW kind \in {"sRGB", "cHRM", "gAMA"}, Png!Is(s.name, kind), s.chunk[kind] = Png!Null
      PROVE  x = kind
  <2>1. x \in {"sRGB", "cHRM", "gAMA"} /\ Png!Is(s.name, x)
    BY <1>2, <1>3
  <2> QED BY <1>1, <1>3, <2>1
<1>4. w = CASE (Png!Is(s.name, "iTXt") /\ s.chunk["iTXt"] = Png!Null) /\ Length(c) > ChunkSizes["iTXt"] -> "iTXt"
            [] Png!Is(s.name, "iCCP") /\ s.chunk["iCCP"] = Png!Null -> "iCCP"
            [] \E kind \in {"sRGB", "cHRM", "gAMA"} :
                 (Png!Is(s.name, kind) /\ s.chunk[kind] = Png!Null) /\ Length(c) = ChunkSizes[kind] -> x
            [] Png!Is(s.name, "IEND") -> "FINISHED"
            [] OTHER -> "SKIP_BYTES"
  BY <1>2 DEF Png!Wanted
<1>5. /\ Png!Kinds = {"iTXt", "iCCP", "sRGB", "cHRM", "gAMA"}
      /\ \A kind \in Png!Kinds : Png!Asked(c, kind) => c.name = kind
  BY AskedIs DEF Png!Kinds
<1>6. CASE c.name = "iTXt"
  <2>1. w = IF s.chunk["iTXt"] = Png!Null /\ Length(c) > ChunkSizes["iTXt"] THEN "iTXt"
            ELSE "SKIP_BYTES"
    BY <1>1, <1>4, <1>6
  <2>2. Png!Asked(c, "iTXt") => Length(c) > ChunkSizes["iTXt"]
    BY AskedIs
  <2> QED BY <1>5, <1>6, <2>1, <2>2 DEF PngMayBe
<1>7. CASE c.name = "iCCP"
  <2>1. w = IF s.chunk["iCCP"] = Png!Null THEN "iCCP" ELSE "SKIP_BYTES"
    BY <1>1, <1>4, <1>7
  <2>2. Png!Asked(c, "iCCP")
    BY <1>7, AskedIs
  <2>3. PngMayBe(c, "iCCP")
    BY <2>2 DEF PngMayBe
  <2> QED BY <1>5, <1>7, <2>1, <2>3
<1>8. CASE c.name \in {"sRGB", "cHRM", "gAMA"}
  <2>1. PICK kind \in {"sRGB", "cHRM", "gAMA"} : kind = c.name
    BY <1>8
  <2>2. w = IF s.chunk[kind] = Png!Null /\ Length(c) = ChunkSizes[kind] THEN kind
            ELSE "SKIP_BYTES"
    BY <1>1, <1>3, <1>4, <2>1
  <2>3. Png!Asked(c, kind) <=> Length(c) = ChunkSizes[kind]
    BY <2>1, AskedIs
  <2>4. Png!Asked(c, kind) => PngMayBe(c, kind)
    BY <1>5, <2>1 DEF PngMayBe
  <2> QED BY <1>5, <2>1, <2>2, <2>3, <2>4
<1>9. CASE c.name \notin {"iTXt", "iCCP", "sRGB", "cHRM", "gAMA"}
  <2>1. w = IF c.name = "IEND" THEN "FINISHED" ELSE "SKIP_BYTES"
    BY <1>1, <1>4, <1>9
  <2> QED BY <1>5, <1>9, <2>1
<1> QED BY <1>6, <1>7, <1>8, <1>9

\* Four bytes are read one after the other.
LEMMA FirstNext ==
  ASSUME NEW s \in Seq(ByteValues), NEW t, NEW n \in Nat, FirstAre(s, t, n),
         NEW x \in ByteValues, x = t[n + 1]
  PROVE  Append(s, x) \in Seq(ByteValues) /\ FirstAre(Append(s, x), t, n + 1)
<1>1. PICK u : u = Append(s, x)
  OBVIOUS
<1>2. u \in Seq(ByteValues) /\ Len(u) = Len(s) + 1 /\ u[Len(s) + 1] = x
      /\ \A m \in 1 .. Len(s) : u[m] = s[m]
  BY <1>1, AppendProperties
<1>3. Len(s) = n /\ \A m \in 1 .. n : s[m] = t[m]
  BY DEF FirstAre
<1>4. ASSUME NEW m \in 1 .. n + 1 PROVE u[m] = t[m]
  <2>1. m \in 1 .. n \/ m = n + 1
    OBVIOUS
  <2> QED BY <1>2, <1>3, <2>1
<1>5. Len(u) = n + 1
  BY <1>2, <1>3
<1> QED BY <1>1, <1>2, <1>4, <1>5 DEF FirstAre

\* Four bytes are all.
LEMMA FirstFour ==
  ASSUME NEW s \in Seq(ByteValues), NEW t, t \in [1 .. 4 -> ByteValues], FirstAre(s, t, 4)
  PROVE  s = t
<1>1. PICK n : n = 4
  OBVIOUS
<1>2. Len(s) = n /\ \A m \in 1 .. n : s[m] = t[m]
  BY <1>1 DEF FirstAre
<1>3. s = [m \in 1 .. n |-> s[m]]
  BY <1>2
<1>4. t = [m \in 1 .. n |-> t[m]]
  BY <1>1
<1>5. \A m \in 1 .. n : s[m] = t[m]
  BY <1>2
<1> QED BY <1>3, <1>4, <1>5

\* The next byte of the name of a chunk adds to what has been read of it.
LEMMA PngNameByte ==
  ASSUME PngAssumption, PngInv, Png!Left > 0, reader.state = "NAME", ~reader.cut,
         NEW name, name = Append(reader.name, Png!Byte)
  PROVE  \E k \in 1 .. Len(source) :
           /\ PngBefore(source, reader.chunk, k) /\ reader.step \in 0 .. 3
           /\ readTo = PngAt(source, k) + 4 + reader.step /\ reader.size = Length(source[k])
           /\ FirstAre(name, Png!Name(source[k]), reader.step + 1)
<1>1. PICK b, f, p, byte : b = PngBytes(source) /\ f = source /\ p = readTo /\ byte = Png!Byte
  OBVIOUS
<1>2. /\ PngLaid(f) /\ p \in Nat /\ byte = b[p + 1] /\ byte \in ByteValues
  BY <1>1, PngByteIs
<1>3. reader \in PngReaders /\ PngWhere(f, reader, p)
  BY <1>1 DEF PngInv
<1>4. PICK k \in 1 .. Len(f) : PngHeader(f, reader, p, k)
  BY <1>3, PngIsWhere
<1>5. PICK c : c = f[k]
  OBVIOUS
<1>6. /\ PngBefore(f, reader.chunk, k) /\ reader.step \in 0 .. 3
      /\ p = PngAt(f, k) + 4 + reader.step /\ reader.size = Length(c)
      /\ FirstAre(reader.name, Png!Name(c), reader.step)
  BY <1>4, <1>5 DEF PngHeader
<1>7. PICK step \in 0 .. 3 : step = reader.step
  BY <1>6
<1>8. PICK a : a = PngAt(f, k)
  OBVIOUS
<1>9. a \in Nat /\ ChunkAt(b, a, c)
  BY <1>1, <1>2, <1>5, <1>8, PngChunkIs
<1>10. PICK t : t = Png!Name(c)
  OBVIOUS
<1>11. byte = t[step + 1]
  <2>1. \A m \in 1 .. 4 : b[a + 4 + m] = t[m]
    BY <1>9, <1>10 DEF ChunkAt
  <2>2. p + 1 = a + 4 + (step + 1) /\ step + 1 \in 1 .. 4
    BY <1>6, <1>7, <1>8, <1>9
  <2> QED BY <1>2, <2>1, <2>2
<1>12. PICK s : s = reader.name /\ s \in Seq(ByteValues)
  BY <1>3 DEF PngReaders
<1>13. FirstAre(Append(s, byte), t, step + 1)
  <2>1. step \in Nat /\ FirstAre(s, t, step)
    BY <1>6, <1>7, <1>10, <1>12
  <2> QED BY <1>2, <1>11, <1>12, <2>1, FirstNext
<1> QED BY <1>1, <1>5, <1>6, <1>7, <1>10, <1>12, <1>13

\* A byte of the name, the last of which decides what becomes of the body
LEMMA PngReadChunkName ==
  ASSUME PngAssumption, PngInv, Png!ReadChunkName
  PROVE  PngInv'
<1>1. Png!Left > 0 /\ reader.state = "NAME"
  BY DEF Png!ReadChunkName, Png!In
<1>2. PICK f, p, byte : f = source /\ p = readTo /\ byte = Png!Byte
  OBVIOUS
<1>3. /\ PngLaid(f) /\ p \in Nat /\ Png!Left \in Nat /\ byte \in ByteValues
  BY <1>1, <1>2, PngByteIs
<1>4. reader \in PngReaders
  BY DEF PngInv
<1>5. PICK step \in Nat : step = reader.step
  BY <1>4 DEF PngReaders
<1>6. PICK size \in Nat : size = reader.size
  BY <1>4 DEF PngReaders
<1>7. PICK next \in Nat : next = step + 1
  OBVIOUS
<1>8. PICK name : name = Append(reader.name, byte) /\ name \in Seq(ByteValues)
  <2>1. reader.name \in Seq(ByteValues)
    BY <1>4 DEF PngReaders
  <2> QED BY <1>3, <2>1, AppendProperties
<1>9. PICK s : s = [reader EXCEPT !.name = name, !.step = next]
  OBVIOUS
<1>10. /\ s \in PngReaders /\ s.chunk = reader.chunk /\ s.cut = reader.cut /\ s.state = "NAME"
       /\ s.size = size /\ s.step = next /\ s.name = name /\ s.hasIHDR \in BOOLEAN
  BY <1>1, <1>4, <1>6, <1>8, <1>9 DEF PngReaders
<1>11. PICK w : w = Png!Wanted(s)
  OBVIOUS
<1>12. w \in Png!Kinds \cup {"FINISHED", "SKIP_BYTES"}
  BY <1>11, PngWantedType
<1>13. PICK has \in BOOLEAN : has = (s.hasIHDR \/ (Png!Is(s.name, "IHDR") /\ s.size = ChunkSizes["IHDR"]))
  BY <1>10
<1>14. PICK rest \in Nat : rest = IF w = "SKIP_BYTES" THEN size + 4 ELSE size
  OBVIOUS
<1>15. PICK none \in Nat : none = 0
  OBVIOUS
<1>16. PICK t : t = [s EXCEPT !.hasIHDR = has, !.state = w, !.step = none, !.size = rest]
  OBVIOUS
<1>17. Png!Goes(IF next < 4 THEN s ELSE t, 1)
  <2>1. Png!Word = 4
    BY DEF Png!Word
  <2>2. [s EXCEPT !.hasIHDR = @ \/ (Png!Is(s.name, "IHDR") /\ s.size = ChunkSizes["IHDR"]),
                  !.state = Png!Wanted(s), !.step = 0,
                  !.size = IF Png!Wanted(s) = "SKIP_BYTES" THEN @ + 4 ELSE @] = t
    BY <1>10, <1>11, <1>13, <1>14, <1>15, <1>16
  <2>3. [reader EXCEPT !.name = Append(@, Png!Byte), !.step = @ + 1] = s
    BY <1>2, <1>5, <1>7, <1>8, <1>9
  <2> QED BY <1>10, <2>1, <2>2, <2>3 DEF Png!ReadChunkName
<1>18. 1 \in Nat /\ 1 <= Png!Left /\ reader.state # "FINISHED"
  BY <1>1, <1>3
<1>19. ASSUME ~reader.cut
       PROVE  \E k \in 1 .. Len(f) :
                /\ PngBefore(f, reader.chunk, k) /\ step \in 0 .. 3
                /\ p = PngAt(f, k) + 4 + step /\ size = Length(f[k])
                /\ FirstAre(name, Png!Name(f[k]), next)
  BY <1>1, <1>2, <1>5, <1>6, <1>7, <1>8, <1>19, PngNameByte
<1>20. CASE next < 4
  <2>1. ASSUME ~s.cut PROVE PngWhere(f, s, p + 1)
    <3>1. PICK k \in 1 .. Len(f) :
            /\ PngBefore(f, reader.chunk, k) /\ step \in 0 .. 3
            /\ p = PngAt(f, k) + 4 + step /\ size = Length(f[k])
            /\ FirstAre(name, Png!Name(f[k]), next)
      BY <1>10, <1>19, <2>1
    <3>2. PngAt(f, k) \in Nat
      BY <1>3, PngChunkIs
    <3>3. p + 1 = PngAt(f, k) + 4 + next /\ next \in 0 .. 3
      BY <1>7, <1>20, <3>1, <3>2
    <3>4. PngHeader(f, s, p + 1, k)
      BY <1>10, <3>1, <3>3 DEF PngHeader
    <3> QED BY <3>4 DEF PngWhere
  <2>2. Png!Goes(s, 1)
    BY <1>17, <1>20
  <2> QED BY <1>2, <1>10, <1>18, <2>1, <2>2, PngGoes
<1>21. CASE ~(next < 4)
  <2>1. /\ t \in PngReaders /\ t.chunk = reader.chunk /\ t.cut = reader.cut /\ t.state = w
        /\ t.size = rest /\ t.step = none /\ t.name = name
    BY <1>10, <1>12, <1>16 DEF PngReaders
  <2>2. ASSUME ~t.cut PROVE PngWhere(f, t, p + 1)
    <3>1. PICK k \in 1 .. Len(f) :
            /\ PngBefore(f, reader.chunk, k) /\ step \in 0 .. 3
            /\ p = PngAt(f, k) + 4 + step /\ size = Length(f[k])
            /\ FirstAre(name, Png!Name(f[k]), next)
      BY <1>19, <2>1, <2>2
    <3>2. PICK a, c : a = PngAt(f, k) /\ c = f[k]
      OBVIOUS
    <3>3. /\ a \in Nat /\ IsChunk(c) /\ PngAt(f, k + 1) = a + Length(c) + 12
          /\ k + 1 \in 1 .. Len(f) + 1 /\ (c.name = "IEND" => k = Len(f))
      <4>1. c.name = "IEND" => k = Len(f)
        BY <1>3, <3>2 DEF PngLaid
      <4> QED BY <1>3, <3>2, <4>1, PngChunkIs
    <3>4. step = 3 /\ next = 4
      BY <1>7, <1>21, <3>1
    <3>5. p + 1 = a + 8
      BY <3>1, <3>2, <3>3, <3>4
    <3>6. name = Png!Name(c)
      <4>1. Png!Name(c) \in [1 .. 4 -> ByteValues]
        <5>1. c \in Chunks
          BY <3>3 DEF IsChunk
        <5>2. /\ Png!Name(c) = [n \in 1 .. 4 |-> Png!NameByte[c.name]]
              /\ Png!NameByte[c.name] \in ByteValues
          BY <5>1, NameIs
        <5> QED BY <5>2
      <4> QED BY <1>8, <3>1, <3>2, <3>4, <4>1, FirstFour
    <3>7. /\ \A kind \in Png!Kinds : w = kind => s.chunk[kind] = Png!Null /\ PngMayBe(c, kind)
          /\ w = "FINISHED" => c.name = "IEND"
          /\ w = "SKIP_BYTES" => \A kind \in Png!Kinds : Png!Asked(c, kind) => s.chunk[kind] # Png!Null
      <4>1. c \in Chunks /\ s.name = Png!Name(c) /\ s.size = Length(c)
        BY <1>10, <3>1, <3>2, <3>3, <3>6 DEF IsChunk
      <4> QED BY <1>11, <4>1, PngWanted
    <3>8. CASE w \in Png!Kinds
      <4>1. PICK kind \in Png!Kinds : kind = w
        BY <3>8
      <4>2. s.chunk[kind] = Png!Null /\ PngMayBe(c, kind)
        BY <3>7, <4>1
      <4>3. PngBeforeBut(f, reader.chunk, k, kind)
        BY <1>10, <3>1, <4>2 DEF PngBefore, PngBeforeBut
      <4>4. rest = size
        BY <1>14, <4>1, PngStatesDiffer
      <4>5. PngBody(f, t, p + 1, k, kind)
        BY <1>10, <1>15, <2>1, <3>1, <3>2, <3>5, <3>6, <4>1, <4>2, <4>3, <4>4 DEF PngBody
      <4> QED BY <4>5 DEF PngWhere
    <3>9. CASE w = "SKIP_BYTES"
      <4>1. \A kind \in Png!Kinds : Png!Asked(c, kind) => reader.chunk[kind] # Png!Null
        BY <1>10, <3>7, <3>9
      <4>2. PngBefore(f, reader.chunk, k + 1)
        BY <1>3, <3>1, <3>2, <4>1, PngPassed
      <4>3. (p + 1) + rest = PngAt(f, k + 1)
        <5>1. rest = Length(c) + 4 /\ Length(c) \in Nat
          BY <1>14, <3>1, <3>2, <3>9
        <5> QED BY <3>3, <3>5, <5>1
      <4>4. PngBetween(f, t, p + 1, k + 1)
        BY <2>1, <3>9, <4>2, <4>3 DEF PngBetween
      <4> QED BY <3>3, <4>4 DEF PngWhere
    <3>10. CASE w = "FINISHED"
      <4>1. c.name = "IEND" /\ k = Len(f)
        BY <3>3, <3>7, <3>10
      <4>2. \A kind \in Png!Kinds : ~Png!Asked(c, kind)
        <5>1. "IEND" \notin Png!Kinds
          BY DEF Png!Kinds
        <5> QED BY <4>1, <5>1, AskedIs
      <4>3. PngBefore(f, reader.chunk, k + 1)
        BY <1>3, <3>1, <3>2, <4>2, PngPassed
      <4>4. PngDone(f, t, k + 1)
        BY <2>1, <3>10, <4>1, <4>3 DEF PngDone
      <4> QED BY <3>3, <4>4 DEF PngWhere
    <3> QED BY <1>12, <3>8, <3>9, <3>10
  <2>3. Png!Goes(t, 1)
    BY <1>17, <1>21
  <2> QED BY <1>2, <1>18, <2>1, <2>2, <2>3, PngGoes
<1> QED BY <1>20, <1>21

\* What is passed over ends where the next chunk begins.
LEMMA PngSkipBytes ==
  ASSUME PngAssumption, PngInv, Png!SkipBytes
  PROVE  PngInv'
<1>1. Png!Left > 0 /\ reader.state \in {"SKIP_BYTES", "SKIP_CRC"}
  BY DEF Png!SkipBytes
<1>2. PICK f, p, left : f = source /\ p = readTo /\ left = Png!Left
  OBVIOUS
<1>3. PngLaid(f) /\ p \in Nat /\ left \in Nat /\ left > 0
  BY <1>1, <1>2, PngByteIs
<1>4. reader \in PngReaders
  BY DEF PngInv
<1>5. PICK size \in Nat : size = IF reader.state = "SKIP_CRC" THEN 4 ELSE reader.size
  BY <1>4 DEF PngReaders
<1>6. reader.state # "FINISHED"
  BY <1>1
<1>7. ASSUME ~reader.cut
      PROVE  \E k \in 1 .. Len(f) + 1 : PngBefore(f, reader.chunk, k) /\ p + size = PngAt(f, k)
  <2>1. PngWhere(f, reader, p)
    BY <1>2, <1>7 DEF PngInv
  <2>2. PICK k \in 1 .. Len(f) + 1 : PngBetween(f, reader, p, k)
    BY <1>1, <2>1, PngIsWhere
  <2>3. PngBefore(f, reader.chunk, k) /\ p + size = PngAt(f, k)
    BY <1>1, <1>5, <2>2 DEF PngBetween
  <2> QED BY <2>3
<1>8. CASE size < left
  <2>1. PICK none \in Nat : none = 0
    OBVIOUS
  <2>2. PICK t : t = [reader EXCEPT !.size = none, !.read = none, !.state = "SIZE"]
    OBVIOUS
  <2>3. /\ t \in PngReaders /\ t.chunk = reader.chunk /\ t.cut = reader.cut
        /\ t.state = "SIZE" /\ t.size = none /\ t.read = none
    BY <1>4, <2>2 DEF PngReaders
  <2>4. Png!Goes(t, size)
    BY <1>2, <1>5, <1>8, <2>1, <2>2 DEF Png!SkipBytes, Png!Word
  <2>5. ASSUME ~t.cut PROVE PngWhere(f, t, p + size)
    <3>1. PICK k \in 1 .. Len(f) + 1 : PngBefore(f, reader.chunk, k) /\ p + size = PngAt(f, k)
      BY <1>7, <2>3, <2>5
    <3>2. PngBetween(f, t, p + size, k)
      BY <2>1, <2>3, <3>1 DEF PngBetween
    <3> QED BY <3>2 DEF PngWhere
  <2>6. size \in Nat /\ size <= Png!Left
    BY <1>2, <1>3, <1>8
  <2> QED BY <1>2, <1>6, <2>3, <2>4, <2>5, <2>6, PngGoes
<1>9. CASE ~(size < left)
  <2>1. PICK rest \in Nat : rest = size - left
    BY <1>3, <1>9
  <2>2. PICK cut \in BOOLEAN : cut = (reader.cut \/ reader.state = "SKIP_CRC")
    BY <1>4 DEF PngReaders
  <2>3. PICK t : t = [reader EXCEPT !.size = rest, !.cut = cut]
    OBVIOUS
  <2>4. /\ t \in PngReaders /\ t.chunk = reader.chunk /\ t.cut = cut
        /\ t.state = reader.state /\ t.size = rest
    BY <1>4, <2>3 DEF PngReaders
  <2>5. Png!Goes(t, left)
    BY <1>2, <1>5, <1>9, <2>1, <2>2, <2>3 DEF Png!SkipBytes, Png!Word
  <2>6. ASSUME ~t.cut PROVE PngWhere(f, t, p + left)
    <3>1. ~reader.cut /\ reader.state = "SKIP_BYTES"
      BY <1>1, <2>2, <2>4, <2>6
    <3>2. PICK k \in 1 .. Len(f) + 1 : PngBefore(f, reader.chunk, k) /\ p + size = PngAt(f, k)
      BY <1>7, <3>1
    <3>3. (p + left) + rest = p + size
      BY <1>3, <2>1
    <3>4. PngBetween(f, t, p + left, k)
      BY <2>4, <3>1, <3>2, <3>3 DEF PngBetween
    <3> QED BY <3>4 DEF PngWhere
  <2>7. left \in Nat /\ left <= Png!Left
    BY <1>2, <1>3
  <2> QED BY <1>2, <1>6, <2>4, <2>5, <2>6, <2>7, PngGoes
<1> QED BY <1>8, <1>9

\* The CRC is that of the bytes that have been taken.
LEMMA PngBodyIs ==
  ASSUME NEW f, PngLaid(f), NEW k \in 1 .. Len(f), NEW d, d = ChunkOf(f, k), NEW b, b = PngBytes(f)
  PROVE  [n \in 1 .. d.len |-> IF d.data[n] = 0 THEN 0 ELSE b[d.data[n]]] = Body(f[k])
<1>1. PICK a, n : a = PngAt(f, k) /\ n = Length(f[k])
  OBVIOUS
<1>2. PICK body : body = Body(f[k])
  OBVIOUS
<1>3. a \in Nat /\ n \in Nat /\ \A m \in 1 .. n : b[a + 8 + m] = body[m]
  <2>1. a \in Nat /\ n \in Nat /\ ChunkAt(b, a, f[k])
    BY <1>1, PngChunkIs
  <2> QED BY <1>1, <1>2, <2>1 DEF ChunkAt
<1>4. body = [m \in 1 .. n |-> body[m]]
  <2>1. IsChunk(f[k])
    BY PngChunkIs
  <2>2. body \in Seq(ByteValues)
    BY <1>2, <2>1 DEF IsChunk, Chunks, Body, ByteValues
  <2>3. n = Len(body)
    BY <1>1, <1>2 DEF Length, Body
  <2> QED BY <2>2, <2>3
<1>5. d.len = n /\ \A m \in 1 .. n : d.data[m] = a + 8 + m
  BY <1>1 DEF ChunkOf
<1>6. ASSUME NEW m \in 1 .. n
      PROVE  (IF d.data[m] = 0 THEN 0 ELSE b[d.data[m]]) = body[m]
  <2>1. a + 8 + m # 0
    BY <1>3
  <2> QED BY <1>3, <1>5, <2>1
<1>7. [m \in 1 .. n |-> IF d.data[m] = 0 THEN 0 ELSE b[d.data[m]]] = [m \in 1 .. n |-> body[m]]
  BY <1>6
<1> QED BY <1>2, <1>4, <1>5, <1>7

\* The next byte of the CRC of a chunk adds to what has been read of it.
LEMMA PngCrcByte ==
  ASSUME PngAssumption, PngInv, Png!Left > 0, reader.state = "CHECK_CRC", ~reader.cut,
         NEW target, target = IF reader.step = 0 THEN <<Png!Byte>> ELSE Append(reader.target, Png!Byte)
  PROVE  \E k \in 1 .. Len(source), kind \in Png!Kinds :
           /\ PngCrc(source, reader, readTo, k, kind)
           /\ FirstAre(target, CrcOf(source[k]), reader.step + 1)
<1>1. PICK b, f, p, byte : b = PngBytes(source) /\ f = source /\ p = readTo /\ byte = Png!Byte
  OBVIOUS
<1>2. /\ PngLaid(f) /\ p \in Nat /\ byte = b[p + 1] /\ byte \in ByteValues
  BY <1>1, PngByteIs
<1>3. reader \in PngReaders /\ PngWhere(f, reader, p)
  BY <1>1 DEF PngInv
<1>4. PICK k \in 1 .. Len(f), kind \in Png!Kinds : PngCrc(f, reader, p, k, kind)
  BY <1>3, PngIsWhere
<1>5. PICK c : c = f[k]
  OBVIOUS
<1>6. /\ reader.step \in 0 .. 3 /\ p = PngAt(f, k) + 8 + Length(c) + reader.step
      /\ reader.step # 0 => FirstAre(reader.target, CrcOf(c), reader.step)
  BY <1>4, <1>5 DEF PngCrc
<1>7. PICK step \in 0 .. 3 : step = reader.step
  BY <1>6
<1>8. PICK a, n : a = PngAt(f, k) /\ n = Length(c)
  OBVIOUS
<1>9. a \in Nat /\ n \in Nat /\ ChunkAt(b, a, c)
  BY <1>1, <1>2, <1>5, <1>8, PngChunkIs
<1>10. PICK t : t = CrcOf(c)
  OBVIOUS
<1>11. byte = t[step + 1]
  <2>1. \A m \in 1 .. 4 : b[a + 8 + n + m] = t[m]
    BY <1>8, <1>9, <1>10 DEF ChunkAt
  <2>2. p + 1 = a + 8 + n + (step + 1) /\ step + 1 \in 1 .. 4
    <3>1. p = a + 8 + n + step
      BY <1>6, <1>5, <1>7, <1>8
    <3>2. a \in Nat /\ n \in Nat
      BY <1>9
    <3> QED BY <3>1, <3>2
  <2> QED BY <1>2, <2>1, <2>2
<1>12. FirstAre(target, t, step + 1)
  <2>1. CASE step = 0
    <3>1. target = <<byte>>
      BY <1>1, <1>7, <2>1
    <3>2. Len(<<byte>>) = 1 /\ <<byte>>[1] = byte
      OBVIOUS
    <3>3. byte = t[1]
      BY <1>11, <2>1
    <3>4. FirstAre(<<byte>>, t, 1)
      <4>1. \A m \in 1 .. 1 : m = 1
        OBVIOUS
      <4> QED BY <3>2, <3>3, <4>1 DEF FirstAre
    <3>5. step + 1 = 1
      BY <2>1
    <3> QED BY <3>1, <3>4, <3>5
  <2>2. CASE step # 0
    <3>1. PICK s : s = reader.target /\ s \in Seq(ByteValues)
      BY <1>3 DEF PngReaders
    <3>2. target = Append(s, byte)
      BY <1>1, <1>7, <2>2, <3>1
    <3>3. step \in Nat /\ FirstAre(s, t, step)
      BY <1>6, <1>7, <1>10, <2>2, <3>1
    <3> QED BY <1>2, <1>11, <3>1, <3>2, <3>3, FirstNext
  <2> QED BY <2>1, <2>2
<1> QED BY <1>1, <1>4, <1>5, <1>7, <1>10, <1>12

Without(s, kind) == [s EXCEPT !.state = "FINISHED", !.step = 0, !.chunk[kind] = Png!Null]

\* A chunk that is dropped leaves the others as they are.
LEMMA PngWithout ==
  ASSUME NEW s \in PngReaders, NEW kind \in Png!Kinds \cup {"none"}, NEW t, t = Without(s, kind)
  PROVE  /\ t \in PngReaders /\ t.state = "FINISHED" /\ t.cut = s.cut
         /\ kind \in Png!Kinds => t.chunk[kind] = Png!Null
         /\ \A other \in Png!Kinds \ {kind} : t.chunk[other] = s.chunk[other]
<1>1. PICK chunk : chunk = [s.chunk EXCEPT ![kind] = Png!Null]
  OBVIOUS
<1>2. s.chunk \in [Png!Kinds -> PngChunks]
  BY DEF PngReaders
<1>3. Png!Null \in PngChunks
  <2>1. <<>> \in Seq(Nat)
    OBVIOUS
  <2> QED BY <2>1 DEF Png!Null, PngChunks
<1>4. /\ chunk \in [Png!Kinds -> PngChunks]
      /\ kind \in Png!Kinds => chunk[kind] = Png!Null
      /\ \A other \in Png!Kinds \ {kind} : chunk[other] = s.chunk[other]
  BY <1>1, <1>2, <1>3
<1>5. PICK none \in Nat : none = 0
  OBVIOUS
<1>6. t = [s EXCEPT !.state = "FINISHED", !.step = none, !.chunk = chunk]
  BY <1>1, <1>5 DEF Without, PngReaders
<1> QED BY <1>4, <1>6 DEF PngReaders

\* A byte of the CRC, the last of which tells whether the chunk is to be trusted
LEMMA PngCheckCrc ==
  ASSUME PngAssumption, PngInv, Png!CheckCrc
  PROVE  PngInv'
<1>1. Png!Left > 0 /\ reader.state = "CHECK_CRC"
  BY DEF Png!CheckCrc, Png!In
<1>2. PICK b, f, p, byte : b = PngBytes(source) /\ f = source /\ p = readTo /\ byte = Png!Byte
  OBVIOUS
<1>3. /\ PngLaid(f) /\ p \in Nat /\ Png!Left \in Nat /\ byte \in ByteValues /\ Png!Bytes = b
  BY <1>1, <1>2, PngByteIs
<1>4. reader \in PngReaders
  BY DEF PngInv
<1>5. PICK step \in Nat : step = reader.step
  BY <1>4 DEF PngReaders
<1>6. PICK next \in Nat : next = step + 1
  OBVIOUS
<1>7. PICK target : target = IF reader.step = 0 THEN <<byte>> ELSE Append(reader.target, byte)
  OBVIOUS
<1>8. target \in Seq(ByteValues)
  <2>1. reader.target \in Seq(ByteValues)
    BY <1>4 DEF PngReaders
  <2>2. <<byte>> \in Seq(ByteValues)
    BY <1>3
  <2> QED BY <1>3, <1>7, <2>1, <2>2, AppendProperties
<1>9. PICK s : s = [reader EXCEPT !.target = target, !.step = next]
  OBVIOUS
<1>10. /\ s \in PngReaders /\ s.chunk = reader.chunk /\ s.cut = reader.cut /\ s.state = "CHECK_CRC"
       /\ s.size = reader.size /\ s.step = next /\ s.name = reader.name /\ s.target = target
       /\ s.crcFor = reader.crcFor /\ s.crcFor \in Png!Kinds \cup {"none"}
  BY <1>1, <1>4, <1>8, <1>9 DEF PngReaders
<1>11. PICK body : body = [n \in 1 .. reader.chunk[reader.crcFor].len |->
                             IF reader.chunk[reader.crcFor].data[n] = 0 THEN 0
                             ELSE b[reader.chunk[reader.crcFor].data[n]]]
  OBVIOUS
<1>12. PICK none \in Nat : none = 0
  OBVIOUS
<1>13. PICK t : t = [s EXCEPT !.state = "SIZE", !.step = none, !.read = none]
  OBVIOUS
<1>14. PICK u : u = Without(s, reader.crcFor)
  OBVIOUS
<1>15. Png!Goes(IF next < 4 THEN s
                ELSE IF target = Checksum(reader.name, body) THEN t ELSE u, 1)
  <2>1. Png!Word = 4
    BY DEF Png!Word
  <2>2. s = [reader EXCEPT !.target = IF reader.step = 0 THEN <<Png!Byte>> ELSE Append(@, Png!Byte),
                           !.step = @ + 1]
    BY <1>2, <1>4, <1>5, <1>6, <1>7, <1>9 DEF PngReaders
  <2>3. u = [s EXCEPT !.state = "FINISHED", !.step = 0, !.chunk[reader.crcFor] = Png!Null]
    BY <1>14 DEF Without
  <2>4. t = [s EXCEPT !.state = "SIZE", !.step = 0, !.read = 0]
    BY <1>12, <1>13
  <2>5. body = [n \in 1 .. reader.chunk[reader.crcFor].len |->
                  IF reader.chunk[reader.crcFor].data[n] = 0 THEN 0
                  ELSE Png!Bytes[reader.chunk[reader.crcFor].data[n]]]
    BY <1>3, <1>11
  <2> QED BY <1>10, <2>1, <2>2, <2>3, <2>4, <2>5, Zenon DEF Png!CheckCrc
<1>16. 1 \in Nat /\ 1 <= Png!Left /\ reader.state # "FINISHED"
  BY <1>1, <1>3
<1>17. ASSUME ~reader.cut
       PROVE  \E k \in 1 .. Len(f), kind \in Png!Kinds :
                PngCrc(f, reader, p, k, kind) /\ FirstAre(target, CrcOf(f[k]), next)
  BY <1>1, <1>2, <1>5, <1>6, <1>7, <1>17, PngCrcByte
<1>18. ASSUME NEW k \in 1 .. Len(f), NEW kind \in Png!Kinds, PngCrc(f, reader, p, k, kind)
       PROVE  /\ PngAt(f, k) \in Nat /\ Length(f[k]) \in Nat /\ IsChunk(f[k])
              /\ PngAt(f, k + 1) = PngAt(f, k) + Length(f[k]) + 12 /\ k + 1 \in 1 .. Len(f) + 1
              /\ k \in 1 .. Len(f) + 1
              /\ Png!Asked(f[k], kind) /\ PngBeforeBut(f, reader.chunk, k, kind)
              /\ reader.name = Png!Name(f[k]) /\ reader.size = 0
              /\ reader.chunk[kind] = ChunkOf(f, k) /\ reader.crcFor = kind
              /\ step \in 0 .. 3 /\ p = PngAt(f, k) + 8 + Length(f[k]) + step
  BY <1>3, <1>5, <1>18, PngChunkIs DEF PngCrc
<1>19. CASE next < 4
  <2>1. ASSUME ~s.cut PROVE PngWhere(f, s, p + 1)
    <3>1. PICK k \in 1 .. Len(f), kind \in Png!Kinds :
            PngCrc(f, reader, p, k, kind) /\ FirstAre(target, CrcOf(f[k]), next)
      BY <1>10, <1>17, <2>1
    <3>2. PICK a, n : a = PngAt(f, k) /\ n = Length(f[k])
      OBVIOUS
    <3>3. a \in Nat /\ n \in Nat /\ p = a + 8 + n + step /\ step \in 0 .. 3
      BY <1>18, <3>1, <3>2
    <3>4. p + 1 = a + 8 + n + next /\ next \in 0 .. 3
      BY <1>6, <1>19, <3>3
    <3>5. PngCrc(f, s, p + 1, k, kind)
      <4>1. s.step = 0 \/ FirstAre(s.target, CrcOf(f[k]), s.step)
        BY <1>10, <3>1
      <4> QED BY <1>10, <1>18, <3>1, <3>2, <3>4, <4>1 DEF PngCrc
    <3> QED BY <3>5 DEF PngWhere
  <2>2. Png!Goes(s, 1)
    BY <1>15, <1>19
  <2> QED BY <1>2, <1>10, <1>16, <2>1, <2>2, PngGoes
<1>20. ASSUME NEW k \in 1 .. Len(f), NEW kind \in Png!Kinds, PngCrc(f, reader, p, k, kind),
              FirstAre(target, CrcOf(f[k]), next), ~(next < 4)
       PROVE  /\ p + 1 = PngAt(f, k + 1)
              /\ target = Checksum(reader.name, body) <=> f[k].good
  <2>1. PICK a, n, c : a = PngAt(f, k) /\ n = Length(f[k]) /\ c = f[k]
    OBVIOUS
  <2>2. step \in 0 .. 3 /\ p = a + 8 + n + step /\ a \in Nat /\ n \in Nat
        /\ PngAt(f, k + 1) = a + n + 12
    BY <1>18, <1>20, <2>1
  <2>3. step = 3 /\ next = 4
    BY <1>6, <1>20, <2>2
  <2>4. p + 1 = PngAt(f, k + 1)
    BY <2>2, <2>3
  <2>5. body = Body(c)
    <3>1. PICK d : d = ChunkOf(f, k)
      OBVIOUS
    <3>2. body = [n_1 \in 1 .. d.len |-> IF d.data[n_1] = 0 THEN 0 ELSE b[d.data[n_1]]]
      BY <1>11, <1>18, <1>20, <3>1
    <3>3. [n_1 \in 1 .. d.len |-> IF d.data[n_1] = 0 THEN 0 ELSE b[d.data[n_1]]] = Body(f[k])
      BY <1>2, <1>3, <3>1, PngBodyIs
    <3> QED BY <2>1, <3>2, <3>3
  <2>6. PICK crc : crc = Checksum(Png!Name(c), Body(c))
    OBVIOUS
  <2>7. IsChunk(c) /\ reader.name = Png!Name(c)
    BY <1>18, <1>20, <2>1
  <2>8. /\ CrcOf(c) \in [1 .. 4 -> ByteValues] /\ (c.good <=> CrcOf(c) = crc)
    BY <2>6, <2>7, CrcIs
  <2>9. target = CrcOf(c)
    <3>1. FirstAre(target, CrcOf(c), 4)
      BY <1>20, <2>1, <2>3
    <3> QED BY <1>8, <2>8, <3>1, FirstFour
  <2> QED BY <2>1, <2>4, <2>5, <2>6, <2>7, <2>8, <2>9
<1>21. CASE ~(next < 4) /\ target = Checksum(reader.name, body)
  <2>1. /\ t \in PngReaders /\ t.chunk = reader.chunk /\ t.cut = reader.cut /\ t.state = "SIZE"
        /\ t.size = reader.size /\ t.read = none
    BY <1>10, <1>13 DEF PngReaders
  <2>2. ASSUME ~t.cut PROVE PngWhere(f, t, p + 1)
    <3>1. PICK k \in 1 .. Len(f), kind \in Png!Kinds :
            PngCrc(f, reader, p, k, kind) /\ FirstAre(target, CrcOf(f[k]), next)
      BY <1>17, <2>1, <2>2
    <3>2. p + 1 = PngAt(f, k + 1) /\ f[k].good
      BY <1>20, <1>21, <3>1
    <3>3. PngBefore(f, reader.chunk, k + 1)
      <4>1. /\ PngBeforeBut(f, reader.chunk, k, kind) /\ Png!Asked(f[k], kind)
            /\ reader.chunk[kind] = ChunkOf(f, k)
        BY <1>18, <3>1
      <4>2. f[k].name = kind
        BY <4>1, AskedIs
      <4> QED BY <1>3, <3>2, <4>1, <4>2, PngBodyRead
    <3>4. PngBetween(f, t, p + 1, k + 1)
      BY <1>12, <1>18, <2>1, <3>1, <3>2, <3>3 DEF PngBetween
    <3> QED BY <1>18, <3>1, <3>4 DEF PngWhere
  <2>3. Png!Goes(t, 1)
    BY <1>15, <1>21
  <2> QED BY <1>2, <1>16, <2>1, <2>2, <2>3, PngGoes
<1>22. CASE ~(next < 4) /\ target # Checksum(reader.name, body)
  <2>1. PICK crcFor \in Png!Kinds \cup {"none"} : crcFor = reader.crcFor
    BY <1>10
  <2>2. /\ u \in PngReaders /\ u.cut = reader.cut /\ u.state = "FINISHED"
        /\ crcFor \in Png!Kinds => u.chunk[crcFor] = Png!Null
        /\ \A other \in Png!Kinds \ {crcFor} : u.chunk[other] = s.chunk[other]
    BY <1>10, <1>14, <2>1, PngWithout
  <2>3. ASSUME ~u.cut PROVE PngWhere(f, u, p + 1)
    <3>1. PICK k \in 1 .. Len(f), kind \in Png!Kinds :
            PngCrc(f, reader, p, k, kind) /\ FirstAre(target, CrcOf(f[k]), next)
      BY <1>17, <2>2, <2>3
    <3>2. ~f[k].good
      BY <1>20, <1>22, <3>1
    <3>3. crcFor = kind /\ PngBeforeBut(f, reader.chunk, k, kind) /\ Png!Asked(f[k], kind)
      BY <1>18, <2>1, <3>1
    <3>4. PngBefore(f, u.chunk, k)
      BY <1>10, <2>2, <3>3 DEF PngBefore, PngBeforeBut
    <3>5. PngBad(f, k)
      <4>1. PngIndex(f, kind) = k
        BY <1>3, <3>3, PngFoundNext DEF PngBeforeBut
      <4> QED BY <3>2, <4>1 DEF PngBad
    <3>6. PngDone(f, u, k)
      BY <2>2, <3>4, <3>5 DEF PngDone
    <3> QED BY <1>18, <3>1, <3>6 DEF PngWhere
  <2>4. Png!Goes(u, 1)
    BY <1>15, <1>22
  <2> QED BY <1>2, <1>16, <2>2, <2>3, <2>4, PngGoes
<1> QED BY <1>19, <1>21, <1>22

\* What a buffer adds to the part that has been read is the part that follows.
LEMMA PngTookPart ==
  ASSUME NEW f, PngLaid(f), NEW k \in 1 .. Len(f), NEW read \in Nat, NEW n \in Nat,
         read + n <= Length(f[k]), NEW p, p = PngAt(f, k) + 8 + read
  PROVE  Took(ChunkPart(f, k, read).data, read, n, p) = ChunkPart(f, k, read + n).data
<1>1. PICK at, size : at = PngAt(f, k) /\ size = Length(f[k])
  OBVIOUS
<1>2. at \in Nat /\ size \in Nat
  BY <1>1, PngChunkIs
<1>3. PICK d : d = [m \in 1 .. size |-> IF m <= read THEN at + 8 + m ELSE 0]
  OBVIOUS
<1>4. DOMAIN d = 1 .. size
  BY <1>3
<1>5. ASSUME NEW m \in 1 .. size
      PROVE  (IF m \in (read + 1) .. (read + n) THEN p + m - read ELSE d[m])
               = IF m <= read + n THEN at + 8 + m ELSE 0
  <2>1. p = at + 8 + read
    BY <1>1
  <2>2. PICK x : x = d[m] /\ x = IF m <= read THEN at + 8 + m ELSE 0
    BY <1>3
  <2>3. (IF m \in (read + 1) .. (read + n) THEN p + m - read ELSE x)
          = IF m <= read + n THEN at + 8 + m ELSE 0
    BY <1>2, <2>1, <2>2
  <2> QED BY <2>2, <2>3
<1>6. Took(d, read, n, p) = [m \in 1 .. size |-> IF m <= read + n THEN at + 8 + m ELSE 0]
  BY <1>4, <1>5 DEF Took
<1> QED BY <1>1, <1>3, <1>6 DEF ChunkPart

\* What get_next_block leaves
LEMMA PngBlock ==
  ASSUME PngAssumption, PngInv, Png!Left > 0, NEW s, s \in PngReaders, NEW kind \in Png!Kinds,
         NEW state \in Png!Kinds, NEW t, t = Png!NextBlock(s, kind, state),
         NEW n, n = Png!Lower(s.size, Png!Left)
  PROVE  /\ n \in Nat /\ n <= Png!Left /\ n <= s.size
         /\ t \in PngReaders /\ t.cut = s.cut /\ t.step = s.step /\ t.name = s.name
         /\ t.crcFor = s.crcFor
         /\ \A other \in Png!Kinds \ {kind} : t.chunk[other] = s.chunk[other]
         /\ t.chunk[kind] = [len |-> s.chunk[kind].len,
                             data |-> Took(s.chunk[kind].data, s.read, n, readTo)]
         /\ IF s.size < Png!Left THEN t.state = "CHECK_CRC" /\ t.size = 0 /\ n = s.size
            ELSE t.state = state /\ t.read = s.read + n /\ t.size = s.size - n
<1>1. PICK size, read, left : size = s.size /\ read = s.read /\ left = Png!Left
  OBVIOUS
<1>2. size \in Nat /\ read \in Nat /\ left \in Nat /\ readTo \in Nat
  BY <1>1, PngByteIs DEF PngReaders
<1>3. n = (IF size < left THEN size ELSE left) /\ n \in Nat /\ n <= left /\ n <= size
      /\ size - n \in Nat
  BY <1>1, <1>2 DEF Png!Lower
<1>4. PICK c : c = s.chunk /\ c \in [Png!Kinds -> PngChunks]
  BY DEF PngReaders
<1>5. c[kind] \in PngChunks
  BY <1>4
<1>6. PICK took : took = Took(c[kind].data, read, n, readTo) /\ took \in Seq(Nat)
  <2>1. c[kind].data \in Seq(Nat)
    BY <1>5 DEF PngChunks
  <2> QED BY <1>2, <1>3, <2>1, TookType
<1>7. PICK x : x = [c[kind] EXCEPT !.data = took]
  OBVIOUS
<1>8. x \in PngChunks /\ x = [len |-> c[kind].len, data |-> took]
  BY <1>5, <1>6, <1>7 DEF PngChunks
<1>9. PICK d : d = [c EXCEPT ![kind] = x]
  OBVIOUS
<1>10. d \in [Png!Kinds -> PngChunks] /\ d[kind] = x
       /\ \A other \in Png!Kinds \ {kind} : d[other] = c[other]
  BY <1>4, <1>8, <1>9
<1>11. PICK none \in Nat : none = 0
  OBVIOUS
<1>12. PICK w : w = [s EXCEPT !.chunk = d]
  OBVIOUS
<1>13. PICK u, v : u = [w EXCEPT !.size = none, !.state = "CHECK_CRC"]
                   /\ v = [w EXCEPT !.size = size - n, !.read = read + n, !.state = state]
  OBVIOUS
<1>14. w \in PngReaders /\ w.size = size /\ w.read = read
  BY <1>1, <1>10, <1>12 DEF PngReaders
<1>15. t = IF size < left THEN u ELSE v
  <2>1. [s EXCEPT !.chunk[kind].data = took] = w
    BY <1>4, <1>7, <1>9, <1>12 DEF PngReaders
  <2>2. took = [k \in DOMAIN s.chunk[kind].data |->
                  IF k \in (s.read + 1) .. (s.read + n) THEN readTo + k - s.read
                  ELSE s.chunk[kind].data[k]]
    BY <1>1, <1>4, <1>6 DEF Took
  <2>3. t = IF s.size < left THEN [w EXCEPT !.size = 0, !.state = "CHECK_CRC"]
            ELSE [w EXCEPT !.size = @ - n, !.read = @ + n, !.state = state]
    BY <1>1, <2>1, <2>2, Zenon DEF Png!NextBlock
  <2>4. [w EXCEPT !.size = 0, !.state = "CHECK_CRC"] = u
    BY <1>11, <1>13
  <2>5. [w EXCEPT !.size = @ - n, !.read = @ + n, !.state = state] = v
    BY <1>13, <1>14 DEF PngReaders
  <2> QED BY <1>1, <2>3, <2>4, <2>5
<1>16. /\ u \in PngReaders /\ u.cut = s.cut /\ u.step = s.step /\ u.name = s.name
       /\ u.crcFor = s.crcFor /\ u.chunk = d /\ u.state = "CHECK_CRC" /\ u.size = 0
  BY <1>10, <1>11, <1>12, <1>13 DEF PngReaders
<1>17. /\ v \in PngReaders /\ v.cut = s.cut /\ v.step = s.step /\ v.name = s.name
       /\ v.crcFor = s.crcFor /\ v.chunk = d /\ v.state = state /\ v.read = read + n
       /\ v.size = size - n
  <2>1. read + n \in Nat
    BY <1>2, <1>3
  <2>2. PICK more, rest : more = read + n /\ rest = size - n /\ more \in Nat /\ rest \in Nat
    BY <1>3, <2>1
  <2>3. v = [w EXCEPT !.size = rest, !.read = more, !.state = state]
    BY <1>13, <2>2
  <2> QED BY <1>10, <1>12, <2>2, <2>3 DEF PngReaders
<1>18. /\ t \in PngReaders /\ t.cut = s.cut /\ t.step = s.step /\ t.name = s.name
       /\ t.crcFor = s.crcFor /\ t.chunk = d
  BY <1>15, <1>16, <1>17
<1>19. IF size < left THEN t.state = "CHECK_CRC" /\ t.size = 0 /\ n = size
       ELSE t.state = state /\ t.read = read + n /\ t.size = size - n
  BY <1>3, <1>15, <1>16, <1>17
<1> QED BY <1>1, <1>3, <1>4, <1>6, <1>8, <1>10, <1>18, <1>19

\* A chunk is allocated, with its size, when nothing of its kind has been taken.
LEMMA PngAllocated ==
  ASSUME NEW r, r \in PngReaders, NEW kind \in Png!Kinds, NEW s, s = Png!Allocated(r, kind)
  PROVE  /\ s \in PngReaders /\ s.size = r.size /\ s.state = r.state /\ s.cut = r.cut
         /\ s.step = r.step /\ s.name = r.name
         /\ \A other \in Png!Kinds \ {kind} : s.chunk[other] = r.chunk[other]
         /\ r.chunk[kind] # Png!Null => s = r
         /\ r.chunk[kind] = Png!Null =>
              s.read = 0 /\ s.crcFor = kind /\ s.chunk[kind] = Zeros(r.size)
<1>1. PICK size : size = r.size /\ size \in Nat
  BY DEF PngReaders
<1>2. PICK x : x = Zeros(size)
  OBVIOUS
<1>3. x \in PngChunks
  BY <1>1, <1>2 DEF PngChunks, Zeros
<1>4. PICK c : c = r.chunk /\ c \in [Png!Kinds -> PngChunks]
  BY DEF PngReaders
<1>5. PICK d : d = [c EXCEPT ![kind] = x]
  OBVIOUS
<1>6. d \in [Png!Kinds -> PngChunks] /\ d[kind] = x
      /\ \A other \in Png!Kinds \ {kind} : d[other] = c[other]
  BY <1>3, <1>4, <1>5
<1>7. CASE c[kind] # Png!Null
  BY <1>4, <1>7 DEF Png!Allocated
<1>8. CASE c[kind] = Png!Null
  <2>1. PICK none \in Nat : none = 0 /\ s = [r EXCEPT !.chunk = d, !.crcFor = kind, !.read = none]
    BY <1>1, <1>2, <1>4, <1>5, <1>8 DEF Png!Allocated, Zeros
  <2>2. /\ s \in PngReaders /\ s.size = r.size /\ s.read = none /\ s.state = r.state
        /\ s.cut = r.cut /\ s.step = r.step /\ s.name = r.name /\ s.chunk = d /\ s.crcFor = kind
    BY <1>6, <2>1 DEF PngReaders
  <2> QED BY <1>1, <1>2, <1>4, <1>6, <1>8, <2>1, <2>2
<1> QED BY <1>7, <1>8

\* A round that reads something of a chunk
LEMMA PngBlockWhere ==
  ASSUME PngAssumption, PngInv, Png!Left > 0, NEW kind \in Png!Kinds, NEW state \in Png!Kinds,
         NEW k \in 1 .. Len(source), PngBody(source, reader, readTo, k, kind),
         NEW s, s = Png!Allocated(reader, kind), NEW t, t = Png!NextBlock(s, kind, state),
         NEW n, n = Png!Lower(s.size, Png!Left)
  PROVE  /\ t.state \in {"CHECK_CRC", state}
         /\ t.state = state /\ state = kind => PngBody(source, t, readTo + n, k, kind)
         /\ t.state = "CHECK_CRC" =>
              /\ t.chunk[kind] = ChunkOf(source, k) /\ PngBeforeBut(source, t.chunk, k, kind)
              /\ readTo + n = PngAt(source, k) + 8 + Length(source[k])
              /\ t.size = 0 /\ t.step = 0 /\ t.name = Png!Name(source[k]) /\ t.crcFor = kind
<1>1. PICK f, p : f = source /\ p = readTo
  OBVIOUS
<1>2. PngLaid(f) /\ reader \in PngReaders
  BY <1>1, PngByteIs DEF PngInv
<1>3. /\ s \in PngReaders /\ s.size = reader.size
      /\ s.step = reader.step /\ s.name = reader.name
      /\ \A other \in Png!Kinds \ {kind} : s.chunk[other] = reader.chunk[other]
      /\ reader.chunk[kind] # Png!Null => s = reader
      /\ reader.chunk[kind] = Png!Null =>
           s.read = 0 /\ s.crcFor = kind /\ s.chunk[kind] = Zeros(reader.size)
  BY <1>2, PngAllocated
<1>4. PICK at, long, size, read : at = PngAt(f, k) /\ long = Length(f[k]) /\ size = s.size /\ read = s.read
  OBVIOUS
<1>5. at \in Nat /\ long \in Nat /\ size \in Nat /\ read \in Nat
  BY <1>1, <1>2, <1>3, <1>4, PngChunkIs DEF PngReaders
<1>6. /\ PngMayBe(f[k], kind) /\ PngBeforeBut(f, reader.chunk, k, kind)
      /\ reader.step = 0 /\ reader.name = Png!Name(f[k])
      /\ \/ reader.chunk[kind] = Png!Null /\ p = at + 8 /\ reader.size = long
         \/ /\ reader.chunk[kind] = ChunkPart(f, k, reader.read) /\ p = at + 8 + reader.read
            /\ reader.read + reader.size = long /\ reader.crcFor = kind
  BY <1>1, <1>4 DEF PngBody
<1>7. s.chunk[kind] = ChunkPart(f, k, read) /\ p = at + 8 + read /\ read + size = long
      /\ s.crcFor = kind
  <2>1. CASE reader.chunk[kind] = Png!Null
    <3>1. p = at + 8 /\ reader.size = long
      <4>1. reader.chunk[kind] # ChunkPart(f, k, reader.read)
        BY <1>1, <1>2, <2>1, ChunkOfIs
      <4> QED BY <1>6, <4>1
    <3>2. read = 0 /\ s.crcFor = kind /\ s.chunk[kind] = Zeros(long) /\ size = long
      BY <1>3, <1>4, <2>1, <3>1
    <3>3. s.chunk[kind] = ChunkPart(f, k, 0)
      BY <1>1, <1>2, <1>4, <3>2, ChunkOfIs
    <3>4. p = at + 8 + 0 /\ 0 + long = long
      BY <1>5, <3>1
    <3> QED BY <3>2, <3>3, <3>4
  <2>2. CASE reader.chunk[kind] # Png!Null
    <3>1. s = reader
      BY <1>3, <2>2
    <3> QED BY <1>4, <1>6, <2>2, <3>1
  <2> QED BY <2>1, <2>2
<1>8. /\ n \in Nat /\ n <= Png!Left /\ n <= s.size
      /\ t \in PngReaders /\ t.cut = s.cut /\ t.step = s.step /\ t.name = s.name
      /\ t.crcFor = s.crcFor
      /\ \A other \in Png!Kinds \ {kind} : t.chunk[other] = s.chunk[other]
      /\ t.chunk[kind] = [len |-> s.chunk[kind].len,
                          data |-> Took(s.chunk[kind].data, s.read, n, readTo)]
      /\ IF s.size < Png!Left THEN t.state = "CHECK_CRC" /\ t.size = 0 /\ n = s.size
         ELSE t.state = state /\ t.read = s.read + n /\ t.size = s.size - n
  BY <1>3, PngBlock
<1>9. n \in Nat /\ n <= size
  BY <1>4, <1>8
<1>10. t.chunk[kind] = ChunkPart(f, k, read + n)
  <2>1. read + n <= long
    BY <1>5, <1>7, <1>9
  <2>2. Took(ChunkPart(f, k, read).data, read, n, p) = ChunkPart(f, k, read + n).data
    <3>1. /\ PngLaid(f) /\ k \in 1 .. Len(f) /\ read \in Nat /\ n \in Nat
          /\ read + n <= Length(f[k]) /\ p = PngAt(f, k) + 8 + read
      BY <1>1, <1>2, <1>4, <1>5, <1>7, <1>9, <2>1
    <3> QED BY <3>1, PngTookPart
  <2>3. ChunkPart(f, k, read).len = long /\ ChunkPart(f, k, read + n).len = long
    BY <1>4 DEF ChunkPart
  <2>4. ChunkPart(f, k, read + n) = [len |-> long, data |-> ChunkPart(f, k, read + n).data]
    BY <1>4 DEF ChunkPart
  <2> QED BY <1>1, <1>4, <1>7, <1>8, <2>2, <2>3, <2>4
<1>11. PngBeforeBut(f, t.chunk, k, kind)
  BY <1>3, <1>6, <1>8 DEF PngBeforeBut
<1>12. t.step = 0 /\ t.name = Png!Name(f[k]) /\ t.crcFor = kind
  BY <1>3, <1>6, <1>7, <1>8
<1>13. ASSUME t.state = state, state = kind PROVE PngBody(f, t, p + n, k, kind)
  <2>1. t.read = read + n /\ t.size = size - n
    BY <1>4, <1>8, <1>13, PngStatesDiffer
  <2>2. p + n = at + 8 + (read + n) /\ (read + n) + (size - n) = long
    BY <1>5, <1>7, <1>9
  <2> QED BY <1>4, <1>6, <1>10, <1>11, <1>12, <1>13, <2>1, <2>2 DEF PngBody
<1>14. ASSUME t.state = "CHECK_CRC"
       PROVE  t.chunk[kind] = ChunkOf(f, k) /\ p + n = at + 8 + long /\ t.size = 0
  <2>1. n = size /\ t.size = 0
    BY <1>4, <1>8, <1>14, PngStatesDiffer
  <2>2. read + n = long /\ p + n = at + 8 + long
    BY <1>5, <1>7, <2>1
  <2> QED BY <1>1, <1>2, <1>4, <1>10, <2>1, <2>2, ChunkOfIs
<1> QED BY <1>1, <1>4, <1>8, <1>11, <1>12, <1>13, <1>14

\* A complete chunk is that of the file.
LEMMA PngContentIs ==
  ASSUME NEW f, PngLaid(f), NEW k \in 1 .. Len(f), NEW data, data = ChunkOf(f, k).data,
         NEW b, b = PngBytes(f)
  PROVE  [m \in DOMAIN data |-> b[data[m]]] = Body(f[k])
<1>1. PICK a, n : a = PngAt(f, k) /\ n = Length(f[k])
  OBVIOUS
<1>2. PICK body : body = Body(f[k])
  OBVIOUS
<1>3. a \in Nat /\ n \in Nat /\ \A m \in 1 .. n : b[a + 8 + m] = body[m]
  <2>1. a \in Nat /\ n \in Nat /\ ChunkAt(b, a, f[k])
    BY <1>1, PngChunkIs
  <2> QED BY <1>1, <1>2, <2>1 DEF ChunkAt
<1>4. body = [m \in 1 .. n |-> body[m]]
  <2>1. IsChunk(f[k])
    BY PngChunkIs
  <2>2. body \in Seq(ByteValues)
    BY <1>2, <2>1 DEF IsChunk, Chunks, Body, ByteValues
  <2>3. n = Len(body)
    BY <1>1, <1>2 DEF Length, Body
  <2> QED BY <2>2, <2>3
<1>5. DOMAIN data = 1 .. n /\ \A m \in 1 .. n : data[m] = a + 8 + m
  BY <1>1 DEF ChunkOf
<1>6. \A m \in 1 .. n : b[data[m]] = body[m]
  BY <1>3, <1>5
<1> QED BY <1>2, <1>4, <1>5, <1>6

\* A chunk that is complete is to be checked.
LEMMA PngComplete ==
  ASSUME NEW f, PngLaid(f), NEW k \in 1 .. Len(f), NEW kind \in Png!Kinds, NEW t,
         Png!Asked(f[k], kind), PngBeforeBut(f, t.chunk, k, kind), t.state = "CHECK_CRC",
         t.chunk[kind] = ChunkOf(f, k), t.name = Png!Name(f[k]), t.size = 0, t.step = 0,
         t.crcFor = kind, NEW p, p = PngAt(f, k) + 8 + Length(f[k])
  PROVE  PngCrc(f, t, p, k, kind)
<1>1. PngAt(f, k) \in Nat /\ Length(f[k]) \in Nat
  BY PngChunkIs
<1>2. p = PngAt(f, k) + 8 + Length(f[k]) + 0 /\ 0 \in 0 .. 3
  BY <1>1
<1> QED BY <1>2 DEF PngCrc

\* More of a chunk about colours
LEMMA PngReadColours ==
  ASSUME PngAssumption, PngInv, NEW kind \in Png!Kinds \ {"iTXt"}, Png!ReadColours(kind)
  PROVE  PngInv'
<1>1. Png!Left > 0 /\ reader.state = kind
  BY DEF Png!ReadColours, Png!In
<1>2. PICK f, p : f = source /\ p = readTo
  OBVIOUS
<1>3. PngLaid(f) /\ reader \in PngReaders
  BY <1>1, <1>2, PngByteIs DEF PngInv
<1>4. PICK profile \in BOOLEAN : profile = (kind \in {"cHRM", "gAMA"})
  <2>1. (kind \in {"cHRM", "gAMA"}) \in BOOLEAN
    OBVIOUS
  <2> QED BY <2>1, Zenon
<1>5. PICK state \in Png!Kinds : state = IF profile THEN "iCCP" ELSE kind
  BY DEF Png!Kinds
<1>6. PICK s : s = Png!Allocated(reader, kind)
  OBVIOUS
<1>7. PICK t : t = Png!NextBlock(s, kind, state)
  OBVIOUS
<1>8. PICK n : n = Png!Lower(s.size, Png!Left)
  OBVIOUS
<1>9. /\ s \in PngReaders /\ s.size = reader.size /\ s.state = reader.state /\ s.cut = reader.cut
      /\ s.step = reader.step /\ s.name = reader.name
      /\ \A other \in Png!Kinds \ {kind} : s.chunk[other] = reader.chunk[other]
      /\ reader.chunk[kind] # Png!Null => s = reader
      /\ reader.chunk[kind] = Png!Null =>
           s.read = 0 /\ s.crcFor = kind /\ s.chunk[kind] = Zeros(reader.size)
  BY <1>3, <1>6, PngAllocated
<1>10. s \in PngReaders /\ s.cut = reader.cut
  BY <1>9
<1>11. /\ n \in Nat /\ n <= Png!Left /\ n <= s.size
       /\ t \in PngReaders /\ t.cut = s.cut /\ t.step = s.step /\ t.name = s.name
       /\ t.crcFor = s.crcFor
       /\ \A other \in Png!Kinds \ {kind} : t.chunk[other] = s.chunk[other]
       /\ t.chunk[kind] = [len |-> s.chunk[kind].len,
                           data |-> Took(s.chunk[kind].data, s.read, n, readTo)]
       /\ IF s.size < Png!Left THEN t.state = "CHECK_CRC" /\ t.size = 0 /\ n = s.size
          ELSE t.state = state /\ t.read = s.read + n /\ t.size = s.size - n
  BY <1>1, <1>7, <1>8, <1>10, PngBlock
<1>12. n \in Nat /\ n <= Png!Left /\ t \in PngReaders /\ t.cut = reader.cut
  BY <1>10, <1>11
<1>13. PICK cut \in BOOLEAN : cut = (reader.cut \/ (profile /\ t.state = "iCCP"))
  BY <1>3 DEF PngReaders
<1>14. PICK u : u = [t EXCEPT !.cut = cut]
  OBVIOUS
<1>15. /\ u \in PngReaders /\ u.cut = cut /\ u.state = t.state /\ u.chunk = t.chunk
       /\ u.step = t.step /\ u.name = t.name /\ u.size = t.size /\ u.read = t.read
       /\ u.crcFor = t.crcFor
  BY <1>12, <1>14 DEF PngReaders
<1>16. Png!Goes(u, n)
  <2>1. u = [t EXCEPT !.cut = @ \/ (profile /\ t.state = "iCCP")]
    BY <1>12, <1>13, <1>14
  <2> QED BY <1>4, <1>5, <1>6, <1>7, <1>8, <2>1 DEF Png!ReadColours
<1>17. ASSUME ~u.cut PROVE PngWhere(f, u, p + n)
  <2>1. ~reader.cut /\ ~(profile /\ t.state = "iCCP")
    BY <1>13, <1>15, <1>17
  <2>2. PICK k \in 1 .. Len(f) : PngBody(f, reader, p, k, kind)
    BY <1>1, <1>2, <2>1, PngIsWhere DEF PngInv
  <2>3. /\ t.state \in {"CHECK_CRC", state}
        /\ t.state = state /\ state = kind => PngBody(f, t, p + n, k, kind)
        /\ t.state = "CHECK_CRC" =>
             /\ t.chunk[kind] = ChunkOf(f, k) /\ PngBeforeBut(f, t.chunk, k, kind)
             /\ p + n = PngAt(f, k) + 8 + Length(f[k])
             /\ t.size = 0 /\ t.step = 0 /\ t.name = Png!Name(f[k]) /\ t.crcFor = kind
    BY <1>1, <1>2, <1>6, <1>7, <1>8, <2>2, PngBlockWhere
  <2>4. CASE t.state = "CHECK_CRC"
    <3>1. Png!Asked(f[k], kind)
      BY <2>2 DEF PngBody, PngMayBe
    <3>2. PngCrc(f, t, p + n, k, kind)
      BY <1>3, <2>3, <2>4, <3>1, PngComplete
    <3>3. PngCrc(f, u, p + n, k, kind)
      BY <1>15, <2>4, <3>2, <2>3 DEF PngCrc
    <3> QED BY <3>3 DEF PngWhere
  <2>5. CASE t.state # "CHECK_CRC"
    <3>1. t.state = state /\ state = kind
      BY <1>5, <2>1, <2>3, <2>5
    <3>2. PngBody(f, t, p + n, k, kind)
      BY <2>3, <3>1
    <3>3. PngBody(f, u, p + n, k, kind)
      BY <1>15, <3>2 DEF PngBody
    <3> QED BY <3>3 DEF PngWhere
  <2> QED BY <2>4, <2>5
<1>18. reader.state # "FINISHED"
  BY <1>1, PngStatesDiffer
<1> QED BY <1>2, <1>12, <1>15, <1>16, <1>17, <1>18, PngGoes

Dropped(t) == [t EXCEPT !.chunk["iTXt"] = Png!Null, !.state = "SKIP_CRC"]

\* More of a text chunk, which is dropped when it is complete and no XMP packet
LEMMA PngReadXmp ==
  ASSUME PngAssumption, PngInv, Png!ReadXmp
  PROVE  PngInv'
<1>1. Png!Left > 0 /\ reader.state = "iTXt"
  BY DEF Png!ReadXmp, Png!In
<1>2. PICK f, p, b : f = source /\ p = readTo /\ b = PngBytes(source)
  OBVIOUS
<1>3. PngLaid(f) /\ reader \in PngReaders /\ Png!Bytes = b
  BY <1>1, <1>2, PngByteIs DEF PngInv
<1>4. PICK kind \in Png!Kinds : kind = "iTXt"
  BY DEF Png!Kinds
<1>5. PICK s : s = Png!Allocated(reader, kind)
  OBVIOUS
<1>6. PICK t : t = Png!NextBlock(s, kind, kind)
  OBVIOUS
<1>7. PICK n : n = Png!Lower(s.size, Png!Left)
  OBVIOUS
<1>8. /\ s \in PngReaders /\ s.size = reader.size /\ s.state = reader.state /\ s.cut = reader.cut
      /\ s.step = reader.step /\ s.name = reader.name
      /\ \A other \in Png!Kinds \ {kind} : s.chunk[other] = reader.chunk[other]
      /\ reader.chunk[kind] # Png!Null => s = reader
      /\ reader.chunk[kind] = Png!Null =>
           s.read = 0 /\ s.crcFor = kind /\ s.chunk[kind] = Zeros(reader.size)
  BY <1>3, <1>5, PngAllocated
<1>9. s \in PngReaders /\ s.cut = reader.cut
  BY <1>8
<1>10. /\ n \in Nat /\ n <= Png!Left /\ n <= s.size
       /\ t \in PngReaders /\ t.cut = s.cut /\ t.step = s.step /\ t.name = s.name
       /\ t.crcFor = s.crcFor
       /\ \A other \in Png!Kinds \ {kind} : t.chunk[other] = s.chunk[other]
       /\ t.chunk[kind] = [len |-> s.chunk[kind].len,
                           data |-> Took(s.chunk[kind].data, s.read, n, readTo)]
       /\ IF s.size < Png!Left THEN t.state = "CHECK_CRC" /\ t.size = 0 /\ n = s.size
          ELSE t.state = kind /\ t.read = s.read + n /\ t.size = s.size - n
  BY <1>1, <1>6, <1>7, <1>9, PngBlock
<1>11. n \in Nat /\ n <= Png!Left /\ t \in PngReaders /\ t.cut = reader.cut
  BY <1>9, <1>10
<1>12. PICK content : content = [m \in DOMAIN t.chunk[kind].data |-> b[t.chunk[kind].data[m]]]
  OBVIOUS
<1>13. PICK u : u = IF t.state = "CHECK_CRC" /\ ~Png!IsPrefix(XmpBegin, content)
                    THEN Dropped(t) ELSE t
  OBVIOUS
<1>14. Png!Goes(u, n)
  BY <1>3, <1>4, <1>5, <1>6, <1>7, <1>12, <1>13 DEF Png!ReadXmp, Dropped
<1>15. /\ Dropped(t) \in PngReaders /\ Dropped(t).cut = t.cut /\ Dropped(t).state = "SKIP_CRC"
       /\ Dropped(t).chunk[kind] = Png!Null
       /\ \A other \in Png!Kinds \ {kind} : Dropped(t).chunk[other] = t.chunk[other]
  <2>1. PICK c : c = t.chunk /\ c \in [Png!Kinds -> PngChunks]
    BY <1>11 DEF PngReaders
  <2>2. Png!Null \in PngChunks
    <3>1. <<>> \in Seq(Nat)
      OBVIOUS
    <3> QED BY <3>1 DEF Png!Null, PngChunks
  <2>3. PICK d : d = [c EXCEPT ![kind] = Png!Null]
    OBVIOUS
  <2>4. /\ d \in [Png!Kinds -> PngChunks] /\ d[kind] = Png!Null
        /\ \A other \in Png!Kinds \ {kind} : d[other] = c[other]
    BY <2>1, <2>2, <2>3
  <2>5. Dropped(t) = [t EXCEPT !.chunk = d, !.state = "SKIP_CRC"]
    BY <1>4, <1>11, <2>1, <2>3 DEF Dropped, PngReaders
  <2> QED BY <1>11, <2>1, <2>4, <2>5 DEF PngReaders
<1>16. u \in PngReaders /\ u.cut = reader.cut
  BY <1>11, <1>13, <1>15
<1>17. ASSUME ~u.cut PROVE PngWhere(f, u, p + n)
  <2>1. PICK k \in 1 .. Len(f) : PngBody(f, reader, p, k, kind)
    BY <1>1, <1>2, <1>4, <1>16, <1>17, PngIsWhere DEF PngInv
  <2>2. /\ t.state \in {"CHECK_CRC", kind}
        /\ t.state = kind /\ kind = kind => PngBody(f, t, p + n, k, kind)
        /\ t.state = "CHECK_CRC" =>
             /\ t.chunk[kind] = ChunkOf(f, k) /\ PngBeforeBut(f, t.chunk, k, kind)
             /\ p + n = PngAt(f, k) + 8 + Length(f[k])
             /\ t.size = 0 /\ t.step = 0 /\ t.name = Png!Name(f[k]) /\ t.crcFor = kind
    BY <1>1, <1>2, <1>5, <1>6, <1>7, <2>1, PngBlockWhere
  <2>3. PngMayBe(f[k], kind)
    BY <2>1 DEF PngBody
  <2>4. f[k].name = kind /\ Length(f[k]) > ChunkSizes[kind]
    BY <1>4, <2>3 DEF PngMayBe
  <2>5. CASE t.state # "CHECK_CRC"
    <3>1. PngBody(f, t, p + n, k, kind) /\ u = t
      BY <1>13, <2>2, <2>5
    <3> QED BY <3>1 DEF PngWhere
  <2>6. ASSUME t.state = "CHECK_CRC"
        PROVE  Png!Asked(f[k], kind) <=> Png!IsPrefix(XmpBegin, content)
    <3>1. PICK data : data = t.chunk[kind].data
      OBVIOUS
    <3>2. data = ChunkOf(f, k).data
      BY <2>2, <2>6, <3>1
    <3>3. [m \in DOMAIN data |-> b[data[m]]] = Body(f[k])
      BY <1>2, <1>3, <3>2, PngContentIs
    <3>4. content = Body(f[k])
      BY <1>12, <3>1, <3>3
    <3> QED BY <1>4, <2>4, <3>4, AskedIs
  <2>7. CASE t.state = "CHECK_CRC" /\ Png!IsPrefix(XmpBegin, content)
    <3>1. u = t /\ Png!Asked(f[k], kind)
      BY <1>13, <2>6, <2>7
    <3>2. PngCrc(f, t, p + n, k, kind)
      BY <1>3, <2>2, <2>7, <3>1, PngComplete
    <3> QED BY <3>1, <3>2 DEF PngWhere
  <2>8. CASE t.state = "CHECK_CRC" /\ ~Png!IsPrefix(XmpBegin, content)
    <3>1. u = Dropped(t) /\ ~Png!Asked(f[k], kind)
      BY <1>13, <2>6, <2>8
    <3>2. PngBeforeBut(f, u.chunk, k, kind) /\ u.chunk[kind] = Png!Null /\ u.state = "SKIP_CRC"
      BY <1>15, <2>2, <2>8, <3>1 DEF PngBeforeBut
    <3>3. PngBefore(f, u.chunk, k + 1)
      <4>1. /\ u.chunk[kind] = IF Png!Asked(f[k], kind) THEN ChunkOf(f, k) ELSE Png!Null
            /\ (Png!Asked(f[k], kind) => f[k].good)
        BY <3>1, <3>2
      <4> QED BY <1>3, <2>4, <3>2, <4>1, PngBodyRead
    <3>4. (p + n) + 4 = PngAt(f, k + 1) /\ k + 1 \in 1 .. Len(f) + 1
      <4>1. PICK a, size : a = PngAt(f, k) /\ size = Length(f[k])
        OBVIOUS
      <4>2. a \in Nat /\ size \in Nat /\ PngAt(f, k + 1) = a + size + 12 /\ k + 1 \in 1 .. Len(f) + 1
        BY <1>3, <4>1, PngChunkIs
      <4>3. p + n = a + 8 + size
        BY <2>2, <2>8, <4>1
      <4> QED BY <4>2, <4>3
    <3>5. PngBetween(f, u, p + n, k + 1)
      BY <3>2, <3>3, <3>4 DEF PngBetween
    <3> QED BY <3>4, <3>5 DEF PngWhere
  <2> QED BY <2>5, <2>7, <2>8
<1>18. reader.state # "FINISHED"
  BY <1>1
<1> QED BY <1>2, <1>11, <1>14, <1>16, <1>17, <1>18, PngGoes

\* Every round keeps the invariant.
LEMMA PngStep ==
  ASSUME PngAssumption, PngInv, [Png!Next]_(Png!readerVars)
  PROVE  PngInv'
<1>1. CASE Png!Consume
  BY <1>1, PngConsume
<1>2. CASE Png!SetMetadata
  BY <1>2, PngSetMetadata
<1>3. CASE Png!ReadMagic
  BY <1>3, PngReadMagic
<1>4. CASE Png!ReadChunkName
  BY <1>4, PngReadChunkName
<1>5. CASE Png!SkipBytes
  BY <1>5, PngSkipBytes
<1>6. CASE Png!CheckCrc
  BY <1>6, PngCheckCrc
<1>7. CASE Png!ReadXmp
  BY <1>7, PngReadXmp
<1>8. ASSUME NEW width \in 0 .. 3, Png!ReadSize(width) PROVE PngInv'
  BY <1>8, PngReadSize
<1>9. ASSUME NEW kind \in Png!Kinds \ {"iTXt"}, Png!ReadColours(kind) PROVE PngInv'
  BY <1>9, PngReadColours
<1>10. CASE UNCHANGED Png!readerVars
  <2>1. source' = source /\ readTo' = readTo /\ buffered' = buffered /\ reader' = reader
        /\ metadata' = metadata
    BY <1>10 DEF Png!readerVars
  <2>2. metadata' # Png!NotRead' => reader'.state = "FINISHED" /\ metadata' = PngTaken(reader)'
    <3>1. Png!NotRead' = Png!NotRead
      BY DEF Png!NotRead, Png!Null
    <3>2. PngTaken(reader)' = PngTaken(reader)
      BY <2>1, PngTakenStays
    <3>3. metadata # Png!NotRead => reader.state = "FINISHED" /\ metadata = PngTaken(reader)
      BY DEF PngInv
    <3> QED BY <2>1, <3>1, <3>2, <3>3
  <2> QED BY <2>1, <2>2 DEF PngInv
<1>11. Png!Word - 1 = 3
  BY DEF Png!Word
<1> QED BY <1>1, <1>2, <1>3, <1>4, <1>5, <1>6, <1>7, <1>8, <1>9, <1>10, <1>11 DEF Png!Next

\* At the end of the file a reader has everything before it.
LEMMA PngEnd ==
  ASSUME NEW f, PngLaid(f), NEW s, s \in PngReaders, NEW p, PngWhere(f, s, p),
         s.state # "FINISHED", NEW b, b = PngBytes(f), p = Len(b)
  PROVE  PngBefore(f, s.chunk, Len(f) + 1)
<1>1. PICK last, end, sig : last = Len(f) /\ end = Len(b) /\ sig = Len(PngSignature)
  OBVIOUS
<1>2. last \in Nat /\ end \in Nat /\ sig \in Nat
  <2>1. b \in Seq(ByteValues)
    BY DEF PngLaid
  <2>2. last \in Nat /\ sig \in Nat
    BY <1>1 DEF PngLaid
  <2> QED BY <1>1, <2>1, <2>2, LenProperties
<1>3. ASSUME NEW k \in 1 .. last + 1 PROVE PngAt(f, k) \in sig .. end
  BY <1>1, <1>3 DEF PngLaid
<1>4. ASSUME NEW k \in 1 .. last
      PROVE  \E a, n : /\ a = PngAt(f, k) /\ n = Length(f[k]) /\ a \in Nat /\ n \in Nat
                       /\ a + n + 12 <= end
  <2>1. PICK a, n : a = PngAt(f, k) /\ n = Length(f[k])
    OBVIOUS
  <2>2. PICK z : z = PngAt(f, k + 1)
    OBVIOUS
  <2>3. a \in Nat /\ n \in Nat /\ z = a + n + 12 /\ k + 1 \in 1 .. last + 1
    BY <1>1, <2>1, <2>2, PngChunkIs
  <2>4. z \in sig .. end
    BY <1>3, <2>2, <2>3
  <2>5. z <= end
    BY <1>2, <2>4
  <2> QED BY <2>1, <2>3, <2>5
<1>5. s.size \in Nat /\ s.read \in Nat
  BY DEF PngReaders
<1>6. PICK size, read : size = s.size /\ read = s.read
  OBVIOUS
<1>7. p = end
  BY <1>1
<1>8. ~PngMagic(f, s, p)
  <2>1. SUFFICES ASSUME PngMagic(f, s, p) PROVE FALSE
    OBVIOUS
  <2>2. p < sig
    BY <1>1, <2>1 DEF PngMagic
  <2>3. PngAt(f, 1) \in sig .. end
    <3>1. 1 \in 1 .. last + 1
      BY <1>2
    <3> QED BY <1>3, <3>1
  <2> QED BY <1>2, <1>7, <2>2, <2>3
<1>9. ASSUME NEW k \in 1 .. last + 1, PngBetween(f, s, p, k)
      PROVE  PngBefore(f, s.chunk, last + 1)
  <2>1. /\ PngBefore(f, s.chunk, k)
        /\ p = PngAt(f, k) \/ p + size = PngAt(f, k) \/ p + 4 = PngAt(f, k)
    BY <1>6, <1>9 DEF PngBetween
  <2>2. PngAt(f, k) >= end
    <3>1. PngAt(f, k) \in sig .. end
      BY <1>3
    <3> QED BY <1>2, <1>5, <1>6, <1>7, <2>1, <3>1
  <2>3. k \notin 1 .. last
    <3>1. SUFFICES ASSUME k \in 1 .. last PROVE FALSE
      OBVIOUS
    <3>2. PICK a, n : /\ a = PngAt(f, k) /\ n = Length(f[k]) /\ a \in Nat /\ n \in Nat
                      /\ a + n + 12 <= end
      BY <1>4, <3>1
    <3> QED BY <1>2, <2>2, <3>2
  <2>4. k = last + 1
    BY <1>2, <2>3
  <2> QED BY <2>1, <2>4
<1>10. ASSUME NEW k \in 1 .. last, PngHeader(f, s, p, k) PROVE FALSE
  <2>1. PICK a, n : /\ a = PngAt(f, k) /\ n = Length(f[k]) /\ a \in Nat /\ n \in Nat
                    /\ a + n + 12 <= end
    BY <1>4
  <2>2. (s.read \in 1 .. 3 /\ p = a + s.read) \/ (s.step \in 0 .. 3 /\ p = a + 4 + s.step)
    BY <1>10, <2>1 DEF PngHeader
  <2> QED BY <1>2, <1>7, <2>1, <2>2
<1>11. ASSUME NEW k \in 1 .. last, NEW kind, PngBody(f, s, p, k, kind) PROVE FALSE
  <2>1. PICK a, n : /\ a = PngAt(f, k) /\ n = Length(f[k]) /\ a \in Nat /\ n \in Nat
                    /\ a + n + 12 <= end
    BY <1>4
  <2>2. p = a + 8 \/ (p = a + 8 + read /\ read + size = n)
    BY <1>6, <1>11, <2>1 DEF PngBody
  <2> QED BY <1>2, <1>5, <1>6, <1>7, <2>1, <2>2
<1>12. ASSUME NEW k \in 1 .. last, NEW kind, PngCrc(f, s, p, k, kind) PROVE FALSE
  <2>1. PICK a, n : /\ a = PngAt(f, k) /\ n = Length(f[k]) /\ a \in Nat /\ n \in Nat
                    /\ a + n + 12 <= end
    BY <1>4
  <2>2. s.step \in 0 .. 3 /\ p = a + 8 + n + s.step
    BY <1>12, <2>1 DEF PngCrc
  <2> QED BY <1>2, <1>7, <2>1, <2>2
<1>13. \E k \in 1 .. last + 1 : PngBetween(f, s, p, k)
  <2>1. \A k \in 1 .. last + 1 : ~PngDone(f, s, k)
    BY DEF PngDone
  <2> QED BY <1>1, <1>8, <1>10, <1>11, <1>12, <2>1 DEF PngWhere
<1> QED BY <1>1, <1>9, <1>13

\* What the reader is to find is what is found before the chunk that ends it.
LEMMA PngFoundIs ==
  ASSUME PngAssumption, source \in PngImages, NEW k \in 1 .. Len(source) + 1, PngSound(source, k),
         k = Len(source) + 1 \/ PngBad(source, k), NEW kind
  PROVE  Png!Found(kind) = PngFound(source, k, kind)
<1>1. PngLaid(source)
  BY PngLayout
<1>2. Len(source) \in Nat /\ DOMAIN source = 1 .. Len(source)
  BY <1>1 DEF PngLaid
<1>3. ASSUME NEW some PROVE Png!FirstOf(some) = PngIndex(source, some)
  BY DEF Png!FirstOf, PngIndex, Png!SelectInSeq, SelectInSeq, Png!Min, Min
<1>4. Png!Damage = {d \in 1 .. Len(source) : PngBad(source, d)}
  BY <1>2, <1>3 DEF Png!Damage, PngBad
<1>5. PICK i : i = PngIndex(source, kind)
  OBVIOUS
<1>6. i \in 0 .. Len(source)
  BY <1>1, <1>5, PngIndexIs
<1>7. PICK damaged \in BOOLEAN : damaged = (\E d \in Png!Damage : d <= i)
  OBVIOUS
<1>8. damaged /\ i # 0 => i \notin 1 .. k - 1
  <2>1. SUFFICES ASSUME damaged, i \in 1 .. k - 1 PROVE FALSE
    OBVIOUS
  <2>2. PICK d \in 1 .. Len(source) : PngBad(source, d) /\ d <= i
    BY <1>4, <1>7, <2>1
  <2>3. d \in 1 .. k - 1
    BY <1>2, <2>1, <2>2
  <2> QED BY <2>2, <2>3 DEF PngSound
<1>9. ~damaged /\ i # 0 => i \in 1 .. k - 1
  <2>1. SUFFICES ASSUME ~damaged, i # 0, i \notin 1 .. k - 1 PROVE FALSE
    OBVIOUS
  <2>2. k <= i /\ k \in 1 .. Len(source)
    BY <1>2, <1>6, <2>1
  <2>3. PngBad(source, k)
    BY <1>2, <2>2
  <2>4. k \in Png!Damage
    BY <1>4, <2>2, <2>3
  <2> QED BY <1>7, <2>1, <2>2, <2>4
<1>10. PngFound(source, k, kind) = IF i = 0 \/ damaged THEN Png!Null ELSE ChunkOf(source, i)
  <2>1. i = 0 => i \notin 1 .. k - 1
    OBVIOUS
  <2> QED BY <1>5, <1>8, <1>9, <2>1 DEF PngFound
<1>11. PICK at : at = Len(PngSignature \o Png!FlattenSeq([n \in 1 .. (i - 1) |-> Png!Encoded(source[n])]))
  OBVIOUS
<1>12. Png!Found(kind)
         = IF i = 0 \/ damaged THEN Png!Null
           ELSE [len |-> Len(source[i].body),
                 data |-> [n \in DOMAIN source[i].body |-> (at + 2 * Png!Word) + n]]
  BY <1>3, <1>5, <1>7, <1>11 DEF Png!Found
<1>13. i # 0 => ChunkOf(source, i)
                  = [len |-> Len(source[i].body),
                     data |-> [n \in DOMAIN source[i].body |-> (at + 2 * Png!Word) + n]]
  <2>1. SUFFICES ASSUME i # 0
                 PROVE  ChunkOf(source, i)
                          = [len |-> Len(source[i].body),
                             data |-> [n \in DOMAIN source[i].body |-> (at + 2 * Png!Word) + n]]
    OBVIOUS
  <2>2. i \in 1 .. Len(source)
    BY <1>2, <1>6, <2>1
  <2>3. at = PngAt(source, i)
    BY <1>11, <2>2, PngBytesAre
  <2>4. at \in Nat /\ IsChunk(source[i])
    BY <1>1, <2>2, <2>3, PngChunkIs
  <2>5. PICK n : n = Length(source[i])
    OBVIOUS
  <2>6. Len(source[i].body) = n /\ DOMAIN source[i].body = 1 .. n
    <3>1. source[i].body \in Seq(0 .. 255)
      BY <2>4 DEF IsChunk, Chunks
    <3> QED BY <2>5, <3>1, LenProperties DEF Length
  <2>7. Png!Word = 4
    BY DEF Png!Word
  <2>8. \A m \in 1 .. n : (at + 2 * 4) + m = at + 8 + m
    BY <2>4
  <2>9. [m \in 1 .. n |-> (at + 2 * Png!Word) + m] = [m \in 1 .. n |-> at + 8 + m]
    BY <2>7, <2>8
  <2> QED BY <2>3, <2>5, <2>6, <2>9 DEF ChunkOf
<1> QED BY <1>10, <1>12, <1>13

\* What the invariant says of the metadata
LEMMA PngMeaning ==
  ASSUME PngAssumption, PngInv
  PROVE  Png!TypeOK /\ Png!ChunksAsWritten
<1>1. PICK f, b : f = source /\ b = PngBytes(source)
  OBVIOUS
<1>2. /\ f \in PngImages /\ readTo \in 0 .. buffered /\ buffered \in 0 .. Len(b)
      /\ reader \in PngReaders
  BY <1>1 DEF PngInv
<1>3. PngLaid(f) /\ Len(f) \in Nat
  <2>1. PngLaid(f)
    BY <1>1, <1>2, PngLayout
  <2> QED BY <2>1 DEF PngLaid
<1>4. Png!Bytes = b
  BY <1>1, <1>2, PngBytesAre
<1>5. Png!TypeOK
  <2>1. /\ reader.state \in Png!Kinds \cup {"MAGIC", "SIZE", "NAME", "SKIP_BYTES", "SKIP_CRC",
                                            "CHECK_CRC", "FINISHED"}
        /\ reader.step \in Nat /\ reader.size \in Nat /\ reader.read \in Nat
        /\ reader.hasIHDR \in BOOLEAN /\ reader.crcFor \in Png!Kinds \cup {"none"}
    BY <1>2 DEF PngReaders
  <2>2. ASSUME NEW kind \in Png!Kinds PROVE reader.chunk[kind].len \in {-1} \cup Nat
    <3>1. reader.chunk[kind] \in PngChunks
      BY <1>2 DEF PngReaders
    <3> QED BY <3>1 DEF PngChunks
  <2> QED BY <1>1, <1>2, <1>4, <2>1, <2>2 DEF Png!TypeOK
<1>6. ASSUME ~reader.cut, reader.state = "FINISHED" \/ readTo = Len(b)
      PROVE  reader.chunk = [kind \in Png!Kinds |-> Png!Found(kind)]
  <2>1. PngWhere(f, reader, readTo)
    BY <1>1, <1>6 DEF PngInv
  <2>2. \E k \in 1 .. Len(f) + 1 : PngBefore(f, reader.chunk, k) /\ (k = Len(f) + 1 \/ PngBad(f, k))
    <3>1. CASE reader.state = "FINISHED"
      BY <2>1, <3>1, PngIsWhere DEF PngDone
    <3>2. CASE reader.state # "FINISHED"
      <4>1. PngBefore(f, reader.chunk, Len(f) + 1)
        BY <1>1, <1>2, <1>3, <1>6, <2>1, <3>2, PngEnd
      <4>2. Len(f) + 1 \in 1 .. Len(f) + 1
        BY <1>3
      <4> QED BY <4>1, <4>2
    <3> QED BY <3>1, <3>2
  <2>3. PICK k \in 1 .. Len(f) + 1 : PngBefore(f, reader.chunk, k) /\ (k = Len(f) + 1 \/ PngBad(f, k))
    BY <2>2
  <2>4. \A kind \in Png!Kinds : Png!Found(kind) = PngFound(f, k, kind)
    BY <1>1, <1>2, <2>3, PngFoundIs DEF PngBefore
  <2>5. PICK c : c = reader.chunk /\ c \in [Png!Kinds -> PngChunks]
    BY <1>2 DEF PngReaders
  <2>6. \A kind \in Png!Kinds : c[kind] = Png!Found(kind)
    BY <2>3, <2>4, <2>5 DEF PngBefore
  <2> QED BY <2>5, <2>6
<1>7. ASSUME NEW found, found = [kind \in Png!Kinds |-> Png!Found(kind)], reader.chunk = found,
             metadata # Png!NotRead
      PROVE  metadata = [xmp |-> found["iTXt"], profile |-> Png!IccProfile(found)]
  BY <1>7 DEF PngInv, PngTaken
<1>8. Png!ChunksAsWritten
  BY <1>4, <1>6, <1>7 DEF Png!ChunksAsWritten
<1> QED BY <1>5, <1>8

\* The reader of a PNG file, wherever the buffers end, has the chunks of the file as they are
\* written, up to the first one that is damaged (eom_metadata_reader_png_consume).
THEOREM PngRead ==
  ASSUME PngAssumption
  PROVE  PngSpec => [](Png!TypeOK /\ Png!ChunksAsWritten)
<1>1. Png!Init => PngInv
  BY PngInit
<1>2. PngInv /\ [Png!Next]_(Png!readerVars) => PngInv'
  BY PngStep
<1>3. PngInv => Png!TypeOK /\ Png!ChunksAsWritten
  BY PngMeaning
<1> QED BY <1>1, <1>2, <1>3, PTL DEF PngSpec

-----------------------------------------------------------------------------
(* The two readers *)

ReadersInv == (part = "jpg" => JpgInv) /\ (part = "png" => PngInv)

LEMMA ReadersInvInit == ReadersInit => ReadersInv
<1>1. ASSUME ReadersInit, part = "jpg" PROVE Jpg!Init
  BY <1>1 DEF ReadersInit
<1>2. ASSUME ReadersInit, part = "png" PROVE Png!Init
  BY <1>2 DEF ReadersInit
<1> QED BY ReadersAssumption, <1>1, <1>2, JpgInit, PngInit DEF ReadersInv

LEMMA ReadersInvStep == ReadersInv /\ [ReadersNext]_<<part, readerVars>> => ReadersInv'
<1>1. [ReadersNext]_<<part, readerVars>> =>
         /\ part' = part
         /\ part = "jpg" => [Jpg!Next]_(Jpg!readerVars)
         /\ part = "png" => [Png!Next]_(Png!readerVars)
  BY DEF ReadersNext, readerVars, Jpg!readerVars, Png!readerVars
<1> QED BY ReadersAssumption, <1>1, JpgStep, PngStep DEF ReadersInv

\* The metadata that the readers take are those of the segments and chunks of the file, as they
\* are written, for files of any length and however they are cut into buffers
\* (eom_metadata_reader_jpg_consume, eom_metadata_reader_png_consume).
THEOREM MetadataRead == ReadersSpec => []MetadataAsWritten
<1>1. ReadersInv => MetadataAsWritten
  BY ReadersAssumption, JpgMeaning, PngMeaning DEF ReadersInv, MetadataAsWritten
<1> QED BY <1>1, ReadersInvInit, ReadersInvStep, PTL DEF ReadersSpec

=============================================================================
