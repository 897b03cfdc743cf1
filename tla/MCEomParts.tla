------------------------------ MODULE MCEomParts ------------------------------
(***************************************************************************)
(* The parts of the program that keep a state of their own and share none  *)
(* that another one's module would need, checked in one run: which of them *)
(* it explores is chosen at the start.  Those of EomParts, EomSaves and    *)
(* EomReaders, about which there are proofs, have variables of their own;  *)
(* the others share x1 to x3, and those that a part does not need are Off. *)
(***************************************************************************)
EXTENDS EomParts, EomSaves, EomReaders

VARIABLES x1, x2, x3

x == <<x1, x2, x3>>
mcVars == <<partsVars, savesVars, readerVars, x>>
-----------------------------------------------------------------------------
(* The constants of EomParts *)

Sides(long, short) == [long |-> long, short |-> short]
Size(width, height) == [x |-> width, y |-> height]

TwoBars == {"ViewToolbar", "ViewImageCollection"}
SlideShows == {[random |-> FALSE, loop |-> loop, auto |-> auto] : loop, auto \in BOOLEAN}
              \cup {[random |-> TRUE, loop |-> FALSE, auto |-> TRUE]}
LongSizes == {Sides(9, 1), Sides(3, 2), Sides(4, 1)}
Faster == <<1, 2, 3>>
TallPage == Size(2, 3)
BackAndForth == {-3, 0, 2}
ThinAndHigh == {Size(4, 1), Size(4, 2), Size(1, 3)}
BroadAndHigh == {Size(3, 4), Size(4, 3)}
-----------------------------------------------------------------------------
(* The metadata readers: the payload of a segment or a chunk is a few      *)
(* bytes, the first of which say what it is.                               *)

Segment(marker, body) == [marker |-> marker, body |-> body]
Exif == Segment(225, <<1, 1, 1>>)
Xmp == Segment(225, <<1, 2, 3, 5>>)
OtherApp1 == Segment(225, <<1, 3>>)
Icc == Segment(226, <<7, 7, 1, 1, 5>>)
FirstIcc == Segment(226, <<7, 7, 1, 2, 5>>)
Iptc == Segment(237, <<5>>)
Comment == Segment(254, <<>>)
Jfif == Segment(224, <<255>>)

FewSegments ==
  {<<>>, <<Jfif, Exif, Icc>>, <<Exif, Xmp, Icc, Iptc>>, <<Exif, Xmp, Exif, FirstIcc, Icc>>,
   <<Xmp, OtherApp1, Icc>>, <<Comment, Exif>>, <<Iptc, Jfif, Exif, Exif, Icc>>}

Chunk(name, body) == [name |-> name, body |-> body, good |-> TRUE]
Bad(chunk) == [chunk EXCEPT !.good = FALSE]
Hdr == Chunk("IHDR", <<3, 4>>)
Srgb == Chunk("sRGB", <<1>>)
Chrm == Chunk("cHRM", <<5, 6, 8>>)
Gama == Chunk("gAMA", <<2, 4>>)
Iccp == Chunk("iCCP", <<9, 9>>)
Packet == Chunk("iTXt", <<7, 3, 4>>)
Text == Chunk("iTXt", <<6, 6, 5>>)
Data == Chunk("other", <<1, 0>>)
End == Chunk("IEND", <<>>)

FewChunks ==
  {<<Hdr, Srgb, Text, Packet, End>>, <<Hdr, Iccp, Chrm, Gama, Data, End>>,
   <<Hdr, Bad(Iccp), Srgb, End>>, <<Hdr, Data, Srgb, Srgb, Bad(Packet)>>,
   <<Data, Gama, Chrm, Packet>>}

ShortSignature == <<137, 80>>
ShortId == <<7>>
ShortSizes == [IHDR |-> 2, iTXt |-> 1, sRGB |-> 1, cHRM |-> 3, gAMA |-> 2]
Sum(name, body) == [n \in 1..4 |-> FoldSeq(+, 0, name \o body) % 256]
-----------------------------------------------------------------------------
(* The dialogs *)

Name(characters, suffix) == [name |-> characters, suffix |-> suffix]
SaveAs == INSTANCE EomSaveAsDialog WITH
  Images <- {<<Name(<<"1", "a">>, "x"), Name(<<"a">>, "y"), Name(<<"a">>, "x")>>,
             <<Name(<<"a", " ", "1">>, "x"), Name(<<"a">>, "")>>},
  Patterns <- {<<>>, <<"%", "f">>, <<"%", "n">>, <<"%", "n", "%", "f">>,
               <<"b", " ", "%", "n">>, <<"%", "d", "/">>, <<"%", "f", "%", "n", "%">>},
  Starts <- 0..4, Formats <- {"x"}, Base <- 2, MaxLength <- 5,
  dialog <- x1, converter <- x2, names <- x3

Setup == INSTANCE EomPrintImageSetup WITH
  Pages <- {Size(16, 12), Size(4, 10)}, Proportions <- Size(4, 2), Full <- 3,
  Typed <- {0, 2}, FirstUpper <- [INCH |-> 4, MM |-> 100], setup <- x1, data <- x2
-----------------------------------------------------------------------------
(* One part at a time *)

OffAll == x1 = Off /\ x2 = Off /\ x3 = Off

WithProofs == {"mode", "message", "animation", "thumbnail", "store", "thumbs", "nav",
               "view", "paint", "jpg", "png", "preview", "clipboard", "save", "imageSave"}

MCInit ==
  /\ \/ part \in WithProofs /\ OffAll
     \/ part = "saveAs" /\ SaveAs!Init
     \/ part = "setup" /\ Setup!Init /\ x3 = Off
  /\ PartsInit /\ SavesInit /\ ReadersInit

Others == <<partsVars, savesVars, readerVars>>

MCNext ==
  \/ PartsNext /\ UNCHANGED <<vars, imageSaveVars, readerVars, x>>
  \/ SavesNext /\ UNCHANGED <<partsVars, readerVars, x>>
  \/ ReadersNext /\ UNCHANGED <<partsVars, savesVars, x>>
  \/ part = "saveAs" /\ SaveAs!Next /\ UNCHANGED Others
  \/ part = "setup" /\ Setup!Next /\ UNCHANGED <<x3, Others>>

MCSpec == MCInit /\ [][MCNext]_mcVars
-----------------------------------------------------------------------------
\* Every variable has its type.
EachTypeOK ==
  /\ part = "mode" => Mode!TypeOK
  /\ part = "message" => Message!TypeOK
  /\ part = "save" => TypeOK
  /\ part = "imageSave" => Image!TypeOK
  /\ part = "animation" => Animation!TypeOK
  /\ part = "clipboard" => Clipboard!TypeOK
  /\ part = "thumbnail" => Thumbnail!TypeOK
  /\ part = "view" => View!TypeOK
  /\ part = "paint" => Paint!TypeOK
  /\ part = "store" => Store!TypeOK
  /\ part = "thumbs" => Thumbs!TypeOK
  /\ part = "nav" => Nav!TypeOK
  /\ part = "jpg" => Jpg!TypeOK
  /\ part = "png" => Png!TypeOK
  /\ part = "saveAs" => SaveAs!TypeOK
  /\ part = "setup" => Setup!TypeOK
  /\ part = "preview" => Preview!TypeOK

\* The names that a pattern gives are those of the preview and differ when it has the
\* counter (eom_uri_converter_do, eom_uri_converter_preview).
NamesDiffer ==
  part = "saveAs" => SaveAs!PreviewIsName /\ SaveAs!NumberedDiffer

\* What is printed is what the dialog says (eom_print_image_setup).
PrintAsSet ==
  part = "setup" => Setup!PageIsFilled /\ Setup!PreviewIsPrinted /\ Setup!CenterIsShown
=============================================================================
