--------------------------- MODULE EomSaveAsDialog ---------------------------
(***************************************************************************)
(* src/src/eom-save-as-dialog-helper.c and eom-uri-converter.c: the dialog *)
(* that saves several images under names made from a pattern, its preview, *)
(* which an idle function makes for one of the images, and the converter,  *)
(* which the job asks for the name of one image after the other.           *)
(*                                                                         *)
(* A pattern and a name are sequences of characters: "%", the letters of   *)
(* the tags, the space, the slash, digits and "." have a meaning.          *)
(***************************************************************************)
EXTENDS Integers, Sequences, SequencesExt

CONSTANTS Images,      \* the selected images: sequences of [name, suffix]
          Patterns,    \* what may be typed
          Starts,      \* "Start counter at"
          Formats,     \* suffixes of the formats
          Base,        \* 10
          MaxLength    \* of a name, 250

NoFormat == "as is"
NoSuffix == ""

VARIABLES dialog,     \* SaveAsData and the widgets
          converter,  \* EomURIConverter, when the job has it
          names       \* the names of the images the job has come to

saveAsVars == <<dialog, converter, names>>
None == [tokens |-> <<>>]

\* How many digits there are below 10 to the power of it: ceil (log10 (n))
CeilLog(n) == CHOOSE k \in 0..n : Base ^ k >= n /\ \A j \in 0..(k - 1) : Base ^ j < n
Digit == <<"0", "1", "2", "3", "4", "5", "6", "7", "8", "9">>

\* "%.*lu"
Printed(n, digits) ==
  LET least == IF CeilLog(n + 1) > digits THEN CeilLog(n + 1) ELSE digits
  IN [k \in 1..least |-> Digit[((n \div Base ^ (least - k)) % Base) + 1]]
-----------------------------------------------------------------------------
(* eom-uri-converter.c *)

Other == {"c", "d", "t", "a", "m", "y", "h", "i", "s"}
Token(type, string) == [type |-> type, string |-> string, counter |-> 0]

\* One character of parse_string
Parsed(s, c) ==
  CASE s.state # "TOKEN" /\ c # "%" -> [s EXCEPT !.state = "STRING", !.string = Append(@, c)]
    [] s.state = "NONE" /\ c = "%" -> [s EXCEPT !.state = "TOKEN"]
    [] s.state = "STRING" /\ c = "%" ->
         [s EXCEPT !.state = "TOKEN", !.string = <<>>, !.list = Append(@, Token("STRING", s.string))]
    [] s.state = "TOKEN" ->
         [s EXCEPT !.state = "NONE",
                   !.list = IF c = "f" THEN Append(@, Token("FILENAME", <<>>))
                            ELSE IF c = "n" THEN Append(@, Token("COUNTER", <<>>))
                            ELSE IF c \in Other THEN Append(@, Token("OTHER", <<>>)) ELSE @]

ParseString(pattern) ==
  LET s == FoldLeft(Parsed, [state |-> "NONE", string |-> <<>>, list |-> <<>>], pattern)
  IN IF s.state = "STRING" THEN Append(s.list, Token("STRING", s.string)) ELSE s.list

\* No slash, and spaces as the user wants them
ReplaceRemoveChars(string, convert) ==
  LET kept == SelectSeq(string, LAMBDA c : c # "/")
      changed == [k \in DOMAIN kept |-> IF kept[k] = " " /\ convert THEN "_" ELSE kept[k]]
  IN SubSeq(changed, 1, IF Len(changed) < MaxLength THEN Len(changed) ELSE MaxLength)

\* build_absolute_file asserts that an image that keeps its format has a suffix.
Asserts(image, format) == format = NoFormat /\ image.suffix = NoSuffix
WithSuffix(string, image, format) ==
  string \o <<".", IF format = NoFormat THEN image.suffix ELSE format>>

\* The value of one token, and the token for the next image
Counted(conv, token) ==
  IF token.counter < conv.start THEN conv.start ELSE token.counter
Value(conv, token, image) ==
  CASE token.type = "STRING" -> token.string
    [] token.type = "FILENAME" -> image.name
    [] token.type = "COUNTER" -> Printed(Counted(conv, token), conv.digits)
    [] token.type = "OTHER" -> <<>>
After(conv, token) ==
  IF token.type = "COUNTER" THEN [token EXCEPT !.counter = Counted(conv, token) + 1] ELSE token

\* eom_uri_converter_do, <<>> if there is no name
Converted(conv, image) ==
  LET string == FlattenSeq([k \in DOMAIN conv.tokens |-> Value(conv, conv.tokens[k], image)])
      name == ReplaceRemoveChars(string, conv.convert)
  IN IF name = <<>> THEN <<>> ELSE WithSuffix(name, image, conv.format)

\* The preview has a parser of its own.
PreviewChar(s, c) ==
  CASE s.next /\ c = "f" -> [s EXCEPT !.string = @ \o s.image.name, !.next = FALSE]
    [] s.next /\ c = "n" -> [s EXCEPT !.string = @ \o s.number, !.next = FALSE]
    [] s.next /\ c \notin {"f", "n"} -> [s EXCEPT !.next = FALSE]
    [] ~s.next /\ c = "%" -> [s EXCEPT !.next = TRUE]
    [] OTHER -> [s EXCEPT !.string = Append(@, c)]

PreviewDigits(counter, n) == CeilLog(IF counter > n THEN counter ELSE n)

\* eom_uri_converter_preview
Preview(pattern, image, format, counter, n, convert) ==
  LET s == FoldLeft(PreviewChar, [next |-> FALSE, string |-> <<>>, image |-> image,
                                  number |-> Printed(counter, PreviewDigits(counter, n))], pattern)
      name == ReplaceRemoveChars(s.string, convert)
  IN IF name = <<>> THEN <<>> ELSE WithSuffix(name, image, format)
-----------------------------------------------------------------------------
(* The dialog *)

N == Len(dialog.images)
Example == dialog.images[dialog.nth]

RequestPreviewUpdate(d) == [d EXCEPT !.idle = TRUE]

Open == dialog.state = "OPEN"
Changed(d) == Open /\ d # dialog /\ dialog' = RequestPreviewUpdate(d) /\ UNCHANGED <<converter, names>>

\* A pattern without characters cannot be saved with.
TokenEntryChanged(pattern) ==
  Changed([dialog EXCEPT !.pattern = pattern, !.sensitive = Len(pattern) > 0])
ReplaceSpacesClicked == Changed([dialog EXCEPT !.convert = ~@])
CounterSpinChanged(start) == Changed([dialog EXCEPT !.start = start])
FormatChanged(format) == Changed([dialog EXCEPT !.format = format])

Shown(d) == Preview(d.pattern, d.images[d.nth], d.format, d.start + d.nth - 1, Len(d.images), d.convert)

\* The idle function
UpdatePreview ==
  /\ Open /\ dialog.idle
  /\ dialog' = IF Asserts(Example, dialog.format) /\ Shown(dialog) # <<>>
               THEN [dialog EXCEPT !.state = "ABORTED"]
               ELSE [dialog EXCEPT !.idle = FALSE, !.preview = Shown(dialog)]
  /\ UNCHANGED <<converter, names>>

\* Mutant: no zeros before the number
GetConverterPlain(d) ==
  [tokens |-> ParseString(d.pattern), convert |-> d.convert, start |-> d.start,
   digits |-> 1, format |-> d.format]

\* eom_save_as_dialog_get_converter
GetConverter(d) ==
  [tokens |-> ParseString(d.pattern), convert |-> d.convert, start |-> d.start,
   digits |-> CeilLog(d.start + Len(d.images)), format |-> d.format]

\* eom_window_cmd_save_as; destroy_data_cb takes the idle function away.
Save ==
  /\ Open /\ dialog.sensitive
  /\ dialog' = [dialog EXCEPT !.state = "SAVING", !.idle = FALSE]
  /\ converter' = GetConverter(dialog)
  /\ UNCHANGED names

Cancel ==
  /\ Open /\ dialog' = [dialog EXCEPT !.state = "CLOSED", !.idle = FALSE]
  /\ UNCHANGED <<converter, names>>

\* eom_job_save_as_run, which asserts that there is a name
Convert ==
  /\ dialog.state = "SAVING" /\ Len(names) < N
  /\ LET image == dialog.images[Len(names) + 1]
         name == Converted(converter, image)
     IN IF name = <<>> \/ Asserts(image, dialog.format)
        THEN dialog' = [dialog EXCEPT !.state = "ABORTED"] /\ UNCHANGED <<converter, names>>
        ELSE /\ names' = Append(names, name)
             /\ converter' = [converter EXCEPT !.tokens =
                               [k \in DOMAIN @ |-> After(converter, @[k])]]
             /\ UNCHANGED dialog

\* eom_save_as_dialog_new: the preview is of one of the images.
Init ==
  /\ converter = None /\ names = <<>>
  /\ \E images \in Images : \E nth \in DOMAIN images :
       dialog = [state |-> "OPEN", images |-> images, nth |-> nth,
                 pattern |-> <<"%", "f">>, convert |-> FALSE, start |-> 0, format |-> NoFormat,
                 sensitive |-> TRUE, idle |-> TRUE, preview |-> <<>>]

Next ==
  \/ \E pattern \in Patterns : TokenEntryChanged(pattern)
  \/ \E start \in Starts : CounterSpinChanged(start)
  \/ \E format \in Formats \cup {NoFormat} : FormatChanged(format)
  \/ ReplaceSpacesClicked \/ UpdatePreview \/ Save \/ Cancel \/ Convert
-----------------------------------------------------------------------------
(* Properties *)

\* Every variable has its type.
TypeOK ==
  /\ dialog.state \in {"OPEN", "SAVING", "CLOSED", "ABORTED"} /\ dialog.nth \in DOMAIN dialog.images
  /\ dialog.start \in Nat /\ dialog.format \in Formats \cup {NoFormat}
  /\ {dialog.convert, dialog.sensitive, dialog.idle} \subseteq BOOLEAN
  /\ converter = None \/ converter.digits \in Nat
  /\ Len(names) <= N

\* The preview has the name the image is then saved under: both parse the pattern and
\* count in their own way. Only the zeros before the number may be fewer, as the
\* preview does not add the number of the images to the counter
\* (eom_uri_converter_preview).
PreviewIsName ==
  /\ Open /\ ~dialog.idle => dialog.preview = Shown(dialog)
  /\ Len(names) >= dialog.nth =>
       \/ names[dialog.nth] = Shown(dialog)
       \/ /\ "n" \in ToSet(dialog.pattern)
          /\ CeilLog(dialog.start + N) > PreviewDigits(dialog.start + dialog.nth - 1, N)

\* With a counter in the pattern no two images get the same name, whatever their own
\* names are, if the names are not too long (eom_uri_converter_do).
NumberedDiffer ==
  /\ \E k \in DOMAIN ParseString(dialog.pattern) : ParseString(dialog.pattern)[k].type = "COUNTER"
  /\ \A k \in DOMAIN names : Len(names[k]) < MaxLength + 2
  => IsInjective(names)
=============================================================================
