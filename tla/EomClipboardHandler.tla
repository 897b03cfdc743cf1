-------------------------- MODULE EomClipboardHandler --------------------------
(***************************************************************************)
(* src/src/eom-clipboard-handler.c and Copy Image of eom-window.c: the     *)
(* handler that owns the clipboard for an image, the references it holds   *)
(* and the ones that hold it, while the image is turned, left and loaded   *)
(* again, other programs take the clipboard and ask for what is in it.     *)
(***************************************************************************)
EXTENDS Integers, Sequences, FiniteSets

CONSTANTS MaxPixbufs,   \* bound: how many pixbufs the image has in its life
          MaxCopies     \* bound: how often it is copied

VARIABLES image,        \* the pixbuf of the first selected image, or None
          refs,         \* the reference count of each pixbuf
          handlers,     \* every EomClipboardHandler there ever was
          owner,        \* the handler that owns the clipboard, or None
          pasted        \* what another program was given last

clipboardVars == <<image, refs, handlers, owner, pasted>>

None == 0
Pixbufs == 1..MaxPixbufs
Nothing == [target |-> "none", of |-> None, copied |-> None]

Up(r, p) == IF p = None THEN r ELSE [r EXCEPT ![p] = @ + 1]
Down(r, p) == IF p = None THEN r ELSE [r EXCEPT ![p] = @ - 1]
-----------------------------------------------------------------------------
(* The image. A pixbuf that was never used has no count yet. *)

Unused(p) == refs[p] < 0 /\ \A q \in 1 .. p - 1 : refs[q] >= 0

\* A load, or the pixels that a transform replaces: the image has one reference.
Replace ==
  /\ \E p \in Pixbufs : /\ Unused(p)
                        /\ image' = p
                        /\ refs' = [Down(refs, image) EXCEPT ![p] = 1]
  /\ UNCHANGED <<handlers, owner, pasted>>

FreeMem ==
  /\ image # None /\ image' = None /\ refs' = Down(refs, image)
  /\ UNCHANGED <<handlers, owner, pasted>>
-----------------------------------------------------------------------------
\* eom_clipboard_handler_dispose, when the last reference goes
Dispose(r, h) == Down(r, h.pixbuf)

\* eom_clipboard_handler_set_pixbuf takes a reference of its own, if there is a pixbuf.
SetPixbuf(r, p) == Up(r, p)

\* eom_clipboard_handler_new: the reference that eom_image_get_pixbuf took is given back.
\* The only reference to the handler floats.
New(r) ==
  [refs |-> Down(SetPixbuf(Up(r, image), image), image),
   handler |-> [refs |-> 1, floating |-> TRUE, pixbuf |-> image, copied |-> image]]

\* Mutant: the reference that floats is not taken.
SinkOnTop(h) == [h EXCEPT !.refs = @ + 1]

\* g_object_ref_sink
Sink(h) == IF h.floating THEN [h EXCEPT !.floating = FALSE] ELSE [h EXCEPT !.refs = @ + 1]

\* eom_clipboard_handler_clear_func for the owner so far, s is all of the state it changes.
ClearFunc(s) ==
  IF s.owner = None THEN s
  ELSE LET h == s.handlers[s.owner]
       IN [refs |-> IF h.refs = 1 THEN Dispose(s.refs, h) ELSE s.refs,
           handlers |-> [s.handlers EXCEPT ![s.owner].refs = @ - 1,
                           ![s.owner].pixbuf = IF h.refs = 1 THEN None ELSE @],
           owner |-> None]

State == [refs |-> refs, handlers |-> handlers, owner |-> owner]
Becomes(s) == /\ refs' = s.refs /\ handlers' = s.handlers /\ owner' = s.owner

\* There is a target always, since there is a URI. When the clipboard cannot be taken it
\* is cleared, and the new handler goes like the old one.
CopyToClipboard(s, n, set) ==
  LET sunk == [s EXCEPT !.handlers[n] = Sink(@)]
      unowned == ClearFunc(sunk)
  IN IF set THEN [unowned EXCEPT !.owner = n] ELSE ClearFunc([unowned EXCEPT !.owner = n])

\* eom_window_cmd_copy_image
CopyImage ==
  /\ Len(handlers) < MaxCopies
  /\ LET new == New(refs)
         n == Len(handlers) + 1
     IN \E set \in BOOLEAN :
          Becomes(CopyToClipboard([State EXCEPT !.refs = new.refs,
                                     !.handlers = Append(@, new.handler)], n, set))
  /\ UNCHANGED <<image, pasted>>

\* Another program copies something: GTK calls clear_func.
OtherOwns == owner # None /\ Becomes(ClearFunc(State)) /\ UNCHANGED <<image, pasted>>

\* eom_clipboard_handler_get_func: pixels are offered if the image had some.
GetFunc ==
  /\ owner # None
  /\ LET h == handlers[owner]
     IN \E target \in {"text", "uri"} \cup (IF h.copied # None THEN {"pixbuf"} ELSE {}) :
          pasted' = [target |-> target, copied |-> h.copied,
                     of |-> IF target = "pixbuf" THEN h.pixbuf ELSE h.copied]
  /\ UNCHANGED <<image, refs, handlers, owner>>

Init ==
  /\ image = None /\ refs = [p \in Pixbufs |-> -1]
  /\ handlers = <<>> /\ owner = None /\ pasted = Nothing

Next == Replace \/ FreeMem \/ CopyImage \/ OtherOwns \/ GetFunc
-----------------------------------------------------------------------------
Alive(n) == handlers[n].refs > 0
Holders(p) ==
  Cardinality({n \in DOMAIN handlers : Alive(n) /\ handlers[n].pixbuf = p})
    + (IF image = p THEN 1 ELSE 0)

\* Every variable has its type.
TypeOK ==
  /\ image \in Pixbufs \cup {None} /\ owner \in DOMAIN handlers \cup {None}
  /\ \A p \in Pixbufs : refs[p] \in -1 .. MaxCopies + 1

\* "cbhandler will self-destruct when it's not needed anymore" (eom-window.c:3454): a
\* handler lives as long as it owns the clipboard, and a pixbuf as long as the image or
\* such a handler has it, in whatever order they come and go.
HandlerWhileOwner ==
  /\ \A n \in DOMAIN handlers : Alive(n) <=> owner = n
  /\ \A p \in Pixbufs : refs[p] >= 0 => refs[p] = Holders(p)

\* What is pasted are the pixels of the moment of the copy, whatever became of the image.
PastedIsCopied ==
  /\ pasted.of = pasted.copied
  /\ owner # None /\ handlers[owner].copied # None => refs[handlers[owner].copied] > 0
=============================================================================
