---------------------------- MODULE EomSavesProofs ----------------------------
(***************************************************************************)
(* Proofs about EomSaves.  EomWindowSave, for any number of images,        *)
(* commands and changes from outside: the window knows its save job, and   *)
(* no change of an image gets lost without a reason that the user knows    *)
(* of, from Save through both ways to close to the dialog that stays up    *)
(* while it saves.  EomImageSave, for any number of changes by other       *)
(* programs: it implements AtomicSave.                                     *)
(***************************************************************************)
EXTENDS EomSaves, EomLemmas, FiniteSetTheorems

-----------------------------------------------------------------------------
(* The inductive invariant *)

\* A queue has one job at most that writes images.
HasWriter(s) == \E job \in ToSet(s) : Writes(job)
Sole(s) == \A x, y \in DOMAIN s : Writes(s[x]) /\ Writes(s[y]) => x = y

\* The images a job has still to write or to turn
Left(job) == {job.images[x] : x \in job.pos .. Len(job.images)}

\* The jobs that have not ended
Pending == ToSet(queue) \cup ToSet(running)

\* Such a job knows its next image and where that goes; a job to save has none
\* when no image is marked.
Ready(job) ==
  /\ job.pos >= 1 /\ (job.images # <<>> => job.pos <= Len(job.images))
  /\ job.images = <<>> => job.kind = "save"
  /\ job.kind = "saveas" => Len(job.targets) = Len(job.images)
  /\ job.kind = "copy" => Len(job.targets) = 1

JobsInv ==
  /\ queue \in Seq(JobType) /\ running \in Seq(JobType) /\ ended \in Seq(JobType)
  /\ running # <<>> => running = <<Head(running)>>
  /\ \A job \in Pending : Ready(job)
  /\ \A job \in ToSet(ended) : job.kind = "copy" => job.pos \in Contents

ImageRecords == [file : Names, modified : BOOLEAN, row : BOOLEAN]
Windows == [open : BOOLEAN, sensitive : BOOLEAN, saveJob : BOOLEAN, copyJob : BOOLEAN,
            finishing : BOOLEAN, dialog : [unsaved : SUBSET Images, marked : SUBSET Images],
            question : [kind : {"none", "saveas", "trash"}, images : Seq(Images)],
            shown : {0} \cup Images]
Histories == [declined : SUBSET Images, late : SUBSET Images, failed : BOOLEAN,
              cancelled : BOOLEAN, aborted : BOOLEAN]

FieldsInv == /\ disk \in [Names -> Contents] /\ wall \in Contents
             /\ image \in [Images -> ImageRecords]
             /\ w \in Windows /\ h \in Histories

\* One job at a time writes images, and then save_job is set.
WritersInv ==
  /\ Sole(queue) /\ Sole(running) /\ Sole(ended)
  /\ HasWriter(queue) => ~HasWriter(running) /\ ~HasWriter(ended)
  /\ HasWriter(running) => ~HasWriter(ended)
  /\ w.saveJob <=> HasWriter(queue) \/ HasWriter(running) \/ HasWriter(ended)

\* The images of transforms that have not ended are late.
TransformsAreLate ==
  \A job \in Pending : job.kind = "transform" => ToSet(job.images) \subseteq h.late

\* Who is asked what, and what has changed since
DialogInv ==
  /\ w.dialog.marked \subseteq w.dialog.unsaved
  /\ w.dialog # NoDialog => /\ w.question = NoQuestion /\ ~w.finishing
                            /\ Modified \subseteq w.dialog.unsaved \cup h.late
                            /\ TransformsAreLate
  /\ w.finishing => w.question = NoQuestion /\ (Disabled => h.declined = Images)
  /\ w.question.kind = "saveas" => ~w.saveJob /\ w.question.images # <<>>

\* The job of the close dialog: what it has not saved was declined, is late or is left.
Closing(job, left) ==
  /\ job.kind = "save"
  /\ \/ h.cancelled
     \/ /\ w.dialog # NoDialog
        /\ h.failed \/ Modified \subseteq h.declined \cup h.late \cup left

ClosingInv ==
  /\ \A job \in Pending : job.closes => Closing(job, Left(job))
  /\ \A job \in ToSet(ended) : job.closes => Closing(job, {})

IInv == /\ JobsInv /\ FieldsInv
        /\ w.open => WritersInv /\ DialogInv /\ ClosingInv
        /\ LossesAreKnown
-----------------------------------------------------------------------------
(* The rows in their order *)

LEMMA InOrderIs ==
  ASSUME MaxImages \in Nat, NEW rows \in SUBSET Images
  PROVE  InOrder(rows) \in Seq(Images) /\ ToSet(InOrder(rows)) = rows
<1>1. rows \subseteq Int /\ IsFiniteSet(rows)
  <2>1. IsFiniteSet(Images) /\ Images \subseteq Int
    BY FS_Interval DEF Images
  <2> QED BY <2>1, FS_Subset
<1>2. InOrder(rows) \in SetToSeqs(rows)
  BY <1>1, OrderExists DEF InOrder
<1>3. InOrder(rows) \in Seq(rows) /\ ToSet(InOrder(rows)) = rows
  BY <1>1, <1>2, OrderElements
<1>4. \A x \in Seq(rows) : x \in Seq(Images)
  BY SeqMonotonic
<1> QED BY <1>3, <1>4
-----------------------------------------------------------------------------
(* Queues of jobs *)

LEMMA SequenceElements ==
  ASSUME NEW S, NEW s \in Seq(S)
  PROVE  ToSet(s) \in SUBSET S /\ \A x : x \in ToSet(s) <=> \E k \in 1 .. Len(s) : s[k] = x
<1>1. DOMAIN s = 1 .. Len(s) /\ \A k \in 1 .. Len(s) : s[k] \in S
  BY LenProperties, ElementOfSeq
<1> QED BY <1>1 DEF ToSet

LEMMA EmptyElements ==
  ASSUME NEW S
  PROVE  <<>> \in Seq(S) /\ ToSet(<<>>) = {} /\ ~HasWriter(<<>>) /\ Sole(<<>>)
  BY DEF ToSet, HasWriter, Sole

LEMMA SingleElements ==
  ASSUME NEW S, NEW e \in S
  PROVE  /\ <<e>> \in Seq(S) /\ ToSet(<<e>>) = {e} /\ Sole(<<e>>)
         /\ HasWriter(<<e>>) <=> Writes(e)
<1>1. <<e>> \in Seq(S) /\ DOMAIN <<e>> = {1} /\ <<e>>[1] = e
  BY LenProperties
<1> QED BY <1>1 DEF ToSet, HasWriter, Sole

LEMMA AppendJob ==
  ASSUME NEW S, NEW s \in Seq(S), NEW e \in S
  PROVE  /\ Append(s, e) \in Seq(S) /\ ToSet(Append(s, e)) = ToSet(s) \cup {e}
         /\ HasWriter(Append(s, e)) <=> HasWriter(s) \/ Writes(e)
         /\ Sole(s) /\ (HasWriter(s) => ~Writes(e)) => Sole(Append(s, e))
<1>1. /\ Append(s, e) \in Seq(S) /\ Len(s) \in Nat /\ DOMAIN s = 1 .. Len(s)
      /\ DOMAIN Append(s, e) = 1 .. Len(s) + 1 /\ Append(s, e)[Len(s) + 1] = e
      /\ \A k \in 1 .. Len(s) : Append(s, e)[k] = s[k]
  BY AppendElements
<1>2. ToSet(Append(s, e)) = ToSet(s) \cup {e}
  BY <1>1 DEF ToSet
<1>3. ASSUME Sole(s), HasWriter(s) => ~Writes(e) PROVE Sole(Append(s, e))
  <2> SUFFICES ASSUME NEW x \in 1 .. Len(s) + 1, NEW y \in 1 .. Len(s) + 1,
                      Writes(Append(s, e)[x]), Writes(Append(s, e)[y])
               PROVE  x = y
    BY <1>1 DEF Sole
  <2>1. \A k \in 1 .. Len(s) : Writes(s[k]) => HasWriter(s)
    BY <1>1 DEF HasWriter, ToSet
  <2> QED BY <1>1, <1>3, <2>1 DEF Sole
<1> QED BY <1>1, <1>2, <1>3 DEF HasWriter

LEMMA TailJob ==
  ASSUME NEW S, NEW s \in Seq(S), s # <<>>
  PROVE  /\ Head(s) \in S /\ Tail(s) \in Seq(S)
         /\ ToSet(s) = {Head(s)} \cup ToSet(Tail(s))
         /\ HasWriter(s) <=> Writes(Head(s)) \/ HasWriter(Tail(s))
         /\ Sole(s) => Sole(Tail(s)) /\ (Writes(Head(s)) => ~HasWriter(Tail(s)))
<1>1. /\ Head(s) \in S /\ Head(s) = s[1]
      /\ Len(s) \in Nat \ {0} /\ DOMAIN s = 1 .. Len(s)
      /\ Tail(s) \in Seq(S) /\ Len(Tail(s)) = Len(s) - 1
      /\ DOMAIN Tail(s) = 1 .. Len(s) - 1
      /\ \A k \in 1 .. Len(s) - 1 : Tail(s)[k] = s[k + 1]
  BY TailElements
<1>2. ToSet(s) = {Head(s)} \cup ToSet(Tail(s))
  <2>1. ToSet(s) \subseteq {Head(s)} \cup ToSet(Tail(s))
    <3> SUFFICES ASSUME NEW k \in 1 .. Len(s), k # 1 PROVE s[k] \in ToSet(Tail(s))
      BY <1>1 DEF ToSet
    <3>1. k - 1 \in 1 .. Len(s) - 1 /\ Tail(s)[k - 1] = s[k]
      BY <1>1
    <3> QED BY <3>1, <1>1 DEF ToSet
  <2>2. ToSet(Tail(s)) \subseteq ToSet(s)
    <3> SUFFICES ASSUME NEW k \in 1 .. Len(s) - 1 PROVE Tail(s)[k] \in ToSet(s)
      BY <1>1 DEF ToSet
    <3>1. k + 1 \in 1 .. Len(s) /\ Tail(s)[k] = s[k + 1]
      BY <1>1
    <3> QED BY <3>1, <1>1 DEF ToSet
  <2>3. Head(s) \in ToSet(s)
    BY <1>1 DEF ToSet
  <2> QED BY <2>1, <2>2, <2>3
<1>3. ASSUME Sole(s) PROVE Sole(Tail(s)) /\ (Writes(Head(s)) => ~HasWriter(Tail(s)))
  <2>1. \A k \in 1 .. Len(s) - 1 : k + 1 \in 1 .. Len(s) /\ k + 1 # 1 /\ Tail(s)[k] = s[k + 1]
    BY <1>1
  <2>2. Sole(Tail(s))
    <3> SUFFICES ASSUME NEW x \in 1 .. Len(s) - 1, NEW y \in 1 .. Len(s) - 1,
                        Writes(Tail(s)[x]), Writes(Tail(s)[y])
                 PROVE  x = y
      BY <1>1 DEF Sole
    <3>1. x + 1 = y + 1
      BY <1>1, <1>3, <2>1 DEF Sole
    <3> QED BY <3>1, <1>1
  <2>3. ASSUME Writes(Head(s)), HasWriter(Tail(s)) PROVE FALSE
    <3>1. PICK k \in 1 .. Len(s) - 1 : Writes(Tail(s)[k])
      BY <1>1, <2>3 DEF HasWriter, ToSet
    <3>2. 1 \in 1 .. Len(s) /\ Writes(s[1]) /\ Writes(s[k + 1])
      BY <1>1, <2>1, <2>3, <3>1
    <3> QED BY <1>1, <1>3, <2>1, <3>2 DEF Sole
  <2> QED BY <2>2, <2>3
<1> QED BY <1>1, <1>2, <1>3 DEF HasWriter
-----------------------------------------------------------------------------
(* Steps that leave the jobs as they are, and steps that add one *)

LEMMA NewJob ==
  ASSUME NEW kind \in {"save", "saveas", "transform", "copy"}, NEW images \in Seq(Images)
  PROVE  /\ Job(kind, images) \in JobType /\ Job(kind, images).kind = kind
         /\ Job(kind, images).images = images /\ Job(kind, images).pos = 1
         /\ ~Job(kind, images).closes
<1>1. <<>> \in Seq(Names)
  OBVIOUS
<1> QED BY <1>1 DEF Job, JobType

LEMMA SelectionsAre ==
  ASSUME MaxImages \in Nat, NEW s \in Selections
  PROVE  s \in Seq(Images) /\ s # <<>>
<1>1. PICK rows \in (SUBSET Rows) \ {{}} : s = InOrder(rows)
  BY DEF Selections
<1>2. rows \in SUBSET Images /\ rows # {}
  BY DEF Rows
<1>3. s \in Seq(Images) /\ ToSet(s) # {}
  BY <1>1, <1>2, InOrderIs
<1> QED BY <1>3, EmptyElements

LEMMA JobsKept ==
  ASSUME JobsInv, UNCHANGED <<queue, running, ended>>
  PROVE  JobsInv'
  BY DEF JobsInv, Pending

LEMMA Kept ==
  ASSUME WritersInv, DialogInv, ClosingInv, UNCHANGED <<queue, running, ended, h>>,
         Modified' \subseteq Modified,
         w'.saveJob = w.saveJob, w'.finishing = w.finishing,
         w'.dialog.unsaved = w.dialog.unsaved, w'.dialog.marked \subseteq w'.dialog.unsaved,
         w'.dialog # NoDialog <=> w.dialog # NoDialog,
         w'.question # NoQuestion => w.dialog = NoDialog /\ ~w.finishing,
         w'.question.kind = "saveas" => ~w.saveJob /\ w'.question.images # <<>>
  PROVE  WritersInv' /\ DialogInv' /\ ClosingInv'
<1>1. WritersInv'
  BY DEF WritersInv
<1>2. DialogInv'
  BY DEF DialogInv, TransformsAreLate, Pending
<1>3. ClosingInv'
  BY DEF ClosingInv, Closing, Pending
<1> QED BY <1>1, <1>2, <1>3

LEMMA JobAdded ==
  ASSUME JobsInv, NEW job \in JobType, Ready(job), Enqueue(job), UNCHANGED <<running, ended>>
  PROVE  /\ JobsInv' /\ Pending' = Pending \cup {job}
         /\ HasWriter(queue') <=> HasWriter(queue) \/ Writes(job)
         /\ Sole(queue) /\ (HasWriter(queue) => ~Writes(job)) => Sole(queue')
<1>1. /\ queue' \in Seq(JobType) /\ ToSet(queue') = ToSet(queue) \cup {job}
      /\ HasWriter(queue') <=> HasWriter(queue) \/ Writes(job)
      /\ Sole(queue) /\ (HasWriter(queue) => ~Writes(job)) => Sole(queue')
  BY AppendJob DEF JobsInv, Enqueue
<1>2. Pending' = Pending \cup {job}
  BY <1>1 DEF Pending
<1>3. JobsInv'
  BY <1>1, <1>2 DEF JobsInv
<1> QED BY <1>1, <1>2, <1>3

LEMMA KeptAdded ==
  ASSUME JobsInv, WritersInv, DialogInv, ClosingInv,
         NEW job \in JobType, Ready(job), Enqueue(job), UNCHANGED <<image, running, ended, h>>,
         ~job.closes, Writes(job) => ~w.saveJob, w'.saveJob = (w.saveJob \/ Writes(job)),
         w.dialog = NoDialog, ~w.finishing,
         w'.dialog = w.dialog, w'.finishing = w.finishing, w'.question = NoQuestion
  PROVE  JobsInv' /\ WritersInv' /\ DialogInv' /\ ClosingInv'
<1>1. /\ JobsInv' /\ Pending' = Pending \cup {job}
      /\ HasWriter(queue') <=> HasWriter(queue) \/ Writes(job)
      /\ Sole(queue) /\ (HasWriter(queue) => ~Writes(job)) => Sole(queue')
  BY JobAdded
<1>2. WritersInv'
  BY <1>1 DEF WritersInv
<1>3. DialogInv'
  <2>1. NoQuestion.kind # "saveas"
    BY DEF NoQuestion
  <2> QED BY <2>1 DEF DialogInv
<1>4. ClosingInv'
  BY <1>1 DEF ClosingInv, Closing, Modified, Rows
<1> QED BY <1>1, <1>2, <1>3, <1>4
-----------------------------------------------------------------------------
(* The window's own steps *)

LEMMA DisplayKeeps ==
  ASSUME IInv, NEW i \in Images, Display(i)
  PROVE  IInv'
<1>1. w \in Windows /\ w.open /\ w' = [w EXCEPT !.shown = i] /\ Modified' = Modified
  BY DEF IInv, FieldsInv, Display, Usable, Modified, Rows
<1>2. /\ w' \in Windows
      /\ w'.open = w.open /\ w'.saveJob = w.saveJob /\ w'.finishing = w.finishing
      /\ w'.dialog = w.dialog /\ w'.question = w.question
  BY <1>1 DEF Windows
<1>3. JobsInv' /\ FieldsInv'
  BY <1>2, JobsKept DEF IInv, FieldsInv, Display
<1>4. WritersInv' /\ DialogInv' /\ ClosingInv'
  <2>1. /\ w'.dialog.marked \subseteq w'.dialog.unsaved
        /\ w'.question # NoQuestion => w.dialog = NoDialog /\ ~w.finishing
        /\ w'.question.kind = "saveas" => ~w.saveJob /\ w'.question.images # <<>>
    BY <1>1, <1>2 DEF IInv, DialogInv
  <2> QED BY <1>1, <1>2, <2>1, Kept DEF IInv, Display
<1> QED BY <1>1, <1>2, <1>3, <1>4 DEF IInv, LossesAreKnown

LEMMA AskKeeps ==
  ASSUME MaxImages \in Nat, IInv, NEW kind \in {"saveas", "trash"}, Ask(kind)
  PROVE  IInv'
<1>1. PICK s \in Selections : w' = [w EXCEPT !.question = [kind |-> kind, images |-> s]]
  BY DEF Ask
<1>2. s \in Seq(Images) /\ s # <<>>
  BY SelectionsAre
<1>3. /\ w \in Windows /\ w.open /\ Modified' = Modified
      /\ w.dialog = NoDialog /\ ~w.finishing /\ (kind = "saveas" => ~w.saveJob)
  BY DEF IInv, FieldsInv, Ask, Usable, Modal, Modified, Rows
<1>4. /\ w' \in Windows
      /\ w'.open = w.open /\ w'.saveJob = w.saveJob /\ w'.finishing = w.finishing
      /\ w'.dialog = w.dialog /\ w'.question = [kind |-> kind, images |-> s]
  BY <1>1, <1>2, <1>3 DEF Windows
<1>5. JobsInv' /\ FieldsInv'
  BY <1>4, JobsKept DEF IInv, FieldsInv, Ask
<1>6. WritersInv' /\ DialogInv' /\ ClosingInv'
  <2>1. w'.question.kind = kind /\ w'.question.images = s
    BY <1>4
  <2>2. w'.dialog.marked \subseteq w'.dialog.unsaved
    BY <1>3, <1>4 DEF IInv, DialogInv
  <2> QED BY <1>2, <1>3, <1>4, <2>1, <2>2, Kept DEF IInv, Ask
<1> QED BY <1>3, <1>4, <1>5, <1>6 DEF IInv, LossesAreKnown

LEMMA CancelKeeps ==
  ASSUME IInv, Cancel
  PROVE  IInv'
<1>1. w \in Windows /\ w.open /\ w' = [w EXCEPT !.question = NoQuestion] /\ Modified' = Modified
  BY DEF IInv, FieldsInv, Cancel, Modified, Rows
<1>2. NoQuestion.kind = "none" /\ NoQuestion \in [kind : {"none", "saveas", "trash"}, images : Seq(Images)]
  BY DEF NoQuestion
<1>3. /\ w' \in Windows
      /\ w'.open = w.open /\ w'.saveJob = w.saveJob /\ w'.finishing = w.finishing
      /\ w'.dialog = w.dialog /\ w'.question = NoQuestion
  BY <1>1, <1>2 DEF Windows
<1>4. JobsInv' /\ FieldsInv'
  BY <1>3, JobsKept DEF IInv, FieldsInv, Cancel
<1>5. WritersInv' /\ DialogInv' /\ ClosingInv'
  <2>1. w'.dialog.marked \subseteq w'.dialog.unsaved
    BY <1>1, <1>3 DEF IInv, DialogInv
  <2> QED BY <1>1, <1>2, <1>3, <2>1, Kept DEF IInv, Cancel
<1> QED BY <1>1, <1>3, <1>4, <1>5 DEF IInv, LossesAreKnown

LEMMA ChangedOutsideKeeps ==
  ASSUME MaxImages \in Nat, IInv, NEW n \in Names, ChangedOutside(n)
  PROVE  IInv'
<1>1. w' = w /\ w.open /\ Modified' = Modified /\ w \in Windows
  BY DEF IInv, FieldsInv, ChangedOutside, Modified, Rows
<1>2. disk' \in [Names -> Contents]
  <2>1. None \in Contents /\ Foreign \in Contents /\ Broken \in Contents
    BY DEF None, Foreign, Broken, Contents
  <2> QED BY <2>1 DEF IInv, FieldsInv, ChangedOutside
<1>3. JobsInv' /\ FieldsInv'
  BY <1>1, <1>2, JobsKept DEF IInv, FieldsInv, ChangedOutside
<1>4. WritersInv' /\ DialogInv' /\ ClosingInv'
  <2>1. /\ w'.dialog.marked \subseteq w'.dialog.unsaved
        /\ w'.question # NoQuestion => w.dialog = NoDialog /\ ~w.finishing
        /\ w'.question.kind = "saveas" => ~w.saveJob /\ w'.question.images # <<>>
    BY <1>1 DEF IInv, DialogInv
  <2> QED BY <1>1, <2>1, Kept DEF IInv, ChangedOutside
<1> QED BY <1>1, <1>3, <1>4 DEF IInv, LossesAreKnown

LEMMA SaveToggledKeeps ==
  ASSUME IInv, NEW i \in Images, SaveToggled(i)
  PROVE  IInv'
<1>1. /\ w \in Windows /\ w.open /\ Modified' = Modified /\ i \in w.dialog.unsaved
      /\ w' = [w EXCEPT !.dialog.marked = SymDiff(@, {i})]
  BY DEF IInv, FieldsInv, SaveToggled, Modified, Rows
<1>2. /\ w'.open = w.open /\ w'.saveJob = w.saveJob /\ w'.finishing = w.finishing
      /\ w'.dialog = [w.dialog EXCEPT !.marked = SymDiff(@, {i})] /\ w'.question = w.question
      /\ w.dialog \in [unsaved : SUBSET Images, marked : SUBSET Images]
  BY <1>1 DEF Windows
<1>3. w'.dialog.unsaved = w.dialog.unsaved /\ w'.dialog.marked = SymDiff(w.dialog.marked, {i})
  BY <1>2
<1>4. w'.dialog.marked \subseteq w'.dialog.unsaved
  BY <1>1, <1>3 DEF IInv, DialogInv, SymDiff
<1>5. w.dialog # NoDialog /\ w'.dialog # NoDialog
  BY <1>1, <1>3 DEF NoDialog, ConfirmationDialog
<1>6. w' \in Windows
  BY <1>1, <1>2, <1>3, <1>4 DEF Windows
<1>7. JobsInv' /\ FieldsInv'
  BY <1>6, JobsKept DEF IInv, FieldsInv, SaveToggled
<1>8. WritersInv' /\ DialogInv' /\ ClosingInv'
  <2>1. /\ w'.question # NoQuestion => w.dialog = NoDialog /\ ~w.finishing
        /\ w'.question.kind = "saveas" => ~w.saveJob /\ w'.question.images # <<>>
    BY <1>1, <1>2 DEF IInv, DialogInv
  <2> QED BY <1>1, <1>2, <1>3, <1>4, <1>5, <2>1, Kept DEF IInv, SaveToggled
<1> QED BY <1>1, <1>2, <1>7, <1>8 DEF IInv, LossesAreKnown
-----------------------------------------------------------------------------
(* Steps that ask the render thread *)

LEMMA TransformKeeps ==
  ASSUME MaxImages \in Nat, IInv, Transform
  PROVE  IInv'
<1>1. PICK s \in Selections : Enqueue(Job("transform", s))
  BY DEF Transform
<1> DEFINE job == Job("transform", s)
<1>2. /\ job \in JobType /\ job.kind = "transform" /\ job.images = s /\ job.pos = 1
      /\ ~job.closes /\ s \in Seq(Images) /\ s # <<>>
  BY SelectionsAre, NewJob
<1> HIDE DEF job
<1>3. Ready(job) /\ ~Writes(job)
  <2>1. Len(s) >= 1
    BY <1>2
  <2> QED BY <1>2, <2>1 DEF Ready, Writes
<1>4. w' = w /\ w.open /\ w.dialog = NoDialog /\ ~w.finishing /\ w.question = NoQuestion
  BY DEF Transform, Usable, Modal
<1>5. w.saveJob \in BOOLEAN
  BY DEF IInv, FieldsInv, Windows
<1>6. JobsInv' /\ WritersInv' /\ DialogInv' /\ ClosingInv'
  <2>1. w'.saveJob = (w.saveJob \/ Writes(job))
    BY <1>3, <1>4, <1>5
  <2>2. Enqueue(job)
    BY <1>1 DEF job
  <2> QED BY <1>2, <1>3, <1>4, <2>1, <2>2, KeptAdded DEF IInv, Transform
<1>7. FieldsInv'
  BY <1>4 DEF IInv, FieldsInv, Transform
<1> QED BY <1>4, <1>6, <1>7 DEF IInv, LossesAreKnown

LEMMA CmdSaveKeeps ==
  ASSUME MaxImages \in Nat, IInv, CmdSave
  PROVE  IInv'
<1>1. PICK s \in Selections : SaveImages(s, FALSE)
  BY DEF CmdSave
<1> DEFINE job == [Job("save", s) EXCEPT !.closes = FALSE]
<1>2. /\ job \in JobType /\ job.kind = "save" /\ job.images = s /\ job.pos = 1
      /\ ~job.closes /\ s \in Seq(Images) /\ s # <<>>
  <2>1. s \in Seq(Images) /\ s # <<>> /\ <<>> \in Seq(Names)
    BY SelectionsAre
  <2> QED BY <2>1 DEF Job, JobType
<1>3. Enqueue(job) /\ w' = [w EXCEPT !.saveJob = TRUE]
  BY <1>1 DEF SaveImages
<1> HIDE DEF job
<1>4. Ready(job) /\ Writes(job)
  <2>1. Len(s) >= 1
    BY <1>2
  <2> QED BY <1>2, <2>1 DEF Ready, Writes
<1>5. /\ w \in Windows /\ w.open /\ w.dialog = NoDialog /\ ~w.finishing
      /\ w.question = NoQuestion /\ ~w.saveJob
  BY DEF IInv, FieldsInv, CmdSave, Usable, Modal
<1>6. /\ w' \in Windows /\ w'.open = w.open /\ w'.saveJob = TRUE
      /\ w'.dialog = w.dialog /\ w'.question = w.question /\ w'.finishing = w.finishing
  BY <1>3, <1>5 DEF Windows
<1>7. JobsInv' /\ WritersInv' /\ DialogInv' /\ ClosingInv'
  <2>1. w'.saveJob = (w.saveJob \/ Writes(job))
    BY <1>4, <1>6
  <2> QED BY <1>2, <1>3, <1>4, <1>5, <1>6, <2>1, KeptAdded DEF IInv, CmdSave
<1>8. FieldsInv'
  BY <1>6 DEF IInv, FieldsInv, CmdSave
<1> QED BY <1>5, <1>6, <1>7, <1>8 DEF IInv, LossesAreKnown

LEMMA CmdSaveAsKeeps ==
  ASSUME IInv, CmdSaveAs
  PROVE  IInv'
<1>1. PICK targets \in [DOMAIN w.question.images -> Names] :
        Enqueue(SaveAsJob(w.question.images, targets))
  BY DEF CmdSaveAs
<1> DEFINE s == w.question.images
           job == [Job("saveas", s) EXCEPT !.targets = targets]
<1>2. /\ w \in Windows /\ w.open /\ w.question.kind = "saveas" /\ ~w.saveJob
      /\ s \in Seq(Images) /\ s # <<>>
  BY DEF IInv, FieldsInv, DialogInv, CmdSaveAs, Windows
<1>3. targets \in Seq(Names) /\ Len(targets) = Len(s) /\ Len(s) >= 1
  <2>1. Len(s) \in Nat /\ DOMAIN s = 1 .. Len(s) /\ Len(s) # 0
    BY <1>2, LenProperties, EmptySeq
  <2> HIDE DEF s
  <2>2. targets \in [1 .. Len(s) -> Names]
    BY <2>1 DEF s
  <2> QED BY <2>1, <2>2
<1>4. /\ job \in JobType /\ job.kind = "saveas" /\ job.images = s /\ job.pos = 1
      /\ ~job.closes /\ job.targets = targets
  <2> HIDE DEF s
  <2>1. s \in Seq(Images) /\ targets \in Seq(Names) /\ <<>> \in Seq(Names)
    BY <1>2, <1>3
  <2> QED BY <2>1 DEF Job, JobType
<1>5. Enqueue(job)
  BY <1>1 DEF SaveAsJob
<1> HIDE DEF job
<1>6. Ready(job) /\ Writes(job)
  BY <1>2, <1>3, <1>4 DEF Ready, Writes
<1>7. w.dialog = NoDialog /\ ~w.finishing
  <2>1. w.question # NoQuestion
    BY <1>2 DEF NoQuestion
  <2> QED BY <1>2, <2>1 DEF IInv, DialogInv
<1>8. /\ w' \in Windows /\ w'.open = w.open /\ w'.saveJob = TRUE
      /\ w'.dialog = w.dialog /\ w'.question = NoQuestion /\ w'.finishing = w.finishing
  <2>1. NoQuestion \in [kind : {"none", "saveas", "trash"}, images : Seq(Images)]
    BY DEF NoQuestion
  <2> QED BY <1>2, <2>1 DEF CmdSaveAs, Windows
<1>9. JobsInv' /\ WritersInv' /\ DialogInv' /\ ClosingInv'
  <2>1. w'.saveJob = (w.saveJob \/ Writes(job))
    BY <1>6, <1>8
  <2> QED BY <1>2, <1>4, <1>5, <1>6, <1>7, <1>8, <2>1, KeptAdded DEF IInv, CmdSaveAs
<1>10. FieldsInv'
  BY <1>8 DEF IInv, FieldsInv, CmdSaveAs
<1> QED BY <1>2, <1>8, <1>9, <1>10 DEF IInv, LossesAreKnown

LEMMA CmdWallpaperKeeps ==
  ASSUME MaxImages \in Nat, IInv, CmdWallpaper
  PROVE  IInv'
<1>1. /\ w \in Windows /\ w.open /\ w.dialog = NoDialog /\ ~w.finishing
      /\ w.question = NoQuestion /\ Modified' = Modified
  BY DEF IInv, FieldsInv, CmdWallpaper, Usable, Modal, Modified, Rows
<1>2. PICK i \in Rows, persistent \in BOOLEAN :
        IF persistent
        THEN SetWallpaper(disk[image[i].file]) /\ UNCHANGED <<w, queue>>
        ELSE /\ w' = [w EXCEPT !.copyJob = TRUE]
             /\ Enqueue(CopyJob(i))
             /\ UNCHANGED wall
  BY Zenon DEF CmdWallpaper
<1>3. i \in Images /\ image[i].file \in Names /\ disk[image[i].file] \in Contents
  BY DEF IInv, FieldsInv, Rows, ImageRecords
<1>4. CASE persistent
  <2>1. w' = w /\ queue' = queue /\ wall' \in Contents
    BY <1>2, <1>3, <1>4 DEF SetWallpaper
  <2>2. JobsInv' /\ FieldsInv'
    BY <2>1, JobsKept DEF IInv, FieldsInv, CmdWallpaper
  <2>3. WritersInv' /\ DialogInv' /\ ClosingInv'
    <3>1. /\ w'.dialog.marked \subseteq w'.dialog.unsaved
          /\ w'.question # NoQuestion => w.dialog = NoDialog /\ ~w.finishing
          /\ w'.question.kind = "saveas" => ~w.saveJob /\ w'.question.images # <<>>
      BY <1>1, <2>1 DEF IInv, DialogInv
    <3> QED BY <1>1, <2>1, <3>1, Kept DEF IInv, CmdWallpaper
  <2> QED BY <1>1, <2>1, <2>2, <2>3 DEF IInv, LossesAreKnown
<1>5. CASE ~persistent
  <2> DEFINE job == CopyJob(i)
  <2>1. /\ job \in JobType /\ job.kind = "copy" /\ job.images = <<i>> /\ job.pos = 1
        /\ ~job.closes /\ job.targets = <<image[i].file>>
    <3>1. <<i>> \in Seq(Images) /\ <<image[i].file>> \in Seq(Names) /\ <<>> \in Seq(Names)
      BY <1>3
    <3> QED BY <3>1 DEF CopyJob, Job, JobType
  <2>2. Enqueue(job) /\ w' = [w EXCEPT !.copyJob = TRUE] /\ wall' = wall
    BY <1>2, <1>5
  <2> HIDE DEF job
  <2>3. Ready(job) /\ ~Writes(job)
    <3>1. Len(<<i>>) = 1 /\ Len(<<image[i].file>>) = 1 /\ <<i>> # <<>>
      OBVIOUS
    <3> QED BY <2>1, <3>1 DEF Ready, Writes
  <2>4. /\ w' \in Windows /\ w'.open = w.open /\ w'.saveJob = w.saveJob /\ w.saveJob \in BOOLEAN
        /\ w'.dialog = w.dialog /\ w'.question = w.question /\ w'.finishing = w.finishing
    BY <1>1, <2>2 DEF Windows
  <2>5. JobsInv' /\ WritersInv' /\ DialogInv' /\ ClosingInv'
    <3>1. w'.saveJob = (w.saveJob \/ Writes(job))
      BY <2>3, <2>4
    <3> QED BY <1>1, <2>1, <2>2, <2>3, <2>4, <3>1, KeptAdded DEF IInv, CmdWallpaper
  <2>6. FieldsInv'
    BY <2>2, <2>4 DEF IInv, FieldsInv, CmdWallpaper
  <2> QED BY <1>1, <2>4, <2>5, <2>6 DEF IInv, LossesAreKnown
<1> QED BY <1>4, <1>5

LEMMA MoveToTrashKeeps ==
  ASSUME MaxImages \in Nat, IInv, MoveToTrash
  PROVE  IInv'
<1> DEFINE images == w.question.images
           gone(k) == {images[x] : x \in 1 .. k}
<1>1. /\ w \in Windows /\ w.open /\ w.question.kind = "trash" /\ images \in Seq(Images)
      /\ w.question \in [kind : {"none", "saveas", "trash"}, images : Seq(Images)]
      /\ Len(images) \in Nat
  BY LenProperties DEF IInv, FieldsInv, MoveToTrash, Windows
<1>2. PICK k \in 0 .. Len(images) :
        /\ disk' = [n \in Names |->
                      IF \E i \in gone(k) : image[i].file = n THEN None ELSE disk[n]]
        /\ image' = [i \in Images |-> [image[i] EXCEPT !.row = @ /\ i \notin gone(k)]]
        /\ w' = [w EXCEPT !.question = IF k + 1 >= Len(images) THEN NoQuestion
                                       ELSE [@ EXCEPT !.images = SubSeq(images, k + 2, Len(images))],
                          !.shown = IF @ \in gone(k) THEN 0 ELSE @]
  BY DEF MoveToTrash
<1>3. w.dialog = NoDialog /\ ~w.finishing
  <2>1. w.question # NoQuestion
    BY <1>1 DEF NoQuestion
  <2> QED BY <1>1, <2>1 DEF IInv, DialogInv
<1> DEFINE question == IF k + 1 >= Len(images) THEN NoQuestion
                       ELSE [w.question EXCEPT !.images = SubSeq(images, k + 2, Len(images))]
<1>4. question \in [kind : {"none", "saveas", "trash"}, images : Seq(Images)] /\ question.kind # "saveas"
  <2>1. CASE k + 1 >= Len(images)
    BY <2>1 DEF NoQuestion
  <2>2. CASE ~(k + 1 >= Len(images))
    <3>1. k + 2 \in 1 .. Len(images)
      BY <1>1, <2>2
    <3>2. SubSeq(images, k + 2, Len(images)) \in Seq(Images)
      BY <1>1, <3>1, SubSeqProperties
    <3>3. question = [w.question EXCEPT !.images = SubSeq(images, k + 2, Len(images))]
      BY <2>2
    <3> HIDE DEF question
    <3> QED BY <1>1, <3>2, <3>3
  <2> QED BY <2>1, <2>2
<1>5. /\ w' = [w EXCEPT !.question = question, !.shown = IF @ \in gone(k) THEN 0 ELSE @]
  BY <1>2
<1> HIDE DEF question, gone
<1>6. /\ w' \in Windows /\ w'.open = w.open /\ w'.saveJob = w.saveJob
      /\ w'.dialog = w.dialog /\ w'.question = question /\ w'.finishing = w.finishing
  BY <1>1, <1>4, <1>5 DEF Windows
<1>7. disk' \in [Names -> Contents] /\ image' \in [Images -> ImageRecords] /\ Modified' \subseteq Modified
  <2>1. None \in Contents /\ disk \in [Names -> Contents] /\ image \in [Images -> ImageRecords]
    BY DEF None, Contents, IInv, FieldsInv
  <2>2. disk' \in [Names -> Contents]
    BY <1>2, <2>1
  <2>3. image' \in [Images -> ImageRecords]
    BY <1>2, <2>1 DEF ImageRecords
  <2>4. \A i \in Images : image'[i].row => image[i].row /\ image'[i].modified = image[i].modified
    BY <1>2, <2>1 DEF ImageRecords
  <2> QED BY <2>2, <2>3, <2>4 DEF Modified, Rows
<1>8. JobsInv' /\ FieldsInv'
  BY <1>6, <1>7, JobsKept DEF IInv, FieldsInv, MoveToTrash
<1>9. WritersInv' /\ DialogInv' /\ ClosingInv'
  <2>1. w'.dialog.marked \subseteq w'.dialog.unsaved
    BY <1>1, <1>6 DEF IInv, DialogInv
  <2> QED BY <1>1, <1>3, <1>4, <1>6, <1>7, <2>1, Kept DEF IInv, MoveToTrash
<1> QED BY <1>1, <1>6, <1>8, <1>9 DEF IInv, LossesAreKnown
-----------------------------------------------------------------------------
(* Closing *)

\* A job of the close dialog is the one that writes.
LEMMA CloserIsWriter ==
  ASSUME WritersInv, ClosingInv, ~w.saveJob
  PROVE  /\ \A job \in Pending : ~job.closes
         /\ \A job \in ToSet(ended) : ~job.closes
<1>1. ~HasWriter(queue) /\ ~HasWriter(running) /\ ~HasWriter(ended)
  BY DEF WritersInv
<1> QED BY <1>1 DEF ClosingInv, Closing, Pending, HasWriter, Writes

\* The images of the jobs that wait or run
LEMMA LateImages ==
  ASSUME JobsInv
  PROVE  /\ OnTheirWay \in SUBSET Images
         /\ \A job \in Pending : ToSet(job.images) \subseteq OnTheirWay
<1>1. \A job \in JobType : ToSet(job.images) \in SUBSET Images
  <2> SUFFICES ASSUME NEW job \in JobType PROVE ToSet(job.images) \in SUBSET Images
    OBVIOUS
  <2>1. job.images \in Seq(Images)
    BY DEF JobType
  <2> QED BY <2>1, SequenceElements
<1>2. Pending \in SUBSET JobType
  BY SequenceElements DEF JobsInv, Pending
<1> QED BY <1>1, <1>2 DEF OnTheirWay, Pending

\* What the end of both callers of eom_window_unsaved_images_confirm leaves
LEMMA ConfirmGives ==
  ASSUME IInv, NEW s \in Windows, s.open, UnsavedImagesConfirm(s) = w'
  PROVE  /\ w' \in Windows
         /\ Disabled \/ Modified = {} => ~w'.open
         /\ ~(Disabled \/ Modified = {}) =>
              /\ w'.open /\ w'.saveJob = s.saveJob /\ w'.finishing = s.finishing
              /\ w'.question = s.question
              /\ w'.dialog.unsaved = Modified /\ w'.dialog.marked = Modified
<1>1. Modified \in SUBSET Images
  BY DEF Modified, Rows
<1>2. CASE Disabled \/ Modified = {}
  <2>1. w' = Destroyed(s)
    BY <1>2 DEF UnsavedImagesConfirm
  <2>2. /\ NoDialog \in [unsaved : SUBSET Images, marked : SUBSET Images]
        /\ NoQuestion \in [kind : {"none", "saveas", "trash"}, images : Seq(Images)]
    BY DEF NoDialog, ConfirmationDialog, NoQuestion
  <2> QED BY <1>2, <2>1, <2>2 DEF Destroyed, Windows
<1>3. CASE ~(Disabled \/ Modified = {})
  <2>1. w' = [s EXCEPT !.dialog = [unsaved |-> Modified, marked |-> Modified]]
    BY <1>3 DEF UnsavedImagesConfirm, ConfirmationDialog
  <2> QED BY <1>1, <1>3, <2>1 DEF Windows
<1> QED BY <1>2, <1>3

LEMMA CloseKeeps ==
  ASSUME MaxImages \in Nat, IInv, Close
  PROVE  IInv'
<1>1. OnTheirWay \in SUBSET Images /\ \A job \in Pending : ToSet(job.images) \subseteq OnTheirWay
  BY LateImages DEF IInv
<1>2. /\ w \in Windows /\ w.open /\ w.dialog = NoDialog /\ w.question = NoQuestion /\ ~w.finishing
      /\ h \in Histories /\ Modified' = Modified /\ Modified \in SUBSET Images
      /\ h' = [h EXCEPT !.late = OnTheirWay, !.declined = IF Disabled THEN Images ELSE @]
  BY DEF IInv, FieldsInv, Close, Modal, Modified, Rows
<1>3. /\ h' \in Histories /\ h'.late = OnTheirWay /\ h'.failed = h.failed /\ h'.cancelled = h.cancelled
      /\ Disabled => h'.declined = Images
  BY <1>1, <1>2 DEF Histories
<1>4. JobsInv' /\ Pending' = Pending
  BY JobsKept DEF IInv, Close, Pending
<1>5. NoQuestion.kind # "saveas"
  BY DEF NoQuestion
<1>6. CASE w.saveJob
  <2>1. w' = [w EXCEPT !.finishing = TRUE, !.sensitive = FALSE]
    BY <1>6 DEF Close
  <2>2. /\ w' \in Windows /\ w'.open /\ w'.saveJob = w.saveJob /\ w'.dialog = NoDialog
        /\ w'.question = NoQuestion
    BY <1>2, <2>1 DEF Windows
  <2>3. WritersInv'
    BY <1>2, <2>2 DEF IInv, WritersInv, Close
  <2>4. DialogInv'
    BY <1>2, <1>3, <1>5, <2>2 DEF IInv, DialogInv
  <2>5. ClosingInv'
    BY <1>2, <1>3, <1>4 DEF IInv, ClosingInv, Closing, Close
  <2>6. FieldsInv'
    BY <1>3, <2>2 DEF IInv, FieldsInv, Close
  <2> QED BY <1>4, <2>2, <2>3, <2>4, <2>5, <2>6 DEF IInv, LossesAreKnown
<1>7. CASE ~w.saveJob
  <2>1. UnsavedImagesConfirm(w) = w'
    BY <1>7 DEF Close
  <2>2. FieldsInv'
    BY <1>2, <1>3, <2>1, ConfirmGives DEF IInv, FieldsInv, Close
  <2>3. CASE Disabled \/ Modified = {}
    <3>1. ~w'.open
      BY <1>2, <2>1, <2>3, ConfirmGives
    <3>2. LossesAreKnown'
      BY <1>2, <1>3, <2>3 DEF LossesAreKnown
    <3> QED BY <1>4, <2>2, <3>1, <3>2 DEF IInv
  <2>4. CASE ~(Disabled \/ Modified = {})
    <3>1. /\ w'.open /\ w'.saveJob = w.saveJob /\ w'.finishing = w.finishing
          /\ w'.question = w.question
          /\ w'.dialog.unsaved = Modified /\ w'.dialog.marked = Modified
      BY <1>2, <2>1, <2>4, ConfirmGives
    <3>2. WritersInv'
      BY <1>2, <3>1 DEF IInv, WritersInv, Close
    <3>3. DialogInv'
      BY <1>1, <1>2, <1>3, <1>4, <1>5, <3>1 DEF DialogInv, TransformsAreLate
    <3>4. ClosingInv'
      <4>1. /\ \A job \in Pending : ~job.closes
            /\ \A job \in ToSet(ended) : ~job.closes
        BY <1>2, <1>7, CloserIsWriter DEF IInv
      <4> QED BY <1>4, <4>1 DEF ClosingInv, Close
    <3> QED BY <1>4, <2>2, <3>1, <3>2, <3>3, <3>4 DEF IInv, LossesAreKnown
  <2> QED BY <2>3, <2>4
<1> QED BY <1>6, <1>7

\* Yes: what is not marked is declined, the rest is given to the job.
LEMMA RespondYesKeeps ==
  ASSUME MaxImages \in Nat, IInv, RespondYes
  PROVE  IInv'
<1>0. PICK s, job : s = SelectedImages(w.dialog) /\ job = [Job("save", s) EXCEPT !.closes = TRUE]
  OBVIOUS
<1>1. /\ w \in Windows /\ w.open /\ ~w.saveJob /\ h \in Histories /\ Modified' = Modified
      /\ w.dialog # NoDialog /\ w.question = NoQuestion /\ ~w.finishing
      /\ Modified \subseteq w.dialog.unsaved \cup h.late
      /\ w.dialog.marked \subseteq w.dialog.unsaved
      /\ TransformsAreLate
  BY DEF IInv, FieldsInv, DialogInv, RespondYes, Modified, Rows
<1>2. w.dialog.unsaved \in SUBSET Images /\ w.dialog.marked \in SUBSET Images
  BY <1>1 DEF Windows
<1>3. s \in Seq(Images) /\ w.dialog.unsaved \subseteq ToSet(s) \cup (w.dialog.unsaved \ w.dialog.marked)
  <2> DEFINE rows == IF Cardinality(w.dialog.unsaved) = 1 THEN w.dialog.unsaved ELSE w.dialog.marked
  <2>1. rows \in SUBSET Images /\ s = InOrder(rows)
    BY <1>0, <1>2 DEF SelectedImages
  <2>2. w.dialog.unsaved \subseteq rows \cup (w.dialog.unsaved \ w.dialog.marked)
    OBVIOUS
  <2> HIDE DEF rows
  <2>3. s \in Seq(Images) /\ ToSet(s) = rows
    BY <2>1, InOrderIs
  <2> QED BY <2>2, <2>3
<1>4. Enqueue(job) /\ w' = [w EXCEPT !.saveJob = TRUE]
  BY <1>0 DEF RespondYes, SaveImages
<1>5. /\ job \in JobType /\ job.kind = "save" /\ job.images = s /\ job.pos = 1 /\ job.closes
  <2>1. <<>> \in Seq(Names)
    OBVIOUS
  <2> QED BY <1>0, <1>3, <2>1 DEF Job, JobType
<1>6. Ready(job) /\ Writes(job) /\ Left(job) = ToSet(s)
  <2>1. Len(s) \in Nat /\ (s # <<>> => Len(s) # 0)
    BY <1>3, LenProperties, EmptySeq
  <2>2. Ready(job) /\ Writes(job)
    BY <1>5, <2>1 DEF Ready, Writes
  <2>3. DOMAIN s = 1 .. Len(s)
    BY <1>3, LenProperties
  <2> QED BY <1>5, <2>2, <2>3 DEF Left, ToSet
<1>7. h' = [h EXCEPT !.declined = w.dialog.unsaved \ w.dialog.marked]
  BY DEF RespondYes
<1>8. /\ h' \in Histories /\ h'.late = h.late
      /\ h'.declined = w.dialog.unsaved \ w.dialog.marked
  BY <1>1, <1>2, <1>7 DEF Histories
<1>9. /\ w' \in Windows /\ w'.open /\ w'.saveJob /\ w'.finishing = w.finishing
      /\ w'.dialog = w.dialog /\ w'.question = w.question
  BY <1>1, <1>4 DEF Windows
<1>10. /\ JobsInv' /\ Pending' = Pending \cup {job}
       /\ HasWriter(queue') <=> HasWriter(queue) \/ Writes(job)
       /\ Sole(queue) /\ (HasWriter(queue) => ~Writes(job)) => Sole(queue')
  BY <1>4, <1>5, <1>6, JobAdded DEF IInv, RespondYes
<1>11. WritersInv'
  BY <1>1, <1>6, <1>9, <1>10 DEF IInv, WritersInv, RespondYes
<1>12. DialogInv'
  <2>1. NoQuestion.kind # "saveas"
    BY DEF NoQuestion
  <2> QED BY <1>1, <1>5, <1>8, <1>9, <1>10, <2>1 DEF DialogInv, TransformsAreLate
<1>13. ClosingInv'
  <2>1. /\ \A j \in Pending : ~j.closes
        /\ \A j \in ToSet(ended) : ~j.closes
    BY <1>1, CloserIsWriter DEF IInv
  <2>2. Modified' \subseteq h'.declined \cup h'.late \cup Left(job)
    BY <1>1, <1>3, <1>6, <1>8
  <2>3. Closing(job, Left(job))'
    BY <1>1, <1>5, <1>9, <2>2 DEF Closing
  <2> QED BY <1>10, <2>1, <2>3 DEF ClosingInv, RespondYes
<1>14. FieldsInv'
  BY <1>8, <1>9 DEF IInv, FieldsInv, RespondYes
<1> QED BY <1>9, <1>10, <1>11, <1>12, <1>13, <1>14 DEF IInv, LossesAreKnown

LEMMA RespondNoKeeps ==
  ASSUME IInv, RespondNo
  PROVE  IInv'
<1>1. /\ w \in Windows /\ w.open /\ h \in Histories /\ Modified' = Modified
      /\ Modified \subseteq w.dialog.unsaved \cup h.late
  BY DEF IInv, FieldsInv, DialogInv, RespondNo, Modified, Rows
<1>2. /\ w' \in Windows /\ ~w'.open
  <2>1. /\ NoDialog \in [unsaved : SUBSET Images, marked : SUBSET Images]
        /\ NoQuestion \in [kind : {"none", "saveas", "trash"}, images : Seq(Images)]
    BY DEF NoDialog, ConfirmationDialog, NoQuestion
  <2> QED BY <1>1, <2>1 DEF RespondNo, Destroyed, Windows
<1>3. h' \in Histories /\ h'.declined = w.dialog.unsaved /\ h'.late = h.late
  <2>1. w.dialog.unsaved \in SUBSET Images /\ h' = [h EXCEPT !.declined = w.dialog.unsaved]
    BY <1>1 DEF Windows, RespondNo
  <2> QED BY <1>1, <2>1 DEF Histories
<1>4. JobsInv' /\ FieldsInv'
  BY <1>2, <1>3, JobsKept DEF IInv, FieldsInv, RespondNo
<1>5. LossesAreKnown'
  BY <1>1, <1>3 DEF LossesAreKnown
<1> QED BY <1>2, <1>4, <1>5 DEF IInv

LEMMA RespondCancelKeeps ==
  ASSUME IInv, RespondCancel
  PROVE  IInv'
<1>1. /\ w \in Windows /\ w.open /\ h \in Histories /\ Modified' = Modified
      /\ w.dialog # NoDialog /\ w.question = NoQuestion /\ ~w.finishing
      /\ w' = [w EXCEPT !.dialog = NoDialog]
      /\ h' = [h EXCEPT !.cancelled = @ \/ w.saveJob, !.declined = IF w.saveJob THEN @ ELSE {}]
  BY DEF IInv, FieldsInv, DialogInv, RespondCancel, Modified, Rows
<1>2. NoDialog \in [unsaved : SUBSET Images, marked : SUBSET Images] /\ NoDialog.marked = NoDialog.unsaved
  BY DEF NoDialog, ConfirmationDialog
<1>3. /\ w' \in Windows /\ w'.open /\ w'.saveJob = w.saveJob /\ w.saveJob \in BOOLEAN
      /\ w'.finishing = w.finishing /\ w'.dialog = NoDialog /\ w'.question = w.question
  BY <1>1, <1>2 DEF Windows
<1>4. /\ h' \in Histories /\ h'.cancelled = (h.cancelled \/ w.saveJob) /\ h'.late = h.late
  BY <1>1, <1>3 DEF Histories
<1>5. JobsInv' /\ FieldsInv' /\ Pending' = Pending
  BY <1>3, <1>4, JobsKept DEF IInv, FieldsInv, RespondCancel, Pending
<1>6. WritersInv'
  BY <1>1, <1>3 DEF IInv, WritersInv, RespondCancel
<1>7. DialogInv'
  <2>1. NoQuestion.kind # "saveas"
    BY DEF NoQuestion
  <2> QED BY <1>1, <1>2, <1>3, <2>1 DEF DialogInv
<1>8. ClosingInv'
  <2>1. CASE w.saveJob
    <3>1. h'.cancelled
      BY <1>4, <2>1
    <3> QED BY <1>1, <1>5, <3>1 DEF IInv, ClosingInv, Closing, RespondCancel
  <2>2. CASE ~w.saveJob
    <3>1. /\ \A job \in Pending : ~job.closes
          /\ \A job \in ToSet(ended) : ~job.closes
      BY <1>1, <2>2, CloserIsWriter DEF IInv
    <3> QED BY <1>5, <3>1 DEF ClosingInv, RespondCancel
  <2> QED BY <2>1, <2>2
<1> QED BY <1>3, <1>5, <1>6, <1>7, <1>8 DEF IInv, LossesAreKnown
-----------------------------------------------------------------------------
(* Jobs that have ended *)

LEMMA FinishedKeeps ==
  ASSUME MaxImages \in Nat, IInv, Finished
  PROVE  IInv'
<1>1. PICK job : job = Head(ended)
  OBVIOUS
<1>2. /\ w \in Windows /\ w.open /\ h \in Histories /\ ended # <<>> /\ ended \in Seq(JobType)
      /\ ended' = Tail(ended) /\ Modified' = Modified
  BY DEF IInv, FieldsInv, JobsInv, Finished, Modified, Rows
<1>3. /\ job \in JobType /\ ended' \in Seq(JobType) /\ ToSet(ended) = {job} \cup ToSet(ended')
      /\ HasWriter(ended) <=> Writes(job) \/ HasWriter(ended')
      /\ Sole(ended) => Sole(ended') /\ (Writes(job) => ~HasWriter(ended'))
  BY <1>1, <1>2, TailJob
<1>4. JobsInv' /\ Pending' = Pending
  BY <1>3 DEF IInv, JobsInv, Pending, Finished
<1>5. OnTheirWay \in SUBSET Images /\ \A j \in Pending : ToSet(j.images) \subseteq OnTheirWay
  BY LateImages DEF IInv
<1>6. h' = [h EXCEPT !.late = IF w.finishing /\ Writes(job) THEN OnTheirWay ELSE @]
  BY <1>1 DEF Finished
<1>7. /\ h' \in Histories /\ h'.declined = h.declined /\ h'.failed = h.failed
      /\ h'.cancelled = h.cancelled
      /\ h'.late = IF w.finishing /\ Writes(job) THEN OnTheirWay ELSE h.late
  BY <1>2, <1>5, <1>6 DEF Histories
<1>8. CASE Writes(job)
  <2>1. SaveFinished(job) /\ wall' = wall
    BY <1>1, <1>8 DEF Finished, Writes
  <2>2. PICK s : s = [w EXCEPT !.saveJob = FALSE]
    OBVIOUS
  <2>3. WritersInv /\ ~HasWriter(ended') /\ ~HasWriter(queue) /\ ~HasWriter(running)
    BY <1>2, <1>3, <1>8 DEF IInv, WritersInv
  <2>4. /\ s \in Windows /\ s.open /\ ~s.saveJob /\ s.finishing = w.finishing
        /\ s.dialog = w.dialog /\ s.question = w.question
    BY <1>2, <2>2 DEF Windows
  <2>5. /\ \A j \in Pending : ~j.closes
        /\ \A j \in ToSet(ended') : ~j.closes
    BY <1>2, <1>3, <2>3 DEF IInv, ClosingInv, Closing, Pending, HasWriter, Writes
  <2>6. (w'.open /\ ~w'.saveJob) => WritersInv' /\ ClosingInv'
    <3>1. WritersInv' \/ w'.saveJob
      BY <1>3, <2>3 DEF WritersInv, Finished
    <3>2. ClosingInv'
      BY <1>4, <2>5 DEF ClosingInv
    <3> QED BY <3>1, <3>2
  <2>7. CASE job.closes
    <3>1. w' = Destroyed(s)
      BY <2>1, <2>2, <2>7 DEF SaveFinished
    <3>2. w' \in Windows /\ ~w'.open
      <4>1. /\ NoDialog \in [unsaved : SUBSET Images, marked : SUBSET Images]
            /\ NoQuestion \in [kind : {"none", "saveas", "trash"}, images : Seq(Images)]
        BY DEF NoDialog, ConfirmationDialog, NoQuestion
      <4> QED BY <2>4, <3>1, <4>1 DEF Destroyed, Windows
    <3>3. Closing(job, {})
      BY <1>2, <1>3, <2>7 DEF IInv, ClosingInv
    <3>4. LossesAreKnown'
      BY <1>2, <1>7, <3>3 DEF LossesAreKnown, Closing, IInv, DialogInv
    <3>5. FieldsInv'
      BY <1>7, <2>1, <3>2 DEF IInv, FieldsInv, Finished
    <3> QED BY <1>4, <3>2, <3>4, <3>5 DEF IInv
  <2>8. CASE ~job.closes /\ w.finishing
    <3>1. PICK t : t = [s EXCEPT !.finishing = FALSE]
      OBVIOUS
    <3>2. /\ t \in Windows /\ t.open /\ ~t.saveJob /\ ~t.finishing /\ t.question = w.question
      BY <2>4, <3>1 DEF Windows
    <3>3. UnsavedImagesConfirm(t) = w'
      BY <2>1, <2>2, <2>8, <3>1 DEF SaveFinished
    <3>4. w.question = NoQuestion /\ (Disabled => h.declined = Images)
      BY <1>2, <2>8 DEF IInv, DialogInv
    <3>5. FieldsInv'
      BY <1>7, <2>1, <3>2, <3>3, ConfirmGives DEF IInv, FieldsInv, Finished
    <3>6. CASE Disabled \/ Modified = {}
      <4>1. ~w'.open
        BY <3>2, <3>3, <3>6, ConfirmGives
      <4>2. Modified \in SUBSET Images
        BY DEF Modified, Rows
      <4>3. LossesAreKnown'
        BY <1>2, <1>7, <3>4, <3>6, <4>2 DEF LossesAreKnown
      <4> QED BY <1>4, <3>5, <4>1, <4>3 DEF IInv
    <3>7. CASE ~(Disabled \/ Modified = {})
      <4>1. /\ w'.open /\ ~w'.saveJob /\ ~w'.finishing /\ w'.question = NoQuestion
            /\ w'.dialog.unsaved = Modified /\ w'.dialog.marked = Modified
        BY <3>2, <3>3, <3>4, <3>7, ConfirmGives
      <4>2. h'.late = OnTheirWay
        BY <1>7, <1>8, <2>8
      <4>3. DialogInv'
        <5>1. NoQuestion.kind # "saveas"
          BY DEF NoQuestion
        <5> QED BY <1>2, <1>4, <1>5, <4>1, <4>2, <5>1 DEF DialogInv, TransformsAreLate
      <4> QED BY <1>4, <2>6, <3>5, <4>1, <4>3 DEF IInv, LossesAreKnown
    <3> QED BY <3>6, <3>7
  <2>9. CASE ~job.closes /\ ~w.finishing
    <3>1. w' = s
      BY <2>1, <2>2, <2>9 DEF SaveFinished
    <3>2. h'.late = h.late
      BY <1>7, <2>9
    <3>3. DialogInv'
      BY <1>2, <1>4, <1>7, <2>4, <2>9, <3>1, <3>2 DEF IInv, DialogInv, TransformsAreLate
    <3>4. FieldsInv'
      BY <1>7, <2>1, <2>4, <3>1 DEF IInv, FieldsInv, Finished
    <3> QED BY <1>4, <2>4, <2>6, <3>1, <3>3, <3>4 DEF IInv, LossesAreKnown
  <2> QED BY <2>7, <2>8, <2>9
<1>9. CASE ~Writes(job)
  <2>1. /\ w' = [w EXCEPT !.copyJob = FALSE] \/ w' = w
        /\ wall' \in Contents
    <3>1. CASE job.kind = "copy"
      <4>1. CopyFinished(job)
        BY <1>1, <1>9, <3>1 DEF Finished, Writes
      <4>2. job.pos \in Contents /\ None \in Contents
        BY <1>3, <3>1 DEF IInv, JobsInv, None, Contents
      <4> QED BY <4>1, <4>2 DEF CopyFinished, SetWallpaper
    <3>2. CASE job.kind # "copy"
      <4>1. w' = w /\ wall' = wall
        BY <1>1, <1>9, <3>2 DEF Finished
      <4> QED BY <4>1 DEF IInv, FieldsInv
    <3> QED BY <3>1, <3>2
  <2>2. /\ w' \in Windows /\ w'.open /\ w'.saveJob = w.saveJob /\ w'.finishing = w.finishing
        /\ w'.dialog = w.dialog /\ w'.question = w.question
    BY <1>2, <2>1 DEF Windows
  <2>3. h'.late = h.late
    BY <1>7, <1>9
  <2>4. FieldsInv'
    BY <1>7, <2>1, <2>2 DEF IInv, FieldsInv, Finished
  <2>5. WritersInv'
    BY <1>2, <1>3, <1>9, <2>2 DEF IInv, WritersInv, Finished
  <2>6. DialogInv'
    BY <1>2, <1>4, <1>7, <2>2, <2>3 DEF IInv, DialogInv, TransformsAreLate
  <2>7. ClosingInv'
    BY <1>2, <1>3, <1>4, <1>7, <2>2, <2>3 DEF IInv, ClosingInv, Closing
  <2> QED BY <1>4, <2>2, <2>4, <2>5, <2>6, <2>7 DEF IInv, LossesAreKnown
<1> QED BY <1>8, <1>9

LEMMA DequeueKeeps ==
  ASSUME IInv, Dequeue
  PROVE  IInv'
<1>1. PICK job : job = Head(queue)
  OBVIOUS
<1>2. /\ queue \in Seq(JobType) /\ queue # <<>> /\ running = <<>> /\ w.open
      /\ queue' = Tail(queue) /\ running' = <<job>> /\ w' = w /\ Modified' = Modified
  BY <1>1 DEF IInv, JobsInv, Dequeue, Modified, Rows
<1>3. /\ job \in JobType /\ queue' \in Seq(JobType) /\ ToSet(queue) = {job} \cup ToSet(queue')
      /\ HasWriter(queue) <=> Writes(job) \/ HasWriter(queue')
      /\ Sole(queue) => Sole(queue') /\ (Writes(job) => ~HasWriter(queue'))
  BY <1>1, <1>2, TailJob
<1>4. /\ running' \in Seq(JobType) /\ ToSet(running') = {job} /\ Sole(running')
      /\ HasWriter(running') <=> Writes(job)
  BY <1>2, <1>3, SingleElements
<1>5. ToSet(running) = {} /\ ~HasWriter(running)
  BY <1>2, EmptyElements
<1>6. Pending' = Pending
  BY <1>3, <1>4, <1>5 DEF Pending
<1>7. JobsInv' /\ FieldsInv'
  <2>1. running' = <<Head(running')>>
    BY <1>2
  <2> QED BY <1>3, <1>4, <1>6, <2>1 DEF IInv, JobsInv, FieldsInv, Dequeue
<1>8. WritersInv'
  BY <1>2, <1>3, <1>4, <1>5 DEF IInv, WritersInv, Dequeue
<1>9. DialogInv' /\ ClosingInv'
  BY <1>2, <1>6 DEF IInv, DialogInv, ClosingInv, Closing, TransformsAreLate, Dequeue
<1> QED BY <1>2, <1>7, <1>8, <1>9 DEF IInv, LossesAreKnown
-----------------------------------------------------------------------------
(* The render thread *)

\* The job that runs
LEMMA RunningIs ==
  ASSUME IInv, running # <<>>, NEW job, job = running[1]
  PROVE  /\ job \in JobType /\ Ready(job) /\ running = <<job>> /\ ToSet(running) = {job}
         /\ job \in Pending /\ Pending = ToSet(queue) \cup {job}
         /\ HasWriter(running) <=> Writes(job)
         /\ ended \in Seq(JobType)
<1>1. running \in Seq(JobType) /\ running = <<Head(running)>> /\ ended \in Seq(JobType)
  BY DEF IInv, JobsInv
<1>2. job = Head(running) /\ job \in JobType
  BY <1>1, TailElements
<1>3. ToSet(<<job>>) = {job} /\ (HasWriter(<<job>>) <=> Writes(job))
  BY <1>2, SingleElements
<1>4. running = <<job>>
  BY <1>1, <1>2
<1>5. ToSet(running) = {job} /\ (HasWriter(running) <=> Writes(job))
  BY <1>3, <1>4
<1> QED BY <1>1, <1>2, <1>4, <1>5 DEF IInv, JobsInv, Pending

\* The job that runs has ended, as it says.
LEMMA JobEnds ==
  ASSUME IInv, running # <<>>, w.open, UNCHANGED <<w, queue>>,
         NEW job, job = running[1],
         NEW last \in JobType, last.kind = job.kind, last.closes = job.closes,
         last.kind = "copy" => last.pos \in Contents,
         running' = <<>>, ended' = Append(ended, last)
  PROVE  /\ JobsInv' /\ WritersInv'
         /\ Pending' = ToSet(queue) /\ ToSet(ended') = ToSet(ended) \cup {last}
<1>1. /\ job \in JobType /\ Pending = ToSet(queue) \cup {job}
      /\ HasWriter(running) <=> Writes(job)
      /\ ended \in Seq(JobType)
  BY RunningIs
<1>2. /\ ended' \in Seq(JobType) /\ ToSet(ended') = ToSet(ended) \cup {last}
      /\ HasWriter(ended') <=> HasWriter(ended) \/ Writes(last)
      /\ Sole(ended) /\ (HasWriter(ended) => ~Writes(last)) => Sole(ended')
  BY <1>1, AppendJob
<1>3. running' \in Seq(JobType) /\ ToSet(running') = {} /\ ~HasWriter(running') /\ Sole(running')
  BY EmptyElements
<1>4. Pending' = ToSet(queue)
  BY <1>3 DEF Pending
<1>5. JobsInv'
  BY <1>1, <1>2, <1>3, <1>4 DEF IInv, JobsInv
<1>6. WritersInv'
  <2>1. Writes(last) <=> Writes(job)
    BY DEF Writes
  <2> QED BY <1>1, <1>2, <1>3, <2>1 DEF IInv, WritersInv
<1> QED BY <1>2, <1>4, <1>5, <1>6

\* The job that runs goes on.
LEMMA JobGoesOn ==
  ASSUME IInv, running # <<>>, w.open, UNCHANGED <<w, queue, ended>>,
         NEW job, job = running[1],
         NEW next \in JobType, next.kind = job.kind, Ready(next), running' = <<next>>
  PROVE  JobsInv' /\ WritersInv' /\ Pending' = ToSet(queue) \cup {next}
<1>1. /\ job \in JobType /\ Pending = ToSet(queue) \cup {job}
      /\ HasWriter(running) <=> Writes(job)
  BY RunningIs
<1>2. /\ running' \in Seq(JobType) /\ ToSet(running') = {next} /\ Sole(running')
      /\ HasWriter(running') <=> Writes(next)
  BY SingleElements
<1>3. Pending' = ToSet(queue) \cup {next}
  BY <1>2 DEF Pending
<1>4. JobsInv'
  <2>1. running' = <<Head(running')>>
    OBVIOUS
  <2> QED BY <1>1, <1>2, <1>3, <2>1 DEF IInv, JobsInv
<1>5. WritersInv'
  <2>1. Writes(next) <=> Writes(job)
    BY DEF Writes
  <2> QED BY <1>1, <1>2, <2>1 DEF IInv, WritersInv
<1> QED BY <1>3, <1>4, <1>5

\* One image is done: a job of the close dialog has one image less to save, or
\* the failure is known; no other job takes more than its late images with it.
LEMMA AdvanceKeeps ==
  ASSUME IInv, running # <<>>, w.open, UNCHANGED <<w, queue, wall>>,
         NEW job, job = running[1], job.images # <<>>, job.kind # "copy",
         NEW error \in BOOLEAN, NEW failed \in BOOLEAN, Advance(job, error, failed),
         disk' \in [Names -> Contents], image' \in [Images -> ImageRecords],
         w.dialog # NoDialog => Modified' \subseteq Modified \cup h.late,
         job.kind = "save" => failed \/ job.images[job.pos] \notin Modified'
  PROVE  IInv'
<1>1. /\ job \in JobType /\ Ready(job) /\ job \in Pending /\ Pending = ToSet(queue) \cup {job}
      /\ w \in Windows /\ h \in Histories
  BY RunningIs DEF IInv, FieldsInv
<1>2. PICK next : next = [job EXCEPT !.pos = @ + 1, !.error = error \/ failed]
  OBVIOUS
<1>3. /\ next \in JobType /\ next.kind = job.kind /\ next.closes = job.closes
      /\ next.images = job.images /\ next.targets = job.targets /\ next.pos = job.pos + 1
      /\ job.pos \in Nat /\ job.images \in Seq(Images) /\ Len(job.images) \in Nat
  <2>1. PICK wrong \in BOOLEAN : wrong = (error \/ failed)
    OBVIOUS
  <2>2. next = [job EXCEPT !.pos = @ + 1, !.error = wrong]
    BY <1>2, <2>1
  <2>3. job.pos + 1 \in Nat /\ job.pos \in Nat /\ job.images \in Seq(Images)
    BY <1>1 DEF JobType
  <2>4. Len(job.images) \in Nat
    BY <2>3, LenProperties
  <2> QED BY <1>1, <2>2, <2>3, <2>4 DEF JobType
<1>4. /\ IF failed \/ job.pos = Len(job.images)
         THEN running' = <<>> /\ ended' = Append(ended, [next EXCEPT !.pos = 1])
         ELSE running' = <<next>> /\ UNCHANGED ended
      /\ h' = [h EXCEPT !.failed = @ \/ failed]
  BY <1>2 DEF Advance
<1>5. /\ h' \in Histories /\ h'.failed = (h.failed \/ failed) /\ h'.declined = h.declined
      /\ h'.late = h.late /\ h'.cancelled = h.cancelled
  BY <1>1, <1>4 DEF Histories
<1>6. FieldsInv'
  BY <1>5 DEF IInv, FieldsInv
<1>7. ASSUME NEW j, NEW left, Closing(j, left)
      PROVE  Closing(j, left)'
  BY <1>5, <1>7 DEF Closing
<1>8. Left(job) \subseteq {job.images[job.pos]} \cup Left(next)
  BY <1>3 DEF Left
<1>9. job.closes => Closing(job, Left(job)) /\ job.kind = "save"
  BY <1>1 DEF IInv, ClosingInv, Closing
<1>10. CASE failed \/ job.pos = Len(job.images)
  <2>1. PICK last : last = [next EXCEPT !.pos = 1]
    OBVIOUS
  <2>2. /\ last \in JobType /\ last.kind = job.kind /\ last.closes = job.closes
        /\ running' = <<>> /\ ended' = Append(ended, last)
    BY <1>3, <1>4, <1>10, <2>1 DEF JobType
  <2>3. /\ JobsInv' /\ WritersInv'
        /\ Pending' = ToSet(queue) /\ ToSet(ended') = ToSet(ended) \cup {last}
    BY <2>2, JobEnds
  <2>4. DialogInv'
    BY <1>1, <1>5, <2>3 DEF IInv, DialogInv, TransformsAreLate
  <2>5. last.closes => Closing(last, {})'
    <3>1. Left(job) \subseteq {job.images[job.pos]} \/ failed
      BY <1>3, <1>10 DEF Left
    <3> QED BY <1>5, <1>9, <2>2, <3>1 DEF Closing
  <2>6. ClosingInv'
    BY <1>1, <1>7, <2>3, <2>5 DEF IInv, ClosingInv
  <2> QED BY <1>6, <2>3, <2>4, <2>6 DEF IInv, LossesAreKnown
<1>11. CASE ~(failed \/ job.pos = Len(job.images))
  <2>1. running' = <<next>> /\ ended' = ended
    BY <1>4, <1>11
  <2>2. Ready(next)
    BY <1>1, <1>3, <1>11 DEF Ready
  <2>3. JobsInv' /\ WritersInv' /\ Pending' = ToSet(queue) \cup {next}
    BY <1>3, <2>1, <2>2, JobGoesOn
  <2>4. DialogInv'
    BY <1>1, <1>3, <1>5, <2>3 DEF IInv, DialogInv, TransformsAreLate
  <2>5. next.closes => Closing(next, Left(next))'
    BY <1>3, <1>5, <1>8, <1>9, <1>11 DEF Closing
  <2>6. ClosingInv'
    BY <1>1, <1>7, <2>1, <2>3, <2>5 DEF IInv, ClosingInv
  <2> QED BY <1>6, <2>3, <2>4, <2>6 DEF IInv, LossesAreKnown
<1> QED BY <1>10, <1>11

\* eom_image_link_with_target: the image has no changes any more.
LEMMA Linked ==
  ASSUME image \in [Images -> ImageRecords], NEW i \in Images, NEW target \in Names,
         LinkWithTarget(i, target)
  PROVE  image' \in [Images -> ImageRecords] /\ Modified' \subseteq Modified \ {i}
<1>1. /\ image'[i].modified = FALSE
      /\ \A k \in Images : k # i => image'[k] = image[k]
      /\ image' \in [Images -> ImageRecords]
  BY DEF LinkWithTarget, ImageRecords
<1>2. i \notin Modified'
  BY <1>1 DEF Modified, Rows
<1>3. Modified' \subseteq Modified
  BY <1>1, <1>2 DEF Modified, Rows
<1> QED BY <1>1, <1>2, <1>3

\* The next image of the job that runs
LEMMA NextImage ==
  ASSUME IInv, running # <<>>, NEW job, job = running[1], job.images # <<>>
  PROVE  /\ job.images[job.pos] \in Images /\ job.images[job.pos] \in ToSet(job.images)
         /\ job.pos \in 1 .. Len(job.images)
<1>1. job \in JobType /\ Ready(job)
  BY RunningIs
<1>2. job.images \in Seq(Images) /\ Len(job.images) \in Nat /\ job.pos \in Nat
  BY <1>1, LenProperties DEF JobType
<1>3. job.pos \in 1 .. Len(job.images) /\ DOMAIN job.images = 1 .. Len(job.images)
  BY <1>1, <1>2, LenProperties DEF Ready
<1>4. job.images[job.pos] \in Images
  BY <1>2, <1>3, ElementOfSeq
<1> QED BY <1>3, <1>4 DEF ToSet

LEMMA SaveStepKeeps ==
  ASSUME MaxImages \in Nat, IInv, running # <<>>, w.open, UNCHANGED <<w, queue, wall>>,
         NEW job, job = running[1], job.images # <<>>, job.kind = "save",
         SaveStep(job, job.images[job.pos])
  PROVE  IInv'
<1>1. PICK i \in Images : i = job.images[job.pos]
  BY NextImage
<1>2. PICK error \in BOOLEAN : error = (job.error \/ ~Loads(i))
  OBVIOUS
<1>3. PICK result \in SaveByInfo(i, error) :
        /\ IF result = "saved"
           THEN disk' = [disk EXCEPT ![image[i].file] = i] /\ LinkWithTarget(i, image[i].file)
           ELSE UNCHANGED <<disk, image>>
        /\ Advance(job, error, result = "failed")
  BY <1>1, <1>2 DEF SaveStep
<1>4. /\ disk \in [Names -> Contents] /\ image \in [Images -> ImageRecords]
      /\ image[i].file \in Names /\ i \in Contents
  BY DEF IInv, FieldsInv, ImageRecords, Images, Contents
<1>5. PICK failed \in BOOLEAN : failed = (result = "failed")
  OBVIOUS
<1>6. Advance(job, error, failed)
  BY <1>3, <1>5
<1>7. CASE result = "saved"
  <2>1. disk' \in [Names -> Contents]
    BY <1>3, <1>4, <1>7
  <2>2. image' \in [Images -> ImageRecords] /\ Modified' \subseteq Modified \ {i}
    BY <1>3, <1>4, <1>7, Linked
  <2> QED BY <1>1, <1>6, <2>1, <2>2, AdvanceKeeps
<1>8. CASE result # "saved"
  <2>1. disk' = disk /\ image' = image /\ Modified' = Modified
    BY <1>3, <1>8 DEF Modified, Rows
  <2>2. failed \/ i \notin Modified
    BY <1>3, <1>5, <1>8 DEF SaveByInfo, Modified
  <2> QED BY <1>1, <1>4, <1>6, <2>1, <2>2, AdvanceKeeps
<1> QED BY <1>7, <1>8

LEMMA SaveAsStepKeeps ==
  ASSUME MaxImages \in Nat, IInv, running # <<>>, w.open, UNCHANGED <<w, queue, wall>>,
         NEW job, job = running[1], job.images # <<>>, job.kind = "saveas",
         SaveAsStep(job, job.images[job.pos])
  PROVE  IInv'
<1>1. PICK i \in Images : i = job.images[job.pos]
  BY NextImage
<1>2. PICK target \in Names : target = job.targets[job.pos]
  <2>1. job.targets \in Seq(Names) /\ Len(job.targets) = Len(job.images)
    BY RunningIs DEF JobType, Ready
  <2>2. job.pos \in 1 .. Len(job.targets)
    BY <2>1, NextImage
  <2> QED BY <2>1, <2>2, ElementOfSeq
<1>3. /\ disk \in [Names -> Contents] /\ image \in [Images -> ImageRecords]
      /\ image[i].file \in Names /\ i \in Contents /\ h \in Histories /\ w \in Windows
  BY DEF IInv, FieldsInv, ImageRecords, Images, Contents
<1>4. CASE job.error \/ ~Loads(i)
  <2>1. h' = [h EXCEPT !.aborted = TRUE] /\ UNCHANGED <<disk, image, running, ended>>
    BY <1>1, <1>4 DEF SaveAsStep
  <2>2. /\ h' \in Histories /\ h'.failed = h.failed /\ h'.cancelled = h.cancelled
        /\ h'.declined = h.declined /\ h'.late = h.late
    BY <1>3, <2>1 DEF Histories
  <2>3. JobsInv' /\ FieldsInv' /\ Modified' = Modified /\ Pending' = Pending
    BY <2>1, <2>2, JobsKept DEF IInv, FieldsInv, Modified, Rows, Pending
  <2>4. WritersInv' /\ DialogInv' /\ ClosingInv'
    BY <2>1, <2>2, <2>3
       DEF IInv, WritersInv, DialogInv, ClosingInv, Closing, TransformsAreLate
  <2> QED BY <2>3, <2>4 DEF IInv, LossesAreKnown
<1>5. CASE ~(job.error \/ ~Loads(i))
  <2>1. PICK overwrite : overwrite = (Len(job.images) = 1 /\ disk[target] # None)
    OBVIOUS
  <2>2. PICK result \in SaveAsByInfo(i, target, overwrite) :
          /\ IF result = "saved"
             THEN /\ disk' = [disk EXCEPT ![target] =
                                IF DirectCopy(i, target) THEN disk[image[i].file] ELSE i]
                  /\ LinkWithTarget(i, target)
             ELSE UNCHANGED <<disk, image>>
          /\ Advance(job, FALSE, result = "failed")
    BY <1>1, <1>2, <1>5, <2>1 DEF SaveAsStep
  <2>3. PICK failed \in BOOLEAN : failed = (result = "failed")
    OBVIOUS
  <2>4. Advance(job, FALSE, failed)
    BY <2>2, <2>3
  <2>5. CASE result = "saved"
    <3>1. disk' \in [Names -> Contents]
      BY <1>3, <2>2, <2>5
    <3>2. image' \in [Images -> ImageRecords] /\ Modified' \subseteq Modified \ {i}
      BY <1>3, <2>2, <2>5, Linked
    <3> QED BY <1>1, <2>4, <3>1, <3>2, AdvanceKeeps
  <2>6. CASE result # "saved"
    <3>1. disk' = disk /\ image' = image /\ Modified' = Modified
      BY <2>2, <2>6 DEF Modified, Rows
    <3> QED BY <1>1, <1>3, <2>4, <3>1, AdvanceKeeps
  <2> QED BY <2>5, <2>6
<1> QED BY <1>4, <1>5

LEMMA TransformStepKeeps ==
  ASSUME MaxImages \in Nat, IInv, running # <<>>, w.open, UNCHANGED <<w, queue, wall>>,
         NEW job, job = running[1], job.images # <<>>, job.kind = "transform",
         TransformStep(job, job.images[job.pos])
  PROVE  IInv'
<1>1. PICK i \in Images : i = job.images[job.pos] /\ i \in ToSet(job.images)
  BY NextImage
<1>2. /\ image' = [image EXCEPT ![i].modified = @ \/ Loads(i)]
      /\ Advance(job, FALSE, FALSE) /\ disk' = disk
  BY <1>1 DEF TransformStep
<1>3. disk \in [Names -> Contents] /\ image \in [Images -> ImageRecords]
  BY DEF IInv, FieldsInv
<1>4. image' \in [Images -> ImageRecords] /\ Modified' \subseteq Modified \cup {i}
  <2>1. PICK changed \in BOOLEAN : changed = (image[i].modified \/ Loads(i))
    OBVIOUS
  <2>2. image' = [image EXCEPT ![i].modified = changed]
    BY <1>2, <2>1
  <2>3. image' \in [Images -> ImageRecords] /\ \A k \in Images : k # i => image'[k] = image[k]
    BY <1>3, <2>2 DEF ImageRecords
  <2> QED BY <2>3 DEF Modified, Rows
<1>5. w.dialog # NoDialog => Modified' \subseteq Modified \cup h.late
  <2>1. job \in Pending
    BY RunningIs
  <2> QED BY <1>1, <1>4, <2>1 DEF IInv, DialogInv, TransformsAreLate
<1> QED BY <1>2, <1>3, <1>4, <1>5, AdvanceKeeps

LEMMA RunKeeps ==
  ASSUME MaxImages \in Nat, IInv, Run
  PROVE  IInv'
<1>1. PICK job : job = running[1]
  OBVIOUS
<1>2. w.open /\ running # <<>> /\ UNCHANGED <<w, queue, wall>>
  BY DEF Run
<1>3. /\ job \in JobType /\ Ready(job) /\ running = <<job>>
      /\ job \in Pending /\ Pending = ToSet(queue) \cup {job}
      /\ job.kind \in {"save", "saveas", "transform", "copy"}
  BY <1>1, <1>2, RunningIs DEF JobType
<1>4. ASSUME NEW last \in JobType, last.kind = job.kind, last.closes = job.closes,
             last.kind = "copy" => last.pos \in Contents,
             running' = <<>>, ended' = Append(ended, last), UNCHANGED <<disk, image, h>>,
             job.closes => Left(job) = {}
      PROVE  IInv'
  <2>1. JobsInv' /\ WritersInv' /\ Pending' = ToSet(queue) /\ ToSet(ended') = ToSet(ended) \cup {last}
    BY <1>1, <1>2, <1>4, JobEnds
  <2>2. Modified' = Modified
    BY <1>4 DEF Modified, Rows
  <2>3. DialogInv'
    BY <1>2, <1>3, <1>4, <2>1, <2>2 DEF IInv, DialogInv, TransformsAreLate
  <2>4. ASSUME NEW j, NEW left, Closing(j, left) PROVE Closing(j, left)'
    BY <1>2, <1>4, <2>2, <2>4 DEF Closing
  <2>5. last.closes => Closing(last, {})'
    <3>1. last.closes => Closing(job, {})
      BY <1>2, <1>3, <1>4 DEF IInv, ClosingInv
    <3>2. last.closes => Closing(last, {})
      BY <1>4, <3>1 DEF Closing
    <3> QED BY <2>4, <3>2
  <2>6. ClosingInv'
    BY <1>2, <1>3, <2>1, <2>4, <2>5 DEF IInv, ClosingInv
  <2>7. FieldsInv'
    BY <1>2, <1>4 DEF IInv, FieldsInv
  <2> QED BY <1>2, <2>1, <2>3, <2>6, <2>7 DEF IInv, LossesAreKnown
<1>5. CASE job.images = <<>>
  <2>1. job.kind = "save"
    BY <1>3, <1>5 DEF Ready
  <2>2. running' = <<>> /\ ended' = Append(ended, job) /\ UNCHANGED <<disk, image, h>>
    BY <1>1, <1>5, <2>1 DEF Run
  <2>3. Left(job) = {}
    <3>1. job.pos \in Nat /\ job.pos >= 1 /\ Len(job.images) = 0
      BY <1>3, <1>5 DEF JobType, Ready
    <3> QED BY <3>1 DEF Left
  <2> QED BY <1>3, <1>4, <2>1, <2>2, <2>3
<1>6. CASE job.images # <<>> /\ job.kind = "copy"
  <2>1. CopyStep(job)
    BY <1>1, <1>6 DEF Run
  <2>2. PICK content : content = disk[job.targets[1]]
    OBVIOUS
  <2>3. PICK error \in BOOLEAN :
          /\ running' = <<>> /\ UNCHANGED <<disk, image, h>>
          /\ ended' = Append(ended, [job EXCEPT !.error = error \/ content = None, !.pos = content])
    BY <2>1, <2>2 DEF CopyStep
  <2>4. content \in Contents /\ content \in Nat
    <3>1. job.targets \in Seq(Names) /\ Len(job.targets) = 1
      BY <1>3, <1>6 DEF JobType, Ready
    <3>2. job.targets[1] \in Names
      BY <3>1, ElementOfSeq
    <3>3. content \in Contents
      BY <2>2, <3>2 DEF IInv, FieldsInv
    <3> QED BY <3>3 DEF Contents
  <2>5. PICK wrong \in BOOLEAN : wrong = (error \/ content = None)
    OBVIOUS
  <2>6. PICK last : last = [job EXCEPT !.error = wrong, !.pos = content]
    OBVIOUS
  <2>7. /\ last \in JobType /\ last.kind = job.kind /\ last.closes = job.closes
        /\ last.pos = content
    BY <1>3, <2>4, <2>6 DEF JobType
  <2>8. ended' = Append(ended, last)
    BY <2>3, <2>5, <2>6
  <2>9. ~job.closes
    BY <1>2, <1>3, <1>6 DEF IInv, ClosingInv, Closing
  <2> QED BY <1>4, <2>3, <2>4, <2>7, <2>8, <2>9
<1>7. CASE job.images # <<>> /\ job.kind = "save"
  <2>1. SaveStep(job, job.images[job.pos])
    BY <1>1, <1>7 DEF Run
  <2> QED BY <1>1, <1>2, <1>7, <2>1, SaveStepKeeps
<1>8. CASE job.images # <<>> /\ job.kind = "saveas"
  <2>1. SaveAsStep(job, job.images[job.pos])
    BY <1>1, <1>8 DEF Run
  <2> QED BY <1>1, <1>2, <1>8, <2>1, SaveAsStepKeeps
<1>9. CASE job.images # <<>> /\ job.kind = "transform"
  <2>1. TransformStep(job, job.images[job.pos])
    BY <1>1, <1>9 DEF Run
  <2> QED BY <1>1, <1>2, <1>9, <2>1, TransformStepKeeps
<1> QED BY <1>3, <1>5, <1>6, <1>7, <1>8, <1>9
-----------------------------------------------------------------------------
(* Every step keeps the invariant *)

LEMMA InitKeeps ==
  ASSUME MaxImages \in Nat \ {0}, Init
  PROVE  IInv
<1>1. /\ <<>> \in Seq(JobType) /\ ToSet(<<>>) = {} /\ ~HasWriter(<<>>) /\ Sole(<<>>)
  BY EmptyElements
<1>2. queue = <<>> /\ running = <<>> /\ ended = <<>>
  BY DEF Init
<1>3. Pending = {} /\ ToSet(ended) = {}
  BY <1>1, <1>2 DEF Pending
<1>4. JobsInv
  BY <1>1, <1>2, <1>3 DEF JobsInv
<1>5. /\ w.open /\ ~w.saveJob /\ ~w.finishing /\ w.dialog = NoDialog /\ w.question = NoQuestion
      /\ w \in Windows
  <2>1. /\ NoDialog \in [unsaved : SUBSET Images, marked : SUBSET Images]
        /\ NoQuestion \in [kind : {"none", "saveas", "trash"}, images : Seq(Images)]
    BY DEF NoDialog, ConfirmationDialog, NoQuestion
  <2>2. 1 \in {0} \cup Images
    BY DEF Images
  <2> QED BY <2>1, <2>2 DEF Init, Windows
<1>6. FieldsInv
  <2>1. \A i \in Images : i \in Names /\ i \in Contents
    BY DEF Images, Names, Contents
  <2>2. disk \in [Names -> Contents] /\ wall \in Contents
    BY <2>1 DEF Init, None, Foreign, Contents
  <2>3. image \in [Images -> ImageRecords]
    BY <2>1 DEF Init, ImageRecords
  <2>4. h \in Histories
    BY DEF Init, Histories
  <2> QED BY <1>5, <2>2, <2>3, <2>4 DEF FieldsInv
<1>7. WritersInv
  BY <1>1, <1>2, <1>5 DEF WritersInv
<1>8. DialogInv
  BY <1>5 DEF DialogInv, NoDialog, ConfirmationDialog, NoQuestion
<1>9. ClosingInv
  BY <1>3 DEF ClosingInv
<1> QED BY <1>4, <1>5, <1>6, <1>7, <1>8, <1>9 DEF IInv, LossesAreKnown

LEMMA NextKeeps ==
  ASSUME MaxImages \in Nat, IInv, [Next]_vars
  PROVE  IInv'
<1>1. CASE \E i \in Images : Display(i) \/ SaveToggled(i)
  BY <1>1, DisplayKeeps, SaveToggledKeeps
<1>2. CASE Transform
  BY <1>2, TransformKeeps
<1>3. CASE CmdSave
  BY <1>3, CmdSaveKeeps
<1>4. CASE Ask("saveas") \/ Ask("trash")
  BY <1>4, AskKeeps
<1>5. CASE Cancel
  BY <1>5, CancelKeeps
<1>6. CASE CmdSaveAs
  BY <1>6, CmdSaveAsKeeps
<1>7. CASE MoveToTrash
  BY <1>7, MoveToTrashKeeps
<1>8. CASE CmdWallpaper
  BY <1>8, CmdWallpaperKeeps
<1>9. CASE Close
  BY <1>9, CloseKeeps
<1>10. CASE RespondYes
  BY <1>10, RespondYesKeeps
<1>11. CASE RespondNo
  BY <1>11, RespondNoKeeps
<1>12. CASE RespondCancel
  BY <1>12, RespondCancelKeeps
<1>13. CASE Finished
  BY <1>13, FinishedKeeps
<1>14. CASE Dequeue
  BY <1>14, DequeueKeeps
<1>15. CASE Run
  BY <1>15, RunKeeps
<1>16. CASE \E n \in Names : ChangedOutside(n)
  BY <1>16, ChangedOutsideKeeps
<1>17. CASE UNCHANGED vars
  <2>1. UNCHANGED <<disk, image, w, queue, running, ended, wall, h>>
    BY <1>17 DEF vars
  <2>2. JobsInv' /\ FieldsInv' /\ Modified' = Modified /\ Pending' = Pending
    BY <2>1, JobsKept DEF IInv, FieldsInv, Modified, Rows, Pending
  <2>3. w.open => WritersInv' /\ DialogInv' /\ ClosingInv'
    BY <2>1, <2>2
       DEF IInv, WritersInv, DialogInv, ClosingInv, Closing, TransformsAreLate
  <2>4. LossesAreKnown'
    BY <2>1, <2>2 DEF IInv, LossesAreKnown
  <2> QED BY <2>1, <2>2, <2>3, <2>4 DEF IInv
<1> QED BY <1>1, <1>2, <1>3, <1>4, <1>5, <1>6, <1>7, <1>8, <1>9, <1>10, <1>11, <1>12,
           <1>13, <1>14, <1>15, <1>16, <1>17 DEF Next, Thread

\* The invariant holds throughout.
THEOREM Invariance ==
  ASSUME MaxImages \in Nat \ {0}
  PROVE  Spec => []IInv
<1>1. Init => IInv
  BY InitKeeps
<1>2. IInv /\ [Next]_vars => IInv'
  BY NextKeeps
<1> QED BY <1>1, <1>2, PTL DEF Spec

\* A change of an image that is gone with its window was declined, or its save
\* job failed, or a transform was on its way, or the user cancelled the dialog
\* while it saved: eom_window_unsaved_images_confirm, its response handler and
\* eom_window_finish_saving leave no other way.
THEOREM LossesKnown ==
  ASSUME MaxImages \in Nat \ {0}
  PROVE  Spec => []LossesAreKnown
<1>1. IInv => LossesAreKnown
  BY DEF IInv
<1> QED BY <1>1, Invariance, PTL
-----------------------------------------------------------------------------
(* What the window knows of its jobs *)

LEMMA JobsTogether ==
  ASSUME NEW S, NEW s \in Seq(S), NEW t \in Seq(S)
  PROVE  /\ s \o t \in Seq(S)
         /\ HasWriter(s \o t) <=> HasWriter(s) \/ HasWriter(t)
         /\ Sole(s) /\ Sole(t) /\ ~(HasWriter(s) /\ HasWriter(t)) => Sole(s \o t)
<1>1. /\ s \o t \in Seq(S) /\ Len(s) \in Nat /\ Len(t) \in Nat
      /\ DOMAIN s = 1 .. Len(s) /\ DOMAIN t = 1 .. Len(t)
      /\ DOMAIN (s \o t) = 1 .. Len(s) + Len(t)
      /\ \A k \in 1 .. Len(s) + Len(t) : (s \o t)[k] = IF k <= Len(s) THEN s[k] ELSE t[k - Len(s)]
  BY ConcatProperties, LenProperties
<1>2. \A k \in 1 .. Len(s) : k \in 1 .. Len(s) + Len(t) /\ (s \o t)[k] = s[k]
  BY <1>1
<1>3. \A k \in 1 .. Len(t) : Len(s) + k \in 1 .. Len(s) + Len(t) /\ (s \o t)[Len(s) + k] = t[k]
  BY <1>1
<1>4. ASSUME NEW k \in 1 .. Len(s) + Len(t), k > Len(s)
      PROVE  k - Len(s) \in 1 .. Len(t) /\ (s \o t)[k] = t[k - Len(s)]
  BY <1>1, <1>4
<1> HIDE <1>1
<1>5. HasWriter(s) \/ HasWriter(t) => HasWriter(s \o t)
  BY <1>1, <1>2, <1>3 DEF HasWriter, ToSet
<1>6. HasWriter(s \o t) => HasWriter(s) \/ HasWriter(t)
  BY <1>1, <1>2, <1>4 DEF HasWriter, ToSet
<1>7. ASSUME Sole(s), Sole(t), ~(HasWriter(s) /\ HasWriter(t)) PROVE Sole(s \o t)
  <2> SUFFICES ASSUME NEW x \in 1 .. Len(s) + Len(t), NEW y \in 1 .. Len(s) + Len(t),
                      Writes((s \o t)[x]), Writes((s \o t)[y])
               PROVE  x = y
    BY <1>1 DEF Sole
  <2>1. \A k \in 1 .. Len(s) : Writes(s[k]) => HasWriter(s)
    BY <1>1 DEF HasWriter, ToSet
  <2>2. \A k \in 1 .. Len(t) : Writes(t[k]) => HasWriter(t)
    BY <1>1 DEF HasWriter, ToSet
  <2>3. CASE x <= Len(s) /\ y <= Len(s)
    BY <1>1, <1>2, <1>7, <2>3 DEF Sole
  <2>4. CASE x > Len(s) /\ y > Len(s)
    BY <1>1, <1>4, <1>7, <2>4, SMTT(30) DEF Sole
  <2>5. CASE ~(x <= Len(s) <=> y <= Len(s))
    BY <1>1, <1>2, <1>4, <1>7, <2>1, <2>2, <2>5
  <2> QED BY <1>1, <2>3, <2>4, <2>5
<1> QED BY <1>1, <1>5, <1>6, <1>7

LEMMA WritersCounted ==
  ASSUME NEW s, Sole(s)
  PROVE  Cardinality({x \in DOMAIN s : Writes(s[x])}) = IF HasWriter(s) THEN 1 ELSE 0
<1>1. CASE HasWriter(s)
  <2>1. PICK x \in DOMAIN s : Writes(s[x])
    BY <1>1 DEF HasWriter, ToSet
  <2>2. {y \in DOMAIN s : Writes(s[y])} = {x}
    BY <2>1 DEF Sole
  <2> QED BY <1>1, <2>2, FS_Singleton
<1>2. CASE ~HasWriter(s)
  <2>1. {y \in DOMAIN s : Writes(s[y])} = {}
    BY <1>2 DEF HasWriter, ToSet
  <2> QED BY <1>2, <2>1, FS_EmptySet
<1> QED BY <1>1, <1>2

\* What the invariant says of Jobs
LEMMA KnowsJobStep == IInv => WindowKnowsJob
<1>1. ASSUME IInv, w.open
      PROVE  Cardinality({x \in DOMAIN Jobs : Writes(Jobs[x])}) = IF w.saveJob THEN 1 ELSE 0
  <2>1. queue \in Seq(JobType) /\ running \in Seq(JobType) /\ ended \in Seq(JobType)
    BY <1>1 DEF IInv, JobsInv
  <2>2. /\ Sole(queue) /\ Sole(running) /\ Sole(ended)
        /\ HasWriter(queue) => ~HasWriter(running) /\ ~HasWriter(ended)
        /\ HasWriter(running) => ~HasWriter(ended)
        /\ w.saveJob <=> HasWriter(queue) \/ HasWriter(running) \/ HasWriter(ended)
    BY <1>1 DEF IInv, WritersInv
  <2>3. /\ queue \o running \in Seq(JobType) /\ Sole(queue \o running)
        /\ HasWriter(queue \o running) <=> HasWriter(queue) \/ HasWriter(running)
    BY <2>1, <2>2, JobsTogether
  <2>4. Sole(Jobs) /\ (HasWriter(Jobs) <=> w.saveJob)
    BY <2>1, <2>2, <2>3, JobsTogether DEF Jobs
  <2> QED BY <2>4, WritersCounted
<1> QED BY <1>1 DEF WindowKnowsJob

\* save_job is set exactly while one job that writes images waits, runs or is
\* about to report (eom_window_save_images, eom_job_save_cb).
THEOREM KnowsJob ==
  ASSUME MaxImages \in Nat \ {0}
  PROVE  Spec => []WindowKnowsJob
BY KnowsJobStep, Invariance, PTL

\* Every variable has its type.
THEOREM TypeCorrect ==
  ASSUME MaxImages \in Nat \ {0}, MaxRequests \in Nat
  PROVE  Spec => []TypeOK
<1> DEFINE Bounded == requests \in 0 .. MaxRequests
<1>1. Init => Bounded
  BY DEF Init
<1>2. Bounded /\ [Next]_vars => Bounded'
  <2> SUFFICES ASSUME Bounded, [Next]_vars PROVE Bounded'
    OBVIOUS
  <2>1. requests' = requests \/ (requests > 0 /\ requests' = requests - 1)
    BY DEF Next, Thread, vars, Display, SaveToggled, Transform, CmdSave, Ask, Cancel,
           CmdSaveAs, MoveToTrash, CmdWallpaper, Close, RespondYes, RespondNo,
           RespondCancel, Finished, Dequeue, Run, ChangedOutside, Request
  <2> QED BY <2>1
<1>3. ASSUME IInv, Bounded PROVE TypeOK
  <2>1. /\ queue \in Seq(JobType) /\ running \in Seq(JobType) /\ ended \in Seq(JobType)
        /\ running # <<>> => running = <<Head(running)>>
    BY <1>3 DEF IInv, JobsInv
  <2>2. Jobs \in Seq(JobType)
    BY <2>1, ConcatProperties DEF Jobs
  <2>3. \A x \in DOMAIN Jobs : Jobs[x] \in JobType
    BY <2>2, SequenceElements DEF ToSet
  <2>4. Len(running) <= 1
    <3>1. PICK job : job = Head(running)
      OBVIOUS
    <3>2. running = <<>> \/ running = <<job>>
      BY <2>1, <3>1
    <3>3. Len(<<>>) = 0 /\ Len(<<job>>) = 1
      OBVIOUS
    <3>4. PICK n : n = Len(running)
      OBVIOUS
    <3>5. n = 0 \/ n = 1
      BY <3>2, <3>3, <3>4, Zenon
    <3>6. n <= 1
      BY <3>5
    <3> QED BY <3>4, <3>6, Zenon
  <2> QED BY <1>3, <2>3, <2>4
          DEF TypeOK, IInv, FieldsInv, ImageRecords, Windows, Histories
<1> HIDE DEF Bounded
<1>4. Spec => []Bounded
  BY <1>1, <1>2, PTL DEF Spec
<1>5. IInv /\ Bounded => TypeOK
  BY <1>3
<1> QED BY <1>4, <1>5, Invariance, PTL

LEMMA SeveralReplaceStep ==
  ASSUME IInv, [Next]_vars
  PROVE  SeveralReplaceNothing
<1> SUFFICES ASSUME running # <<>>, running # running',
                    running[1].kind = "saveas", Len(running[1].images) > 1,
                    NEW n \in Names, disk[n] # None
             PROVE  disk'[n] = disk[n]
  BY DEF SeveralReplaceNothing
<1>1. Run
  BY DEF Next, Thread, vars, Display, SaveToggled, Transform, CmdSave, Ask, Cancel,
         CmdSaveAs, MoveToTrash, CmdWallpaper, Close, RespondYes, RespondNo,
         RespondCancel, Finished, Dequeue, ChangedOutside
<1>2. PICK job : job = running[1]
  OBVIOUS
<1>3. /\ job \in JobType /\ job.kind = "saveas" /\ Len(job.images) > 1
  BY <1>2, RunningIs
<1>4. job.images # <<>>
  BY <1>3
<1>5. SaveAsStep(job, job.images[job.pos])
  BY <1>1, <1>2, <1>3, <1>4 DEF Run
<1>6. disk \in [Names -> Contents]
  BY DEF IInv, FieldsInv
<1>7. PICK i, target : i = job.images[job.pos] /\ target = job.targets[job.pos]
  OBVIOUS
<1>8. CASE disk' = disk
  BY <1>8
<1>9. CASE disk' # disk
  <2>1. Len(job.images) # 1
    <3>1. PICK several : several = Len(job.images)
      OBVIOUS
    <3>2. several > 1
      BY <1>3, <3>1, Zenon
    <3>3. several # 1
      BY <3>2
    <3> QED BY <3>1, <3>3, Zenon
  <2>2. \E content : disk' = [disk EXCEPT ![target] = content]
    BY <1>5, <1>7, <1>9 DEF SaveAsStep
  <2>3. disk[target] = None
    BY <1>5, <1>7, <1>9, <2>1 DEF SaveAsStep, SaveAsByInfo
  <2> QED BY <1>6, <2>2, <2>3
<1> QED BY <1>8, <1>9

\* Several images at once never replace a file: eom_job_save_as_run asks
\* nobody, and lets eom_image_save_as_by_info overwrite for a single one only.
THEOREM SeveralReplace ==
  ASSUME MaxImages \in Nat \ {0}
  PROVE  Spec => [][SeveralReplaceNothing]_vars
BY SeveralReplaceStep, Invariance, PTL DEF Spec
-----------------------------------------------------------------------------
(* The steps in which eom-image.c writes a file implement AtomicSave,      *)
(* however they fail, the program dies and other programs change the       *)
(* files; and an image forgets its changes only when they are in its file. *)
(* One inductive invariant says what is known at each step of a save: what *)
(* the temporary file holds, whether an error or success was already       *)
(* reported, and what the call has remembered of the image and the target. *)

ImageSaveSpec == Image!Init /\ [][Image!Next]_(Image!saveVars)

SaveSteps == {"none", "check", "write", "pixbuf", "attributes", "move", "reset", "delete",
          "ended", "crashed"}

\* What a file may hold, and what the temporary one may hold before it is complete
CompletePictures == [pic : Image!Complete, mode : Image!Modes]
FileContents == [pic : Image!Complete \cup {"part"}, mode : Image!Modes]

SaveCalls == [step : SaveSteps, kind : {"save", "save_as"}, to : Image!Names,
              overwrite : BOOLEAN, same : BOOLEAN, jpeg : BOOLEAN, pixels : BOOLEAN,
              exists : BOOLEAN, modified : BOOLEAN, error : BOOLEAN, success : BOOLEAN,
              kept : BOOLEAN, was : Image!Modes \cup {"none"}]

\* Other programs see whole pictures, or no file.
FilesInv ==
  /\ file \in [Image!Names \cup {"temp"} -> {Image!None} \cup FileContents]
  /\ \A n \in Image!Names : file[n] \in {Image!None} \cup CompletePictures

SaveInv ==
  /\ save \in SaveCalls
  /\ object \in [status : {"LOADED", "SAVING", "UNKNOWN"}, modified : BOOLEAN,
                reset : BOOLEAN, file : Image!Names]
  /\ changes \in Nat

\* What each step relies on
StepInv ==
  /\ save.step \in {"none", "check", "ended"} => file["temp"] = Image!None
  /\ save.step \in {"write", "pixbuf"} => file["temp"] \in FileContents
  /\ save.step \in {"attributes", "move"} => file["temp"] \in CompletePictures
  /\ save.step \in {"none", "check", "write", "pixbuf", "attributes", "move"}
       => ~save.success /\ ~save.error /\ ~object.reset
  /\ save.step = "reset" => save.success
  /\ save.step = "none" => ~save.modified
  /\ save.step \in {"none", "check", "write", "pixbuf", "attributes"} => ~save.kept
  /\ save.step = "move" /\ save.kept /\ changes = 0 => file["temp"].mode = Image!Masked(save.was)

ImageSaveInv == FilesInv /\ SaveInv /\ StepInv /\ Image!ForgottenWhenSaved
-----------------------------------------------------------------------------
(* What the steps do to the fields of the call *)

\* The call is for the same file and remembers the same of the image.
SameCall == /\ save'.kind = save.kind /\ save'.to = save.to
            /\ save'.modified = save.modified

SameAttributes == save'.kept = save.kept /\ save'.was = save.was

LEMMA GoesIs ==
  ASSUME save \in SaveCalls, NEW step \in SaveSteps, Image!Goes(step)
  PROVE  /\ save' \in SaveCalls /\ SameCall /\ SameAttributes
         /\ save'.step = step /\ save'.error = save.error /\ save'.success = save.success
BY DEF Image!Goes, SaveCalls, SameCall, SameAttributes

LEMMA FailsIs ==
  ASSUME save \in SaveCalls, Image!Fails
  PROVE  /\ save' \in SaveCalls /\ SameCall /\ SameAttributes
         /\ save'.step = "delete" /\ save'.error = TRUE /\ save'.success = save.success
BY DEF Image!Fails, SaveCalls, SaveSteps, SameCall, SameAttributes

\* The end of a copy or a move that worked
LEMMA SucceedsIs ==
  ASSUME save \in SaveCalls, NEW step \in SaveSteps,
         save' = [save EXCEPT !.step = step, !.success = TRUE]
  PROVE  /\ save' \in SaveCalls /\ SameCall /\ SameAttributes
         /\ save'.step = step /\ save'.error = save.error /\ save'.success = TRUE
BY DEF SaveCalls, SameCall, SameAttributes

LEMMA TargetIs == ASSUME SaveInv PROVE Image!Target \in Image!Names
BY DEF SaveInv, SaveCalls, Image!Target, Image!Names

LEMMA SameTarget == ASSUME SameCall PROVE Image!Target' = Image!Target
BY DEF SameCall, Image!Target
-----------------------------------------------------------------------------
(* The files *)

LEMMA NamesAre == Image!Names = {"own", "other"} /\ "temp" \notin Image!Names
BY DEF Image!Names

LEMMA PicturesAreParts == CompletePictures \subseteq FileContents /\ Image!None \notin FileContents
BY DEF CompletePictures, FileContents, Image!None, Image!Complete, Image!Modes

LEMMA ExistsIs ==
  ASSUME FilesInv, NEW n \in Image!Names, Image!Exists(n)
  PROVE  file[n] \in CompletePictures
BY DEF FilesInv, Image!Exists

LEMMA NewTemporaryIs == Image!NewTemporary \in FileContents
BY DEF Image!NewTemporary, Image!Picture, FileContents, Image!Modes

\* One of the files that other programs see is written.
LEMMA NameWritten ==
  ASSUME FilesInv, NEW n \in Image!Names, NEW p \in {Image!None} \cup CompletePictures,
         file' = [file EXCEPT ![n] = p]
  PROVE  /\ FilesInv' /\ file'[n] = p
         /\ \A m \in (Image!Names \cup {"temp"}) \ {n} : file'[m] = file[m]
BY PicturesAreParts DEF FilesInv

LEMMA TemporaryWritten ==
  ASSUME FilesInv, NEW p \in {Image!None} \cup FileContents, file' = [file EXCEPT !["temp"] = p]
  PROVE  FilesInv' /\ file'["temp"] = p /\ \A m \in Image!Names : file'[m] = file[m]
BY NamesAre DEF FilesInv
-----------------------------------------------------------------------------
(* The steps: each keeps the invariant and is one of AtomicSave, or none. *)

LEMMA CallStep ==
  ASSUME ImageSaveInv, Image!Call
  PROVE  ImageSaveInv' /\ Image!SaveIsAtomic
<1>1. /\ save.step = "none" /\ save'.step = "check" /\ save' \in SaveCalls
      /\ save'.modified = object.modified /\ save'.error = save.error
      /\ save'.success = save.success /\ SameAttributes
      /\ UNCHANGED <<file, object, changes>>
  <2>1. /\ save \in SaveCalls /\ object.modified \in BOOLEAN /\ Image!Exists("own") \in BOOLEAN
        /\ UNCHANGED <<file, object, changes>> /\ save.step = "none"
    BY DEF Image!Call, ImageSaveInv, SaveInv, Image!Exists
  <2>2. PICK kind \in {"save", "save_as"}, to \in Image!Names,
             overwrite, same, jpeg, pixels \in BOOLEAN :
          /\ kind = "save" => to = "own" /\ overwrite /\ same
          /\ save' = [save EXCEPT !.step = "check", !.kind = kind, !.to = to,
                        !.overwrite = overwrite, !.same = same, !.jpeg = jpeg, !.pixels = pixels,
                        !.exists = Image!Exists("own"), !.modified = object.modified]
    BY Zenon DEF Image!Call
  <2> DEFINE there == Image!Exists("own")
             was == object.modified
  <2> HIDE DEF there, was
  <2>3. save' = [save EXCEPT !.step = "check", !.kind = kind, !.to = to,
                   !.overwrite = overwrite, !.same = same, !.jpeg = jpeg, !.pixels = pixels,
                   !.exists = there, !.modified = was]
    BY <2>2 DEF there, was
  <2>4. save \in SaveCalls /\ there \in BOOLEAN /\ was \in BOOLEAN
    BY <2>1 DEF there, was
  <2>5. /\ save'.step = "check" /\ save'.modified = was
        /\ save'.error = save.error /\ save'.success = save.success
        /\ save'.kept = save.kept /\ save'.was = save.was
    BY <2>3, <2>4 DEF SaveCalls
  <2>6. save' \in SaveCalls
    BY <2>2, <2>3, <2>4, ZenonT(30) DEF SaveCalls, SaveSteps
  <2> QED BY <2>1, <2>5, <2>6 DEF was, SameAttributes
<1>2. ~save.success /\ ~save.error /\ ~object.reset /\ file["temp"] = Image!None /\ ~save.kept
  BY <1>1 DEF ImageSaveInv, StepInv
<1>3. FilesInv' /\ SaveInv'
  BY <1>1 DEF ImageSaveInv, FilesInv, SaveInv
<1>4. StepInv' /\ Image!ForgottenWhenSaved'
  BY <1>1, <1>2 DEF StepInv, Image!ForgottenWhenSaved, SameAttributes
<1>5. Image!SaveIsAtomic
  BY <1>1, <1>2 DEF Image!SaveIsAtomic, Image!Promise!Next, Image!Promise!Begin, Image!Phase
<1> QED BY <1>3, <1>4, <1>5 DEF ImageSaveInv

LEMMA CheckStep ==
  ASSUME ImageSaveInv, Image!Check
  PROVE  ImageSaveInv' /\ Image!SaveIsAtomic
<1>1. /\ save.step = "check" /\ UNCHANGED changes
      /\ object' = [object EXCEPT !.status = IF save.kind = "save" THEN "SAVING" ELSE object.status]
      /\ \/ save' = [save EXCEPT !.step = "ended", !.success = TRUE] /\ UNCHANGED file
         \/ save' = [save EXCEPT !.step = "ended", !.error = TRUE] /\ UNCHANGED file
         \/ Image!Goes("write") /\ file' = [file EXCEPT !["temp"] = Image!NewTemporary]
  BY DEF Image!Check
<1>2. /\ FilesInv /\ save \in SaveCalls /\ changes \in Nat /\ SaveInv
      /\ file["temp"] = Image!None /\ ~save.success /\ ~save.error /\ ~object.reset /\ ~save.kept
  BY <1>1 DEF ImageSaveInv, SaveInv, StepInv
<1>3. /\ object' \in [status : {"LOADED", "SAVING", "UNKNOWN"}, modified : BOOLEAN,
                     reset : BOOLEAN, file : Image!Names]
      /\ object'.modified = object.modified /\ object'.reset = object.reset
      /\ object'.file = object.file
  BY <1>1 DEF ImageSaveInv, SaveInv
<1>4. CASE save' = [save EXCEPT !.step = "ended", !.success = TRUE] /\ UNCHANGED file
  <2>1. /\ save' \in SaveCalls /\ SameCall /\ SameAttributes
        /\ save'.step = "ended" /\ save'.error = save.error /\ save'.success = TRUE
    BY <1>2, <1>4, SucceedsIs DEF SaveSteps
  <2>2. FilesInv' /\ SaveInv' /\ StepInv' /\ Image!ForgottenWhenSaved'
    BY <1>1, <1>2, <1>3, <1>4, <2>1
       DEF FilesInv, SaveInv, StepInv, Image!ForgottenWhenSaved, SameAttributes
  <2>3. Image!SaveIsAtomic
    BY <1>1, <1>2, <1>4, <2>1, SameTarget
       DEF Image!SaveIsAtomic, Image!Promise!Next, Image!Promise!NothingToSave, Image!Phase
  <2> QED BY <2>2, <2>3 DEF ImageSaveInv
<1>5. CASE save' = [save EXCEPT !.step = "ended", !.error = TRUE] /\ UNCHANGED file
  <2>1. /\ save' \in SaveCalls /\ SameCall /\ SameAttributes
        /\ save'.step = "ended" /\ save'.error = TRUE /\ save'.success = save.success
    BY <1>2, <1>5 DEF SaveCalls, SaveSteps, SameCall, SameAttributes
  <2>2. FilesInv' /\ SaveInv' /\ StepInv'
    BY <1>1, <1>2, <1>3, <1>5, <2>1 DEF FilesInv, SaveInv, StepInv
  <2>3. Image!ForgottenWhenSaved'
    BY <1>1, <1>2, <1>3, <1>5, <2>1 
       DEF Image!ForgottenWhenSaved, SameCall, SameAttributes, ImageSaveInv
  <2>4. Image!SaveIsAtomic
    BY <1>1, <1>2, <1>5, <2>1, SameTarget
       DEF Image!SaveIsAtomic, Image!Promise!Next, Image!Promise!Fail, Image!Phase
  <2> QED BY <2>2, <2>3, <2>4 DEF ImageSaveInv
<1>6. CASE Image!Goes("write") /\ file' = [file EXCEPT !["temp"] = Image!NewTemporary]
  <2>1. /\ save' \in SaveCalls /\ SameCall /\ SameAttributes /\ save'.step = "write"
        /\ save'.error = save.error /\ save'.success = save.success
    BY <1>2, <1>6, GoesIs DEF SaveSteps
  <2>2. FilesInv' /\ file'["temp"] = Image!NewTemporary /\ \A n \in Image!Names : file'[n] = file[n]
    BY <1>2, <1>6, NewTemporaryIs, TemporaryWritten
  <2>3. SaveInv' /\ StepInv'
    BY <1>1, <1>2, <1>3, <2>1, <2>2, NewTemporaryIs DEF SaveInv, StepInv, SameAttributes
  <2>4. Image!ForgottenWhenSaved'
    BY <1>1, <1>2, <1>3, <2>1 DEF Image!ForgottenWhenSaved, SameCall, ImageSaveInv
  <2>5. Image!SaveIsAtomic
    BY <1>1, <1>2, <2>1, <2>2, SameTarget, TargetIs
       DEF Image!SaveIsAtomic, Image!Promise!Stutter, Image!Phase
  <2> QED BY <2>2, <2>3, <2>4, <2>5 DEF ImageSaveInv
<1> QED BY <1>1, <1>4, <1>5, <1>6
LEMMA FailsStep ==
  ASSUME ImageSaveInv, Image!Fails, UNCHANGED file, Image!Quiet,
         save.step \in {"write", "pixbuf", "attributes", "move"}
  PROVE  ImageSaveInv' /\ Image!SaveIsAtomic
<1>1. /\ FilesInv /\ SaveInv /\ save \in SaveCalls /\ UNCHANGED <<file, object, changes>>
      /\ ~save.success /\ ~save.error /\ ~object.reset
  BY DEF ImageSaveInv, SaveInv, StepInv, Image!Quiet
<1>2. /\ save' \in SaveCalls /\ SameCall /\ SameAttributes
      /\ save'.step = "delete" /\ save'.error = TRUE /\ save'.success = save.success
  BY <1>1, FailsIs
<1>3. FilesInv' /\ SaveInv' /\ StepInv'
  BY <1>1, <1>2 DEF FilesInv, SaveInv, StepInv
<1>4. Image!ForgottenWhenSaved'
  BY <1>1, <1>2 DEF ImageSaveInv, Image!ForgottenWhenSaved, SameCall
<1>5. Image!SaveIsAtomic
  BY <1>1, <1>2, SameTarget
     DEF Image!SaveIsAtomic, Image!Promise!Next, Image!Promise!Fail, Image!Phase
<1> QED BY <1>3, <1>4, <1>5 DEF ImageSaveInv

\* The whole picture is in the temporary file.
LEMMA WriteStep ==
  ASSUME ImageSaveInv, NEW pic \in Image!Complete, Image!Write(pic), save.step \in {"write", "pixbuf"}
  PROVE  ImageSaveInv' /\ Image!SaveIsAtomic
<1>1. /\ FilesInv /\ SaveInv /\ save \in SaveCalls /\ UNCHANGED <<object, changes>>
      /\ ~save.success /\ ~save.error /\ ~object.reset /\ ~save.kept
      /\ file["temp"] \in FileContents
      /\ Image!Goes("attributes")
  BY DEF ImageSaveInv, SaveInv, StepInv, Image!Write, Image!Quiet
<1>2. /\ save' \in SaveCalls /\ SameCall /\ SameAttributes /\ save'.step = "attributes"
      /\ save'.error = save.error /\ save'.success = save.success
  BY <1>1, GoesIs DEF SaveSteps
<1>3. FilesInv' /\ file'["temp"] \in CompletePictures /\ \A n \in Image!Names : file'[n] = file[n]
  <2> DEFINE p == [file["temp"] EXCEPT !.pic = pic]
  <2>1. p \in CompletePictures
    BY <1>1 DEF CompletePictures, FileContents
  <2>2. file' = [file EXCEPT !["temp"] = p]
    BY DEF Image!Write
  <2> HIDE DEF p
  <2> QED BY <1>1, <2>1, <2>2, PicturesAreParts, TemporaryWritten
<1>4. SaveInv' /\ StepInv'
  BY <1>1, <1>2, <1>3 DEF SaveInv, StepInv, SameAttributes
<1>5. Image!ForgottenWhenSaved'
  BY <1>1, <1>2 DEF ImageSaveInv, Image!ForgottenWhenSaved, SameCall
<1>6. Image!SaveIsAtomic
  BY <1>1, <1>2, <1>3, SameTarget, TargetIs
     DEF Image!SaveIsAtomic, Image!Promise!Stutter, Image!Phase
<1> QED BY <1>3, <1>4, <1>5, <1>6 DEF ImageSaveInv

\* The target is replaced by a whole picture, all at once.
LEMMA ReplaceStep ==
  ASSUME ImageSaveInv, save.step \in {"write", "move"}, Image!Quiet,
         save' = [save EXCEPT !.step = "reset", !.success = TRUE],
         FilesInv', file'[Image!Target] \in CompletePictures,
         save.step = "move" /\ save.kept /\ changes = 0
           => file'[Image!Target].mode = Image!Masked(save.was)
  PROVE  ImageSaveInv' /\ Image!SaveIsAtomic
<1>1. /\ SaveInv /\ save \in SaveCalls /\ UNCHANGED <<object, changes>>
      /\ ~save.success /\ ~save.error /\ ~object.reset /\ (save.step = "write" => ~save.kept)
  BY DEF ImageSaveInv, SaveInv, StepInv, Image!Quiet
<1>2. /\ save' \in SaveCalls /\ SameCall /\ SameAttributes
      /\ save'.step = "reset" /\ save'.error = save.error /\ save'.success = TRUE
  BY <1>1, SucceedsIs DEF SaveSteps
<1>3. SaveInv' /\ StepInv'
  BY <1>1, <1>2 DEF SaveInv, StepInv
<1>4. Image!ForgottenWhenSaved'
  BY <1>1, <1>2, SameTarget DEF Image!ForgottenWhenSaved, SameAttributes
<1>5. (file[Image!Target])' \in CompletePictures
  BY <1>2, SameTarget
<1>6. (file[Image!Target])'
        \in {Image!Picture(pic, mode) : pic \in Image!Complete, mode \in Image!Modes}
  BY <1>5 DEF CompletePictures, Image!Picture
<1>7. Image!Phase = "saving" /\ Image!Phase' = "saved"
  BY <1>1, <1>2 DEF Image!Phase
<1>8. Image!SaveIsAtomic
  BY <1>1, <1>6, <1>7 DEF Image!SaveIsAtomic, Image!Promise!Next, Image!Promise!Write
<1> QED BY <1>3, <1>4, <1>8 DEF ImageSaveInv
LEMMA DirectCopyStep ==
  ASSUME ImageSaveInv, Image!DirectCopy
  PROVE  ImageSaveInv' /\ Image!SaveIsAtomic
<1>1. CASE Image!Fails /\ UNCHANGED file
  BY <1>1, FailsStep DEF Image!DirectCopy
<1>2. CASE /\ Image!Exists("own") /\ file' = [file EXCEPT ![Image!Target] = file["own"]]
           /\ save' = [save EXCEPT !.step = "reset", !.success = TRUE]
  <2>1. save.step = "write" /\ Image!Quiet /\ FilesInv /\ Image!Target \in Image!Names
    BY TargetIs DEF Image!DirectCopy, ImageSaveInv
  <2>2. file["own"] \in CompletePictures
    BY <1>2, <2>1, ExistsIs DEF Image!Names
  <2>3. FilesInv' /\ file'[Image!Target] \in CompletePictures
    BY <1>2, <2>1, <2>2, NameWritten
  <2> QED BY <1>2, <2>1, <2>3, ReplaceStep
<1> QED BY <1>1, <1>2 DEF Image!DirectCopy

LEMMA MoveToUriStep ==
  ASSUME ImageSaveInv, Image!MoveToUri
  PROVE  ImageSaveInv' /\ Image!SaveIsAtomic
<1>1. CASE Image!Fails /\ UNCHANGED file
  BY <1>1, FailsStep DEF Image!MoveToUri
<1>2. CASE /\ file' = [file EXCEPT ![Image!Target] = file["temp"], !["temp"] = Image!None]
           /\ save' = [save EXCEPT !.step = "reset", !.success = TRUE]
  <2>1. /\ save.step = "move" /\ Image!Quiet /\ FilesInv /\ Image!Target \in Image!Names
        /\ file["temp"] \in CompletePictures
        /\ save.kept /\ changes = 0 => file["temp"].mode = Image!Masked(save.was)
    BY TargetIs DEF Image!MoveToUri, ImageSaveInv, StepInv
  <2>2. FilesInv' /\ file'[Image!Target] = file["temp"]
    BY <1>2, <2>1, NamesAre, PicturesAreParts DEF FilesInv
  <2> QED BY <1>2, <2>1, <2>2, ReplaceStep
<1> QED BY <1>1, <1>2 DEF Image!MoveToUri

LEMMA WriteJpegStep ==
  ASSUME ImageSaveInv, Image!WriteJpeg
  PROVE  ImageSaveInv' /\ Image!SaveIsAtomic
<1>1. save.step = "write"
  BY DEF Image!WriteJpeg
<1>2. CASE Image!Fails /\ UNCHANGED file /\ Image!Quiet
  BY <1>1, <1>2, FailsStep
<1>3. CASE Image!Write(IF file["own"].pic = "loaded" THEN "image" ELSE "foreign")
  <2>1. (IF file["own"].pic = "loaded" THEN "image" ELSE "foreign") \in Image!Complete
    BY DEF Image!Complete
  <2> QED BY <1>1, <1>3, <2>1, WriteStep
<1>4. CASE Image!Goes("pixbuf") /\ UNCHANGED file /\ Image!Quiet
  <2>1. /\ FilesInv /\ SaveInv /\ save \in SaveCalls /\ UNCHANGED <<file, object, changes>>
        /\ ~save.success /\ ~save.error /\ ~object.reset /\ ~save.kept
        /\ file["temp"] \in FileContents
    BY <1>1, <1>4 DEF ImageSaveInv, SaveInv, StepInv, Image!Quiet
  <2>2. /\ save' \in SaveCalls /\ SameCall /\ SameAttributes /\ save'.step = "pixbuf"
        /\ save'.error = save.error /\ save'.success = save.success
    BY <1>4, <2>1, GoesIs DEF SaveSteps
  <2>3. FilesInv' /\ SaveInv' /\ StepInv'
    BY <2>1, <2>2 DEF FilesInv, SaveInv, StepInv, SameAttributes
  <2>4. Image!ForgottenWhenSaved'
    BY <2>1, <2>2 DEF ImageSaveInv, Image!ForgottenWhenSaved, SameCall
  <2>5. Image!SaveIsAtomic
    BY <1>1, <2>1, <2>2, SameTarget DEF Image!SaveIsAtomic, Image!Promise!Stutter, Image!Phase
  <2> QED BY <2>3, <2>4, <2>5 DEF ImageSaveInv
<1> QED BY <1>2, <1>3, <1>4 DEF Image!WriteJpeg

LEMMA WritePixbufStep ==
  ASSUME ImageSaveInv, Image!WritePixbuf
  PROVE  ImageSaveInv' /\ Image!SaveIsAtomic
<1>1. save.step \in {"write", "pixbuf"} /\ "image" \in Image!Complete
  BY DEF Image!WritePixbuf, Image!Complete
<1>2. CASE Image!Fails /\ UNCHANGED file /\ Image!Quiet
  BY <1>1, <1>2, FailsStep
<1>3. CASE Image!Write("image")
  BY <1>1, <1>3, WriteStep
<1> QED BY <1>2, <1>3 DEF Image!WritePixbuf

LEMMA RestoreAttributesStep ==
  ASSUME ImageSaveInv, Image!RestoreAttributes
  PROVE  ImageSaveInv' /\ Image!SaveIsAtomic
<1>1. /\ FilesInv /\ SaveInv /\ save \in SaveCalls /\ UNCHANGED <<object, changes>>
      /\ save.step = "attributes" /\ ~save.success /\ ~save.error /\ ~object.reset
      /\ file["temp"] \in CompletePictures /\ Image!Target \in Image!Names
  BY TargetIs DEF Image!RestoreAttributes, ImageSaveInv, SaveInv, StepInv, Image!Quiet
<1>2. PICK set \in BOOLEAN :
        /\ save' = [save EXCEPT !.step = "move", !.kept = set /\ Image!Exists(Image!Target),
                                !.was = file[Image!Target].mode]
        /\ file' = IF set /\ Image!Exists(Image!Target)
                   THEN [file EXCEPT !["temp"].mode = Image!Masked(file[Image!Target].mode)]
                   ELSE file
  BY Zenon DEF Image!RestoreAttributes
<1> DEFINE keeps == set /\ Image!Exists(Image!Target)
           mode == file[Image!Target].mode
           p == [file["temp"] EXCEPT !.mode = Image!Masked(mode)]
<1>3. mode \in Image!Modes \cup {"none"} /\ (keeps => mode \in Image!Modes)
  <2>1. file[Image!Target] \in {Image!None} \cup CompletePictures
    BY <1>1 DEF FilesInv
  <2>2. Image!Exists(Image!Target) => file[Image!Target] \in CompletePictures
    BY <2>1 DEF Image!Exists
  <2> QED BY <2>1, <2>2 DEF Image!None, CompletePictures
<1>4. keeps => p \in CompletePictures /\ p.mode = Image!Masked(mode)
  BY <1>1, <1>3 DEF CompletePictures, Image!Masked, Image!Modes
<1>5. /\ save' = [save EXCEPT !.step = "move", !.kept = keeps, !.was = mode]
      /\ keeps => file' = [file EXCEPT !["temp"] = p]
      /\ ~keeps => file' = file
      /\ keeps \in BOOLEAN
  BY <1>2
<1> HIDE DEF keeps, mode, p
<1>6. /\ save' \in SaveCalls /\ SameCall /\ save'.step = "move" /\ save'.kept = keeps
      /\ save'.was = mode /\ save'.error = save.error /\ save'.success = save.success
  BY <1>1, <1>3, <1>5 DEF SaveCalls, SaveSteps, SameCall
<1>7. /\ FilesInv' /\ file'["temp"] \in CompletePictures /\ \A n \in Image!Names : file'[n] = file[n]
      /\ keeps => file'["temp"].mode = Image!Masked(mode)
  <2>1. CASE keeps
    <3>1. /\ FilesInv /\ p \in CompletePictures /\ p \in {Image!None} \cup FileContents
          /\ p.mode = Image!Masked(mode)
      BY <1>1, <1>4, <2>1, PicturesAreParts
    <3>2. file' = [file EXCEPT !["temp"] = p]
      BY <1>5, <2>1
    <3>3. FilesInv' /\ file'["temp"] = p /\ \A n \in Image!Names : file'[n] = file[n]
      BY <3>1, <3>2, TemporaryWritten
    <3> QED BY <3>1, <3>3
  <2>2. CASE ~keeps
    BY <1>1, <1>5, <2>2 DEF FilesInv
  <2> QED BY <2>1, <2>2
<1>8. SaveInv' /\ StepInv'
  BY <1>1, <1>6, <1>7 DEF SaveInv, StepInv
<1>9. Image!ForgottenWhenSaved'
  BY <1>1, <1>6 DEF ImageSaveInv, Image!ForgottenWhenSaved, SameCall
<1>10. Image!SaveIsAtomic
  BY <1>1, <1>6, <1>7, SameTarget DEF Image!SaveIsAtomic, Image!Promise!Stutter, Image!Phase
<1> QED BY <1>7, <1>8, <1>9, <1>10 DEF ImageSaveInv
LEMMA ResetStep ==
  ASSUME ImageSaveInv, Image!Reset
  PROVE  ImageSaveInv' /\ Image!SaveIsAtomic
<1>1. /\ FilesInv /\ SaveInv /\ save \in SaveCalls /\ UNCHANGED <<file, changes>>
      /\ save.step = "reset" /\ save.success /\ Image!Goes("delete") /\ Image!Target \in Image!Names
      /\ object' = [object EXCEPT !.modified = FALSE, !.file = Image!Target, !.reset = TRUE]
  BY TargetIs DEF Image!Reset, ImageSaveInv, SaveInv, StepInv
<1>2. /\ save' \in SaveCalls /\ SameCall /\ SameAttributes /\ save'.step = "delete"
      /\ save'.error = save.error /\ save'.success = save.success
  BY <1>1, GoesIs DEF SaveSteps
<1>3. /\ object' \in [status : {"LOADED", "SAVING", "UNKNOWN"}, modified : BOOLEAN,
                     reset : BOOLEAN, file : Image!Names]
      /\ object'.file = Image!Target
  BY <1>1 DEF SaveInv
<1>4. FilesInv' /\ SaveInv' /\ StepInv'
  BY <1>1, <1>2, <1>3 DEF FilesInv, SaveInv, StepInv
<1>5. Image!ForgottenWhenSaved'
  BY <1>1, <1>2, <1>3, SameTarget DEF ImageSaveInv, Image!ForgottenWhenSaved, SameAttributes
<1>6. Image!SaveIsAtomic
  BY <1>1, <1>2, SameTarget DEF Image!SaveIsAtomic, Image!Promise!Stutter, Image!Phase
<1> QED BY <1>4, <1>5, <1>6 DEF ImageSaveInv

LEMMA DeleteStep ==
  ASSUME ImageSaveInv, Image!Delete
  PROVE  ImageSaveInv' /\ Image!SaveIsAtomic
<1>1. /\ FilesInv /\ SaveInv /\ save \in SaveCalls /\ UNCHANGED changes
      /\ save.step = "delete" /\ Image!Goes("ended") /\ Image!Target \in Image!Names
      /\ file' = [file EXCEPT !["temp"] = Image!None]
      /\ object' = [object EXCEPT !.status = IF save.kind = "save" THEN "LOADED" ELSE "UNKNOWN"]
  BY TargetIs DEF Image!Delete, ImageSaveInv, SaveInv, StepInv
<1>2. /\ save' \in SaveCalls /\ SameCall /\ SameAttributes /\ save'.step = "ended"
      /\ save'.error = save.error /\ save'.success = save.success
  BY <1>1, GoesIs DEF SaveSteps
<1>3. /\ object' \in [status : {"LOADED", "SAVING", "UNKNOWN"}, modified : BOOLEAN,
                     reset : BOOLEAN, file : Image!Names]
      /\ object'.modified = object.modified /\ object'.reset = object.reset
      /\ object'.file = object.file
  BY <1>1 DEF SaveInv
<1>4. FilesInv' /\ file'["temp"] = Image!None /\ \A n \in Image!Names : file'[n] = file[n]
  BY <1>1, TemporaryWritten
<1>5. SaveInv' /\ StepInv'
  BY <1>1, <1>2, <1>3, <1>4 DEF SaveInv, StepInv
<1>6. Image!ForgottenWhenSaved'
  BY <1>1, <1>2, <1>3, <1>4, SameTarget
     DEF ImageSaveInv, Image!ForgottenWhenSaved, SameCall, SameAttributes
<1>7. Image!SaveIsAtomic
  BY <1>1, <1>2, <1>4, SameTarget DEF Image!SaveIsAtomic, Image!Promise!Stutter, Image!Phase
<1> QED BY <1>4, <1>5, <1>6, <1>7 DEF ImageSaveInv

LEMMA CrashStep ==
  ASSUME ImageSaveInv, Image!Crash
  PROVE  ImageSaveInv' /\ Image!SaveIsAtomic
<1>1. /\ FilesInv /\ SaveInv /\ save \in SaveCalls /\ UNCHANGED <<file, object, changes>>
      /\ save.step \notin {"none", "ended", "crashed"} /\ Image!Goes("crashed")
  BY DEF Image!Crash, ImageSaveInv, SaveInv
<1>2. /\ save' \in SaveCalls /\ SameCall /\ SameAttributes /\ save'.step = "crashed"
      /\ save'.error = save.error /\ save'.success = save.success
  BY <1>1, GoesIs DEF SaveSteps
<1>3. FilesInv' /\ SaveInv' /\ StepInv'
  BY <1>1, <1>2 DEF FilesInv, SaveInv, StepInv
<1>4. Image!ForgottenWhenSaved'
  BY <1>1, <1>2, SameTarget DEF ImageSaveInv, Image!ForgottenWhenSaved, SameCall, SameAttributes
<1>5. Image!SaveIsAtomic
  BY <1>1, <1>2, SameTarget
     DEF Image!SaveIsAtomic, Image!Promise!Next, Image!Promise!Fail, Image!Promise!Stutter,
         Image!Phase
<1> QED BY <1>3, <1>4, <1>5 DEF ImageSaveInv

LEMMA OtherProgramStep ==
  ASSUME ImageSaveInv, Image!OtherProgram
  PROVE  ImageSaveInv' /\ Image!SaveIsAtomic
<1>1. /\ FilesInv /\ SaveInv /\ StepInv /\ UNCHANGED <<save, object>>
      /\ changes \in Nat /\ changes' = changes + 1
  BY DEF Image!OtherProgram, ImageSaveInv, SaveInv
<1>2. PICK n \in Image!Names :
        \/ file' = [file EXCEPT ![n] = Image!None]
        \/ file' = [file EXCEPT ![n] = Image!Picture("foreign", "public")]
        \/ Image!Exists(n) /\ file' = [file EXCEPT ![n].mode = "protected"]
  BY Zenon DEF Image!OtherProgram
<1>3. \E p \in {Image!None} \cup CompletePictures : file' = [file EXCEPT ![n] = p]
  <2>1. Image!Picture("foreign", "public") \in CompletePictures
    BY DEF Image!Picture, CompletePictures, Image!Complete, Image!Modes
  <2>2. Image!Exists(n) => [file[n] EXCEPT !.mode = "protected"] \in CompletePictures
    BY <1>1, ExistsIs DEF CompletePictures, Image!Modes
  <2> QED BY <1>2, <2>1, <2>2
<1>4. FilesInv' /\ file'["temp"] = file["temp"]
  BY <1>1, <1>3, NameWritten, NamesAre
<1>5. SaveInv' /\ StepInv'
  BY <1>1, <1>4 DEF SaveInv, StepInv
<1>6. Image!ForgottenWhenSaved'
  <2>1. Image!Target' = Image!Target /\ changes' # 0
    BY <1>1 DEF Image!Target
  <2> QED BY <1>1, <1>4, <2>1 DEF ImageSaveInv, Image!ForgottenWhenSaved
<1>7. Image!SaveIsAtomic
  BY <1>1 DEF Image!SaveIsAtomic, Image!Promise!Next, Image!Promise!Other, Image!Phase
<1> QED BY <1>4, <1>5, <1>6, <1>7 DEF ImageSaveInv
-----------------------------------------------------------------------------
(* The theorems *)

LEMMA ImageSaveInit == Image!Init => ImageSaveInv
<1> SUFFICES ASSUME Image!Init PROVE ImageSaveInv
  OBVIOUS
<1>1. PICK other \in {Image!None, Image!Picture("foreign", "private")} :
        file = [own |-> Image!Picture("loaded", "public"), other |-> other, temp |-> Image!None]
  BY Zenon DEF Image!Init
<1>2. /\ Image!Picture("loaded", "public") \in CompletePictures
      /\ Image!Picture("foreign", "private") \in CompletePictures
  BY DEF Image!Picture, CompletePictures, Image!Complete, Image!Modes
<1>3. FilesInv /\ file["temp"] = Image!None
  BY <1>1, <1>2, PicturesAreParts DEF FilesInv, Image!Names
<1>4. save \in SaveCalls /\ save.step = "none" /\ ~save.error /\ ~save.success /\ ~save.modified
      /\ ~save.kept
  BY DEF Image!Init, SaveCalls, SaveSteps, Image!Names
<1>5. SaveInv /\ ~object.reset
  BY <1>4 DEF Image!Init, SaveInv, Image!Names
<1> QED BY <1>3, <1>4, <1>5 DEF ImageSaveInv, StepInv, Image!ForgottenWhenSaved

LEMMA ImageSaveStep ==
  ASSUME ImageSaveInv, [Image!Next]_(Image!saveVars)
  PROVE  ImageSaveInv' /\ [Image!SaveIsAtomic]_(Image!saveVars)
<1>1. CASE Image!Next
  BY <1>1, CallStep, CheckStep, DirectCopyStep, WriteJpegStep, WritePixbufStep,
     RestoreAttributesStep, MoveToUriStep, ResetStep, DeleteStep, CrashStep, OtherProgramStep
     DEF Image!Next
<1>2. CASE UNCHANGED Image!saveVars
  BY <1>2 DEF Image!saveVars, ImageSaveInv, FilesInv, SaveInv, StepInv,
              Image!ForgottenWhenSaved, Image!Target
<1> QED BY <1>1, <1>2

LEMMA SpecImageSaveInv == ImageSaveSpec => []ImageSaveInv
BY ImageSaveInit, ImageSaveStep, PTL DEF ImageSaveSpec

\* The names are those of files, a file holds a picture or is not there, and other programs
\* are as busy as they may be (eom_image_save_by_info, eom_image_save_as_by_info).
THEOREM FileTypeCorrect == ASSUME MaxChanges \in Nat PROVE ImageSaveSpec => []Image!TypeOK
<1>1. Image!Init => changes \in 0..MaxChanges
  BY DEF Image!Init
<1>2. changes \in 0..MaxChanges /\ [Image!Next]_(Image!saveVars) => (changes \in 0..MaxChanges)'
  <2>1. /\ Image!Call \/ Image!Check => UNCHANGED changes
        /\ Image!DirectCopy \/ Image!MoveToUri \/ Image!RestoreAttributes => UNCHANGED changes
        /\ Image!WriteJpeg \/ Image!WritePixbuf => UNCHANGED changes
        /\ Image!Reset \/ Image!Delete \/ Image!Crash => UNCHANGED changes
    BY Zenon DEF Image!Call, Image!Check, Image!DirectCopy, Image!MoveToUri,
                 Image!RestoreAttributes, Image!WriteJpeg, Image!WritePixbuf,
                 Image!Write, Image!Reset, Image!Delete, Image!Crash, Image!Quiet
  <2>2. changes \in 0..MaxChanges /\ Image!OtherProgram => (changes \in 0..MaxChanges)'
    <3>1. Image!OtherProgram => changes < MaxChanges /\ changes' = changes + 1
      BY DEF Image!OtherProgram
    <3> QED BY <3>1
  <2> QED BY <2>1, <2>2 DEF Image!Next, Image!saveVars
<1>3. ImageSaveInv /\ changes \in 0..MaxChanges => Image!TypeOK
  BY DEF ImageSaveInv, FilesInv, SaveInv, SaveCalls, Image!TypeOK, CompletePictures
<1> QED BY <1>1, <1>2, <1>3, SpecImageSaveInv, PTL DEF ImageSaveSpec

\* A save implements AtomicSave: other programs see the old file and then the whole new one,
\* or, when a step fails or the program dies, the old one for ever; whatever they do to the
\* files meanwhile (the temporary file of eom-image.c and tmp_file_move_to_uri).
THEOREM FileAtomic == ImageSaveSpec => [][Image!SaveIsAtomic]_(Image!saveVars)
BY SpecImageSaveInv, ImageSaveStep, PTL DEF ImageSaveSpec

\* The changes are forgotten only when they are in the file that the image then names, no
\* end of a save leaves the temporary file, and a file that nobody else touches keeps its mode
\* (eom_image_reset_modifications, tmp_file_delete, tmp_file_restore_unix_attributes).
THEOREM FileForgotten == ImageSaveSpec => []Image!ForgottenWhenSaved
<1>1. ImageSaveInv => Image!ForgottenWhenSaved
  BY DEF ImageSaveInv
<1> QED BY <1>1, SpecImageSaveInv, PTL
-----------------------------------------------------------------------------
(* Both levels *)

SavesInv == /\ part = "save" => IInv
            /\ part = "imageSave" => ImageSaveInv

LEMMA SavesInvInit == SavesInit => SavesInv
BY SavesAssumption, InitKeeps, ImageSaveInit DEF SavesInit, SavesInv

\* A step of the sum is one of the level that was chosen, or none.
LEMMA SavesNextIs ==
  [SavesNext]_savesVars => /\ part' = part
                           /\ part = "save" => [Next]_vars
                           /\ part = "imageSave" => [Image!Next]_(Image!saveVars)
BY DEF SavesNext, savesVars, imageSaveVars, Image!saveVars

LEMMA SavesInvStep == SavesInv /\ [SavesNext]_savesVars => SavesInv'
BY SavesAssumption, SavesNextIs, NextKeeps, ImageSaveStep DEF SavesInv

\* However many images are saved one by one, in the background, at closing or under
\* another name, while others write, remove and protect files: the window has save_job
\* exactly while a job writes, a change is lost only if it was declined, late, cancelled or
\* its save failed, and an image forgets its changes when its file has them.
THEOREM SavesKnown == SavesSpec => []SavesAreKnown
<1>1. SavesInv => SavesAreKnown
  <2>1. IInv => WindowKnowsJob /\ LossesAreKnown
    BY KnowsJobStep DEF IInv
  <2>2. ImageSaveInv => Image!ForgottenWhenSaved
    BY DEF ImageSaveInv
  <2> QED BY <2>1, <2>2 DEF SavesInv, SavesAreKnown
<1> QED BY <1>1, SavesInvInit, SavesInvStep, PTL DEF SavesSpec

\* No step of a save shows other programs a half of a picture, or changes the file twice, or
\* at all if the save fails; and none of a job with several images replaces a file.
THEOREM SavesAtomic == SavesSpec => SavesAreAtomic
<1>1. SavesInv /\ [SavesNext]_savesVars
        => [ /\ part = "imageSave" => Image!SaveIsAtomic
             /\ part = "save" => SeveralReplaceNothing ]_savesVars
  <2> SUFFICES ASSUME SavesInv, [SavesNext]_savesVars, savesVars' # savesVars
               PROVE  /\ part = "imageSave" => Image!SaveIsAtomic
                      /\ part = "save" => SeveralReplaceNothing
    OBVIOUS
  <2>1. CASE part = "imageSave"
    <3>1. Image!Next
      BY <2>1 DEF SavesNext
    <3>2. [Image!SaveIsAtomic]_(Image!saveVars)
      BY <2>1, <3>1, ImageSaveStep DEF SavesInv
    <3>3. UNCHANGED Image!saveVars => UNCHANGED savesVars
      BY <2>1, <3>1 DEF SavesNext, savesVars, imageSaveVars, Image!saveVars
    <3> QED BY <2>1, <3>2, <3>3
  <2>2. CASE part = "save"
    BY <2>2, SavesNextIs, SeveralReplaceStep DEF SavesInv
  <2> QED BY <2>1, <2>2
<1> QED BY <1>1, SavesInvInit, SavesInvStep, PTL DEF SavesSpec, SavesAreAtomic
=============================================================================
