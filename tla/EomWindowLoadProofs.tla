------------------------- MODULE EomWindowLoadProofs -------------------------
(***************************************************************************)
(* Proofs about EomWindowLoad for every set of images and every bound.     *)
(***************************************************************************)
EXTENDS EomWindowLoad, EomLemmas

-----------------------------------------------------------------------------
(* The inductive invariant *)

JobKinds == {"load", "transform", "save"}
JobRecords == [kind : JobKinds, image : Images, error : BOOLEAN]

IsQueued(j) == \E k \in JobKinds : Contains(queue[k], j)
IsAnswered(j) == Contains(answered, j)

\* A job that somebody has
Alive(j) == jobs[j].kind # "none"

\* A queue has the jobs of its kind, each once.
QueuesInv ==
  /\ jobs \in [Jobs -> {NoJob} \cup JobRecords]
  /\ queue \in [JobKinds -> Seq(Jobs)]
  /\ \A k \in JobKinds : /\ IsInjective(queue[k])
                         /\ \A j \in Jobs : Contains(queue[k], j) => jobs[j].kind = k

\* A finished job waits once for its callback, and is in no queue by then.
AnsweredInv ==
  /\ answered \in Seq(Jobs) /\ IsInjective(answered)
  /\ \A j \in Jobs : IsAnswered(j) => Alive(j) /\ ~IsQueued(j) /\ worker.job # j

Loading == {"load", "read", "settle", "apply"}
Transforming == {"transform", "transformed"}
Counting == {"ref", "refd", "unref", "unrefd"}

Workers == [at : {"idle", "end"} \cup Loading \cup Transforming \cup Counting,
            job : Jobs \cup {None}, failed : BOOLEAN, count : Nat]

\* The render thread has a job that is in no queue, and is where such a job is handled.
WorkerInv ==
  /\ worker \in Workers
  /\ worker.job = None => worker.at = "idle"
  /\ worker.job # None =>
       /\ worker.at # "idle"
       /\ Alive(worker.job) /\ ~IsQueued(worker.job)
       /\ worker.at \in Loading => J.kind # "transform"
       /\ worker.at \in Transforming => J.kind = "transform"
       /\ worker.at \in Counting => J.kind = "save"

\* What is left of a handler of the main thread
Handlers == {<<>>, <<"cancel">>, <<"choose">>, <<"retry">>, <<"display">>,
             <<"cancel", "choose">>, <<"cancel", "retry">>, <<"display", "cancel">>}

ImageRecords == [status : {"UNKNOWN", "LOADING", "LOADED", "FAILED"},
                 pixels : PixelStates, cancel : BOOLEAN, refs : Nat]

ImagesInv ==
  /\ img \in [Images -> ImageRecords]
  /\ view \in [image : Images \cup {None}, pixels : PixelStates]
  /\ selected \in Images \cup {None} /\ current \in Images \cup {None}
  /\ area \in Images \cup {None}

\* The jobs the window holds are of their kinds; that of a load is in no queue while it is
\* being cleared.
HeldInv ==
  /\ todo \in Handlers
  /\ loadJob \in Jobs \cup {None} /\ transformJob \in Jobs \cup {None}
  /\ loadJob # None => /\ jobs[loadJob].kind = "load"
                       /\ todo # <<>> /\ Head(todo) = "cancel" => ~IsQueued(loadJob)
                       /\ todo = <<"display", "cancel">> => ~IsQueued(loadJob)
  /\ transformJob # None => jobs[transformJob].kind = "transform"

OneIf(condition) == IF condition THEN 1 ELSE 0

\* Of the transforms that were asked for and not applied two have a job at most, the one
\* that runs and the last one.
DueInv ==
  /\ due \in [Images -> Nat]
  /\ \A j \in Jobs : Contains(queue["transform"], j) => j = transformJob
  /\ \A i \in Images :
       due[i] >= OneIf(worker.at \in Transforming /\ I = i)
                 + OneIf(\E j \in Jobs : Contains(queue["transform"], j) /\ jobs[j].image = i)

\* The window stands where the selection is.
Stands == /\ current = selected
          /\ view.image \in {selected, None} /\ area \in {selected, None}
          /\ area # None => view.image = None

\* How it gets there: a load that is awaited is one of the selected image, which is not
\* current yet; a handler that displays has made it current; and the scroll view has no
\* image but the current one.
FollowsInv ==
  /\ todo # <<>> => selected \in Images
  /\ loadJob # None /\ todo \notin {<<"cancel", "choose">>, <<"cancel", "retry">>}
       => jobs[loadJob].image = selected
  /\ loadJob # None /\ todo = <<>> => area = None /\ current # selected
  /\ todo \in {<<"choose">>, <<"retry">>, <<"display">>} => loadJob = None
  /\ todo \in {<<"display">>, <<"display", "cancel">>} => area = None /\ current = selected
  /\ todo \notin {<<"display">>, <<"display", "cancel">>} => view.image \in {current, None}
  /\ todo = <<"cancel">> \/ (todo = <<>> /\ loadJob = None) => Stands

\* A handler that may ask for a load started when there was room for its job, and the
\* render thread takes none.
Free(j) == /\ ~IsQueued(j) /\ ~IsAnswered(j)
           /\ j # worker.job /\ j # loadJob /\ j # transformJob

RoomInv ==
  todo \in {<<"choose">>, <<"retry">>, <<"cancel", "choose">>, <<"cancel", "retry">>}
    => \E j \in Jobs : Free(j)

IInv == /\ QueuesInv /\ AnsweredInv /\ WorkerInv /\ ImagesInv
        /\ HeldInv /\ DueInv /\ FollowsInv /\ RoomInv

\* A load that was answered without an error
LoadedJob == /\ loadJob # None /\ todo = <<>>
             /\ ~jobs[loadJob].error
             /\ IsAnswered(loadJob) \/ (worker.job = loadJob /\ worker.at = "end")

\* Nothing is saved.
Alone == "save" \notin setting.operations

\* Without save jobs the scroll view alone frees pixels, those of an image that no load
\* has just been made for.
PixelsInv ==
  /\ \A j \in Jobs : jobs[j].kind # "save"
  /\ \A i \in Images : img[i].refs = OneIf(view.image = i)
  /\ view.image # None => img[view.image].pixels # "none"
  /\ todo # <<>> /\ Head(todo) = "display" => img[current].pixels # "none"
  /\ LoadedJob => img[selected].pixels # "none"
-----------------------------------------------------------------------------
(* The tables of jobs and the queues *)

LEMMA KindsAre == ToSet(Kinds) = JobKinds /\ DOMAIN Kinds = 1 .. 3
                  /\ \A n \in 1 .. 3 : Kinds[n] \in JobKinds
  BY DEF ToSet, Kinds, JobKinds

LEMMA ToSetContains ==
  ASSUME NEW S, NEW s \in Seq(S), NEW x
  PROVE  /\ x \in ToSet(s) <=> Contains(s, x)
         /\ Contains(s, x) => x \in S
<1>1. DOMAIN s = 1 .. Len(s) /\ \A i \in 1 .. Len(s) : s[i] \in S
  BY LenProperties, ElementOfSeq
<1> QED BY <1>1 DEF ToSet, Contains

\* What a queue may be
Queues == {q \in [JobKinds -> Seq(Jobs)] : \A k \in JobKinds : IsInjective(q[k])}

LEMMA QueuedIs ==
  ASSUME QueuesInv
  PROVE  /\ queue \in Queues
         /\ \A j : j \in Queued <=> IsQueued(j)
         /\ \A j : IsQueued(j) => j \in Jobs
         /\ \A j : \A k \in JobKinds : Contains(queue[k], j) => j \in Jobs /\ jobs[j].kind = k
<1>1. queue \in Queues
  BY DEF QueuesInv, Queues
<1>2. \A k \in JobKinds : \A j : /\ j \in ToSet(queue[k]) <=> Contains(queue[k], j)
                                 /\ Contains(queue[k], j) => j \in Jobs
  <2> SUFFICES ASSUME NEW k \in JobKinds, NEW j
               PROVE  /\ j \in ToSet(queue[k]) <=> Contains(queue[k], j)
                      /\ Contains(queue[k], j) => j \in Jobs
    OBVIOUS
  <2>1. queue[k] \in Seq(Jobs)
    BY DEF QueuesInv
  <2> QED BY <2>1, ToSetContains
<1>3. \A j : j \in Queued <=> IsQueued(j)
  BY <1>2, KindsAre DEF Queued, IsQueued
<1> QED BY <1>1, <1>2, <1>3 DEF QueuesInv, IsQueued

LEMMA AnsweredIs ==
  ASSUME AnsweredInv
  PROVE  \A j : /\ j \in ToSet(answered) <=> IsAnswered(j)
                /\ IsAnswered(j) => j \in Jobs
  BY ToSetContains DEF AnsweredInv, IsAnswered

LEMMA RoomIs ==
  ASSUME QueuesInv, AnsweredInv
  PROVE  Room => \E j \in Jobs : Free(j)
<1>1. \A j \in Jobs : j \notin Live <=> Free(j)
  BY QueuedIs, AnsweredIs DEF Live, Free
<1> QED BY <1>1 DEF Room

\* Where there is room a new job is one that nobody has.
LEMMA NewJobIsNew ==
  ASSUME QueuesInv, AnsweredInv, \E j \in Jobs : Free(j)
  PROVE  NewJob \in Jobs /\ Free(NewJob)
<1>1. \E j \in Jobs : j \notin Live
  BY QueuedIs, AnsweredIs DEF Live, Free
<1>2. NewJob \in Jobs /\ NewJob \notin Live
  BY <1>1 DEF NewJob
<1> QED BY <1>2, QueuedIs, AnsweredIs DEF Live, Free

\* eom_job_queue_remove_job takes that job from its queue, if it is there, and no other.
LEMMA RemovedTakes ==
  ASSUME QueuesInv, NEW j
  PROVE  /\ Removed(j) \in Queues
         /\ \A k \in JobKinds : \A x : Contains(Removed(j)[k], x) <=> Contains(queue[k], x) /\ x # j
<1>1. CASE ~IsQueued(j)
  <2>1. Removed(j) = queue
    BY <1>1, QueuedIs DEF Removed
  <2> QED BY <1>1, <2>1, QueuedIs DEF IsQueued
<1>2. CASE IsQueued(j)
  <2> DEFINE k == jobs[j].kind
  <2>1. k \in JobKinds /\ j \in Jobs /\ Contains(queue[k], j)
        /\ \A d \in JobKinds : Contains(queue[d], j) => d = k
    BY <1>2, QueuedIs DEF IsQueued
  <2>2. queue \in [JobKinds -> Seq(Jobs)] /\ queue[k] \in Seq(Jobs) /\ IsInjective(queue[k])
    BY <2>1 DEF QueuesInv
  <2> DEFINE n == CHOOSE n \in DOMAIN queue[k] : queue[k][n] = j
             r == RemoveAt(queue[k], n)
  <2>3. Removed(j) = [queue EXCEPT ![k] = r]
    BY <1>2, QueuedIs DEF Removed
  <2> HIDE DEF k
  <2>4. n \in 1 .. Len(queue[k]) /\ queue[k][n] = j
    BY <2>1, <2>2, LenProperties DEF Contains
  <2> HIDE DEF n
  <2>5. /\ r \in Seq(Jobs)
        /\ IsInjective(r) /\ \A x : Contains(r, x) <=> Contains(queue[k], x) /\ x # queue[k][n]
    <3>1. r \in Seq(Jobs)
      BY <2>2, <2>4, RemoveAtElements
    <3>2. IsInjective(r) /\ \A x : Contains(r, x) <=> Contains(queue[k], x) /\ x # queue[k][n]
      BY <2>2, <2>4, RemoveAtContains, Zenon
    <3> QED BY <3>1, <3>2
  <2> HIDE DEF r
  <2>6. /\ Removed(j) \in [JobKinds -> Seq(Jobs)]
        /\ \A d \in JobKinds : Removed(j)[d] = IF d = k THEN r ELSE queue[d]
    BY <2>1, <2>2, <2>3, <2>5
  <2>7. Removed(j) \in Queues
    BY <2>5, <2>6 DEF Queues, QueuesInv
  <2> QED BY <2>1, <2>4, <2>5, <2>6, <2>7
<1> QED BY <1>1, <1>2

\* eom_job_queue_add_job appends a job that is in no queue to that of its kind.
LEMMA AddedPuts ==
  ASSUME NEW q \in Queues, NEW kind \in JobKinds, NewJob \in Jobs, ~Contains(q[kind], NewJob)
  PROVE  /\ Added(q, kind) \in Queues
         /\ \A k \in JobKinds : \A x : Contains(Added(q, kind)[k], x) <=>
              Contains(q[k], x) \/ (k = kind /\ x = NewJob)
<1> DEFINE n == NewJob
<1> HIDE DEF n
<1>1. q \in [JobKinds -> Seq(Jobs)] /\ q[kind] \in Seq(Jobs) /\ IsInjective(q[kind])
      /\ n \in Jobs /\ ~Contains(q[kind], n)
  BY DEF Queues, n
<1> DEFINE r == Append(q[kind], n)
<1>2. /\ r \in Seq(Jobs) /\ IsInjective(r)
      /\ \A x : Contains(r, x) <=> Contains(q[kind], x) \/ x = n
  BY <1>1, AppendElements, AppendContains
<1>3. Added(q, kind) = [q EXCEPT ![kind] = r]
  BY DEF Added, n
<1> HIDE DEF r
<1>4. /\ Added(q, kind) \in [JobKinds -> Seq(Jobs)]
      /\ \A k \in JobKinds : Added(q, kind)[k] = IF k = kind THEN r ELSE q[k]
  BY <1>1, <1>2, <1>3
<1> QED BY <1>1, <1>2, <1>4 DEF Queues, n

JobTable == [Jobs -> {NoJob} \cup JobRecords]

LEMMA UnrefIs ==
  ASSUME NEW table \in JobTable, NEW j \in Jobs \cup {None}, NEW holders
  PROVE  /\ Unref(table, j, holders) \in JobTable
         /\ \A k \in Jobs : Unref(table, j, holders)[k] =
              IF k = j /\ j \notin holders THEN NoJob ELSE table[k]
<1>1. CASE j \in holders \cup {None}
  BY <1>1, WindowLoadAssumption DEF Unref
<1>2. CASE j \notin holders \cup {None}
  BY <1>2 DEF Unref, JobTable
<1> QED BY <1>1, <1>2

LEMMA MadeIs ==
  ASSUME NEW table \in JobTable, NEW kind \in JobKinds, NEW i \in Images, NewJob \in Jobs
  PROVE  /\ Made(table, kind, i) \in JobTable
         /\ \A k \in Jobs : Made(table, kind, i)[k] =
              IF k = NewJob THEN [kind |-> kind, image |-> i, error |-> FALSE] ELSE table[k]
<1> DEFINE n == NewJob
           r == [kind |-> kind, image |-> i, error |-> FALSE]
<1>1. n \in Jobs /\ r \in JobRecords /\ Made(table, kind, i) = [table EXCEPT ![n] = r]
  BY DEF Made, JobRecords
<1> HIDE DEF n, r
<1>2. /\ [table EXCEPT ![n] = r] \in JobTable
      /\ \A k \in Jobs : [table EXCEPT ![n] = r][k] = IF k = n THEN r ELSE table[k]
  BY <1>1 DEF JobTable
<1> QED BY <1>1, <1>2 DEF n, r

\* A job that somebody has is a record.
LEMMA AliveIs ==
  ASSUME QueuesInv
  PROVE  /\ \A j \in Jobs : Alive(j) <=> jobs[j] \in JobRecords
         /\ \A j \in Jobs : Alive(j) <=> jobs[j].kind \in JobKinds
         /\ \A j : IsQueued(j) => j \in Jobs /\ Alive(j)
<1>1. ASSUME NEW j \in Jobs
      PROVE  /\ Alive(j) <=> jobs[j] \in JobRecords
             /\ Alive(j) <=> jobs[j].kind \in JobKinds
  BY DEF QueuesInv, Alive, JobRecords, JobKinds, NoJob
<1> QED BY <1>1, QueuedIs DEF IsQueued
-----------------------------------------------------------------------------
(* The steps of the render thread *)

\* The jobs keep their kinds and images.
JobsKept == /\ jobs' \in JobTable
            /\ \A j \in Jobs : jobs'[j].kind = jobs[j].kind /\ jobs'[j].image = jobs[j].image

LEMMA RoomKeeps ==
  ASSUME IInv, UNCHANGED todo, \A j \in Jobs : Free(j) => Free(j)'
  PROVE  RoomInv'
  BY DEF IInv, RoomInv

\* A step of a job's run leaves the queues and the window alone.
LEMMA RunsKeeps ==
  ASSUME IInv, Runs, worker'.job = worker.job, JobsKept
  PROVE  QueuesInv' /\ AnsweredInv' /\ HeldInv' /\ FollowsInv' /\ RoomInv'
<1>1. /\ queue' = queue /\ answered' = answered /\ selected' = selected /\ current' = current
      /\ loadJob' = loadJob /\ transformJob' = transformJob /\ view' = view
      /\ area' = area /\ todo' = todo
  BY DEF Runs, windowVars
<1>2. QueuesInv'
  BY <1>1 DEF IInv, QueuesInv, JobsKept, JobTable
<1>3. \A j : IsQueued(j)' <=> IsQueued(j)
  BY <1>1 DEF IsQueued
<1>4. \A j : IsAnswered(j)' <=> IsAnswered(j)
  BY <1>1 DEF IsAnswered
<1>5. \A j \in Jobs : Alive(j)' <=> Alive(j)
  BY DEF JobsKept, Alive
<1>6. AnsweredInv'
  BY <1>1, <1>3, <1>4, <1>5 DEF IInv, AnsweredInv
<1>7. HeldInv'
  BY <1>1, <1>3 DEF IInv, HeldInv, JobsKept
<1>8. FollowsInv'
  BY <1>1 DEF IInv, HeldInv, FollowsInv, Stands, JobsKept
<1>9. RoomInv'
  BY <1>1, <1>3, <1>4, RoomKeeps DEF Free
<1> QED BY <1>2, <1>6, <1>7, <1>8, <1>9

\* A step that applies no transform leaves their number.
LEMMA DueKeeps ==
  ASSUME IInv, JobsKept, UNCHANGED <<due, queue, transformJob>>,
         worker'.at \in Transforming => worker.at \in Transforming /\ worker'.job = worker.job
  PROVE  DueInv'
<1>1. worker.at \in Transforming => worker.job \in Jobs
  BY DEF IInv, WorkerInv, Workers, Transforming
<1>2. ASSUME NEW i \in Images
      PROVE  /\ (worker.at \in Transforming /\ I = i)' => worker.at \in Transforming /\ I = i
             /\ (\E j \in Jobs : Contains(queue["transform"], j) /\ jobs[j].image = i)'
                  <=> (\E j \in Jobs : Contains(queue["transform"], j) /\ jobs[j].image = i)
  BY <1>1 DEF JobsKept, I, J
<1>3. ASSUME NEW i \in Images
      PROVE  due'[i] >= OneIf((worker.at \in Transforming /\ I = i)')
               + OneIf((\E j \in Jobs : Contains(queue["transform"], j) /\ jobs[j].image = i)')
  BY <1>2 DEF IInv, DueInv, OneIf
<1> QED BY <1>3 DEF IInv, DueInv, OneIf

\* While the render thread runs a job nobody else frees it or queues it.
LEMMA Running ==
  ASSUME IInv, worker.at # "idle"
  PROVE  /\ worker.job \in Jobs /\ J \in JobRecords /\ J.kind \in JobKinds /\ I \in Images
         /\ ~IsQueued(worker.job) /\ ~IsAnswered(worker.job)
         /\ img[I] \in ImageRecords
<1>1. worker.job \in Jobs /\ Alive(worker.job) /\ ~IsQueued(worker.job)
  BY DEF IInv, WorkerInv, Workers
<1>2. J \in JobRecords
  BY <1>1, AliveIs DEF IInv, J
<1>3. J.kind \in JobKinds /\ I \in Images
  BY <1>2 DEF JobRecords, I
<1>4. ~IsAnswered(worker.job)
  BY <1>1 DEF IInv, AnsweredInv
<1> QED BY <1>1, <1>2, <1>3, <1>4 DEF IInv, ImagesInv

\* A step within a run, to a place that is one for a job of its kind.
LEMMA WorkerKeeps ==
  ASSUME IInv, worker.at # "idle", JobsKept, UNCHANGED queue,
         worker' \in Workers, worker'.job = worker.job, worker'.at # "idle",
         worker'.at \in Loading => J.kind # "transform",
         worker'.at \in Transforming => J.kind = "transform",
         worker'.at \in Counting => J.kind = "save"
  PROVE  WorkerInv'
<1>1. worker.job \in Jobs /\ J.kind \in JobKinds /\ ~IsQueued(worker.job)
  BY Running
<1>2. J'.kind = J.kind /\ Alive(worker.job)' /\ ~IsQueued(worker.job)'
  BY <1>1 DEF JobsKept, J, Alive, IsQueued, JobKinds
<1>3. worker'.job # None
  BY <1>1, WindowLoadAssumption
<1> QED BY <1>2, <1>3 DEF WorkerInv

LEMMA SameJobs == ASSUME QueuesInv, UNCHANGED jobs PROVE JobsKept
  BY DEF QueuesInv, JobsKept, JobTable

LEMMA ImagesKept ==
  ASSUME ImagesInv, UNCHANGED windowVars, img' \in [Images -> ImageRecords]
  PROVE  ImagesInv'
  BY DEF ImagesInv, windowVars

\* A step of a run that leaves the jobs, and that applies no transform
LEMMA QuietStep ==
  ASSUME IInv, worker.at # "idle", Runs, UNCHANGED <<jobs, due>>,
         worker' \in Workers, worker'.job = worker.job, worker'.at # "idle",
         worker'.at \in Loading => J.kind # "transform",
         worker'.at \in Transforming => J.kind = "transform" /\ worker.at \in Transforming,
         worker'.at \in Counting => J.kind = "save",
         img' \in [Images -> ImageRecords]
  PROVE  IInv'
<1>1. JobsKept
  BY SameJobs DEF IInv
<1>2. UNCHANGED <<queue, transformJob, windowVars>>
  BY DEF Runs, windowVars
<1>3. QueuesInv' /\ AnsweredInv' /\ HeldInv' /\ FollowsInv' /\ RoomInv'
  BY <1>1, RunsKeeps
<1>4. WorkerInv'
  BY <1>1, <1>2, WorkerKeeps
<1>5. DueInv'
  BY <1>1, <1>2, DueKeeps
<1>6. ImagesInv'
  BY <1>2, ImagesKept DEF IInv
<1> QED BY <1>3, <1>4, <1>5, <1>6 DEF IInv

LEMMA StartLoadStep == ASSUME IInv, StartLoad PROVE IInv'
<1>1. worker.at = "load" /\ Runs /\ UNCHANGED <<jobs, due>>
  BY DEF StartLoad, At
<1>2. I \in Images /\ img[I] \in ImageRecords /\ J.kind \in JobKinds /\ J.kind # "transform"
      /\ worker \in Workers /\ img \in [Images -> ImageRecords]
  BY <1>1, Running DEF IInv, WorkerInv, ImagesInv, Loading
<1>3. CASE worker' = [worker EXCEPT !.at = After] /\ UNCHANGED img
  <2>1. After = "end" \/ (After = "unref" /\ J.kind = "save")
    BY <1>2 DEF After, JobKinds
  <2>2. worker' \in Workers /\ worker'.job = worker.job /\ worker'.at = After
    BY <1>2, <1>3, <2>1 DEF Workers, Counting
  <2> QED BY <1>1, <1>2, <1>3, <2>1, <2>2, QuietStep DEF Loading, Transforming, Counting
<1>4. CASE worker' = [worker EXCEPT !.at = "read"]
           /\ img' = [img EXCEPT ![I].status = "LOADING"]
  <2>1. worker' \in Workers /\ worker'.job = worker.job /\ worker'.at = "read"
    BY <1>2, <1>4 DEF Workers, Loading
  <2>2. img' \in [Images -> ImageRecords]
    BY <1>2, <1>4 DEF ImageRecords
  <2> QED BY <1>1, <1>2, <2>1, <2>2, QuietStep DEF Loading, Transforming, Counting
<1> QED BY <1>3, <1>4 DEF StartLoad, Goto

LEMMA ReadStep == ASSUME IInv, Read PROVE IInv'
<1>1. worker.at = "read" /\ Runs /\ UNCHANGED <<jobs, img, due>>
  BY DEF Read, At
<1>2. img[I] \in ImageRecords /\ J.kind \in JobKinds /\ J.kind # "transform"
      /\ worker \in Workers /\ img \in [Images -> ImageRecords]
  BY <1>1, Running DEF IInv, WorkerInv, ImagesInv, Loading
<1>3. PICK pc \in {"settle", "apply"}, failed \in BOOLEAN :
        worker' = [worker EXCEPT !.at = pc, !.failed = failed]
  BY <1>2 DEF Read, ImageRecords
<1>4. worker' \in Workers /\ worker'.job = worker.job /\ worker'.at \in {"settle", "apply"}
  BY <1>2, <1>3 DEF Workers, Loading
<1> QED BY <1>1, <1>2, <1>4, QuietStep DEF Loading, Transforming, Counting

LEMMA SettleStep == ASSUME IInv, Settle PROVE IInv'
<1>1. worker.at = "settle" /\ Runs /\ UNCHANGED <<jobs, due>>
      /\ worker' = [worker EXCEPT !.at = "apply"]
  BY DEF Settle, At, Goto
<1>2. I \in Images /\ img[I] \in ImageRecords /\ J.kind \in JobKinds /\ J.kind # "transform"
      /\ worker \in Workers /\ img \in [Images -> ImageRecords]
  BY <1>1, Running DEF IInv, WorkerInv, ImagesInv, Loading
<1>3. worker' \in Workers /\ worker'.job = worker.job /\ worker'.at = "apply"
  BY <1>1, <1>2 DEF Workers, Loading
<1>4. NotLoaded(img[I]) \in ImageRecords /\ [img[I] EXCEPT !.pixels = "raw"] \in ImageRecords
  BY <1>2 DEF NotLoaded, ImageRecords, PixelStates
<1>5. img' \in [Images -> ImageRecords]
  BY <1>2, <1>4 DEF Settle
<1> QED BY <1>1, <1>2, <1>3, <1>5, QuietStep DEF Loading, Transforming, Counting

LEMMA ApplyStep == ASSUME IInv, ApplyTransformations PROVE IInv'
<1>1. worker.at = "apply" /\ Runs /\ UNCHANGED due
      /\ worker' = [worker EXCEPT !.at = After]
      /\ jobs' = [jobs EXCEPT ![worker.job].error = worker.failed]
  BY DEF ApplyTransformations, At, Goto
<1>2. /\ I \in Images /\ img[I] \in ImageRecords /\ J.kind \in JobKinds /\ J.kind # "transform"
      /\ worker \in Workers /\ img \in [Images -> ImageRecords]
      /\ worker.job \in Jobs /\ jobs[worker.job] \in JobRecords /\ jobs \in JobTable
  BY <1>1, Running DEF IInv, WorkerInv, ImagesInv, QueuesInv, JobTable, Loading, J
<1>3. After = "end" \/ (After = "unref" /\ J.kind = "save")
  BY <1>2 DEF After, JobKinds
<1>4. worker' \in Workers /\ worker'.job = worker.job /\ worker'.at = After
  BY <1>1, <1>2, <1>3 DEF Workers, Counting
<1>5. JobsKept
  <2> DEFINE w == worker.job
             r == [jobs[w] EXCEPT !.error = worker.failed]
  <2>1. worker.failed \in BOOLEAN /\ w \in Jobs /\ jobs[w] \in JobRecords
        /\ jobs' = [jobs EXCEPT ![w] = r]
    BY <1>1, <1>2 DEF Workers
  <2>2. r \in JobRecords /\ r.kind = jobs[w].kind /\ r.image = jobs[w].image
    BY <2>1 DEF JobRecords
  <2> HIDE DEF w, r
  <2> QED BY <1>2, <2>1, <2>2 DEF JobsKept, JobTable
<1>6. [img[I] EXCEPT !.status = "FAILED"] \in ImageRecords
      /\ [img[I] EXCEPT !.status = "LOADED", !.pixels = "ready"] \in ImageRecords
  BY <1>2 DEF ImageRecords, PixelStates
<1>7. img' \in [Images -> ImageRecords]
  BY <1>2, <1>6 DEF ApplyTransformations
<1>8. UNCHANGED <<queue, transformJob, windowVars>>
  BY <1>1 DEF Runs, windowVars
<1>9. QueuesInv' /\ AnsweredInv' /\ HeldInv' /\ FollowsInv' /\ RoomInv'
  BY <1>1, <1>4, <1>5, RunsKeeps
<1>10. WorkerInv'
  BY <1>1, <1>3, <1>4, <1>5, <1>8, WorkerKeeps DEF Loading, Transforming, Counting
<1>11. DueInv'
  BY <1>1, <1>3, <1>4, <1>5, <1>8, DueKeeps DEF Transforming
<1>12. ImagesInv'
  BY <1>7, <1>8, ImagesKept DEF IInv
<1> QED BY <1>9, <1>10, <1>11, <1>12 DEF IInv

LEMMA StartTransformStep == ASSUME IInv, StartTransform PROVE IInv'
<1>1. worker.at = "transform" /\ Runs /\ UNCHANGED <<jobs, img, due>>
      /\ worker' = [worker EXCEPT !.at = "transformed", !.failed = img[I].pixels = "none"]
  BY DEF StartTransform, At
<1>2. J.kind = "transform" /\ worker \in Workers /\ img \in [Images -> ImageRecords]
  BY <1>1, Running DEF IInv, WorkerInv, Workers, ImagesInv, Transforming
<1>3. worker' \in Workers /\ worker'.job = worker.job /\ worker'.at = "transformed"
  <2> DEFINE b == img[I].pixels = "none"
  <2>1. b \in BOOLEAN /\ worker' = [worker EXCEPT !.at = "transformed", !.failed = b]
    BY <1>1
  <2> HIDE DEF b
  <2> QED BY <1>2, <2>1 DEF Workers, Transforming
<1> QED BY <1>1, <1>2, <1>3, QuietStep DEF Loading, Transforming, Counting

\* The transform that is applied is one of those that are due.
LEMMA TransformedStep == ASSUME IInv, Transformed PROVE IInv'
<1>1. worker.at = "transformed" /\ Runs /\ UNCHANGED jobs
      /\ worker' = [worker EXCEPT !.at = "end"]
      /\ due' = [due EXCEPT ![I] = @ - 1]
  BY DEF Transformed, At, Goto
<1>2. I \in Images /\ img[I] \in ImageRecords /\ worker \in Workers
      /\ img \in [Images -> ImageRecords] /\ due \in [Images -> Nat]
  BY <1>1, Running DEF IInv, WorkerInv, ImagesInv, DueInv
<1>3. worker' \in Workers /\ worker'.job = worker.job /\ worker'.at = "end"
  BY <1>1, <1>2 DEF Workers
<1>4. img' \in [Images -> ImageRecords]
  BY <1>2 DEF Transformed, ImageRecords, PixelStates
<1>5. JobsKept
  BY <1>1, SameJobs DEF IInv
<1>6. UNCHANGED <<queue, transformJob, windowVars>>
  BY <1>1 DEF Runs, windowVars
<1>7. QueuesInv' /\ AnsweredInv' /\ HeldInv' /\ FollowsInv' /\ RoomInv'
  BY <1>1, <1>3, <1>5, RunsKeeps
<1>8. WorkerInv'
  BY <1>1, <1>3, <1>5, <1>6, WorkerKeeps DEF Loading, Transforming, Counting
<1>9. DueInv'
  <2> DEFINE Awaits(i) == \E j \in Jobs : Contains(queue["transform"], j) /\ jobs[j].image = i
  <2>1. \A i \in Images : due[i] \in Nat
          /\ due[i] >= OneIf(I = i) + OneIf(Awaits(i))
    BY <1>1, <1>2 DEF IInv, DueInv, Transforming, OneIf
  <2>2. \A i \in Images : OneIf(Awaits(i)) \in {0, 1} /\ OneIf(I = i) = IF I = i THEN 1 ELSE 0
    BY DEF OneIf
  <2>3. \A i \in Images : Awaits(i)' <=> Awaits(i)
    BY <1>1, <1>6
  <2>4. \A i \in Images : OneIf(Awaits(i)') = OneIf(Awaits(i))
    BY <2>3 DEF OneIf
  <2>5. \A i \in Images : OneIf((worker.at \in Transforming /\ I = i)') = 0
    BY <1>3 DEF Transforming, OneIf
  <2> HIDE DEF Awaits
  <2>6. due' \in [Images -> Nat]
        /\ \A i \in Images : due'[i] = IF i = I THEN due[i] - 1 ELSE due[i]
    BY <1>1, <1>2, <2>1, <2>2
  <2>7. \A i \in Images : due'[i] >= 0 + OneIf(Awaits(i))
    BY <2>1, <2>2, <2>6
  <2>8. \A i \in Images : due'[i] >= OneIf((worker.at \in Transforming /\ I = i)') + OneIf(Awaits(i)')
    BY <2>4, <2>5, <2>7
  <2> QED BY <1>1, <1>6, <2>6, <2>8 DEF DueInv, IInv, OneIf, Awaits
<1>10. ImagesInv'
  BY <1>4, <1>6, ImagesKept DEF IInv
<1> QED BY <1>7, <1>8, <1>9, <1>10 DEF IInv

LEMMA ReadCountStep == ASSUME IInv, ReadCount PROVE IInv'
<1>1. worker.at \in {"ref", "unref"} /\ Runs /\ UNCHANGED <<jobs, img, due>>
  BY DEF ReadCount
<1>2. J.kind = "save" /\ worker \in Workers /\ img[I] \in ImageRecords
      /\ img \in [Images -> ImageRecords]
  BY <1>1, Running DEF IInv, WorkerInv, Workers, ImagesInv, Counting
<1>3. worker' \in Workers /\ worker'.job = worker.job /\ worker'.at \in {"refd", "unrefd"}
  <2>1. PICK pc \in {"refd", "unrefd"}, n \in Nat : worker' = [worker EXCEPT !.at = pc, !.count = n]
    BY <1>1, <1>2 DEF ReadCount, ImageRecords
  <2> QED BY <1>2, <2>1 DEF Workers, Counting
<1> QED BY <1>1, <1>2, <1>3, QuietStep DEF Loading, Transforming, Counting

LEMMA FreedIs ==
  ASSUME NEW f \in ImageRecords
  PROVE  /\ Freed(f) \in ImageRecords /\ FreedIfUnused(f) \in ImageRecords
         /\ Cancelled(f) \in ImageRecords
         /\ Freed(f).refs = f.refs /\ FreedIfUnused(f).refs = f.refs /\ Cancelled(f).refs = f.refs
         /\ Cancelled(f).pixels = f.pixels
  BY DEF Freed, FreedIfUnused, Cancelled, ImageRecords, PixelStates

LEMMA WriteCountStep == ASSUME IInv, WriteCount PROVE IInv'
<1>1. worker.at \in {"refd", "unrefd"} /\ Runs /\ UNCHANGED <<jobs, due>>
  BY DEF WriteCount, At
<1>2. J.kind = "save" /\ worker \in Workers /\ I \in Images /\ img[I] \in ImageRecords
      /\ img \in [Images -> ImageRecords]
  BY <1>1, Running DEF IInv, WorkerInv, Workers, ImagesInv, Counting
<1>3. img[I].refs \in Nat /\ worker.count \in Nat
  BY <1>2 DEF ImageRecords, Workers
<1>4. \A n \in Nat : Up(n) \in Nat /\ Down(n) \in Nat
  BY DEF Up, Down
<1>5. Outcomes(Up) \subseteq Nat /\ Outcomes(Down) \subseteq Nat
  BY <1>3, <1>4 DEF Outcomes
<1>6. \A n \in Nat : /\ [img[I] EXCEPT !.refs = n] \in ImageRecords
                      /\ FreedIfUnused([img[I] EXCEPT !.refs = n]) \in ImageRecords
  <2>1. \A n \in Nat : [img[I] EXCEPT !.refs = n] \in ImageRecords
    BY <1>2 DEF ImageRecords
  <2> QED BY <2>1, FreedIs
<1>7. PICK n \in Nat :
        \/ worker' = [worker EXCEPT !.at = "load", !.count = 0]
           /\ img' = [img EXCEPT ![I] = [@ EXCEPT !.refs = n]]
        \/ worker' = [worker EXCEPT !.at = "end"]
           /\ img' = [img EXCEPT ![I] = FreedIfUnused([@ EXCEPT !.refs = n])]
  <2> DEFINE ups == Outcomes(Up)
             downs == Outcomes(Down)
  <2>1. \/ /\ worker' = [worker EXCEPT !.at = "load", !.count = 0]
           /\ \E n \in ups : img' = [img EXCEPT ![I] = [@ EXCEPT !.refs = n]]
        \/ /\ worker' = [worker EXCEPT !.at = "end"]
           /\ \E n \in downs : img' = [img EXCEPT ![I] = FreedIfUnused([@ EXCEPT !.refs = n])]
    BY Zenon DEF WriteCount, Goto
  <2> HIDE DEF ups, downs
  <2>2. ups \subseteq Nat /\ downs \subseteq Nat
    BY <1>5 DEF ups, downs
  <2> QED BY <2>1, <2>2
<1>8. worker' \in Workers /\ worker'.job = worker.job /\ worker'.at \in {"load", "end"}
  <2>1. \/ worker' = [worker EXCEPT !.at = "load", !.count = 0]
        \/ worker' = [worker EXCEPT !.at = "end"]
    BY <1>7
  <2>2. worker \in Workers
    BY <1>2
  <2>3. CASE worker' = [worker EXCEPT !.at = "load", !.count = 0]
    BY <2>2, <2>3 DEF Workers, Loading
  <2>4. CASE worker' = [worker EXCEPT !.at = "end"]
    BY <2>2, <2>4 DEF Workers
  <2> QED BY <2>1, <2>3, <2>4
<1>9. img' \in [Images -> ImageRecords]
  BY <1>2, <1>6, <1>7
<1> QED BY <1>1, <1>2, <1>8, <1>9, QuietStep DEF Loading, Transforming, Counting

\* The job that has run is the last one that waits for its callback.
LEMMA EndStep == ASSUME IInv, End PROVE IInv'
<1>1. worker.at = "end" /\ worker' = Waiting /\ answered' = Append(answered, worker.job)
      /\ UNCHANGED <<jobs, queue, img, due, windowVars>>
  BY DEF End, At
<1>2. UNCHANGED <<selected, current, loadJob, transformJob, view, area, todo>>
  BY <1>1 DEF windowVars
<1>3. /\ worker.job \in Jobs /\ Alive(worker.job)
      /\ ~IsQueued(worker.job) /\ ~IsAnswered(worker.job)
  BY <1>1, Running, AliveIs DEF IInv, J
<1>4. answered \in Seq(Jobs) /\ IsInjective(answered)
  BY DEF IInv, AnsweredInv
<1>5. /\ answered' \in Seq(Jobs) /\ IsInjective(answered')
      /\ \A j : IsAnswered(j)' <=> IsAnswered(j) \/ j = worker.job
  <2> DEFINE w == worker.job
  <2>1. w \in Jobs /\ ~Contains(answered, w) /\ answered' = Append(answered, w)
    BY <1>1, <1>3 DEF IsAnswered
  <2> HIDE DEF w
  <2>2. /\ Append(answered, w) \in Seq(Jobs) /\ IsInjective(Append(answered, w))
        /\ \A x : Contains(Append(answered, w), x) <=> Contains(answered, x) \/ x = w
    BY <1>4, <2>1, AppendElements, AppendContains
  <2> QED BY <2>1, <2>2 DEF IsAnswered, w
<1>6. \A j : (IsQueued(j)' <=> IsQueued(j)) /\ (Alive(j)' <=> Alive(j))
  BY <1>1 DEF IsQueued, Alive
<1>7. worker'.job = None /\ worker'.at = "idle" /\ worker' \in Workers
  BY <1>1 DEF Waiting, Workers
<1>8. QueuesInv'
  BY <1>1 DEF IInv, QueuesInv
<1>9. AnsweredInv'
  <2>1. \A j \in Jobs : worker'.job # j
    BY <1>7, WindowLoadAssumption
  <2> QED BY <1>3, <1>5, <1>6, <2>1 DEF IInv, AnsweredInv
<1>10. WorkerInv'
  BY <1>7 DEF WorkerInv
<1>11. ImagesInv'
  BY <1>1, <1>2 DEF IInv, ImagesInv
<1>12. HeldInv'
  BY <1>1, <1>2, <1>6 DEF IInv, HeldInv
<1>13. DueInv'
  <2>1. JobsKept
    BY <1>1, SameJobs DEF IInv
  <2> QED BY <1>1, <1>2, <1>7, <2>1, DueKeeps DEF Transforming
<1>14. FollowsInv'
  BY <1>1, <1>2 DEF IInv, FollowsInv, Stands
<1>15. RoomInv'
  <2>1. \A j \in Jobs : j # worker'.job
    BY <1>7, WindowLoadAssumption
  <2> QED BY <1>1, <1>2, <1>5, <1>6, <2>1, RoomKeeps DEF Free
<1> QED BY <1>8, <1>9, <1>10, <1>11, <1>12, <1>13, <1>14, <1>15 DEF IInv

\* The first job of the most urgent queue is in no queue any more.
LEMMA PopStep == ASSUME IInv, Pop PROVE IInv'
<1>1. worker.at = "idle" /\ UNCHANGED <<jobs, answered, img, due, windowVars>>
  BY DEF Pop, At
<1>2. UNCHANGED <<selected, current, loadJob, transformJob, view, area, todo>>
  BY <1>1 DEF windowVars
<1>3. PICK kind \in JobKinds :
        /\ queue[kind] # <<>>
        /\ worker' = [Waiting EXCEPT !.at = IF kind = "save" THEN "ref" ELSE kind,
                                     !.job = Head(queue[kind])]
        /\ queue' = [queue EXCEPT ![kind] = Tail(@)]
  BY KindsAre DEF Pop
<1> DEFINE h == Head(queue[kind])
           t == Tail(queue[kind])
<1>4. queue \in [JobKinds -> Seq(Jobs)] /\ queue[kind] \in Seq(Jobs) /\ IsInjective(queue[kind])
  BY DEF IInv, QueuesInv
<1>5. /\ h \in Jobs /\ t \in Seq(Jobs)
      /\ IsInjective(t) /\ Contains(queue[kind], h)
      /\ \A x : Contains(t, x) <=> Contains(queue[kind], x) /\ x # h
  BY <1>3, <1>4, TailElements, TailContains
<1>6. worker' = [Waiting EXCEPT !.at = IF kind = "save" THEN "ref" ELSE kind, !.job = h]
      /\ queue' = [queue EXCEPT ![kind] = t]
  BY <1>3
<1> HIDE DEF h, t
<1>7. jobs[h].kind = kind /\ Alive(h) /\ ~IsAnswered(h)
      /\ \A k \in JobKinds : Contains(queue[k], h) => k = kind
  BY <1>5 DEF IInv, QueuesInv, AnsweredInv, IsQueued, Alive, JobKinds
<1>8. /\ queue' \in [JobKinds -> Seq(Jobs)]
      /\ \A k \in JobKinds : queue'[k] = IF k = kind THEN t ELSE queue[k]
  BY <1>4, <1>5, <1>6
<1>9. \A k \in JobKinds : \A x : Contains(queue'[k], x) <=> Contains(queue[k], x) /\ x # h
  BY <1>5, <1>7, <1>8
<1>10. \A j : IsQueued(j)' <=> IsQueued(j) /\ j # h
  BY <1>9 DEF IsQueued
<1>11. /\ worker' \in Workers /\ worker'.job = h
       /\ worker'.at = IF kind = "save" THEN "ref" ELSE kind
  BY <1>5, <1>6 DEF Waiting, Workers, Loading, Transforming, Counting, JobKinds
<1>12. JobsKept
  BY <1>1, SameJobs DEF IInv
<1>13. QueuesInv'
  BY <1>1, <1>5, <1>8, <1>9 DEF IInv, QueuesInv
<1>14. AnsweredInv'
  <2>1. \A j : (IsAnswered(j)' <=> IsAnswered(j)) /\ (Alive(j)' <=> Alive(j))
    BY <1>1 DEF IsAnswered, Alive
  <2> QED BY <1>1, <1>7, <1>10, <1>11, <2>1 DEF IInv, AnsweredInv
<1>15. WorkerInv'
  <2>1. J'.kind = kind /\ Alive(worker.job)' /\ ~IsQueued(worker.job)'
    BY <1>1, <1>7, <1>10, <1>11 DEF J, Alive
  <2>2. worker'.job # None
    BY <1>5, <1>11, WindowLoadAssumption
  <2> QED BY <1>11, <2>1, <2>2 DEF WorkerInv, Loading, Transforming, Counting, JobKinds
<1>16. ImagesInv'
  BY <1>1, <1>2 DEF IInv, ImagesInv
<1>17. HeldInv'
  BY <1>1, <1>2, <1>10 DEF IInv, HeldInv
<1>18. DueInv'
  <2> DEFINE Awaits(i) == \E j \in Jobs : Contains(queue["transform"], j) /\ jobs[j].image = i
  <2>1. due' = due /\ due \in [Images -> Nat] /\ transformJob' = transformJob
        /\ \A j \in Jobs : Contains(queue["transform"], j) => j = transformJob
    BY <1>1, <1>2 DEF IInv, DueInv
  <2>2. \A j \in Jobs : Contains(queue'["transform"], j) <=> Contains(queue["transform"], j) /\ j # h
    BY <1>9 DEF JobKinds
  <2>3. \A i \in Images : due[i] \in Nat /\ due[i] >= 0 + OneIf(Awaits(i))
    BY <1>1 DEF IInv, DueInv, Transforming, OneIf
  <2>4. CASE kind = "transform"
    <3>1. \A j \in Jobs : ~Contains(queue'["transform"], j)
      BY <1>5, <2>1, <2>2, <2>4
    <3>2. \A i \in Images : OneIf(Awaits(i)') = 0
      BY <3>1 DEF OneIf
    <3>3. \A i \in Images : (worker.at \in Transforming /\ I = i)' => Awaits(i)
      BY <1>1, <1>5, <1>11, <2>4 DEF I, J
    <3>4. \A i \in Images : OneIf((worker.at \in Transforming /\ I = i)') <= OneIf(Awaits(i))
      BY <3>3 DEF OneIf
    <3>5. \A i \in Images : OneIf((worker.at \in Transforming /\ I = i)') \in {0, 1}
                            /\ OneIf(Awaits(i)) \in {0, 1}
      BY DEF OneIf
    <3>6. \A i \in Images : due[i] >= OneIf((worker.at \in Transforming /\ I = i)') + OneIf(Awaits(i)')
      <4> HIDE DEF Awaits
      <4> QED BY <2>3, <3>2, <3>4, <3>5
    <3> QED BY <2>1, <2>2, <3>6 DEF DueInv
  <2>5. CASE kind # "transform"
    <3>1. worker'.at \notin Transforming
      BY <1>11, <2>5 DEF Transforming, JobKinds
    <3>2. \A j \in Jobs : Contains(queue'["transform"], j) <=> Contains(queue["transform"], j)
      BY <1>7, <2>2, <2>5 DEF JobKinds
    <3>3. \A i \in Images : (Awaits(i)' <=> Awaits(i))
      BY <1>1, <3>2
    <3>4. \A i \in Images : OneIf((worker.at \in Transforming /\ I = i)') = 0
                            /\ OneIf(Awaits(i)') = OneIf(Awaits(i))
      BY <3>1, <3>3 DEF OneIf
    <3>5. \A i \in Images : due[i] >= OneIf((worker.at \in Transforming /\ I = i)') + OneIf(Awaits(i)')
      <4> HIDE DEF Awaits
      <4> QED BY <2>3, <3>4
    <3> QED BY <2>1, <2>2, <3>5 DEF DueInv
  <2> QED BY <2>4, <2>5
<1>19. FollowsInv'
  BY <1>1, <1>2 DEF IInv, FollowsInv, Stands
<1>20. RoomInv'
  <2>1. IsQueued(h)
    BY <1>5 DEF IsQueued
  <2>2. \A j : IsAnswered(j)' <=> IsAnswered(j)
    BY <1>1 DEF IsAnswered
  <2> QED BY <1>2, <1>10, <1>11, <2>1, <2>2, RoomKeeps DEF Free
<1> QED BY <1>13, <1>14, <1>15, <1>16, <1>17, <1>18, <1>19, <1>20 DEF IInv

LEMMA WorkerStep == ASSUME IInv, WorkerNext PROVE IInv'
  BY PopStep, StartLoadStep, ReadStep, SettleStep, ApplyStep, StartTransformStep,
     TransformedStep, ReadCountStep, WriteCountStep, EndStep DEF WorkerNext
-----------------------------------------------------------------------------
(* The steps of the main thread *)

LEMMA HeadsAndTails ==
  /\ Head(<<"cancel">>) = "cancel" /\ Tail(<<"cancel">>) = <<>>
  /\ Head(<<"choose">>) = "choose" /\ Tail(<<"choose">>) = <<>>
  /\ Head(<<"retry">>) = "retry" /\ Tail(<<"retry">>) = <<>>
  /\ Head(<<"display">>) = "display" /\ Tail(<<"display">>) = <<>>
  /\ Head(<<"cancel", "choose">>) = "cancel" /\ Tail(<<"cancel", "choose">>) = <<"choose">>
  /\ Head(<<"cancel", "retry">>) = "cancel" /\ Tail(<<"cancel", "retry">>) = <<"retry">>
  /\ Head(<<"display", "cancel">>) = "display" /\ Tail(<<"display", "cancel">>) = <<"cancel">>
  /\ <<"display">> \o <<>> = <<"display">>
  OBVIOUS

\* Which handler begins with what
LEMMA HandlerIs ==
  ASSUME todo \in Handlers, todo # <<>>
  PROVE  /\ Head(todo) = "cancel" => todo \in {<<"cancel">>, <<"cancel", "choose">>, <<"cancel", "retry">>}
         /\ Head(todo) \in {"choose", "retry"} => todo \in {<<"choose">>, <<"retry">>}
         /\ Head(todo) = "display" => todo \in {<<"display">>, <<"display", "cancel">>}
  BY HeadsAndTails DEF Handlers

\* The job that runs is left alone.
LEMMA MainWorker ==
  ASSUME IInv, UNCHANGED worker,
         worker.job \in Jobs => jobs'[worker.job] = jobs[worker.job] /\ ~IsQueued(worker.job)'
  PROVE  WorkerInv'
<1>1. CASE worker.job = None
  BY <1>1 DEF IInv, WorkerInv
<1>2. CASE worker.job # None
  <2>1. worker.job \in Jobs
    BY <1>2 DEF IInv, WorkerInv, Workers
  <2>2. J' = J /\ Alive(worker.job)' /\ ~IsQueued(worker.job)'
    BY <1>2, <2>1 DEF IInv, WorkerInv, J, Alive
  <2> QED BY <1>2, <2>2 DEF IInv, WorkerInv
<1> QED BY <1>1, <1>2

\* The queue of transforms and its jobs are left alone.
LEMMA MainDue ==
  ASSUME IInv, UNCHANGED <<worker, due>>,
         worker.job \in Jobs => jobs'[worker.job] = jobs[worker.job],
         \A j \in Jobs : Contains(queue'["transform"], j) <=> Contains(queue["transform"], j),
         \A j \in Jobs : Contains(queue["transform"], j) => jobs'[j] = jobs[j] /\ j = transformJob'
  PROVE  DueInv'
<1> DEFINE Awaits(i) == \E j \in Jobs : Contains(queue["transform"], j) /\ jobs[j].image = i
           Runs1(i) == worker.at \in Transforming /\ I = i
<1>1. worker.at \in Transforming => worker.job \in Jobs
  BY DEF IInv, WorkerInv, Workers, Transforming
<1>2. \A i \in Images : (Awaits(i)' <=> Awaits(i)) /\ (Runs1(i)' <=> Runs1(i))
  BY <1>1 DEF I, J
<1>3. \A i \in Images : OneIf(Awaits(i)') = OneIf(Awaits(i)) /\ OneIf(Runs1(i)') = OneIf(Runs1(i))
  BY <1>2 DEF OneIf
<1>4. \A i \in Images : due[i] >= OneIf(Runs1(i)) + OneIf(Awaits(i))
  BY DEF IInv, DueInv
<1> HIDE DEF Awaits, Runs1
<1>5. \A i \in Images : due'[i] >= OneIf(Runs1(i)') + OneIf(Awaits(i)')
  BY <1>3, <1>4
<1> QED BY <1>5 DEF IInv, DueInv, Awaits, Runs1

\* The scroll view takes the image it is given, and nothing of the images but their memory
\* and references changes.
LEMMA SetImageIs ==
  ASSUME ImagesInv, NEW i \in Images \cup {None}, SetImage(i)
  PROVE  /\ img' \in [Images -> ImageRecords]
         /\ view' \in [image : Images \cup {None}, pixels : PixelStates]
         /\ view'.image = i
<1>1. img \in [Images -> ImageRecords] /\ view \in [image : Images \cup {None}, pixels : PixelStates]
  BY DEF ImagesInv
<1>2. CASE view.image = i
  BY <1>1, <1>2 DEF SetImage
<1>3. CASE view.image # i
  <2> DEFINE f == DataUnref(img[view.image])
             dropped == IF view.image = None THEN img ELSE [img EXCEPT ![view.image] = f]
  <2>1. /\ view' = IF i = None THEN Blank ELSE [image |-> i, pixels |-> dropped[i].pixels]
        /\ img' = IF i = None THEN dropped ELSE [dropped EXCEPT ![i].refs = @ + 1]
    BY <1>3 DEF SetImage
  <2>2. view.image # None => f \in ImageRecords
    <3> SUFFICES ASSUME view.image # None PROVE f \in ImageRecords
      OBVIOUS
    <3>1. img[view.image] \in ImageRecords
      BY <1>1
    <3>2. [img[view.image] EXCEPT !.refs = Down(@)] \in ImageRecords
      BY <3>1 DEF ImageRecords, Down
    <3> QED BY <3>2, FreedIs DEF DataUnref
  <2> HIDE DEF f
  <2>3. dropped \in [Images -> ImageRecords]
    BY <1>1, <2>2
  <2> HIDE DEF dropped
  <2>4. CASE i = None
    BY <2>1, <2>3, <2>4 DEF Blank, PixelStates
  <2>5. CASE i # None
    <3>1. dropped[i] \in ImageRecords /\ i \in Images
      BY <2>3, <2>5
    <3>2. [dropped[i] EXCEPT !.refs = @ + 1] \in ImageRecords
      BY <3>1 DEF ImageRecords
    <3>3. img' \in [Images -> ImageRecords]
      BY <2>1, <2>3, <2>5, <3>2
    <3>4. view' = [image |-> i, pixels |-> dropped[i].pixels] /\ dropped[i].pixels \in PixelStates
      BY <2>1, <2>5, <3>1 DEF ImageRecords
    <3> QED BY <3>1, <3>3, <3>4
  <2> QED BY <2>4, <2>5
<1> QED BY <1>2, <1>3

\* A change of the selection takes the awaited load from its queue.
LEMMA SelectionStep ==
  ASSUME IInv, todo = <<>>, Room, NEW i \in Images, NEW rest \in {"choose", "retry"},
         SelectionChanged(i, rest),
         UNCHANGED <<worker, jobs, answered, due, loadJob, transformJob>>,
         ImagesInv', view'.image \in {current', None}
  PROVE  IInv'
<1>1. queue' = Removed(loadJob) /\ selected' = i
      /\ todo' = <<"cancel", rest>>
  BY DEF SelectionChanged
<1>2. queue' \in Queues
      /\ \A k \in JobKinds : \A x : Contains(queue'[k], x) <=> Contains(queue[k], x) /\ x # loadJob
  BY <1>1, RemovedTakes DEF IInv
<1>3. \A x : IsQueued(x)' <=> IsQueued(x) /\ x # loadJob
  BY <1>2 DEF IsQueued
<1>4. QueuesInv'
  BY <1>2 DEF IInv, QueuesInv, Queues
<1>5. AnsweredInv'
  BY <1>3 DEF IInv, AnsweredInv, IsAnswered, Alive
<1>6. WorkerInv'
  <2>1. worker.job \in Jobs => ~IsQueued(worker.job)
    BY WindowLoadAssumption DEF IInv, WorkerInv
  <2> QED BY <1>3, <2>1, MainWorker
<1>7. HeldInv'
  BY <1>1, <1>3 DEF IInv, HeldInv, Handlers
<1>8. DueInv'
  <2>1. \A j \in Jobs : Contains(queue'["transform"], j) <=> Contains(queue["transform"], j)
    <3>1. \A j \in Jobs : Contains(queue["transform"], j) => jobs[j].kind = "transform"
      BY DEF IInv, QueuesInv, JobKinds
    <3>2. loadJob \in Jobs => jobs[loadJob].kind = "load"
      BY WindowLoadAssumption DEF IInv, HeldInv
    <3>3. \A j \in Jobs : Contains(queue["transform"], j) => j # loadJob
      BY <3>1, <3>2
    <3> QED BY <1>2, <3>3 DEF JobKinds
  <2>2. \A j \in Jobs : Contains(queue["transform"], j) => j = transformJob
    BY DEF IInv, DueInv
  <2> QED BY <2>1, <2>2, MainDue
<1>9. FollowsInv'
  BY <1>1 DEF FollowsInv
<1>10. RoomInv'
  <2>1. PICK j \in Jobs : Free(j)
    BY RoomIs DEF IInv
  <2>2. Free(j)'
    BY <1>3, <2>1 DEF Free, IsAnswered
  <2> QED BY <2>2 DEF RoomInv
<1> QED BY <1>4, <1>5, <1>6, <1>7, <1>8, <1>9, <1>10 DEF IInv

LEMMA SelectStep == ASSUME IInv, Select PROVE IInv'
<1>1. PICK i \in Images : SelectionChanged(i, "choose")
  BY DEF Select
<1>2. /\ todo = <<>> /\ Room
      /\ UNCHANGED <<worker, jobs, answered, due, loadJob, transformJob>>
      /\ UNCHANGED <<img, current, view, area>>
  BY DEF Select, MainIdle, Main
<1>3. ImagesInv'
  BY <1>1, <1>2 DEF IInv, ImagesInv, SelectionChanged
<1>4. view'.image \in {current', None}
  BY <1>2 DEF IInv, FollowsInv
<1> QED BY <1>1, <1>2, <1>3, <1>4, SelectionStep

LEMMA RetryStep == ASSUME IInv, Retry PROVE IInv'
<1>1. /\ todo = <<>> /\ Room /\ selected \in Images /\ SelectionChanged(selected, "retry")
      /\ UNCHANGED <<worker, jobs, answered, due, loadJob, transformJob>>
      /\ UNCHANGED <<img, current, view, area>>
  BY DEF Retry, MainIdle, Main, IInv, ImagesInv
<1>2. ImagesInv'
  BY <1>1 DEF IInv, ImagesInv, SelectionChanged
<1>3. view'.image \in {current', None}
  BY <1>1 DEF IInv, FollowsInv
<1> QED BY <1>1, <1>2, <1>3, SelectionStep

LEMMA ReloadStep == ASSUME IInv, Reload PROVE IInv'
<1>1. /\ todo = <<>> /\ Room /\ selected \in Images /\ SelectionChanged(selected, "choose")
      /\ UNCHANGED <<worker, jobs, answered, due, loadJob, transformJob>>
      /\ current' = None /\ SetImage(None) /\ UNCHANGED area
  BY DEF Reload, MainIdle, Main, IInv, ImagesInv
<1>2. /\ img' \in [Images -> ImageRecords]
      /\ view' \in [image : Images \cup {None}, pixels : PixelStates]
      /\ view'.image = None
  BY <1>1, SetImageIs DEF IInv
<1>3. ImagesInv'
  BY <1>1, <1>2 DEF IInv, ImagesInv, SelectionChanged
<1> QED BY <1>1, <1>2, <1>3, SelectionStep

\* The load that was awaited is forgotten, and freed if it neither runs nor was answered.
LEMMA ClearLoadJobStep == ASSUME IInv, ClearLoadJob PROVE IInv'
<1>1. /\ jobs' = Unref(jobs, loadJob, ToSet(answered) \cup {worker.job})
      /\ loadJob' = None
      /\ UNCHANGED worker
      /\ UNCHANGED <<queue, answered, due, selected, current, transformJob, view, area>>
  BY DEF ClearLoadJob, Main
<1>2. /\ todo \in {<<"cancel">>, <<"cancel", "choose">>, <<"cancel", "retry">>}
      /\ todo = <<"cancel">> => todo' = <<>>
      /\ todo = <<"cancel", "choose">> => todo' = <<"choose">>
      /\ todo = <<"cancel", "retry">> => todo' = <<"retry">>
  BY HandlerIs, HeadsAndTails DEF ClearLoadJob, IInv, HeldInv
<1>3. /\ jobs' \in JobTable
      /\ \A j \in Jobs : jobs'[j] = IF j = loadJob /\ ~IsAnswered(j) /\ j # worker.job
                                     THEN NoJob ELSE jobs[j]
  <2>1. jobs \in JobTable /\ loadJob \in Jobs \cup {None}
    BY DEF IInv, QueuesInv, HeldInv, JobTable
  <2> DEFINE holders == ToSet(answered) \cup {worker.job}
  <2>2. \A j : j \in holders <=> IsAnswered(j) \/ j = worker.job
    BY AnsweredIs DEF IInv
  <2> HIDE DEF holders
  <2>3. /\ Unref(jobs, loadJob, holders) \in JobTable
        /\ \A k \in Jobs : Unref(jobs, loadJob, holders)[k] =
             IF k = loadJob /\ loadJob \notin holders THEN NoJob ELSE jobs[k]
    BY <2>1, UnrefIs
  <2> QED BY <1>1, <2>2, <2>3 DEF holders
<1>4. ~IsQueued(loadJob)
  BY <1>2, QueuedIs, WindowLoadAssumption DEF IInv, HeldInv
<1>5. \A j : (IsQueued(j)' <=> IsQueued(j)) /\ (IsAnswered(j)' <=> IsAnswered(j))
  BY <1>1 DEF IsQueued, IsAnswered
<1>6. \A j \in Jobs : IsQueued(j) \/ IsAnswered(j) \/ j = worker.job => jobs'[j] = jobs[j]
  BY <1>3, <1>4
<1>7. QueuesInv'
  BY <1>1, <1>3, <1>6 DEF IInv, QueuesInv, JobTable, IsQueued
<1>8. AnsweredInv'
  BY <1>1, <1>5, <1>6 DEF IInv, AnsweredInv, Alive
<1>9. WorkerInv'
  <2>1. worker.job \in Jobs => ~IsQueued(worker.job)
    BY WindowLoadAssumption DEF IInv, WorkerInv
  <2> QED BY <1>1, <1>5, <1>6, <2>1, MainWorker
<1>10. ImagesInv'
  <2>1. img' \in [Images -> ImageRecords]
    <3>1. CASE loadJob = None
      BY <3>1 DEF IInv, ImagesInv, ClearLoadJob
    <3>2. CASE loadJob # None
      <4> DEFINE i == jobs[loadJob].image
      <4>1. jobs[loadJob].kind = "load" /\ loadJob \in Jobs
        BY <3>2 DEF IInv, HeldInv
      <4>2. i \in Images
        BY <4>1 DEF IInv, QueuesInv, JobRecords, NoJob
      <4>3. img' = [img EXCEPT ![i] = Cancelled(@)]
        BY <3>2 DEF ClearLoadJob
      <4>4. img \in [Images -> ImageRecords] /\ Cancelled(img[i]) \in ImageRecords
        BY <4>2, FreedIs DEF IInv, ImagesInv
      <4> HIDE DEF i
      <4> QED BY <4>2, <4>3, <4>4
    <3> QED BY <3>1, <3>2
  <2> QED BY <1>1, <2>1 DEF IInv, ImagesInv
<1>11. HeldInv'
  <2>1. todo' \in Handlers
    BY <1>2 DEF Handlers
  <2>2. transformJob # None => /\ transformJob \in Jobs /\ jobs[transformJob].kind = "transform"
                               /\ transformJob # loadJob
    BY DEF IInv, HeldInv
  <2>3. transformJob # None => jobs'[transformJob] = jobs[transformJob]
    BY <1>3, <2>2
  <2> QED BY <1>1, <2>1, <2>2, <2>3 DEF IInv, HeldInv
<1>12. DueInv'
  <2>1. \A j \in Jobs : Contains(queue["transform"], j) => jobs'[j] = jobs[j] /\ j = transformJob
    BY <1>6 DEF IInv, DueInv, IsQueued, JobKinds
  <2> QED BY <1>1, <1>6, <2>1, MainDue
<1>13. FollowsInv'
  <2>1. view.image \in {current, None} /\ selected \in Images
    BY <1>2 DEF IInv, FollowsInv
  <2>2. todo = <<"cancel">> => Stands
    BY DEF IInv, FollowsInv
  <2>3. Stands' <=> Stands
    BY <1>1 DEF Stands
  <2>4. todo' \in {<<>>, <<"choose">>, <<"retry">>} /\ (todo' = <<>> => todo = <<"cancel">>)
    BY <1>2
  <2> QED BY <1>1, <2>1, <2>2, <2>3, <2>4 DEF FollowsInv
<1>14. RoomInv'
  <2>1. \A j \in Jobs : Free(j) => Free(j)'
    BY <1>1, <1>5, WindowLoadAssumption DEF Free
  <2>2. todo' # <<>> => \E j \in Jobs : Free(j)
    BY <1>2 DEF IInv, RoomInv
  <2>3. todo' = <<>> => RoomInv'
    BY DEF RoomInv
  <2> QED BY <2>1, <2>2, <2>3 DEF RoomInv
<1> QED BY <1>7, <1>8, <1>9, <1>10, <1>11, <1>12, <1>13, <1>14 DEF IInv

\* A job is made and queued: nobody's place is taken by it.
LEMMA MadeAndAdded ==
  ASSUME IInv, \E j \in Jobs : Free(j), NEW kind \in JobKinds, NEW i \in Images,
         jobs' = Made(jobs, kind, i), queue' = Added(queue, kind), UNCHANGED <<answered, worker>>
  PROVE  /\ QueuesInv' /\ AnsweredInv' /\ WorkerInv'
         /\ NewJob \in Jobs /\ Free(NewJob)
         /\ \A j \in Jobs : jobs'[j] = IF j = NewJob
                                        THEN [kind |-> kind, image |-> i, error |-> FALSE]
                                        ELSE jobs[j]
         /\ \A k \in JobKinds : \A x : Contains(queue'[k], x) <=>
              Contains(queue[k], x) \/ (k = kind /\ x = NewJob)
<1> DEFINE n == NewJob
<1>1. n \in Jobs /\ Free(n)
  BY NewJobIsNew DEF IInv
<1>2. /\ queue' \in Queues
      /\ \A k \in JobKinds : \A x : Contains(queue'[k], x) <=>
           Contains(queue[k], x) \/ (k = kind /\ x = n)
  BY <1>1, AddedPuts, QueuedIs DEF IInv, Free, IsQueued
<1>3. /\ jobs' \in JobTable
      /\ \A j \in Jobs : jobs'[j] = IF j = n THEN [kind |-> kind, image |-> i, error |-> FALSE]
                                    ELSE jobs[j]
  BY <1>1, MadeIs DEF IInv, QueuesInv, JobTable
<1> HIDE DEF n
<1>4. \A x : IsQueued(x)' <=> IsQueued(x) \/ x = n
  BY <1>2 DEF IsQueued
<1>5. QueuesInv'
  <2>1. \A k \in JobKinds : \A j \in Jobs : Contains(queue[k], j) => j # n
    BY <1>1 DEF Free, IsQueued
  <2> QED BY <1>2, <1>3, <2>1 DEF IInv, QueuesInv, Queues, JobTable
<1>6. AnsweredInv'
  <2>1. \A j : IsAnswered(j)' <=> IsAnswered(j)
    BY DEF IsAnswered
  <2> QED BY <1>1, <1>3, <1>4, <2>1 DEF IInv, AnsweredInv, Alive, Free
<1>7. WorkerInv'
  <2>1. worker.job \in Jobs => ~IsQueued(worker.job) /\ worker.job # n
    BY <1>1, WindowLoadAssumption DEF IInv, WorkerInv, Free
  <2> QED BY <1>3, <1>4, <2>1, MainWorker
<1> QED BY <1>1, <1>2, <1>3, <1>5, <1>6, <1>7 DEF n

\* The image becomes current, is displayed, or is asked for.
LEMMA ChooseStep == ASSUME IInv, Choose PROVE IInv'
<1>1. /\ todo \in {<<"choose">>, <<"retry">>} /\ Tail(todo) = <<>>
      /\ <<"display">> \o Tail(todo) = <<"display">>
  BY HandlerIs, HeadsAndTails DEF Choose, IInv, HeldInv
<1>2. /\ area' = None /\ UNCHANGED worker
      /\ UNCHANGED <<answered, img, due, selected, transformJob, view>>
  BY DEF Choose, Main
<1>3. /\ loadJob = None /\ selected \in Images /\ view.image \in {current, None}
      /\ \E j \in Jobs : Free(j)
  BY <1>1 DEF IInv, FollowsInv, RoomInv
<1>4. CASE /\ selected = current /\ todo' = <<>>
           /\ UNCHANGED <<jobs, queue, current, loadJob>>
  <2>1. JobsKept
    BY <1>4, SameJobs DEF IInv
  <2>2. \A j : /\ IsQueued(j)' <=> IsQueued(j)
               /\ IsAnswered(j)' <=> IsAnswered(j)
               /\ Alive(j)' <=> Alive(j)
    BY <1>2, <1>4 DEF IsQueued, IsAnswered, Alive
  <2>3. QueuesInv' /\ AnsweredInv' /\ WorkerInv'
    BY <1>2, <1>4, <2>2 DEF IInv, QueuesInv, AnsweredInv, WorkerInv, J
  <2>4. ImagesInv' /\ HeldInv'
    BY <1>2, <1>3, <1>4, <2>2 DEF IInv, ImagesInv, HeldInv, Handlers
  <2>5. DueInv'
    BY <1>2, <1>4, <2>1, DueKeeps
  <2>6. FollowsInv' /\ RoomInv'
    BY <1>2, <1>3, <1>4 DEF FollowsInv, RoomInv, Stands
  <2> QED BY <2>3, <2>4, <2>5, <2>6 DEF IInv
<1>5. CASE /\ selected # current /\ current' = selected /\ todo' = <<"display">>
           /\ UNCHANGED <<jobs, queue, loadJob>>
  <2>1. JobsKept
    BY <1>5, SameJobs DEF IInv
  <2>2. \A j : /\ IsQueued(j)' <=> IsQueued(j)
               /\ IsAnswered(j)' <=> IsAnswered(j)
               /\ Alive(j)' <=> Alive(j)
    BY <1>2, <1>5 DEF IsQueued, IsAnswered, Alive
  <2>3. QueuesInv' /\ AnsweredInv' /\ WorkerInv'
    BY <1>2, <1>5, <2>2 DEF IInv, QueuesInv, AnsweredInv, WorkerInv, J
  <2>4. ImagesInv' /\ HeldInv'
    BY <1>2, <1>3, <1>5, <2>2 DEF IInv, ImagesInv, HeldInv, Handlers
  <2>5. DueInv'
    BY <1>2, <1>5, <2>1, DueKeeps
  <2>6. FollowsInv' /\ RoomInv'
    BY <1>2, <1>3, <1>5 DEF FollowsInv, RoomInv, Stands
  <2> QED BY <2>3, <2>4, <2>5, <2>6 DEF IInv
<1>6. CASE /\ selected # current
           /\ jobs' = Made(jobs, "load", selected) /\ queue' = Added(queue, "load")
           /\ loadJob' = NewJob /\ todo' = <<>> /\ UNCHANGED current
  <2> DEFINE n == NewJob
  <2>1. /\ QueuesInv' /\ AnsweredInv' /\ WorkerInv'
        /\ n \in Jobs /\ Free(n)
        /\ \A j \in Jobs : jobs'[j] = IF j = n THEN [kind |-> "load", image |-> selected, error |-> FALSE]
                                      ELSE jobs[j]
        /\ \A k \in JobKinds : \A x : Contains(queue'[k], x) <=>
             Contains(queue[k], x) \/ (k = "load" /\ x = n)
    <3>1. "load" \in JobKinds
      BY DEF JobKinds
    <3> QED BY <1>2, <1>3, <1>6, <3>1, MadeAndAdded
  <2>2. loadJob' = n
    BY <1>6
  <2> HIDE DEF n
  <2>3. ImagesInv'
    BY <1>2, <1>6 DEF IInv, ImagesInv
  <2>4. HeldInv'
    <3>1. transformJob # None => transformJob \in Jobs /\ jobs'[transformJob] = jobs[transformJob]
      BY <2>1 DEF IInv, HeldInv, Free
    <3> QED BY <1>2, <1>6, <2>1, <2>2, <3>1 DEF IInv, HeldInv, Handlers
  <2>5. DueInv'
    <3>1. worker.job \in Jobs => jobs'[worker.job] = jobs[worker.job]
      BY <2>1 DEF Free
    <3>2. \A j \in Jobs : Contains(queue["transform"], j) => jobs'[j] = jobs[j] /\ j = transformJob
      BY <2>1 DEF IInv, DueInv, Free, IsQueued, JobKinds
    <3>3. \A j \in Jobs : Contains(queue'["transform"], j) <=> Contains(queue["transform"], j)
      BY <2>1 DEF JobKinds
    <3> QED BY <1>2, <3>1, <3>2, <3>3, MainDue
  <2>6. jobs'[n].image = selected /\ n # None
    BY <2>1, WindowLoadAssumption
  <2>7. FollowsInv' /\ RoomInv'
    BY <1>2, <1>3, <1>6, <2>2, <2>6 DEF FollowsInv, RoomInv
  <2> QED BY <2>1, <2>3, <2>4, <2>5, <2>7 DEF IInv
<1> QED BY <1>1, <1>4, <1>5, <1>6 DEF Choose

\* The scroll view gets the current image, which is the selected one.
LEMMA DisplayStep == ASSUME IInv, Display PROVE IInv'
<1>1. /\ todo \in {<<"display">>, <<"display", "cancel">>}
      /\ todo = <<"display">> => todo' = <<>>
      /\ todo = <<"display", "cancel">> => todo' = <<"cancel">>
  BY HandlerIs, HeadsAndTails DEF Display, IInv, HeldInv
<1>2. /\ SetImage(current) /\ UNCHANGED worker
      /\ UNCHANGED <<jobs, queue, answered, due, selected, current, loadJob, transformJob, area>>
  BY DEF Display, Main
<1>3. /\ current = selected /\ area = None /\ selected \in Images
      /\ todo = <<"display">> => loadJob = None
      /\ loadJob # None => jobs[loadJob].image = selected
  BY <1>1 DEF IInv, FollowsInv
<1>4. /\ img' \in [Images -> ImageRecords]
      /\ view' \in [image : Images \cup {None}, pixels : PixelStates]
      /\ view'.image = current
  BY <1>2, <1>3, SetImageIs DEF IInv
<1>5. JobsKept
  BY <1>2, SameJobs DEF IInv
<1>6. \A j : /\ IsQueued(j)' <=> IsQueued(j)
             /\ IsAnswered(j)' <=> IsAnswered(j)
             /\ Alive(j)' <=> Alive(j)
  BY <1>2 DEF IsQueued, IsAnswered, Alive
<1>7. QueuesInv' /\ AnsweredInv' /\ WorkerInv'
  BY <1>2, <1>6 DEF IInv, QueuesInv, AnsweredInv, WorkerInv, J
<1>8. ImagesInv'
  BY <1>2, <1>4 DEF IInv, ImagesInv
<1>9. HeldInv'
  <2>1. todo' \in Handlers
    BY <1>1 DEF Handlers
  <2>2. todo' # <<>> /\ loadJob # None => ~IsQueued(loadJob)
    BY <1>1, <1>3 DEF IInv, HeldInv
  <2> QED BY <1>2, <1>6, <2>1, <2>2 DEF IInv, HeldInv
<1>10. DueInv'
  BY <1>2, <1>5, DueKeeps
<1>11. FollowsInv'
  <2>1. Stands' /\ view'.image \in {current', None}
    BY <1>2, <1>3, <1>4 DEF Stands
  <2>2. todo' \in {<<>>, <<"cancel">>} /\ (todo' = <<>> => loadJob = None)
    BY <1>1, <1>3
  <2> QED BY <1>2, <1>3, <2>1, <2>2 DEF FollowsInv
<1>12. RoomInv'
  BY <1>1 DEF RoomInv
<1> QED BY <1>7, <1>8, <1>9, <1>10, <1>11, <1>12 DEF IInv

\* What the window does with a finished job, by who waits for it
LEMMA Finished ==
  ASSUME IInv, todo = <<>>, NEW j \in Jobs, IsAnswered(j), UNCHANGED <<selected, loadJob>>,
         LoadFinished(j) \/ TransformFinished(j) \/ OtherFinished(j)
  PROVE  /\ transformJob' = (IF j = transformJob THEN None ELSE transformJob)
         /\ ImagesInv'
         /\ \/ /\ j # loadJob /\ UNCHANGED <<current, view, img, area, todo>>
            \/ /\ j = loadJob /\ j # transformJob /\ current' = selected
               /\ \/ todo' = <<"cancel">> /\ view'.image = None /\ area' = selected
                  \/ todo' = <<"display", "cancel">> /\ area' = None
<1>1. j # None /\ (j = loadJob => j # transformJob)
  BY WindowLoadAssumption DEF IInv, HeldInv
<1>2. j = loadJob => jobs[j].image = selected /\ area = None
  BY <1>1 DEF IInv, FollowsInv
<1>3. CASE LoadFinished(j)
  <2>1. /\ j = loadJob /\ current' = selected /\ UNCHANGED transformJob
        /\ \/ SetImage(None) /\ area' = selected /\ todo' = <<"cancel">>
           \/ todo' = <<"display", "cancel">> /\ UNCHANGED <<view, img, area>>
    BY <1>2, <1>3 DEF LoadFinished, Connected
  <2>2. selected \in Images
    <3>1. jobs[j] \in JobRecords
      BY AliveIs DEF IInv, AnsweredInv
    <3> QED BY <1>2, <2>1, <3>1 DEF JobRecords
  <2>3. CASE SetImage(None) /\ area' = selected /\ todo' = <<"cancel">>
    <3>1. /\ img' \in [Images -> ImageRecords]
          /\ view' \in [image : Images \cup {None}, pixels : PixelStates]
          /\ view'.image = None
      BY <2>3, SetImageIs DEF IInv
    <3>2. ImagesInv'
      BY <2>1, <2>2, <2>3, <3>1 DEF ImagesInv
    <3> QED BY <1>1, <2>1, <2>3, <3>1, <3>2
  <2>4. CASE todo' = <<"display", "cancel">> /\ UNCHANGED <<view, img, area>>
    <3>1. ImagesInv'
      BY <2>1, <2>2, <2>4 DEF IInv, ImagesInv
    <3> QED BY <1>1, <1>2, <2>1, <2>4, <3>1
  <2> QED BY <2>1, <2>3, <2>4
<1>4. CASE TransformFinished(j)
  BY <1>1, <1>4 DEF TransformFinished, IInv, ImagesInv
<1>5. CASE OtherFinished(j)
  BY <1>1, <1>5 DEF OtherFinished, Connected, IInv, ImagesInv
<1> QED BY <1>3, <1>4, <1>5

\* The job that was answered is freed, unless it is the load job, which is cleared next.
LEMMA DeliverStep == ASSUME IInv, Deliver PROVE IInv'
<1> DEFINE j == Head(answered)
<1>1. /\ todo = <<>> /\ answered # <<>> /\ answered' = Tail(answered)
      /\ LoadFinished(j) \/ TransformFinished(j) \/ OtherFinished(j)
      /\ jobs' = Unref(jobs, j, {loadJob})
      /\ UNCHANGED worker
      /\ UNCHANGED <<queue, due, selected, loadJob>>
  BY DEF Deliver, MainIdle, Main
<1>2. answered \in Seq(Jobs) /\ IsInjective(answered)
  BY DEF IInv, AnsweredInv
<1>3. /\ j \in Jobs /\ answered' \in Seq(Jobs) /\ IsInjective(answered') /\ IsAnswered(j)
      /\ \A x : IsAnswered(x)' <=> IsAnswered(x) /\ x # j
  BY <1>1, <1>2, TailElements, TailContains DEF IsAnswered
<1> HIDE DEF j
<1>4. Alive(j) /\ ~IsQueued(j) /\ worker.job # j
  BY <1>3 DEF IInv, AnsweredInv
<1>5. /\ jobs' \in JobTable
      /\ \A k \in Jobs : jobs'[k] = IF k = j /\ j # loadJob THEN NoJob ELSE jobs[k]
  BY <1>1, <1>3, UnrefIs DEF IInv, QueuesInv, JobTable
<1>6. /\ transformJob' = (IF j = transformJob THEN None ELSE transformJob)
      /\ ImagesInv'
      /\ \/ /\ j # loadJob /\ UNCHANGED <<current, view, img, area, todo>>
         \/ /\ j = loadJob /\ j # transformJob /\ current' = selected
            /\ \/ todo' = <<"cancel">> /\ view'.image = None /\ area' = selected
               \/ todo' = <<"display", "cancel">> /\ area' = None
  BY <1>1, <1>3, Finished
<1>7. \A x : IsQueued(x)' <=> IsQueued(x)
  BY <1>1 DEF IsQueued
<1>8. QueuesInv'
  BY <1>1, <1>4, <1>5 DEF IInv, QueuesInv, JobTable, IsQueued
<1>9. AnsweredInv'
  BY <1>1, <1>3, <1>5, <1>7 DEF IInv, AnsweredInv, Alive
<1>10. WorkerInv'
  <2>1. worker.job \in Jobs => ~IsQueued(worker.job)
    BY WindowLoadAssumption DEF IInv, WorkerInv
  <2> QED BY <1>1, <1>4, <1>5, <1>7, <2>1, MainWorker
<1>11. HeldInv'
  <2>1. todo' \in Handlers
    BY <1>1, <1>6 DEF Handlers
  <2>2. loadJob # None => loadJob \in Jobs /\ jobs[loadJob].kind = "load" /\ jobs'[loadJob] = jobs[loadJob]
    BY <1>5 DEF IInv, HeldInv
  <2>3. transformJob' # None => /\ transformJob' = transformJob /\ transformJob \in Jobs
                                /\ jobs[transformJob].kind = "transform"
                                /\ jobs'[transformJob] = jobs[transformJob]
    BY <1>5, <1>6 DEF IInv, HeldInv
  <2>4. transformJob' \in Jobs \cup {None}
    BY <2>3
  <2>5. todo' # <<>> => ~IsQueued(loadJob)
    BY <1>1, <1>4, <1>6
  <2> QED BY <1>1, <1>7, <2>1, <2>2, <2>3, <2>4, <2>5 DEF IInv, HeldInv
<1>12. DueInv'
  <2>1. \A k \in Jobs : Contains(queue["transform"], k) => k # j /\ k = transformJob
    BY <1>4 DEF IInv, DueInv, IsQueued, JobKinds
  <2>2. \A k \in Jobs : Contains(queue["transform"], k) => jobs'[k] = jobs[k] /\ k = transformJob'
    BY <1>5, <1>6, <2>1
  <2>3. worker.job \in Jobs => jobs'[worker.job] = jobs[worker.job]
    BY <1>4, <1>5
  <2> QED BY <1>1, <2>2, <2>3, MainDue
<1>13. FollowsInv'
  <2>1. CASE j # loadJob /\ UNCHANGED <<current, view, img, area, todo>>
    <3>1. loadJob # None => jobs'[loadJob] = jobs[loadJob]
      BY <1>5 DEF IInv, HeldInv
    <3> QED BY <1>1, <2>1, <3>1 DEF IInv, FollowsInv, Stands
  <2>2. CASE /\ j = loadJob /\ current' = selected
             /\ \/ todo' = <<"cancel">> /\ view'.image = None /\ area' = selected
                \/ todo' = <<"display", "cancel">> /\ area' = None
    <3>1. jobs'[loadJob].image = selected
      BY <1>1, <1>3, <1>5, <2>2, WindowLoadAssumption DEF IInv, FollowsInv
    <3>2. selected \in Images
      <4>1. jobs[j] \in JobRecords
        BY <1>3, <1>4, AliveIs DEF IInv
      <4> QED BY <1>3, <1>5, <2>2, <3>1, <4>1 DEF JobRecords
    <3>3. CASE todo' = <<"cancel">> /\ view'.image = None /\ area' = selected
      BY <1>1, <2>2, <3>1, <3>2, <3>3 DEF FollowsInv, Stands
    <3>4. CASE todo' = <<"display", "cancel">> /\ area' = None
      BY <1>1, <2>2, <3>1, <3>2, <3>4 DEF FollowsInv
    <3> QED BY <2>2, <3>3, <3>4
  <2> QED BY <1>6, <2>1, <2>2
<1>14. RoomInv'
  BY <1>1, <1>6 DEF RoomInv
<1> QED BY <1>6, <1>8, <1>9, <1>10, <1>11, <1>12, <1>13, <1>14 DEF IInv

LEMMA SaveStep == ASSUME IInv, Save PROVE IInv'
<1>1. /\ todo = <<>> /\ selected \in Images
      /\ jobs' = Made(jobs, "save", selected) /\ queue' = Added(queue, "save")
      /\ UNCHANGED <<answered, worker>>
      /\ UNCHANGED <<img, due, selected, current, loadJob, transformJob, view, area, todo>>
      /\ \E j \in Jobs : Free(j)
  BY RoomIs DEF Save, MainIdle, Main, IInv, ImagesInv, windowVars
<1> DEFINE n == NewJob
<1>2. /\ QueuesInv' /\ AnsweredInv' /\ WorkerInv'
      /\ n \in Jobs /\ Free(n)
      /\ \A j \in Jobs : jobs'[j] = IF j = n THEN [kind |-> "save", image |-> selected, error |-> FALSE]
                                    ELSE jobs[j]
      /\ \A k \in JobKinds : \A x : Contains(queue'[k], x) <=>
           Contains(queue[k], x) \/ (k = "save" /\ x = n)
  <2>1. "save" \in JobKinds
    BY DEF JobKinds
  <2> QED BY <1>1, <2>1, MadeAndAdded
<1> HIDE DEF n
<1>3. ImagesInv'
  BY <1>1 DEF IInv, ImagesInv
<1>4. /\ loadJob # None => loadJob \in Jobs /\ jobs'[loadJob] = jobs[loadJob]
      /\ transformJob # None => transformJob \in Jobs /\ jobs'[transformJob] = jobs[transformJob]
  BY <1>2 DEF IInv, HeldInv, Free
<1>5. HeldInv'
  BY <1>1, <1>4 DEF IInv, HeldInv
<1>6. DueInv'
  <2>1. worker.job \in Jobs => jobs'[worker.job] = jobs[worker.job]
    BY <1>2 DEF Free
  <2>2. \A j \in Jobs : Contains(queue["transform"], j) => jobs'[j] = jobs[j] /\ j = transformJob
    BY <1>2 DEF IInv, DueInv, Free, IsQueued, JobKinds
  <2>3. \A j \in Jobs : Contains(queue'["transform"], j) <=> Contains(queue["transform"], j)
    BY <1>2 DEF JobKinds
  <2> QED BY <1>1, <2>1, <2>2, <2>3, MainDue
<1>7. FollowsInv' /\ RoomInv'
  BY <1>1, <1>4 DEF IInv, FollowsInv, RoomInv, Stands
<1> QED BY <1>2, <1>3, <1>5, <1>6, <1>7 DEF IInv

\* The last transform that was asked for is the only one that is queued.
LEMMA TransformStep == ASSUME IInv, Transform PROVE IInv'
<1> DEFINE n == NewJob
           holders == ToSet(answered) \cup {worker.job}
           table == Unref(jobs, transformJob, holders)
           q == Removed(transformJob)
<1>1. /\ todo = <<>> /\ Room /\ selected \in Images
      /\ jobs' = Made(table, "transform", selected) /\ queue' = Added(q, "transform")
      /\ transformJob' = n
      /\ due' = [due EXCEPT ![selected] = @ + 1]
      /\ UNCHANGED worker
      /\ UNCHANGED <<answered, img, selected, current, loadJob, view, area, todo>>
  BY DEF Transform, MainIdle, Main, IInv, ImagesInv
<1>2. n \in Jobs /\ Free(n)
  BY <1>1, NewJobIsNew, RoomIs DEF IInv
<1>3. \A j : j \in holders <=> IsAnswered(j) \/ j = worker.job
  BY AnsweredIs DEF IInv
<1> HIDE DEF holders
<1>4. /\ table \in JobTable
      /\ \A j \in Jobs : table[j] = IF j = transformJob /\ j \notin holders THEN NoJob ELSE jobs[j]
  <2>1. jobs \in JobTable /\ transformJob \in Jobs \cup {None}
    BY DEF IInv, QueuesInv, HeldInv, JobTable
  <2>2. /\ Unref(jobs, transformJob, holders) \in JobTable
        /\ \A k \in Jobs : Unref(jobs, transformJob, holders)[k] =
             IF k = transformJob /\ transformJob \notin holders THEN NoJob ELSE jobs[k]
    BY <2>1, UnrefIs
  <2> QED BY <2>2
<1>5. /\ q \in Queues
      /\ \A k \in JobKinds : \A x : Contains(q[k], x) <=> Contains(queue[k], x) /\ x # transformJob
  BY RemovedTakes DEF IInv
<1> HIDE DEF table, q
<1>6. /\ jobs' \in JobTable
      /\ \A j \in Jobs : jobs'[j] = IF j = n THEN [kind |-> "transform", image |-> selected, error |-> FALSE]
                                    ELSE table[j]
  <2>1. "transform" \in JobKinds
    BY DEF JobKinds
  <2> QED BY <1>1, <1>2, <1>4, <2>1, MadeIs
<1>7. /\ queue' \in Queues
      /\ \A k \in JobKinds : \A x : Contains(queue'[k], x) <=>
           Contains(q[k], x) \/ (k = "transform" /\ x = n)
  <2>1. "transform" \in JobKinds /\ ~Contains(q["transform"], n)
    BY <1>2, <1>5 DEF JobKinds, Free, IsQueued
  <2> QED BY <1>1, <1>2, <1>5, <2>1, AddedPuts
<1> HIDE DEF n
<1>8. \A x : IsQueued(x)' <=> (IsQueued(x) /\ x # transformJob) \/ x = n
  BY <1>5, <1>7 DEF IsQueued, JobKinds
<1>9. \A x : IsAnswered(x)' <=> IsAnswered(x)
  BY <1>1 DEF IsAnswered
<1>10. \A j \in Jobs : /\ j # n
                       /\ j # transformJob \/ IsAnswered(j) \/ j = worker.job
                       => jobs'[j] = jobs[j]
  BY <1>3, <1>4, <1>6
<1>11. worker.job \in Jobs => jobs'[worker.job] = jobs[worker.job] /\ ~IsQueued(worker.job)'
  <2>1. worker.job \in Jobs => ~IsQueued(worker.job) /\ worker.job # n
    BY <1>2, WindowLoadAssumption DEF IInv, WorkerInv, Free
  <2> QED BY <1>1, <1>8, <1>10, <2>1
<1>12. QueuesInv'
  <2>1. ASSUME NEW k \in JobKinds, NEW j \in Jobs, Contains(queue'[k], j)
        PROVE  jobs'[j].kind = k
    <3>1. CASE j = n /\ k = "transform"
      BY <1>6, <3>1
    <3>2. CASE Contains(queue[k], j) /\ j # transformJob
      <4>1. j # n /\ jobs[j].kind = k
        BY <1>2, <3>2 DEF Free, IsQueued, IInv, QueuesInv
      <4> QED BY <1>10, <3>2, <4>1
    <3> QED BY <1>5, <1>7, <2>1, <3>1, <3>2
  <2> QED BY <1>6, <1>7, <2>1 DEF QueuesInv, Queues, JobTable
<1>13. AnsweredInv'
  <2>1. \A j \in Jobs : IsAnswered(j) => j # n /\ jobs'[j] = jobs[j]
    BY <1>2, <1>10 DEF Free
  <2> QED BY <1>1, <1>8, <1>9, <2>1 DEF IInv, AnsweredInv, Alive
<1>14. WorkerInv'
  BY <1>1, <1>11, MainWorker
<1>15. ImagesInv'
  BY <1>1 DEF IInv, ImagesInv
<1>16. loadJob # None => loadJob \in Jobs /\ jobs'[loadJob] = jobs[loadJob] /\ loadJob # n
  BY <1>2, <1>10 DEF IInv, HeldInv, Free
<1>17. HeldInv'
  BY <1>1, <1>2, <1>6, <1>8, <1>16 DEF IInv, HeldInv
<1>18. DueInv'
  <2> DEFINE Awaits(i) == \E j \in Jobs : Contains(queue["transform"], j) /\ jobs[j].image = i
             Runs1(i) == worker.at \in Transforming /\ I = i
  <2>1. \A j \in Jobs : Contains(queue'["transform"], j) => j = n
    BY <1>5, <1>7 DEF IInv, DueInv, JobKinds
  <2>2. \A i \in Images : Awaits(i)' => i = selected
    BY <1>6, <2>1
  <2>3. worker.at \in Transforming => worker.job \in Jobs
    BY DEF IInv, WorkerInv, Workers, Transforming
  <2>4. \A i \in Images : Runs1(i)' <=> Runs1(i)
    BY <1>1, <1>11, <2>3 DEF I, J
  <2>5. due \in [Images -> Nat] /\ \A i \in Images : due[i] >= OneIf(Runs1(i)) + OneIf(Awaits(i))
    BY DEF IInv, DueInv
  <2>6. \A i \in Images : /\ OneIf(Runs1(i)') = OneIf(Runs1(i)) /\ OneIf(Runs1(i)) \in {0, 1}
                          /\ OneIf(Awaits(i)) \in {0, 1}
                          /\ OneIf(Awaits(i)') <= IF i = selected THEN 1 ELSE 0
                          /\ OneIf(Awaits(i)') \in {0, 1}
    BY <2>2, <2>4 DEF OneIf
  <2> HIDE DEF Awaits, Runs1
  <2>7. /\ due' \in [Images -> Nat]
        /\ \A i \in Images : due'[i] = due[i] + IF i = selected THEN 1 ELSE 0
    BY <1>1, <2>5
  <2>8. \A i \in Images : due'[i] >= OneIf(Runs1(i)') + OneIf(Awaits(i)')
    BY <2>5, <2>6, <2>7
  <2> QED BY <1>1, <2>1, <2>7, <2>8 DEF DueInv, Awaits, Runs1
<1>19. FollowsInv' /\ RoomInv'
  BY <1>1, <1>16 DEF IInv, FollowsInv, RoomInv, Stands
<1> QED BY <1>12, <1>13, <1>14, <1>15, <1>17, <1>18, <1>19 DEF IInv

LEMMA MainStep == ASSUME IInv, MainNext PROVE IInv'
  BY SelectStep, ClearLoadJobStep, ChooseStep, DisplayStep, DeliverStep,
     RetryStep, ReloadStep, TransformStep, SaveStep DEF MainNext

\* No step changes the setting.
LEMMA SettingKept == [Next]_vars => UNCHANGED setting
  BY DEF Next, vars, WorkerNext, Pop, StartLoad, Read, Settle, ApplyTransformations,
         StartTransform, Transformed, ReadCount, WriteCount, End, Runs,
         MainNext, Select, ClearLoadJob, Choose, Display, Deliver, Retry, Reload, Transform,
         Save, Main

LEMMA NextIInv == IInv /\ [Next]_vars => IInv'
<1> SUFFICES ASSUME IInv, [Next]_vars PROVE IInv'
  OBVIOUS
<1>1. CASE Next
  BY <1>1, WorkerStep, MainStep DEF Next
<1>2. CASE UNCHANGED vars
  <2>1. /\ UNCHANGED <<jobs, queue, worker, answered, img, due>>
        /\ UNCHANGED <<selected, current, loadJob, transformJob, view, area, todo>>
    BY <1>2 DEF vars, windowVars
  <2>2. \A j : /\ IsQueued(j)' <=> IsQueued(j)
               /\ IsAnswered(j)' <=> IsAnswered(j)
               /\ Alive(j)' <=> Alive(j)
    BY <2>1 DEF IsQueued, IsAnswered, Alive
  <2>3. JobsKept
    BY <2>1, SameJobs DEF IInv
  <2>4. QueuesInv' /\ AnsweredInv' /\ WorkerInv' /\ ImagesInv'
    BY <2>1, <2>2 DEF IInv, QueuesInv, AnsweredInv, WorkerInv, ImagesInv, J
  <2>5. HeldInv' /\ FollowsInv' /\ RoomInv'
    BY <2>1, <2>2 DEF IInv, HeldInv, FollowsInv, RoomInv, Stands, Free
  <2>6. DueInv'
    BY <2>1, <2>3, DueKeeps
  <2> QED BY <2>4, <2>5, <2>6 DEF IInv
<1> QED BY <1>1, <1>2

LEMMA InitIInv == Init => IInv
<1> SUFFICES ASSUME Init PROVE IInv
  OBVIOUS
<1>1. /\ jobs = [j \in Jobs |-> NoJob] /\ answered = <<>> /\ todo = <<>>
      /\ queue = [k \in JobKinds |-> <<>>] /\ worker = Waiting
      /\ img = [i \in Images |-> [status |-> "UNKNOWN", pixels |-> "none",
                                  cancel |-> FALSE, refs |-> 0]]
      /\ due = [i \in Images |-> 0]
      /\ selected = None /\ current = None /\ area = None
      /\ loadJob = None /\ transformJob = None /\ view = Blank
  BY KindsAre DEF Init
<1>2. <<>> \in Seq(Jobs) /\ IsInjective(<<>>) /\ \A x : ~Contains(<<>>, x)
  BY DEF IsInjective, Contains
<1>3. \A k \in JobKinds : queue[k] = <<>>
  BY <1>1
<1>4. \A j : ~IsQueued(j) /\ ~IsAnswered(j)
  BY <1>1, <1>2, <1>3 DEF IsQueued, IsAnswered
<1>5. QueuesInv
  BY <1>1, <1>2, <1>3 DEF QueuesInv
<1>6. AnsweredInv
  BY <1>1, <1>2, <1>4 DEF AnsweredInv
<1>7. worker.job = None /\ worker.at = "idle" /\ worker \in Workers
  BY <1>1 DEF Waiting, Workers
<1>8. WorkerInv
  BY <1>7 DEF WorkerInv
<1>9. view \in [image : Images \cup {None}, pixels : PixelStates] /\ view.image = None
  BY <1>1 DEF Blank, PixelStates
<1>10. ImagesInv
  BY <1>1, <1>9 DEF ImagesInv, ImageRecords, PixelStates
<1>11. HeldInv
  BY <1>1 DEF HeldInv, Handlers
<1>12. DueInv
  <2> DEFINE Awaits(i) == \E j \in Jobs : Contains(queue["transform"], j) /\ jobs[j].image = i
             Runs1(i) == worker.at \in Transforming /\ I = i
  <2>1. /\ due \in [Images -> Nat] /\ \A i \in Images : due[i] = 0
        /\ \A j \in Jobs : ~Contains(queue["transform"], j)
    BY <1>1, <1>4 DEF IsQueued, JobKinds
  <2>2. \A i \in Images : OneIf(Runs1(i)) = 0 /\ OneIf(Awaits(i)) = 0
    BY <1>7, <2>1 DEF OneIf, Transforming
  <2> HIDE DEF Awaits, Runs1
  <2>3. \A i \in Images : due[i] >= OneIf(Runs1(i)) + OneIf(Awaits(i))
    BY <2>1, <2>2
  <2> QED BY <2>1, <2>3 DEF DueInv, Awaits, Runs1
<1>13. FollowsInv /\ RoomInv
  BY <1>1, <1>9 DEF FollowsInv, RoomInv, Stands
<1> QED BY <1>5, <1>6, <1>8, <1>10, <1>11, <1>12, <1>13 DEF IInv
-----------------------------------------------------------------------------
(* Theorems *)

LEMMA SpecIInv == Spec => []IInv
  BY InitIInv, NextIInv, PTL DEF Spec

LEMMA IInvTypeOK == IInv /\ setting \in Settings => TypeOK
<1> SUFFICES ASSUME IInv, setting \in Settings PROVE TypeOK
  OBVIOUS
<1>1. jobs \in [Jobs -> {NoJob} \cup [kind : ToSet(Kinds), image : Images, error : BOOLEAN]]
  BY KindsAre DEF IInv, QueuesInv, JobRecords
<1>2. \A k \in JobKinds : ToSet(queue[k]) \subseteq {j \in Jobs : jobs[j].kind = k}
  <2> SUFFICES ASSUME NEW k \in JobKinds, NEW j \in ToSet(queue[k])
               PROVE  j \in Jobs /\ jobs[j].kind = k
    OBVIOUS
  <2>1. queue[k] \in Seq(Jobs)
    BY DEF IInv, QueuesInv
  <2> QED BY <2>1, ToSetContains, QueuedIs DEF IInv
<1>3. ToSet(answered) \subseteq Jobs \ (Queued \cup {worker.job})
  BY AnsweredIs, QueuedIs DEF IInv, AnsweredInv
<1>4. worker.job \in Jobs \cup {None}
  BY DEF IInv, WorkerInv, Workers
<1>5. /\ img \in [Images -> ImageRecords]
      /\ {selected, current, area, view.image} \subseteq Images \cup {None}
      /\ {loadJob, transformJob} \subseteq Jobs \cup {None} /\ due \in [Images -> Nat]
  BY DEF IInv, ImagesInv, HeldInv, DueInv
<1> QED BY <1>1, <1>2, <1>3, <1>4, <1>5, KindsAre DEF TypeOK, ImageRecords

\* Every field has its type, and a job is in one place of the two threads at a time: in
\* the queue of its kind, run by eom_render_thread, or finished and waiting for its
\* callback (eom_job_queue_add_job, handle_job, notify_finished).
THEOREM TypeCorrect == Spec => []TypeOK
<1>1. Init => setting \in Settings
  BY DEF Init
<1>2. setting \in Settings /\ [Next]_vars => (setting \in Settings)'
  BY SettingKept
<1> QED BY <1>1, <1>2, SpecIInv, IInvTypeOK, PTL DEF Spec

\* Once nothing is to be done or awaited, the window shows the selected image, its error or
\* nothing: never another image, in whatever order loads are cancelled, answered and fail
\* (handle_image_selection_changed_cb, eom_job_load_cb).
THEOREM Settled == Spec => []SettledOnSelection
<1>1. IInv => SettledOnSelection
  BY DEF IInv, FollowsInv, Stands, SettledOnSelection, MainIdle
<1> QED BY <1>1, SpecIInv, PTL
-----------------------------------------------------------------------------
(* The pixels *)

\* The main thread has nothing to do with the job that runs.
LEMMA MainJobs ==
  ASSUME IInv, MainNext
  PROVE  UNCHANGED worker /\ (worker.job \in Jobs => jobs'[worker.job] = jobs[worker.job])
<1>1. UNCHANGED worker
  BY DEF MainNext, Select, ClearLoadJob, Choose, Display, Deliver, Retry, Reload, Transform, Save, Main
<1>2. SUFFICES ASSUME worker.job \in Jobs PROVE jobs'[worker.job] = jobs[worker.job]
  BY <1>1
<1>3. jobs \in JobTable /\ loadJob \in Jobs \cup {None} /\ transformJob \in Jobs \cup {None}
  BY DEF IInv, QueuesInv, HeldInv, JobTable
<1>4. CASE UNCHANGED jobs
  BY <1>4
<1> DEFINE holders == ToSet(answered) \cup {worker.job}
<1>5. \A j \in Jobs \cup {None} : Unref(jobs, j, holders)[worker.job] = jobs[worker.job]
                               /\ Unref(jobs, j, holders) \in JobTable
  <2>1. worker.job \in holders
    OBVIOUS
  <2> HIDE DEF holders
  <2> SUFFICES ASSUME NEW j \in Jobs \cup {None}
               PROVE  /\ Unref(jobs, j, holders)[worker.job] = jobs[worker.job]
                      /\ Unref(jobs, j, holders) \in JobTable
    OBVIOUS
  <2>2. /\ Unref(jobs, j, holders) \in JobTable
        /\ \A k \in Jobs : Unref(jobs, j, holders)[k] =
             IF k = j /\ j \notin holders THEN NoJob ELSE jobs[k]
    BY <1>3, UnrefIs
  <2> QED BY <1>2, <2>1, <2>2
<1>6. CASE jobs' = Unref(jobs, loadJob, holders)
  BY <1>3, <1>5, <1>6
<1>7. CASE jobs' = Unref(jobs, Head(answered), {loadJob}) /\ answered # <<>>
  <2> DEFINE j == Head(answered)
  <2>1. j \in Jobs /\ j # worker.job
    <3>1. answered \in Seq(Jobs) /\ IsInjective(answered)
      BY DEF IInv, AnsweredInv
    <3>2. j \in Jobs /\ IsAnswered(j)
      BY <1>7, <3>1, TailElements, TailContains DEF IsAnswered
    <3> QED BY <3>2 DEF IInv, AnsweredInv
  <2>2. jobs' = Unref(jobs, j, {loadJob})
    BY <1>7
  <2> HIDE DEF j
  <2>3. \A k \in Jobs : Unref(jobs, j, {loadJob})[k] =
          IF k = j /\ j \notin {loadJob} THEN NoJob ELSE jobs[k]
    <3> DEFINE loader == {loadJob}
    <3> HIDE DEF loader
    <3>1. \A k \in Jobs : Unref(jobs, j, loader)[k] =
            IF k = j /\ j \notin loader THEN NoJob ELSE jobs[k]
      BY <1>3, <2>1, UnrefIs
    <3> QED BY <3>1 DEF loader
  <2> QED BY <1>2, <2>1, <2>2, <2>3
<1>8. ASSUME NEW table \in JobTable, NEW kind \in JobKinds, NEW i \in Images,
             \E j \in Jobs : Free(j), table[worker.job] = jobs[worker.job]
      PROVE  Made(table, kind, i)[worker.job] = jobs[worker.job]
  <2> DEFINE n == NewJob
  <2>1. n \in Jobs /\ n # worker.job
    BY <1>8, NewJobIsNew DEF IInv, Free
  <2>2. Made(table, kind, i)[worker.job] = IF worker.job = n
          THEN [kind |-> kind, image |-> i, error |-> FALSE] ELSE table[worker.job]
    BY <1>2, <2>1, MadeIs
  <2> HIDE DEF n
  <2> QED BY <1>8, <2>1, <2>2
<1> HIDE DEF holders
<1>9. CASE Choose
  <2>1. todo # <<>> /\ todo \in {<<"choose">>, <<"retry">>}
    BY <1>9, HandlerIs DEF Choose, IInv, HeldInv
  <2>2. selected \in Images /\ \E j \in Jobs : Free(j)
    BY <2>1 DEF IInv, FollowsInv, RoomInv
  <2>3. UNCHANGED jobs \/ jobs' = Made(jobs, "load", selected)
    BY <1>9 DEF Choose
  <2>4. "load" \in JobKinds
    BY DEF JobKinds
  <2> QED BY <1>3, <1>4, <1>8, <2>2, <2>3, <2>4
<1>10. CASE Transform \/ Save
  <2>1. selected \in Images /\ \E j \in Jobs : Free(j)
    BY <1>10, RoomIs DEF Transform, Save, IInv, ImagesInv
  <2>2. \/ jobs' = Made(Unref(jobs, transformJob, holders), "transform", selected)
        \/ jobs' = Made(jobs, "save", selected)
    BY <1>10 DEF Transform, Save, holders
  <2>3. "transform" \in JobKinds /\ "save" \in JobKinds
    BY DEF JobKinds
  <2>4. CASE jobs' = Made(Unref(jobs, transformJob, holders), "transform", selected)
    BY <1>3, <1>5, <1>8, <2>1, <2>3, <2>4
  <2>5. CASE jobs' = Made(jobs, "save", selected)
    BY <1>3, <1>8, <2>1, <2>3, <2>5
  <2> QED BY <2>2, <2>4, <2>5
<1>11. CASE ClearLoadJob
  BY <1>6, <1>11 DEF ClearLoadJob, holders
<1>12. CASE Deliver
  BY <1>7, <1>12 DEF Deliver
<1>13. CASE Select \/ Display \/ Retry \/ Reload
  BY <1>4, <1>13 DEF Select, Display, Retry, Reload
<1> QED BY <1>9, <1>10, <1>11, <1>12, <1>13 DEF MainNext

NonePixels(f) == f.pixels = "none"

LEMMA FreedPixels ==
  ASSUME NEW f \in ImageRecords
  PROVE  /\ NonePixels(f) => NonePixels(DataUnref(f)) /\ NonePixels(Cancelled(f))
         /\ ~NonePixels(f) => ~NonePixels(Cancelled(f))
         /\ DataUnref(f) \in ImageRecords /\ DataUnref(f).refs = Down(f.refs)
<1>1. /\ [f EXCEPT !.refs = Down(@)] \in ImageRecords
      /\ [f EXCEPT !.refs = Down(@)].refs = Down(f.refs)
      /\ [f EXCEPT !.refs = Down(@)].pixels = f.pixels
  BY DEF ImageRecords, Down
<1>2. \A g \in ImageRecords : NonePixels(g) => NonePixels(FreedIfUnused(g))
  BY DEF NonePixels, FreedIfUnused, Freed, ImageRecords
<1>3. /\ NonePixels(f) => NonePixels(DataUnref(f))
      /\ DataUnref(f) \in ImageRecords /\ DataUnref(f).refs = Down(f.refs)
  BY <1>1, <1>2, FreedIs DEF DataUnref, NonePixels
<1> QED BY <1>3, FreedIs DEF NonePixels

\* What becomes of the images when the scroll view takes another one
LEMMA SetImageDoes ==
  ASSUME ImagesInv, NEW i \in Images \cup {None}, SetImage(i), view.image # i
  PROVE  /\ view'.image = i
         /\ \A k \in Images : img'[k] =
              IF k = view.image THEN DataUnref(img[k])
              ELSE IF k = i THEN [img[k] EXCEPT !.refs = @ + 1] ELSE img[k]
<1> DEFINE f == DataUnref(img[view.image])
           dropped == IF view.image = None THEN img ELSE [img EXCEPT ![view.image] = f]
<1>1. /\ view' = IF i = None THEN Blank ELSE [image |-> i, pixels |-> dropped[i].pixels]
      /\ img' = IF i = None THEN dropped ELSE [dropped EXCEPT ![i].refs = @ + 1]
  BY DEF SetImage
<1>2. /\ img \in [Images -> ImageRecords] /\ view.image \in Images \cup {None}
  BY DEF ImagesInv
<1>3. dropped \in [Images -> {f} \cup ImageRecords]
      /\ \A k \in Images : dropped[k] = IF k = view.image THEN f ELSE img[k]
  <2> HIDE DEF f
  <2> QED BY <1>2, WindowLoadAssumption
<1> HIDE DEF f, dropped
<1>4. \A k \in Images : img'[k] = IF k = i THEN [dropped[k] EXCEPT !.refs = @ + 1] ELSE dropped[k]
  BY <1>1, <1>3, WindowLoadAssumption
<1>5. view'.image = i
  BY <1>1 DEF Blank
<1> QED BY <1>3, <1>4, <1>5 DEF f

\* The main thread brings no pixels.
LEMMA MainPixels ==
  ASSUME IInv, MainNext, NEW i \in Images, NonePixels(img[i])
  PROVE  NonePixels(img'[i])
<1>1. img \in [Images -> ImageRecords] /\ img[i] \in ImageRecords
  BY DEF IInv, ImagesInv
<1>2. CASE UNCHANGED img
  BY <1>2
<1>3. ASSUME NEW k \in Images \cup {None}, SetImage(k)
      PROVE  NonePixels(img'[i])
  <2>1. CASE view.image = k
    BY <1>2, <1>3, <2>1 DEF SetImage
  <2>2. CASE view.image # k
    <3>1. img'[i] = IF i = view.image THEN DataUnref(img[i])
                    ELSE IF i = k THEN [img[i] EXCEPT !.refs = @ + 1] ELSE img[i]
      BY <1>3, <2>2, SetImageDoes DEF IInv
    <3>2. NonePixels([img[i] EXCEPT !.refs = @ + 1]) /\ NonePixels(DataUnref(img[i]))
      BY <1>1, FreedPixels DEF NonePixels, ImageRecords
    <3> QED BY <3>1, <3>2
  <2> QED BY <2>1, <2>2
<1>4. CASE ClearLoadJob
  <2> DEFINE k == jobs[loadJob].image
  <2>1. UNCHANGED img \/ img' = [img EXCEPT ![k] = Cancelled(@)]
    BY <1>4 DEF ClearLoadJob
  <2> HIDE DEF k
  <2>2. NonePixels(Cancelled(img[i]))
    BY <1>1, FreedPixels
  <2> QED BY <1>1, <1>2, <2>1, <2>2
<1>5. CASE Display
  <2>1. todo # <<>> /\ todo \in {<<"display">>, <<"display", "cancel">>}
    BY <1>5, HandlerIs DEF Display, IInv, HeldInv
  <2>2. current \in Images \cup {None}
    BY DEF IInv, ImagesInv
  <2> QED BY <1>3, <1>5, <2>2 DEF Display
<1>6. CASE Deliver
  <2>1. UNCHANGED img \/ SetImage(None)
    BY <1>6 DEF Deliver, LoadFinished, TransformFinished, OtherFinished
  <2> QED BY <1>2, <1>3, <2>1
<1>7. CASE Reload
  BY <1>3, <1>7 DEF Reload
<1>8. CASE Select \/ Choose \/ Retry \/ Transform \/ Save
  BY <1>2, <1>8 DEF Select, Choose, Retry, Transform, Save, windowVars
<1> QED BY <1>4, <1>5, <1>6, <1>7, <1>8 DEF MainNext

\* eom-image.c:903 asserts that a load of the pixels starts only when there are none. It does
\* for images with metadata (for another one the second load finds pixels): between the check
\* of eom_image_load and the assertion nobody but the render thread brings pixels, however the
\* main thread clears, cancels and frees.
THEOREM NoPixelsRead == ASSUME NoMetadata = {} PROVE Spec => []AssertNoPixels
<1>1. Init => AssertNoPixels
  BY DEF Init, Waiting, AssertNoPixels, At
<1>2. IInv /\ AssertNoPixels /\ [Next]_vars => AssertNoPixels'
  <2> SUFFICES ASSUME IInv, AssertNoPixels, [Next]_vars, worker'.at = "read"
               PROVE  img'[I'].pixels = "none"
    BY DEF AssertNoPixels, At
  <2>1. CASE StartLoad
    <3>1. worker.at = "load" /\ UNCHANGED jobs
      BY <2>1 DEF StartLoad, At
    <3>2. worker \in Workers /\ worker.job \in Jobs /\ I \in Images /\ J.kind # "transform"
          /\ J.kind \in JobKinds /\ img \in [Images -> ImageRecords]
      BY <3>1, Running DEF IInv, WorkerInv, Loading, ImagesInv
    <3>3. CASE worker' = [worker EXCEPT !.at = After]
      <4>1. After # "read"
        BY DEF After
      <4> QED BY <3>2, <3>3, <4>1 DEF Workers
    <3>4. CASE /\ img[I].pixels = "none" /\ worker' = [worker EXCEPT !.at = "read"]
               /\ img' = [img EXCEPT ![I].status = "LOADING"]
      <4>1. I' = I
        BY <3>1, <3>2, <3>4 DEF I, J, Workers
      <4> QED BY <3>2, <3>4, <4>1 DEF ImageRecords
    <3> QED BY <2>1, <3>2, <3>3, <3>4 DEF StartLoad, Goto, HasAll
  <2>2. CASE WorkerNext /\ ~StartLoad
    <3>1. worker \in Workers
      BY DEF IInv, WorkerInv
    <3>2. worker'.at # "read"
      <4>1. CASE Pop
        <5>1. \E kind \in JobKinds : worker' = [Waiting EXCEPT !.at = IF kind = "save" THEN "ref" ELSE kind,
                                                              !.job = Head(queue[kind])]
          BY <4>1, KindsAre DEF Pop
        <5> QED BY <5>1 DEF Waiting, JobKinds
      <4>2. CASE WriteCount
        <5>1. \/ worker' = [worker EXCEPT !.at = "load", !.count = 0]
              \/ worker' = [worker EXCEPT !.at = "end"]
          BY <4>2, Zenon DEF WriteCount, Goto
        <5>2. CASE worker' = [worker EXCEPT !.at = "load", !.count = 0]
          BY <3>1, <5>2 DEF Workers
        <5>3. CASE worker' = [worker EXCEPT !.at = "end"]
          BY <3>1, <5>3 DEF Workers
        <5> QED BY <5>1, <5>2, <5>3
      <4>3. CASE Read
        <5>1. PICK pc \in {"settle", "apply"} : \E b : worker' = [worker EXCEPT !.at = pc, !.failed = b]
          BY <4>3 DEF Read
        <5> QED BY <3>1, <5>1 DEF Workers
      <4>4. CASE Settle \/ ApplyTransformations \/ Transformed
        BY <3>1, <4>4 DEF Settle, ApplyTransformations, Transformed, Goto, Workers, After
      <4>5. CASE StartTransform
        <5>1. PICK b : worker' = [worker EXCEPT !.at = "transformed", !.failed = b]
          BY <4>5 DEF StartTransform
        <5> QED BY <3>1, <5>1 DEF Workers
      <4>6. CASE ReadCount
        <5>1. PICK pc \in {"refd", "unrefd"} : \E n : worker' = [worker EXCEPT !.at = pc, !.count = n]
          BY <4>6 DEF ReadCount
        <5> QED BY <3>1, <5>1 DEF Workers
      <4>7. CASE End
        BY <4>7 DEF End, Waiting
      <4> QED BY <2>2, <4>1, <4>2, <4>3, <4>4, <4>5, <4>6, <4>7 DEF WorkerNext
    <3> QED BY <3>2
  <2>3. CASE MainNext
    <3>1. worker' = worker /\ worker.at = "read"
      BY <2>3, MainJobs
    <3>2. worker.job \in Jobs /\ I \in Images /\ img[I].pixels = "none"
      BY <3>1, Running DEF AssertNoPixels, At
    <3>3. I' = I
      BY <2>3, <3>1, <3>2, MainJobs DEF I, J
    <3> QED BY <2>3, <3>2, <3>3, MainPixels DEF NonePixels
  <2>4. CASE UNCHANGED vars
    BY <2>4 DEF vars, AssertNoPixels, At, I, J
  <2> QED BY <2>1, <2>2, <2>3, <2>4 DEF Next
<1> QED BY <1>1, <1>2, SpecIInv, PTL DEF Spec

\* A worker's step keeps what was said of the pixels if it takes none and makes no save job.
LEMMA WorkerPixels ==
  ASSUME IInv, PixelsInv, UNCHANGED windowVars, JobsKept,
         \A i \in Images : /\ img'[i].refs = img[i].refs
                           /\ NonePixels(img'[i]) => NonePixels(img[i]),
         LoadedJob' => ~NonePixels(img'[selected])
  PROVE  PixelsInv'
<1>1. UNCHANGED <<selected, current, loadJob, todo, view>>
  BY DEF windowVars
<1>2. todo # <<>> /\ Head(todo) = "display" => current \in Images
  <2> SUFFICES ASSUME todo # <<>>, Head(todo) = "display" PROVE current \in Images
    OBVIOUS
  <2>1. todo \in {<<"display">>, <<"display", "cancel">>}
    BY HandlerIs DEF IInv, HeldInv
  <2> QED BY <2>1 DEF IInv, FollowsInv
<1>3. view.image \in Images \cup {None}
  BY DEF IInv, ImagesInv
<1> QED BY <1>1, <1>2, <1>3 DEF PixelsInv, JobsKept, NonePixels

LEMMA WorkerPixelsStep == ASSUME IInv, PixelsInv, WorkerNext PROVE PixelsInv'
<1>1. UNCHANGED windowVars /\ UNCHANGED <<selected, loadJob, todo>>
  BY DEF WorkerNext, Pop, StartLoad, Read, Settle, ApplyTransformations, StartTransform,
         Transformed, ReadCount, WriteCount, End, Runs, windowVars
<1>2. worker \in Workers /\ img \in [Images -> ImageRecords]
  BY DEF IInv, WorkerInv, ImagesInv
<1>3. worker.at # "idle" => J.kind \in {"load", "transform"}
  BY Running DEF PixelsInv, J, JobKinds
<1>4. worker.at \notin Counting
  <2>1. worker.at \in Counting => worker.at # "idle"
    BY DEF Counting
  <2>2. worker.at \in Counting => J.kind = "save"
    BY <2>1, Running, WindowLoadAssumption DEF IInv, WorkerInv
  <2> QED BY <1>3, <2>1, <2>2
<1>5. ASSUME UNCHANGED <<jobs, answered>>, worker'.at # "end",
             \A i \in Images : /\ img'[i].refs = img[i].refs
                               /\ NonePixels(img'[i]) => NonePixels(img[i])
      PROVE  PixelsInv'
  <2>1. JobsKept
    BY <1>5, SameJobs DEF IInv
  <2>2. LoadedJob' => LoadedJob
    BY <1>1, <1>5 DEF LoadedJob, IsAnswered
  <2>3. LoadedJob => selected \in Images
    <3>1. loadJob # None => /\ loadJob \in Jobs /\ jobs[loadJob] \in JobRecords
      BY AliveIs DEF IInv, HeldInv, Alive
    <3> QED BY <3>1 DEF LoadedJob, IInv, FollowsInv, JobRecords
  <2>4. LoadedJob' => ~NonePixels(img'[selected])
    BY <1>5, <2>2, <2>3 DEF PixelsInv, NonePixels
  <2> QED BY <1>1, <1>5, <2>1, <2>4, WorkerPixels
<1>6. CASE Pop
  <2>1. \E kind \in JobKinds : worker' = [Waiting EXCEPT !.at = IF kind = "save" THEN "ref" ELSE kind,
                                                        !.job = Head(queue[kind])]
    BY <1>6, KindsAre DEF Pop
  <2>2. worker'.at # "end"
    BY <2>1 DEF Waiting, JobKinds
  <2> QED BY <1>5, <1>6, <2>2 DEF Pop
<1>7. CASE Read \/ StartTransform
  <2>1. \E pc \in {"settle", "apply", "transformed"} : \E b : worker' = [worker EXCEPT !.at = pc, !.failed = b]
    BY <1>7 DEF Read, StartTransform
  <2>2. worker'.at # "end"
    BY <1>2, <2>1 DEF Workers
  <2> QED BY <1>5, <1>7, <2>2 DEF Read, StartTransform, Runs
<1>8. CASE StartLoad
  <2>1. worker.at = "load" /\ UNCHANGED <<jobs, answered>> /\ I \in Images /\ worker.job \in Jobs
    BY <1>8, Running DEF StartLoad, At, Runs
  <2>2. J.kind = "load"
    BY <1>3, <2>1, Running DEF IInv, WorkerInv, Loading
  <2>3. CASE HasAll(I) /\ worker' = [worker EXCEPT !.at = "end"] /\ UNCHANGED img
    <3>1. ~NonePixels(img[I]) /\ worker'.job = worker.job
      BY <1>2, <2>3 DEF HasAll, NonePixels, Workers
    <3>2. ASSUME LoadedJob' PROVE ~NonePixels(img'[selected])
      <4>1. CASE IsAnswered(loadJob)
        BY <1>1, <2>1, <2>3, <3>2, <4>1 DEF LoadedJob, PixelsInv, NonePixels
      <4>2. CASE worker.job = loadJob
        <5>1. I = selected
          BY <1>1, <3>2, <4>2 DEF LoadedJob, IInv, FollowsInv, I, J
        <5> QED BY <2>3, <3>1, <5>1
      <4> QED BY <1>1, <2>1, <3>1, <3>2, <4>1, <4>2 DEF LoadedJob, IsAnswered
    <3>3. JobsKept
      BY <2>1, SameJobs DEF IInv
    <3> QED BY <1>1, <2>3, <3>2, <3>3, WorkerPixels
  <2>4. CASE worker' = [worker EXCEPT !.at = "read"] /\ img' = [img EXCEPT ![I].status = "LOADING"]
    <3>1. worker'.at # "end"
      BY <1>2, <2>4 DEF Workers
    <3>2. \A i \in Images : img'[i].refs = img[i].refs /\ (NonePixels(img'[i]) => NonePixels(img[i]))
      BY <1>2, <2>1, <2>4 DEF NonePixels, ImageRecords
    <3> QED BY <1>5, <2>1, <3>1, <3>2
  <2> QED BY <1>8, <2>2, <2>3, <2>4 DEF StartLoad, Goto, After
<1>9. CASE Settle
  <2>1. worker' = [worker EXCEPT !.at = "apply"] /\ UNCHANGED <<jobs, answered>> /\ I \in Images
        /\ img' = [img EXCEPT ![I] = IF worker.failed THEN NotLoaded(@) ELSE [@ EXCEPT !.pixels = "raw"]]
    BY <1>9, Running DEF Settle, At, Goto, Runs
  <2>2. worker'.at # "end"
    BY <1>2, <2>1 DEF Workers
  <2>3. /\ NotLoaded(img[I]).refs = img[I].refs /\ NotLoaded(img[I]).pixels = img[I].pixels
        /\ [img[I] EXCEPT !.pixels = "raw"].refs = img[I].refs
        /\ [img[I] EXCEPT !.pixels = "raw"].pixels = "raw"
    BY <1>2, <2>1 DEF NotLoaded, ImageRecords
  <2>4. \A i \in Images : img'[i].refs = img[i].refs /\ (NonePixels(img'[i]) => NonePixels(img[i]))
    BY <1>2, <2>1, <2>3 DEF NonePixels
  <2> QED BY <1>5, <2>1, <2>2, <2>4
<1>10. CASE ApplyTransformations
  <2>1. /\ worker.at = "apply" /\ worker' = [worker EXCEPT !.at = After] /\ UNCHANGED answered
        /\ I \in Images /\ worker.job \in Jobs /\ J \in JobRecords
        /\ img' = [img EXCEPT ![I] =
                     IF worker.failed THEN [@ EXCEPT !.status = "FAILED"]
                     ELSE [@ EXCEPT !.status = "LOADED", !.pixels = "ready"]]
        /\ jobs' = [jobs EXCEPT ![worker.job].error = worker.failed]
    BY <1>10, Running DEF ApplyTransformations, At, Goto, Runs
  <2>2. worker'.job = worker.job
    BY <1>2, <2>1 DEF Workers
  <2>3. /\ [img[I] EXCEPT !.status = "FAILED"].refs = img[I].refs
        /\ [img[I] EXCEPT !.status = "FAILED"].pixels = img[I].pixels
        /\ [img[I] EXCEPT !.status = "LOADED", !.pixels = "ready"].refs = img[I].refs
        /\ [img[I] EXCEPT !.status = "LOADED", !.pixels = "ready"].pixels = "ready"
    BY <1>2, <2>1 DEF ImageRecords
  <2>4. \A i \in Images : img'[i].refs = img[i].refs /\ (NonePixels(img'[i]) => NonePixels(img[i]))
    BY <1>2, <2>1, <2>3 DEF NonePixels
  <2>5. /\ jobs \in JobTable /\ jobs'[worker.job].error = worker.failed
        /\ \A j \in Jobs : j # worker.job => jobs'[j] = jobs[j]
        /\ jobs'[worker.job].image = I
    BY <2>1 DEF IInv, QueuesInv, JobTable, JobRecords, J, I
  <2>6. JobsKept
    <3> DEFINE w == worker.job
               r == [jobs[w] EXCEPT !.error = worker.failed]
    <3>1. worker.failed \in BOOLEAN /\ w \in Jobs /\ jobs[w] \in JobRecords
          /\ jobs' = [jobs EXCEPT ![w] = r]
      BY <1>2, <2>1 DEF Workers, J
    <3>2. r \in JobRecords /\ r.kind = jobs[w].kind /\ r.image = jobs[w].image
      BY <3>1 DEF JobRecords
    <3> HIDE DEF w, r
    <3> QED BY <2>5, <3>1, <3>2 DEF JobsKept, JobTable
  <2>7. ASSUME LoadedJob' PROVE ~NonePixels(img'[selected])
    <3>1. loadJob \in Jobs /\ todo = <<>> /\ ~jobs'[loadJob].error
          /\ (IsAnswered(loadJob) \/ worker.job = loadJob)
      BY <1>1, <2>1, <2>2, <2>7 DEF LoadedJob, IsAnswered, IInv, HeldInv
    <3>2. CASE worker.job = loadJob
      <4>1. ~worker.failed /\ I = selected
        BY <2>5, <3>1, <3>2, WindowLoadAssumption DEF IInv, FollowsInv, I, J
      <4> QED BY <1>2, <2>1, <2>3, <4>1 DEF NonePixels
    <3>3. CASE worker.job # loadJob
      <4>1. LoadedJob
        BY <2>5, <3>1, <3>3, WindowLoadAssumption DEF LoadedJob
      <4>2. selected \in Images
        <5>1. jobs[loadJob] \in JobRecords
          BY <3>1, AliveIs, WindowLoadAssumption DEF IInv, HeldInv, Alive
        <5> QED BY <3>1, <5>1, WindowLoadAssumption DEF IInv, FollowsInv, JobRecords
      <4> QED BY <2>4, <4>1, <4>2 DEF PixelsInv, NonePixels
    <3> QED BY <3>2, <3>3
  <2> QED BY <1>1, <2>4, <2>6, <2>7, WorkerPixels
<1>11. CASE Transformed
  <2>1. /\ worker.at = "transformed" /\ worker' = [worker EXCEPT !.at = "end"] /\ UNCHANGED <<jobs, answered>>
        /\ I \in Images /\ worker.job \in Jobs
        /\ (img' = img \/ img' = [img EXCEPT ![I].pixels = "ready"])
    BY <1>11, Running DEF Transformed, At, Goto, Runs
  <2>2. worker'.job = worker.job /\ J.kind = "transform"
    BY <1>2, <2>1, Running DEF Workers, IInv, WorkerInv, Transforming
  <2>3. \A i \in Images : img'[i].refs = img[i].refs /\ (NonePixels(img'[i]) => NonePixels(img[i]))
    BY <1>2, <2>1 DEF NonePixels, ImageRecords
  <2>4. ASSUME LoadedJob' PROVE ~NonePixels(img'[selected])
    <3>1. loadJob \in Jobs /\ jobs[loadJob].kind = "load" /\ todo = <<>> /\ ~jobs[loadJob].error
          /\ (IsAnswered(loadJob) \/ worker.job = loadJob)
      BY <1>1, <2>1, <2>2, <2>4 DEF LoadedJob, IsAnswered, IInv, HeldInv
    <3>2. LoadedJob
      BY <2>2, <3>1, WindowLoadAssumption DEF LoadedJob, J
    <3>3. selected \in Images
      <4>1. jobs[loadJob] \in JobRecords
        BY <3>1, AliveIs DEF IInv, Alive
      <4> QED BY <3>1, <4>1, WindowLoadAssumption DEF IInv, FollowsInv, JobRecords
    <3> QED BY <2>3, <3>2, <3>3 DEF PixelsInv, NonePixels
  <2>5. JobsKept
    BY <2>1, SameJobs DEF IInv
  <2> QED BY <1>1, <2>3, <2>4, <2>5, WorkerPixels
<1>12. CASE End
  <2>1. worker.at = "end" /\ worker' = Waiting /\ answered' = Append(answered, worker.job)
        /\ UNCHANGED <<jobs, img>> /\ worker.job \in Jobs
    BY <1>12, Running DEF End, At
  <2>2. \A j : IsAnswered(j)' => IsAnswered(j) \/ j = worker.job
    BY <2>1, AppendContains DEF IInv, AnsweredInv, IsAnswered
  <2>3. worker'.at # "end"
    BY <2>1 DEF Waiting
  <2>4. LoadedJob' => LoadedJob
    BY <1>1, <2>1, <2>2, <2>3 DEF LoadedJob
  <2>5. LoadedJob' => ~NonePixels(img'[selected])
    BY <2>1, <2>4 DEF PixelsInv, NonePixels
  <2>6. JobsKept
    BY <2>1, SameJobs DEF IInv
  <2> QED BY <1>1, <2>1, <2>5, <2>6, WorkerPixels
<1>13. ~ReadCount /\ ~WriteCount
  BY <1>4 DEF ReadCount, WriteCount, At, Counting
<1> QED BY <1>6, <1>7, <1>8, <1>9, <1>10, <1>11, <1>12, <1>13 DEF WorkerNext

RefsOfView == /\ \A i \in Images : img[i].refs = OneIf(view.image = i)
              /\ view.image # None => ~NonePixels(img[view.image])

\* The references follow the image of the scroll view.
LEMMA SetImageRefs ==
  ASSUME ImagesInv, RefsOfView, NEW i \in Images \cup {None}, SetImage(i),
         i # None => ~NonePixels(img[i])
  PROVE  RefsOfView' /\ view'.image = i
<1>1. img \in [Images -> ImageRecords] /\ view.image \in Images \cup {None}
  BY DEF ImagesInv
<1>2. CASE view.image = i
  BY <1>2 DEF SetImage, RefsOfView
<1>3. CASE view.image # i
  <2>1. /\ view'.image = i
        /\ \A k \in Images : img'[k] =
             IF k = view.image THEN DataUnref(img[k])
             ELSE IF k = i THEN [img[k] EXCEPT !.refs = @ + 1] ELSE img[k]
    BY <1>3, SetImageDoes
  <2>2. ASSUME NEW k \in Images
        PROVE  img'[k].refs = OneIf(k = i) /\ (k = i => ~NonePixels(img'[k]))
    <3>1. img[k] \in ImageRecords /\ img[k].refs = OneIf(view.image = k)
      BY <1>1 DEF RefsOfView
    <3>2. CASE k = view.image
      <4>1. img'[k].refs = Down(1)
        BY <2>1, <3>1, <3>2, FreedPixels DEF OneIf
      <4> QED BY <1>3, <3>2, <4>1 DEF Down, OneIf
    <3>3. CASE k = i
      <4>1. img'[k] = [img[k] EXCEPT !.refs = @ + 1] /\ img[k].refs = 0
        BY <1>3, <2>1, <3>1, <3>3 DEF OneIf
      <4>2. i # None
        BY <3>3, WindowLoadAssumption
      <4> QED BY <3>1, <3>3, <4>1, <4>2 DEF OneIf, NonePixels, ImageRecords
    <3>4. CASE k # view.image /\ k # i
      BY <2>1, <3>1, <3>4 DEF OneIf
    <3> QED BY <3>2, <3>3, <3>4
  <2>3. \A k \in Images : OneIf(view'.image = k) = OneIf(k = i)
    BY <2>1 DEF OneIf
  <2> QED BY <2>1, <2>2, <2>3 DEF RefsOfView
<1> QED BY <1>2, <1>3

LEMMA MainPixelsStep ==
  ASSUME "save" \notin setting.operations, IInv, PixelsInv, MainNext
  PROVE  PixelsInv'
<1>1. RefsOfView /\ \A j \in Jobs : jobs[j].kind # "save"
  BY DEF PixelsInv, RefsOfView, NonePixels
<1>2. jobs \in JobTable /\ loadJob \in Jobs \cup {None} /\ transformJob \in Jobs \cup {None}
      /\ selected \in Images \cup {None} /\ current \in Images \cup {None}
      /\ view.image \in Images \cup {None} /\ img \in [Images -> ImageRecords]
  BY DEF IInv, QueuesInv, HeldInv, ImagesInv, JobTable
<1>3. CASE Select \/ Retry \/ Reload
  <2>1. UNCHANGED jobs /\ \E rest : todo' = <<"cancel", rest>>
    BY <1>3 DEF Select, Retry, Reload, SelectionChanged
  <2>2. (UNCHANGED <<img, view>>) \/ SetImage(None)
    BY <1>3 DEF Select, Retry, Reload
  <2>3. RefsOfView'
    <3>1. CASE UNCHANGED <<img, view>>
      BY <1>1, <3>1 DEF RefsOfView
    <3>2. CASE SetImage(None)
      BY <1>1, <3>2, SetImageRefs DEF IInv
    <3> QED BY <2>2, <3>1, <3>2
  <2>4. todo' # <<>> /\ Head(todo') # "display"
    BY <2>1
  <2>5. ~LoadedJob'
    BY <2>4 DEF LoadedJob
  <2> QED BY <1>1, <2>1, <2>3, <2>4, <2>5 DEF PixelsInv, RefsOfView, NonePixels
<1>4. CASE ClearLoadJob
  <2>1. jobs' = Unref(jobs, loadJob, ToSet(answered) \cup {worker.job}) /\ loadJob' = None
        /\ UNCHANGED view
    BY <1>4 DEF ClearLoadJob
  <2>2. \A j \in Jobs : jobs'[j].kind # "save"
    <3> DEFINE holders == ToSet(answered) \cup {worker.job}
    <3> HIDE DEF holders
    <3>1. \A j \in Jobs : Unref(jobs, loadJob, holders)[j] \in {NoJob, jobs[j]}
      <4>1. jobs \in JobTable /\ loadJob \in Jobs \cup {None}
        BY <1>2
      <4>2. /\ Unref(jobs, loadJob, holders) \in JobTable
            /\ \A k \in Jobs : Unref(jobs, loadJob, holders)[k] =
                 IF k = loadJob /\ loadJob \notin holders THEN NoJob ELSE jobs[k]
        BY <4>1, UnrefIs
      <4> QED BY <4>2
    <3>2. \A j \in Jobs : jobs'[j] \in {NoJob, jobs[j]}
      BY <2>1, <3>1 DEF holders
    <3> QED BY <1>1, <3>2 DEF NoJob
  <2>3. \A i \in Images : img'[i].refs = img[i].refs /\ (NonePixels(img'[i]) => NonePixels(img[i]))
    <3> DEFINE k == jobs[loadJob].image
    <3>1. UNCHANGED img \/ img' = [img EXCEPT ![k] = Cancelled(@)]
      BY <1>4 DEF ClearLoadJob
    <3> HIDE DEF k
    <3> SUFFICES ASSUME NEW i \in Images
                 PROVE  img'[i].refs = img[i].refs /\ (NonePixels(img'[i]) => NonePixels(img[i]))
      OBVIOUS
    <3>2. Cancelled(img[i]).refs = img[i].refs
          /\ (NonePixels(Cancelled(img[i])) => NonePixels(img[i]))
      BY <1>2, FreedIs, FreedPixels
    <3> QED BY <1>2, <3>1, <3>2
  <2>4. todo' \in {<<>>, <<"choose">>, <<"retry">>}
    BY <1>4, HandlerIs, HeadsAndTails DEF ClearLoadJob, IInv, HeldInv
  <2>5. ~(todo' # <<>> /\ Head(todo') = "display")
    BY <2>4, HeadsAndTails
  <2>6. ~LoadedJob'
    BY <2>1 DEF LoadedJob
  <2>7. RefsOfView'
    BY <1>1, <1>2, <2>1, <2>3 DEF RefsOfView
  <2> QED BY <2>2, <2>5, <2>6, <2>7 DEF PixelsInv, RefsOfView, NonePixels
<1>5. CASE Choose
  <2>1. /\ todo \in {<<"choose">>, <<"retry">>} /\ Tail(todo) = <<>>
        /\ <<"display">> \o Tail(todo) = <<"display">>
    BY <1>5, HandlerIs, HeadsAndTails DEF Choose, IInv, HeldInv
  <2>2. loadJob = None /\ selected \in Images /\ \E j \in Jobs : Free(j)
    BY <2>1 DEF IInv, FollowsInv, RoomInv
  <2>3. UNCHANGED <<answered, img, selected, view, worker>>
    BY <1>5 DEF Choose, Main
  <2>4. RefsOfView'
    BY <1>1, <2>3 DEF RefsOfView
  <2>5. CASE todo' = <<>> /\ UNCHANGED <<jobs, loadJob>>
    BY <1>1, <2>2, <2>4, <2>5 DEF PixelsInv, RefsOfView, NonePixels, LoadedJob
  <2>6. CASE /\ img[selected].pixels # "none" /\ current' = selected /\ todo' = <<"display">>
             /\ UNCHANGED <<jobs, loadJob>>
    BY <1>1, <2>2, <2>3, <2>4, <2>6 DEF PixelsInv, RefsOfView, NonePixels, LoadedJob
  <2>7. CASE /\ jobs' = Made(jobs, "load", selected) /\ loadJob' = NewJob /\ todo' = <<>>
    <3> DEFINE n == NewJob
    <3>1. n \in Jobs /\ Free(n)
      BY <2>2, NewJobIsNew DEF IInv
    <3>2. \A j \in Jobs : jobs'[j] = IF j = n THEN [kind |-> "load", image |-> selected, error |-> FALSE]
                                    ELSE jobs[j]
      <4>1. "load" \in JobKinds
        BY DEF JobKinds
      <4> QED BY <1>2, <2>2, <2>7, <3>1, <4>1, MadeIs
    <3>3. loadJob' = n
      BY <2>7
    <3> HIDE DEF n
    <3>4. ~LoadedJob'
      BY <2>3, <3>1, <3>3 DEF LoadedJob, Free, IsAnswered
    <3> QED BY <1>1, <2>4, <2>7, <3>2, <3>4 DEF PixelsInv, RefsOfView, NonePixels
  <2> QED BY <1>5, <2>1, <2>5, <2>6, <2>7 DEF Choose
<1>6. CASE Display
  <2>1. /\ todo \in {<<"display">>, <<"display", "cancel">>}
        /\ todo = <<"display">> => todo' = <<>>
        /\ todo = <<"display", "cancel">> => todo' = <<"cancel">>
    BY <1>6, HandlerIs, HeadsAndTails DEF Display, IInv, HeldInv
  <2>2. UNCHANGED <<jobs, loadJob>> /\ SetImage(current) /\ ~NonePixels(img[current])
    BY <1>6 DEF Display, NonePixels
  <2>3. RefsOfView'
    BY <1>1, <1>2, <2>2, SetImageRefs DEF IInv
  <2>4. todo = <<"display">> => loadJob = None
    BY DEF IInv, FollowsInv
  <2>5. ~LoadedJob'
    BY <2>1, <2>2, <2>4 DEF LoadedJob
  <2>6. ~(todo' # <<>> /\ Head(todo') = "display")
    BY <2>1, HeadsAndTails
  <2> QED BY <1>1, <2>2, <2>3, <2>5, <2>6 DEF PixelsInv, RefsOfView, NonePixels
<1>7. CASE Deliver
  <2> DEFINE j == Head(answered)
  <2>1. /\ todo = <<>> /\ answered # <<>> /\ answered' = Tail(answered)
        /\ LoadFinished(j) \/ TransformFinished(j) \/ OtherFinished(j)
        /\ jobs' = Unref(jobs, j, {loadJob})
        /\ UNCHANGED worker /\ UNCHANGED <<selected, loadJob>>
    BY <1>7 DEF Deliver, MainIdle, Main
  <2>2. j \in Jobs /\ IsAnswered(j) /\ \A x : IsAnswered(x)' => IsAnswered(x)
    BY <2>1, TailElements, TailContains DEF IInv, AnsweredInv, IsAnswered
  <2> HIDE DEF j
  <2>3. \A k \in Jobs : jobs'[k] = IF k = j /\ j # loadJob THEN NoJob ELSE jobs[k]
    <3> DEFINE holders == {loadJob}
    <3>1. jobs \in JobTable /\ j \in Jobs \cup {None}
      BY <1>2, <2>2
    <3>2. (loadJob = j <=> j \in holders) /\ jobs' = Unref(jobs, j, holders)
      BY <2>1
    <3> HIDE DEF holders
    <3>3. /\ Unref(jobs, j, holders) \in JobTable
          /\ \A k \in Jobs : Unref(jobs, j, holders)[k] =
               IF k = j /\ j \notin holders THEN NoJob ELSE jobs[k]
      BY <3>1, UnrefIs
    <3> QED BY <3>1, <3>2, <3>3
  <2>4. \A k \in Jobs : jobs'[k].kind # "save"
    BY <1>1, <2>3 DEF NoJob
  <2>5. CASE UNCHANGED <<todo, view, img>> /\ j # loadJob
    <3>1. LoadedJob' => LoadedJob
      BY <1>2, <2>1, <2>2, <2>3, <2>5, WindowLoadAssumption DEF LoadedJob
    <3> QED BY <1>1, <2>1, <2>4, <2>5, <3>1 DEF PixelsInv, RefsOfView, NonePixels
  <2>6. CASE j = loadJob /\ SetImage(None) /\ todo' = <<"cancel">>
    <3>1. RefsOfView'
      BY <1>1, <2>6, SetImageRefs DEF IInv
    <3>2. ~LoadedJob' /\ ~(todo' # <<>> /\ Head(todo') = "display")
      BY <2>6, HeadsAndTails DEF LoadedJob
    <3> QED BY <2>4, <3>1, <3>2 DEF PixelsInv, RefsOfView, NonePixels
  <2>7. CASE /\ j = loadJob /\ ~jobs[j].error /\ current' = jobs[j].image
             /\ todo' = <<"display", "cancel">> /\ UNCHANGED <<view, img>>
    <3>1. LoadedJob /\ jobs[j].image = selected
      BY <2>1, <2>2, <2>7, WindowLoadAssumption DEF LoadedJob, IInv, FollowsInv
    <3>2. ~NonePixels(img'[current'])
      BY <2>7, <3>1 DEF PixelsInv, NonePixels
    <3>3. ~LoadedJob'
      BY <2>7 DEF LoadedJob
    <3> QED BY <1>1, <2>4, <2>7, <3>2, <3>3 DEF PixelsInv, RefsOfView, NonePixels
  <2>8. \/ UNCHANGED <<todo, view, img>> /\ j # loadJob
        \/ j = loadJob /\ SetImage(None) /\ todo' = <<"cancel">>
        \/ /\ j = loadJob /\ ~jobs[j].error /\ current' = jobs[j].image
           /\ todo' = <<"display", "cancel">> /\ UNCHANGED <<view, img>>
    <3>1. j = loadJob => j # transformJob
      BY <2>2, WindowLoadAssumption DEF IInv, HeldInv
    <3> QED BY <2>1, <3>1 DEF LoadFinished, TransformFinished, OtherFinished, Connected
  <2> QED BY <2>5, <2>6, <2>7, <2>8
<1>8. CASE Transform
  <2> DEFINE n == NewJob
             table == Unref(jobs, transformJob, ToSet(answered) \cup {worker.job})
  <2>1. /\ todo = <<>> /\ Room /\ selected \in Images /\ jobs' = Made(table, "transform", selected)
        /\ UNCHANGED <<answered, img, selected, loadJob, view, todo, worker>>
    BY <1>2, <1>8 DEF Transform, Main, MainIdle
  <2>2. n \in Jobs /\ Free(n)
    BY <2>1, NewJobIsNew, RoomIs DEF IInv
  <2>3. table \in JobTable /\ \A k \in Jobs : /\ table[k] \in {NoJob, jobs[k]}
                                              /\ k # transformJob => table[k] = jobs[k]
    <3> DEFINE holders == ToSet(answered) \cup {worker.job}
    <3> HIDE DEF holders
    <3>1. /\ Unref(jobs, transformJob, holders) \in JobTable
          /\ \A k \in Jobs : Unref(jobs, transformJob, holders)[k] =
               IF k = transformJob /\ transformJob \notin holders THEN NoJob ELSE jobs[k]
      <4>1. jobs \in JobTable /\ transformJob \in Jobs \cup {None}
        BY <1>2
      <4> QED BY <4>1, UnrefIs
    <3> QED BY <3>1 DEF holders
  <2> HIDE DEF table
  <2>4. \A k \in Jobs : jobs'[k] = IF k = n THEN [kind |-> "transform", image |-> selected, error |-> FALSE]
                                  ELSE table[k]
    <3>1. "transform" \in JobKinds
      BY DEF JobKinds
    <3> QED BY <2>1, <2>2, <2>3, <3>1, MadeIs
  <2> HIDE DEF n
  <2>5. \A k \in Jobs : jobs'[k].kind # "save"
    <3>1. \A k \in Jobs : table[k].kind # "save"
      BY <1>1, <2>3 DEF NoJob
    <3> QED BY <2>4, <3>1
  <2>6. loadJob # None => jobs'[loadJob] = jobs[loadJob]
    <3>1. loadJob # None => loadJob \in Jobs /\ loadJob # transformJob /\ loadJob # n
      BY <2>2 DEF IInv, HeldInv, Free
    <3>2. loadJob # None => table[loadJob] = jobs[loadJob]
      BY <2>3, <3>1
    <3> QED BY <2>4, <3>1, <3>2
  <2>7. LoadedJob' => LoadedJob
    BY <2>1, <2>6 DEF LoadedJob, IsAnswered
  <2> QED BY <1>1, <2>1, <2>5, <2>7 DEF PixelsInv, RefsOfView, NonePixels
<1>9. ~Save
  BY DEF Save
<1> QED BY <1>3, <1>4, <1>5, <1>6, <1>7, <1>8, <1>9 DEF MainNext

LEMMA SpecPixelsInv == Spec => [](Alone => PixelsInv)
<1>1. Init => PixelsInv
  <2> SUFFICES ASSUME Init PROVE PixelsInv
    OBVIOUS
  <2>1. /\ \A j \in Jobs : jobs[j] = NoJob
        /\ \A i \in Images : img[i].refs = 0
        /\ loadJob = None /\ todo = <<>> /\ view.image = None
    BY DEF Init, Blank
  <2>2. \A i \in Images : OneIf(view.image = i) = 0
    BY <2>1, WindowLoadAssumption DEF OneIf
  <2> QED BY <2>1, <2>2 DEF PixelsInv, NoJob, LoadedJob
<1>2. IInv /\ (Alone => PixelsInv) /\ [Next]_vars => (Alone => PixelsInv)'
  <2> SUFFICES ASSUME IInv, Alone', Alone => PixelsInv, [Next]_vars PROVE PixelsInv'
    OBVIOUS
  <2>0. Alone /\ PixelsInv
    BY SettingKept DEF Alone
  <2>1. CASE Next
    BY <2>0, <2>1, WorkerPixelsStep, MainPixelsStep DEF Next, Alone
  <2>2. CASE UNCHANGED vars
    BY <2>0, <2>2 DEF vars, windowVars, PixelsInv, LoadedJob, IsAnswered
  <2> QED BY <2>1, <2>2
<1> QED BY <1>1, <1>2, SpecIInv, PTL DEF Spec

\* While no image is being saved, the scroll view alone holds data references, one of the image it
\* shows, and the pixels of that image are in memory: nobody frees what is on the screen
\* (eom_scroll_view_set_image, eom_image_data_unref). A save job's reference may be lost or
\* lose that of the view.
THEOREM ViewHolds == Spec => []ViewAloneHoldsPixels
<1>1. PixelsInv => ViewHoldsPixels
  BY WindowLoadAssumption DEF PixelsInv, ViewHoldsPixels, OneIf
<1>2. (Alone => PixelsInv) => ViewAloneHoldsPixels
  BY <1>1 DEF Alone, ViewAloneHoldsPixels
<1> QED BY <1>2, SpecPixelsInv, PTL

\* And eom-window.c:891 asserts what holds: an image that is displayed has pixels, although its
\* load job was answered, or its pixels were looked at, in an earlier step than the one that
\* takes them.
THEOREM Displayed == Spec => []DisplayedHasPixels
<1>1. (Alone => PixelsInv) => DisplayedHasPixels
  BY DEF Alone, PixelsInv, AssertHasPixels, DisplayedHasPixels
<1> QED BY <1>1, SpecPixelsInv, PTL
=============================================================================
