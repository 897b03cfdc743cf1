------------------------- MODULE EomJobQueueProofs --------------------------
(***************************************************************************)
(* Proofs about EomJobQueue for every set of jobs and every bound.         *)
(***************************************************************************)
EXTENDS EomJobQueue, EomLemmas

-----------------------------------------------------------------------------
(* What the operations do to the queues, job by job. *)

\* Taking a job removes that one from the queues, and no other.
LEMMA TakeJobEffect ==
  ASSUME TypeOK, QueuedOnce, TakeJob
  PROVE  /\ queue' \in [Classes -> Seq(Jobs)]
         /\ QueuedOnce'
         /\ \E h \in Jobs : /\ cur' = h /\ Queued(h)
                            /\ \A j \in Jobs : Queued(j)' <=> Queued(j) /\ j # h
<1> USE JobsAssumption
<1>1. PICK c \in Classes : /\ queue[c] # <<>>
                           /\ cur' = Head(queue[c])
                           /\ queue' = [queue EXCEPT ![c] = Tail(@)]
  BY DEF TakeJob
<1>2. queue[c] \in Seq(Jobs) /\ queue \in [Classes -> Seq(Jobs)] /\ IsInjective(queue[c])
  BY DEF TypeOK, QueuedOnce
<1>3. Head(queue[c]) \in Jobs /\ Tail(queue[c]) \in Seq(Jobs)
  BY <1>1, <1>2, TailElements
<1>4. /\ IsInjective(Tail(queue[c])) /\ Contains(queue[c], Head(queue[c]))
      /\ \A x : Contains(Tail(queue[c]), x) <=> Contains(queue[c], x) /\ x # Head(queue[c])
  BY <1>1, <1>2, TailContains
<1>5. /\ queue' \in [Classes -> Seq(Jobs)]
      /\ \A d \in Classes : queue'[d] = IF d = c THEN Tail(queue[c]) ELSE queue[d]
  BY <1>1, <1>2, <1>3
<1>6. QueuedOnce'
  BY <1>4, <1>5 DEF QueuedOnce
<1>7. ClassOf[Head(queue[c])] = c
  BY <1>3, <1>4 DEF QueuedOnce
<1> QED BY <1>1, <1>3, <1>4, <1>5, <1>6, <1>7 DEF Queued, QueuedOnce

\* Removing a job takes it from its queue, with the queue's reference, if it is
\* still there, and changes nothing otherwise.
LEMMA RemoveJobEffect ==
  ASSUME TypeOK, QueuedOnce, NEW j \in Jobs, RemoveJob(j)
  PROVE  /\ queue' \in [Classes -> Seq(Jobs)]
         /\ QueuedOnce'
         /\ \A k \in Jobs : Queued(k)' <=> Queued(k) /\ k # j
         /\ refs' = [refs EXCEPT ![j] = @ - One(Queued(j))]
<1> USE JobsAssumption
<1> DEFINE c == ClassOf[j]
<1>0. c \in Classes /\ queue[c] \in Seq(Jobs) /\ queue \in [Classes -> Seq(Jobs)]
      /\ IsInjective(queue[c]) /\ refs \in [Jobs -> Nat]
  BY DEF TypeOK, QueuedOnce
<1>1. CASE Queued(j)
  <2>0. DOMAIN queue[c] = 1 .. Len(queue[c])
    BY <1>0, LenProperties
  <2>1. PICK i \in 1 .. Len(queue[c]) :
               /\ queue[c][i] = j
               /\ queue' = [queue EXCEPT ![c] = RemoveAt(@, i)]
               /\ refs' = [refs EXCEPT ![j] = @ - 1]
    BY <2>0, <1>1 DEF RemoveJob
  <2>2. /\ RemoveAt(queue[c], i) \in Seq(Jobs)
        /\ IsInjective(RemoveAt(queue[c], i))
        /\ \A x : Contains(RemoveAt(queue[c], i), x) <=> Contains(queue[c], x) /\ x # j
    <3>1. RemoveAt(queue[c], i) \in Seq(Jobs)
      BY <1>0, RemoveAtElements
    <3>2. /\ IsInjective(RemoveAt(queue[c], i))
          /\ \A x : Contains(RemoveAt(queue[c], i), x) <=> Contains(queue[c], x) /\ x # queue[c][i]
      <4> HIDE DEF c
      <4> QED BY <1>0, RemoveAtContains, Zenon
    <3> QED BY <3>1, <3>2, <2>1
  <2>3. /\ queue' \in [Classes -> Seq(Jobs)]
        /\ \A d \in Classes : queue'[d] = IF d = c THEN RemoveAt(queue[c], i) ELSE queue[d]
    BY <1>0, <2>1, <2>2
  <2> HIDE DEF c
  <2>4. QueuedOnce'
    BY <2>2, <2>3 DEF QueuedOnce
  <2> QED BY <1>1, <2>1, <2>2, <2>3, <2>4 DEF Queued, QueuedOnce, One, c
<1>2. CASE ~Queued(j)
  <2>1. UNCHANGED <<queue, refs>>
    BY <1>2 DEF RemoveJob
  <2>2. refs' = [refs EXCEPT ![j] = @ - One(Queued(j))]
    BY <1>0, <1>2, <2>1 DEF One
  <2> QED BY <1>0, <1>2, <2>1, <2>2 DEF QueuedOnce, Queued
<1> QED BY <1>1, <1>2

\* Adding a job that is in no queue puts it in the one of its class.
LEMMA AddEffect ==
  ASSUME TypeOK, QueuedOnce, NEW j \in Jobs, ~Queued(j),
         queue' = [queue EXCEPT ![ClassOf[j]] = Append(@, j)]
  PROVE  /\ queue' \in [Classes -> Seq(Jobs)]
         /\ QueuedOnce'
         /\ \A k \in Jobs : Queued(k)' <=> Queued(k) \/ k = j
<1> USE JobsAssumption
<1> DEFINE c == ClassOf[j]
<1>1. c \in Classes /\ queue[c] \in Seq(Jobs) /\ queue \in [Classes -> Seq(Jobs)]
      /\ IsInjective(queue[c])
  BY DEF TypeOK, QueuedOnce
<1>2. /\ Append(queue[c], j) \in Seq(Jobs)
      /\ IsInjective(Append(queue[c], j))
      /\ \A x : Contains(Append(queue[c], j), x) <=> Contains(queue[c], x) \/ x = j
  BY <1>1, AppendElements, AppendContains DEF Queued
<1>3. /\ queue' \in [Classes -> Seq(Jobs)]
      /\ \A d \in Classes : queue'[d] = IF d = c THEN Append(queue[c], j) ELSE queue[d]
  BY <1>1, <1>2
<1>4. QueuedOnce'
  BY <1>2, <1>3 DEF QueuedOnce
<1> QED BY <1>2, <1>3, <1>4 DEF Queued, QueuedOnce
-----------------------------------------------------------------------------
(* What the operations do to the idle FIFO. *)

\* The worker posts a callback behind all the others.
LEMMA PostEffect ==
  ASSUME TypeOK, FinishedOnce, NEW kind \in IdleKinds, NEW j \in Jobs,
         kind = "finished" => ~FinishedPending(j),
         idles' = Append(idles, Idle(kind, j))
  PROVE  /\ idles' \in Seq([kind : IdleKinds, job : Jobs])
         /\ FinishedOnce'
         /\ \A k \in Jobs : FinishedPending(k)' <=>
                             FinishedPending(k) \/ (kind = "finished" /\ k = j)
<1> DEFINE e == Idle(kind, j)
<1>1. e \in [kind : IdleKinds, job : Jobs] /\ e.kind = kind /\ e.job = j
  BY DEF Idle
<1>2. idles \in Seq([kind : IdleKinds, job : Jobs])
  BY DEF TypeOK
<1>3. FinishedOnce'
  <2> SUFFICES ASSUME NEW i \in DOMAIN idles', NEW k \in DOMAIN idles',
                      idles'[i].kind = "finished", idles'[k] = idles'[i]
               PROVE  k = i
    BY DEF FinishedOnce
  <2> HIDE DEF e
  <2>1. i \in 1 .. Len(idles) + 1 /\ k \in 1 .. Len(idles) + 1 /\ Len(idles) \in Nat
        /\ DOMAIN idles = 1 .. Len(idles)
        /\ idles'[Len(idles) + 1] = e /\ \A m \in 1 .. Len(idles) : idles'[m] = idles[m]
    BY <1>1, <1>2, AppendElements DEF e
  <2>2. \A m \in DOMAIN idles : idles[m] = e /\ kind = "finished" => FALSE
    BY <2>1 DEF FinishedPending, Contains, e
  <2> QED BY <2>1, <2>2, <1>1 DEF FinishedOnce
<1>4. \A k \in Jobs : FinishedPending(k)' <=> FinishedPending(k) \/ Idle("finished", k) = e
  <2>1. \A x : Contains(idles', x) <=> Contains(idles, x) \/ x = e
    <3> HIDE DEF e
    <3>1. e \in [kind : IdleKinds, job : Jobs] /\ idles' = Append(idles, e)
      BY <1>1 DEF e
    <3>2. \A x : Contains(Append(idles, e), x) <=> Contains(idles, x) \/ x = e
      BY <1>2, <3>1, AppendContains, Zenon
    <3> QED BY <3>1, <3>2
  <2> QED BY <2>1, Zenon DEF FinishedPending
<1>5. \A k \in Jobs : Idle("finished", k) = e <=> kind = "finished" /\ k = j
  BY DEF Idle
<1> QED BY <1>1, <1>2, <1>3, <1>4, <1>5, AppendElements

\* The main loop takes the oldest callback.
LEMMA DispatchEffect ==
  ASSUME TypeOK, FinishedOnce, idles # <<>>, idles' = Tail(idles)
  PROVE  /\ Head(idles) \in [kind : IdleKinds, job : Jobs]
         /\ idles' \in Seq([kind : IdleKinds, job : Jobs])
         /\ FinishedOnce'
         /\ \A k \in Jobs : Head(idles) = Idle("finished", k) => FinishedPending(k)
         /\ \A k \in Jobs : FinishedPending(k)' <=>
                             FinishedPending(k) /\ Head(idles) # Idle("finished", k)
<1>1. idles \in Seq([kind : IdleKinds, job : Jobs])
  BY DEF TypeOK
<1>2. /\ Head(idles) \in [kind : IdleKinds, job : Jobs] /\ Head(idles) = idles[1]
      /\ Len(idles) \in Nat \ {0} /\ DOMAIN idles = 1 .. Len(idles)
      /\ idles' \in Seq([kind : IdleKinds, job : Jobs])
      /\ Len(idles') = Len(idles) - 1 /\ DOMAIN idles' = 1 .. Len(idles) - 1
      /\ \A k \in 1 .. Len(idles) - 1 : idles'[k] = idles[k + 1]
  BY <1>1, TailElements
<1>3. FinishedOnce'
  <2> SUFFICES ASSUME NEW i \in 1 .. Len(idles) - 1, NEW k \in 1 .. Len(idles) - 1,
                      idles[i + 1].kind = "finished", idles[k + 1] = idles[i + 1]
               PROVE  k = i
    BY <1>2 DEF FinishedOnce
  <2>1. i + 1 \in DOMAIN idles /\ k + 1 \in DOMAIN idles
    BY <1>2
  <2>2. k + 1 = i + 1
    BY <2>1 DEF FinishedOnce
  <2> QED BY <2>2
<1>4. ASSUME NEW k \in Jobs, Head(idles) = Idle("finished", k)
      PROVE  FinishedPending(k)
  BY <1>2, <1>4 DEF FinishedPending, Contains
<1>5. ASSUME NEW k \in Jobs, FinishedPending(k)'
      PROVE  FinishedPending(k) /\ Head(idles) # Idle("finished", k)
  <2>1. PICK i \in 1 .. Len(idles) - 1 : idles'[i] = Idle("finished", k)
    BY <1>2, <1>5 DEF FinishedPending, Contains
  <2>2. i + 1 \in 1 .. Len(idles) /\ idles[i + 1] = Idle("finished", k) /\ i + 1 # 1
    BY <1>2, <2>1
  <2>3. idles[i + 1].kind = "finished"
    BY <2>2 DEF Idle
  <2> QED BY <1>2, <2>2, <2>3 DEF FinishedPending, Contains, FinishedOnce
<1>6. ASSUME NEW k \in Jobs, FinishedPending(k), Head(idles) # Idle("finished", k)
      PROVE  FinishedPending(k)'
  <2>1. PICK i \in 1 .. Len(idles) : idles[i] = Idle("finished", k)
    BY <1>6 DEF FinishedPending, Contains
  <2>2. i - 1 \in 1 .. Len(idles) - 1 /\ idles'[i - 1] = Idle("finished", k)
    BY <1>2, <1>6, <2>1
  <2> QED BY <1>2, <2>2 DEF FinishedPending, Contains
<1> QED BY <1>2, <1>3, <1>4, <1>5, <1>6
-----------------------------------------------------------------------------
(* The inductive invariant. *)

\* It holds when eom_job_queue_init has run.
LEMMA InitIInv == Init => IInv
<1> SUFFICES ASSUME Init PROVE IInv
  OBVIOUS
<1> USE JobsAssumption
<1>1. TypeOK
  BY DEF Init, TypeOK, WorkerPlaces, IdleKinds
<1>2. /\ \A j \in Jobs : ~Queued(j) /\ ~FinishedPending(j) /\ WorkerRefs(j) = 0
      /\ QueuedOnce /\ FinishedOnce /\ ProgressCovered
  BY DEF Init, Queued, FinishedPending, Contains, WorkerRefs, QueuedOnce,
         IsInjective, FinishedOnce, ProgressCovered
<1>3. RefsExact
  BY <1>2 DEF Init, RefsExact, One
<1>4. Stages
  BY <1>2 DEF Init, Stages
<1> QED BY <1>1, <1>2, <1>3, <1>4 DEF IInv

\* LockQueues and SearchAwake: the thread takes a job, waits, or goes round.
LEMMA SearchStep == ASSUME IInv, LockQueues \/ SearchAwake PROVE IInv'
<1> USE JobsAssumption DEF IInv
<1>0. UNCHANGED <<mainpc, clearing, held, refs, finished, idles>>
      /\ worker \in {"top", "awake"} /\ cur = NoJob
  BY DEF LockQueues, SearchAwake, mainVars, Stages
<1>1. CASE TakeJob
  <2>1. /\ queue' \in [Classes -> Seq(Jobs)] /\ QueuedOnce'
        /\ \E h \in Jobs : /\ cur' = h /\ Queued(h)
                           /\ \A j \in Jobs : Queued(j)' <=> Queued(j) /\ j # h
    BY <1>1, TakeJobEffect
  <2>2. worker' = "popped"
    BY <1>1 DEF TakeJob
  <2>3. TypeOK'
    BY <1>0, <2>1, <2>2 DEF TypeOK, WorkerPlaces
  <2>4. \A j \in Jobs : FinishedPending(j)' <=> FinishedPending(j)
    BY <1>0 DEF FinishedPending
  <2>5. RefsExact'
    BY <1>0, <2>1, <2>2, <2>4 DEF RefsExact, WorkerRefs, One
  <2>6. Stages'
    BY <1>0, <2>1, <2>2, <2>4 DEF Stages
  <2>7. FinishedOnce' /\ ProgressCovered'
    BY <1>0 DEF FinishedOnce, ProgressCovered
  <2> QED BY <2>1, <2>3, <2>5, <2>6, <2>7
<1>2. CASE UNCHANGED <<queue, cur>> /\ worker' \in {"waiting", "top"}
  <2>1. TypeOK'
    BY <1>0, <1>2 DEF TypeOK, WorkerPlaces
  <2>2. \A j \in Jobs : (FinishedPending(j)' <=> FinishedPending(j)) /\ (Queued(j)' <=> Queued(j))
    BY <1>0, <1>2 DEF FinishedPending, Queued
  <2>3. RefsExact'
    BY <1>0, <1>2, <2>2 DEF RefsExact, WorkerRefs, One
  <2>4. Stages'
    BY <1>0, <1>2, <2>2 DEF Stages
  <2>5. QueuedOnce' /\ FinishedOnce' /\ ProgressCovered'
    BY <1>0, <1>2 DEF QueuedOnce, FinishedOnce, ProgressCovered
  <2> QED BY <2>1, <2>3, <2>4, <2>5
<1> QED BY <1>1, <1>2 DEF LockQueues, SearchAwake

\* The other steps of the thread: it wakes up, runs the job, and reports it.
LEMMA WorkerStep ==
  ASSUME IInv, SpuriousWakeup \/ RefJob \/ SetProgress \/ FinishRun \/ PostFinished \/ UnrefJob
  PROVE  IInv'
<1> USE JobsAssumption DEF IInv, mainVars, workerVars
<1>1. CASE SpuriousWakeup
  <2>1. /\ \A j \in Jobs : (FinishedPending(j)' <=> FinishedPending(j)) /\ (Queued(j)' <=> Queued(j))
        /\ QueuedOnce' /\ FinishedOnce'
    BY <1>1 DEF SpuriousWakeup, FinishedPending, Queued, QueuedOnce, FinishedOnce
  <2>2. TypeOK' /\ ProgressCovered'
    BY <1>1 DEF SpuriousWakeup, TypeOK, WorkerPlaces, ProgressCovered
  <2>4. Stages'
    BY <1>1, <2>1 DEF SpuriousWakeup, Stages
  <2>3. RefsExact'
    BY <1>1, <2>1 DEF SpuriousWakeup, RefsExact, WorkerRefs, One
  <2> QED BY <2>1, <2>2, <2>3, <2>4
<1>2. CASE RefJob
  <2>0. cur \in Jobs
    BY <1>2 DEF RefJob, TypeOK, Stages
  <2>1. /\ \A j \in Jobs : (FinishedPending(j)' <=> FinishedPending(j)) /\ (Queued(j)' <=> Queued(j))
        /\ QueuedOnce' /\ FinishedOnce'
    BY <1>2 DEF RefJob, FinishedPending, Queued, QueuedOnce, FinishedOnce
  <2>2. TypeOK' /\ ProgressCovered'
    BY <1>2, <2>0 DEF RefJob, TypeOK, WorkerPlaces, ProgressCovered
  <2>3. Stages'
    BY <1>2, <2>0, <2>1 DEF RefJob, Stages
  <2>4. RefsExact'
    BY <1>2, <2>0, <2>1 DEF RefJob, RefsExact, WorkerRefs, One, TypeOK
  <2> QED BY <2>1, <2>2, <2>3, <2>4
<1>3. CASE SetProgress
  <2>0. cur \in Jobs
    BY <1>3 DEF SetProgress, TypeOK, Stages
  <2>1. /\ idles' \in Seq([kind : IdleKinds, job : Jobs]) /\ FinishedOnce'
        /\ \A j \in Jobs : (FinishedPending(j)' <=> FinishedPending(j)) /\ (Queued(j)' <=> Queued(j))
        /\ QueuedOnce'
    BY <1>3, <2>0, PostEffect DEF SetProgress, IdleKinds, Queued, QueuedOnce
  <2>2. TypeOK'
    BY <1>3, <2>1 DEF SetProgress, TypeOK
  <2>3. Stages'
    BY <1>3, <2>0, <2>1 DEF SetProgress, Stages
  <2>4. RefsExact'
    BY <1>3, <2>1 DEF SetProgress, RefsExact, WorkerRefs, One
  <2>5. ProgressCovered'
    <3>1. /\ DOMAIN idles' = 1 .. Len(idles) + 1 /\ DOMAIN idles = 1 .. Len(idles)
          /\ idles'[Len(idles) + 1] = Idle("progress", cur)
          /\ Len(idles) \in Nat
          /\ \A k \in 1 .. Len(idles) : idles'[k] = idles[k]
      <4>1. Idle("progress", cur) \in [kind : IdleKinds, job : Jobs]
        BY <2>0 DEF Idle, IdleKinds
      <4> QED BY <1>3, <4>1, AppendElements DEF SetProgress, TypeOK
    <3>2. cur' = cur /\ worker' = worker /\ worker = "running"
      BY <1>3 DEF SetProgress
    <3>3. Idle("progress", cur).job = cur
      BY DEF Idle
    <3> SUFFICES ASSUME NEW i \in 1 .. Len(idles) + 1, idles'[i].kind = "progress",
                        ~(cur = idles'[i].job)
                 PROVE  \E k \in DOMAIN idles' : k > i /\ idles'[k] = Idle("finished", idles'[i].job)
      BY <3>1, <3>2 DEF ProgressCovered
    <3>4. i \in 1 .. Len(idles) /\ idles'[i] = idles[i]
      BY <3>1, <3>3
    <3>5. PICK k \in DOMAIN idles : k > i /\ idles[k] = Idle("finished", idles[i].job)
      BY <3>1, <3>4 DEF ProgressCovered
    <3> QED BY <3>1, <3>4, <3>5
  <2> QED BY <2>1, <2>2, <2>3, <2>4, <2>5
<1>4. CASE FinishRun
  <2>0. cur \in Jobs
    BY <1>4 DEF FinishRun, TypeOK, Stages
  <2>1. /\ \A j \in Jobs : (FinishedPending(j)' <=> FinishedPending(j)) /\ (Queued(j)' <=> Queued(j))
        /\ QueuedOnce' /\ FinishedOnce'
    BY <1>4 DEF FinishRun, FinishedPending, Queued, QueuedOnce, FinishedOnce
  <2>2. TypeOK' /\ ProgressCovered'
    BY <1>4, <2>0 DEF FinishRun, TypeOK, WorkerPlaces, ProgressCovered
  <2>3. Stages' /\ RefsExact'
    BY <1>4, <2>0, <2>1 DEF FinishRun, Stages, RefsExact, WorkerRefs, One
  <2> QED BY <2>1, <2>2, <2>3
<1>5. CASE PostFinished
  <2>0. cur \in Jobs /\ ~FinishedPending(cur)
    BY <1>5 DEF PostFinished, TypeOK, Stages
  <2>1. /\ idles' \in Seq([kind : IdleKinds, job : Jobs]) /\ FinishedOnce'
        /\ \A j \in Jobs : /\ FinishedPending(j)' <=> FinishedPending(j) \/ j = cur
                           /\ Queued(j)' <=> Queued(j)
        /\ QueuedOnce'
    BY <1>5, <2>0, PostEffect DEF PostFinished, IdleKinds, Queued, QueuedOnce
  <2>2. TypeOK'
    BY <1>5, <2>1 DEF PostFinished, TypeOK, WorkerPlaces
  <2>3. Stages'
    BY <1>5, <2>0, <2>1 DEF PostFinished, Stages
  <2>4. RefsExact'
    BY <1>5, <2>0, <2>1 DEF PostFinished, RefsExact, WorkerRefs, One
  <2>5. ProgressCovered'
    <3>1. /\ DOMAIN idles' = 1 .. Len(idles) + 1 /\ DOMAIN idles = 1 .. Len(idles)
          /\ idles'[Len(idles) + 1] = Idle("finished", cur)
          /\ Len(idles) \in Nat
          /\ \A k \in 1 .. Len(idles) : idles'[k] = idles[k]
      <4>1. Idle("finished", cur) \in [kind : IdleKinds, job : Jobs]
        BY <2>0 DEF Idle, IdleKinds
      <4> QED BY <1>5, <4>1, AppendElements DEF PostFinished, TypeOK
    <3>2. Idle("finished", cur).kind # "progress"
      BY DEF Idle
    <3> SUFFICES ASSUME NEW i \in 1 .. Len(idles) + 1, idles'[i].kind = "progress"
                 PROVE  \E k \in DOMAIN idles' : k > i /\ idles'[k] = Idle("finished", idles'[i].job)
      BY <3>1 DEF ProgressCovered
    <3>4. i \in 1 .. Len(idles) /\ idles'[i] = idles[i]
      BY <3>1, <3>2
    <3>5. \/ cur = idles[i].job
          \/ \E k \in DOMAIN idles : k > i /\ idles[k] = Idle("finished", idles[i].job)
      BY <3>1, <3>4 DEF ProgressCovered
    <3> QED BY <3>1, <3>4, <3>5
  <2> QED BY <2>1, <2>2, <2>3, <2>4, <2>5
<1>6. CASE UnrefJob
  <2>0. cur \in Jobs /\ NoJob \notin Jobs
    BY <1>6 DEF UnrefJob, TypeOK, Stages
  <2>1. /\ \A j \in Jobs : (FinishedPending(j)' <=> FinishedPending(j)) /\ (Queued(j)' <=> Queued(j))
        /\ QueuedOnce' /\ FinishedOnce'
    BY <1>6 DEF UnrefJob, FinishedPending, Queued, QueuedOnce, FinishedOnce
  <2>2. RefsExact' /\ refs' \in [Jobs -> Nat]
    <3>1. \A j \in Jobs : refs[j] \in Nat /\ refs[j] = One(j \in held) + One(Queued(j))
                              + (IF j = cur THEN 1 ELSE 0) + One(FinishedPending(j))
      BY <1>6 DEF UnrefJob, RefsExact, WorkerRefs, TypeOK
    <3>2. refs' = [j \in Jobs |-> IF j = cur THEN refs[j] - 1 ELSE refs[j]]
      BY <1>6 DEF UnrefJob, TypeOK
    <3>3. \A j \in Jobs : /\ refs'[j] \in Nat
                          /\ refs'[j] = One(j \in held) + One(Queued(j)) + One(FinishedPending(j))
      BY <3>1, <3>2 DEF One
    <3>4. \A j \in Jobs : WorkerRefs(j)' = 0
      BY <1>6, <2>0 DEF UnrefJob, WorkerRefs
    <3>5. \A j \in Jobs : /\ One(j \in held)' = One(j \in held)
                          /\ One(Queued(j))' = One(Queued(j))
                          /\ One(FinishedPending(j))' = One(FinishedPending(j))
      BY <1>6, <2>1 DEF UnrefJob, One
    <3>6. RefsExact'
      BY <3>3, <3>4, <3>5 DEF RefsExact, One
    <3> QED BY <3>2, <3>3, <3>6
  <2>3. TypeOK'
    BY <1>6, <2>2 DEF UnrefJob, TypeOK, WorkerPlaces
  <2>4. ProgressCovered'
    BY <1>6 DEF UnrefJob, ProgressCovered
  <2>5. Stages'
    BY <1>6, <2>0, <2>1 DEF UnrefJob, Stages
  <2> QED BY <2>1, <2>2, <2>3, <2>4, <2>5
<1> QED BY <1>1, <1>2, <1>3, <1>4, <1>5, <1>6

\* A step of the main thread changes the count of one job x by what it changes
\* of the holders of x.
OtherJobsKept(x) == \A k \in Jobs \ {x} : /\ refs'[k] = refs[k]
                                          /\ k \in held' <=> k \in held
                                          /\ Queued(k)' <=> Queued(k)
                                          /\ FinishedPending(k)' <=> FinishedPending(k)

MainHolders(x) == One(x \in held) + One(Queued(x)) + One(FinishedPending(x))

LEMMA MainRefs ==
  ASSUME TypeOK, RefsExact, NEW x \in Jobs, refs' \in [Jobs -> Int],
         \A k \in Jobs : WorkerRefs(k)' = WorkerRefs(k),
         OtherJobsKept(x),
         refs'[x] + MainHolders(x) = refs[x] + MainHolders(x)'
  PROVE  RefsExact' /\ refs' \in [Jobs -> Nat]
<1>1. \A k \in Jobs : WorkerRefs(k) \in Nat /\ refs[k] \in Nat
  BY DEF WorkerRefs, TypeOK
<1>2. \A k \in Jobs : /\ MainHolders(k) \in Nat /\ MainHolders(k)' \in Nat
                      /\ refs[k] = MainHolders(k) + WorkerRefs(k)
  BY <1>1 DEF MainHolders, One, RefsExact
<1>3. \A k \in Jobs \ {x} : refs'[k] = refs[k] /\ MainHolders(k)' = MainHolders(k)
  BY DEF OtherJobsKept, MainHolders, One
<1>4. \A k \in Jobs : refs'[k] = MainHolders(k)' + WorkerRefs(k)' /\ refs'[k] \in Nat
  <2> TAKE k \in Jobs
  <2>1. CASE k = x
    BY <2>1, <1>1, <1>2
  <2>2. CASE k # x
    BY <2>2, <1>1, <1>2, <1>3
  <2> QED BY <2>1, <2>2
<1>5. \A k \in Jobs : refs'[k] = One(k \in held)' + One(Queued(k))' + WorkerRefs(k)'
                                + One(FinishedPending(k))'
  <2>1. \A k \in Jobs : /\ One(k \in held)' \in Nat /\ One(Queued(k))' \in Nat
                        /\ One(FinishedPending(k))' \in Nat /\ WorkerRefs(k)' \in Nat
    BY <1>1 DEF One
  <2> QED BY <2>1, <1>4 DEF MainHolders
<1> QED BY <1>4, <1>5 DEF RefsExact

\* The operations of the creators of the jobs.
LEMMA ClientStep ==
  ASSUME IInv, NEW j \in Jobs,
         AddJob(j) \/ ReleaseJob(j) \/ RemoveThumbnailJob(j) \/ ClearJob(j)
  PROVE  IInv'
<1> USE JobsAssumption DEF IInv, mainVars, workerVars
<1>0. \A k \in Jobs : refs[k] \in Nat /\ WorkerRefs(k) \in {0, 1, 2}
  BY DEF TypeOK, WorkerRefs
<1>00. worker \in {"popped", "running", "ran"} => cur \in Jobs
  BY DEF Stages, TypeOK
<1>1. CASE AddJob(j)
  <2>1. ~Queued(j) /\ cur # j /\ ~FinishedPending(j) /\ j \notin held
    BY <1>0, <1>1 DEF AddJob, RefsExact, WorkerRefs, One
  <2>2. /\ queue' \in [Classes -> Seq(Jobs)] /\ QueuedOnce'
        /\ \A k \in Jobs : Queued(k)' <=> Queued(k) \/ k = j
    BY <1>1, <2>1, AddEffect DEF AddJob
  <2>3. TypeOK'
    BY <1>1, <2>2 DEF AddJob, Wake, TypeOK, WorkerPlaces
  <2>4. /\ \A k \in Jobs : FinishedPending(k)' <=> FinishedPending(k)
        /\ \A k \in Jobs : WorkerRefs(k)' = WorkerRefs(k)
    BY <1>1 DEF AddJob, Wake, FinishedPending, WorkerRefs
  <2>5. RefsExact'
    <3>1. OtherJobsKept(j) /\ refs' \in [Jobs -> Int] /\ refs'[j] = refs[j] + 2
      BY <1>0, <1>1, <2>2, <2>4 DEF AddJob, TypeOK, OtherJobsKept
    <3>2. MainHolders(j) = 0 /\ MainHolders(j)' = 2
      BY <1>1, <2>1, <2>2, <2>4 DEF AddJob, MainHolders, One
    <3>3. refs'[j] + MainHolders(j) = refs[j] + MainHolders(j)'
      BY <1>0, <3>1, <3>2
    <3> QED BY <3>1, <3>3, <2>4, MainRefs
  <2>6. FinishedOnce' /\ ProgressCovered'
    BY <1>1 DEF AddJob, Wake, FinishedOnce, ProgressCovered
  <2>7. Stages'
    BY <1>1, <2>1, <2>2, <2>4 DEF AddJob, Wake, Stages, TypeOK
  <2> QED BY <2>2, <2>3, <2>5, <2>6, <2>7
<1>2. CASE ReleaseJob(j)
  <2>1. /\ \A k \in Jobs : (FinishedPending(k)' <=> FinishedPending(k)) /\ (Queued(k)' <=> Queued(k))
        /\ \A k \in Jobs : WorkerRefs(k)' = WorkerRefs(k)
        /\ QueuedOnce' /\ FinishedOnce'
    BY <1>2 DEF ReleaseJob, FinishedPending, Queued, WorkerRefs, QueuedOnce, FinishedOnce
  <2>2. RefsExact' /\ refs' \in [Jobs -> Nat]
    <3>1. OtherJobsKept(j) /\ refs' \in [Jobs -> Int] /\ refs'[j] = refs[j] - 1
      BY <1>0, <1>2, <2>1 DEF ReleaseJob, TypeOK, OtherJobsKept
    <3>2. MainHolders(j) = MainHolders(j)' + 1
      BY <1>2, <2>1 DEF ReleaseJob, MainHolders, One
    <3>3. MainHolders(j)' \in Nat
      BY DEF MainHolders, One
    <3>4. refs'[j] + MainHolders(j) = refs[j] + MainHolders(j)'
      BY <1>0, <3>1, <3>2, <3>3
    <3> QED BY <3>1, <3>4, <2>1, MainRefs
  <2>3. TypeOK' /\ ProgressCovered'
    BY <1>2, <2>2 DEF ReleaseJob, TypeOK, ProgressCovered
  <2>4. Stages'
    BY <1>2, <2>1 DEF ReleaseJob, Stages, TypeOK
  <2> QED BY <2>1, <2>2, <2>3, <2>4
<1>3. CASE RemoveThumbnailJob(j)
  <2>1. /\ queue' \in [Classes -> Seq(Jobs)] /\ QueuedOnce'
        /\ \A k \in Jobs : Queued(k)' <=> Queued(k) /\ k # j
        /\ refs' = [refs EXCEPT ![j] = @ - One(Queued(j))]
    BY <1>3, RemoveJobEffect DEF RemoveThumbnailJob
  <2>2. /\ \A k \in Jobs : FinishedPending(k)' <=> FinishedPending(k)
        /\ \A k \in Jobs : WorkerRefs(k)' = WorkerRefs(k)
        /\ FinishedOnce' /\ ProgressCovered'
    BY <1>3 DEF RemoveThumbnailJob, FinishedPending, WorkerRefs, FinishedOnce, ProgressCovered
  <2>3. RefsExact' /\ refs' \in [Jobs -> Nat]
    <3>1. OtherJobsKept(j) /\ refs' \in [Jobs -> Int]
          /\ refs'[j] = refs[j] - One(Queued(j))
      BY <1>0, <1>3, <2>1, <2>2 DEF RemoveThumbnailJob, TypeOK, OtherJobsKept, One
    <3>2. MainHolders(j) = MainHolders(j)' + One(Queued(j))
      BY <1>3, <2>1, <2>2 DEF RemoveThumbnailJob, MainHolders, One
    <3>3. MainHolders(j)' \in Nat /\ One(Queued(j)) \in Nat
      BY DEF MainHolders, One
    <3>4. refs'[j] + MainHolders(j) = refs[j] + MainHolders(j)'
      BY <1>0, <3>1, <3>2, <3>3
    <3> QED BY <3>1, <3>4, <2>2, MainRefs
  <2>4. TypeOK'
    BY <1>3, <2>1, <2>3 DEF RemoveThumbnailJob, TypeOK
  <2>5. Stages'
    BY <1>00, <1>3, <2>1, <2>2 DEF RemoveThumbnailJob, Stages
  <2> QED BY <2>1, <2>2, <2>3, <2>4, <2>5
<1>4. CASE ClearJob(j)
  <2>1. /\ \A k \in Jobs : (FinishedPending(k)' <=> FinishedPending(k)) /\ (Queued(k)' <=> Queued(k))
        /\ \A k \in Jobs : WorkerRefs(k)' = WorkerRefs(k)
        /\ QueuedOnce' /\ FinishedOnce' /\ ProgressCovered'
    BY <1>4 DEF ClearJob, FinishedPending, Queued, WorkerRefs, QueuedOnce, FinishedOnce, ProgressCovered
  <2>2. TypeOK'
    BY <1>4 DEF ClearJob, TypeOK
  <2>3. RefsExact'
    BY <1>4, <2>1 DEF ClearJob, RefsExact, One
  <2>4. Stages'
    BY <1>00, <1>4, <2>1 DEF ClearJob, Stages
  <2> QED BY <2>1, <2>2, <2>3, <2>4
<1> QED BY <1>1, <1>2, <1>3, <1>4

\* The rest of clearing a job, and the main loop.
LEMMA MainStep == ASSUME IInv, MainNext PROVE IInv'
<1> USE JobsAssumption DEF IInv, mainVars, workerVars
<1>0. \A k \in Jobs : refs[k] \in Nat /\ WorkerRefs(k) \in {0, 1, 2}
  BY DEF TypeOK, WorkerRefs
<1>00. worker \in {"popped", "running", "ran"} => cur \in Jobs
  BY DEF Stages, TypeOK
<1>1. CASE ClearRemove
  <2>0. clearing \in Jobs
    BY <1>1 DEF ClearRemove, TypeOK, Stages
  <2>1. /\ queue' \in [Classes -> Seq(Jobs)] /\ QueuedOnce'
        /\ \A k \in Jobs : Queued(k)' <=> Queued(k) /\ k # clearing
        /\ refs' = [refs EXCEPT ![clearing] = @ - One(Queued(clearing))]
    BY <1>1, <2>0, RemoveJobEffect DEF ClearRemove
  <2>2. /\ \A k \in Jobs : FinishedPending(k)' <=> FinishedPending(k)
        /\ \A k \in Jobs : WorkerRefs(k)' = WorkerRefs(k)
        /\ FinishedOnce' /\ ProgressCovered'
    BY <1>1 DEF ClearRemove, FinishedPending, WorkerRefs, FinishedOnce, ProgressCovered
  <2>3. RefsExact' /\ refs' \in [Jobs -> Nat]
    <3>0. PICK x \in Jobs : x = clearing
      BY <2>0
    <3>1. OtherJobsKept(x) /\ refs' \in [Jobs -> Int]
          /\ refs'[x] = refs[x] - One(Queued(x))
      BY <1>0, <1>1, <2>1, <2>2, <3>0 DEF ClearRemove, TypeOK, OtherJobsKept, One
    <3>2. MainHolders(x) = MainHolders(x)' + One(Queued(x))
      BY <1>1, <2>1, <2>2, <3>0 DEF ClearRemove, MainHolders, One
    <3>3. MainHolders(x)' \in Nat /\ One(Queued(x)) \in Nat
      BY DEF MainHolders, One
    <3>4. refs'[x] + MainHolders(x) = refs[x] + MainHolders(x)'
      BY <1>0, <3>1, <3>2, <3>3
    <3> QED BY <3>1, <3>4, <2>2, MainRefs
  <2>4. TypeOK'
    BY <1>1, <2>1, <2>3 DEF ClearRemove, TypeOK
  <2>5. Stages'
    BY <1>00, <1>1, <2>1, <2>2 DEF ClearRemove, Stages
  <2> QED BY <2>1, <2>2, <2>3, <2>4, <2>5
<1>2. CASE ClearUnref
  <2>0. clearing \in Jobs /\ clearing \in held
    BY <1>2 DEF ClearUnref, TypeOK, Stages
  <2>1. /\ \A k \in Jobs : (FinishedPending(k)' <=> FinishedPending(k)) /\ (Queued(k)' <=> Queued(k))
        /\ \A k \in Jobs : WorkerRefs(k)' = WorkerRefs(k)
        /\ QueuedOnce' /\ FinishedOnce' /\ ProgressCovered'
    BY <1>2 DEF ClearUnref, FinishedPending, Queued, WorkerRefs, QueuedOnce, FinishedOnce, ProgressCovered
  <2>2. RefsExact' /\ refs' \in [Jobs -> Nat]
    <3>0. PICK x \in Jobs : x = clearing
      BY <2>0
    <3>1. OtherJobsKept(x) /\ refs' \in [Jobs -> Int] /\ refs'[x] = refs[x] - 1
      BY <1>0, <1>2, <2>0, <2>1, <3>0 DEF ClearUnref, TypeOK, OtherJobsKept
    <3>2. MainHolders(x) = MainHolders(x)' + 1
      BY <1>2, <2>0, <2>1, <3>0 DEF ClearUnref, MainHolders, One
    <3>3. MainHolders(x)' \in Nat
      BY DEF MainHolders, One
    <3>4. refs'[x] + MainHolders(x) = refs[x] + MainHolders(x)'
      BY <1>0, <3>1, <3>2, <3>3
    <3> QED BY <3>1, <3>4, <2>1, MainRefs
  <2>3. TypeOK'
    BY <1>2, <2>2 DEF ClearUnref, TypeOK
  <2>4. Stages'
    BY <1>00, <1>2, <2>1 DEF ClearUnref, Stages
  <2> QED BY <2>1, <2>2, <2>3, <2>4
<1>3. CASE DispatchIdle
  <2> DEFINE h == Head(idles)
  <2>1. /\ h \in [kind : IdleKinds, job : Jobs]
        /\ idles' \in Seq([kind : IdleKinds, job : Jobs]) /\ FinishedOnce'
        /\ \A k \in Jobs : h = Idle("finished", k) => FinishedPending(k)
        /\ \A k \in Jobs : FinishedPending(k)' <=> FinishedPending(k) /\ h # Idle("finished", k)
    BY <1>3, DispatchEffect DEF DispatchIdle
  <2>2. \A k \in Jobs : h = Idle("finished", k) <=> h.kind = "finished" /\ h.job = k
    BY <2>1 DEF Idle
  <2>3. UNCHANGED <<queue, worker, cur, mainpc, clearing, held, finished>>
        /\ refs' = IF h.kind = "finished" THEN [refs EXCEPT ![h.job] = @ - 1] ELSE refs
    BY <1>3 DEF DispatchIdle
  <2>4. /\ \A k \in Jobs : Queued(k)' <=> Queued(k)
        /\ \A k \in Jobs : WorkerRefs(k)' = WorkerRefs(k)
        /\ QueuedOnce'
    BY <2>3 DEF Queued, WorkerRefs, QueuedOnce
  <2>5. RefsExact' /\ refs' \in [Jobs -> Nat]
    <3>0. h.job \in Jobs
      BY <2>1
    <3> HIDE DEF h
    <3>1. CASE h.kind = "finished"
      <4>0. PICK x \in Jobs : x = h.job
        BY <3>0
      <4>1. /\ OtherJobsKept(x) /\ refs' \in [Jobs -> Int] /\ refs'[x] = refs[x] - 1
            /\ FinishedPending(x) /\ ~(FinishedPending(x)')
        BY <1>0, <3>1, <4>0, <2>1, <2>2, <2>3, <2>4 DEF TypeOK, OtherJobsKept
      <4>2. MainHolders(x) = MainHolders(x)' + 1
        BY <4>1, <2>3, <2>4 DEF MainHolders, One
      <4>3. MainHolders(x)' \in Nat
        BY DEF MainHolders, One
      <4>4. refs'[x] + MainHolders(x) = refs[x] + MainHolders(x)'
        BY <1>0, <4>1, <4>2, <4>3
      <4> QED BY <4>1, <4>4, <2>4, MainRefs
    <3>2. CASE h.kind # "finished"
      <4>1. refs' = refs /\ \A k \in Jobs : FinishedPending(k)' <=> FinishedPending(k)
        BY <3>2, <2>1, <2>2, <2>3
      <4> QED BY <4>1, <2>3, <2>4 DEF RefsExact, One, TypeOK
    <3> QED BY <3>1, <3>2
  <2>6. TypeOK'
    BY <2>1, <2>3, <2>5 DEF TypeOK
  <2>7. Stages'
    <3> HIDE DEF h
    <3>1. worker \in {"popped", "running", "ran"} => cur \in Jobs
      BY DEF Stages, TypeOK
    <3> QED BY <3>1, <2>1, <2>3, <2>4 DEF Stages
  <2>8. ProgressCovered'
    <3>1. /\ h = idles[1] /\ Len(idles) \in Nat \ {0} /\ DOMAIN idles = 1 .. Len(idles)
          /\ DOMAIN idles' = 1 .. Len(idles) - 1
          /\ \A k \in 1 .. Len(idles) - 1 : idles'[k] = idles[k + 1]
      BY <1>3, TailElements DEF DispatchIdle, TypeOK
    <3> HIDE DEF h
    <3> SUFFICES ASSUME NEW i \in 1 .. Len(idles) - 1, idles'[i].kind = "progress",
                        ~(cur = idles'[i].job /\ worker \in {"running", "ran"})
                 PROVE  \E k \in DOMAIN idles' : k > i /\ idles'[k] = Idle("finished", idles'[i].job)
      BY <3>1, <2>3 DEF ProgressCovered
    <3>2. i + 1 \in DOMAIN idles /\ idles'[i] = idles[i + 1]
      BY <3>1
    <3>3. PICK k \in DOMAIN idles : k > i + 1 /\ idles[k] = Idle("finished", idles[i + 1].job)
      BY <3>2 DEF ProgressCovered
    <3>4. k - 1 \in DOMAIN idles' /\ k - 1 > i /\ idles'[k - 1] = idles[k]
      BY <3>1, <3>3
    <3> QED BY <3>2, <3>3, <3>4
  <2> QED BY <2>1, <2>4, <2>5, <2>6, <2>7, <2>8
<1> QED BY <1>1, <1>2, <1>3 DEF MainNext

LEMMA NextIInv == IInv /\ [Next]_vars => IInv'
<1> SUFFICES ASSUME IInv, [Next]_vars PROVE IInv'
  OBVIOUS
<1>1. CASE WorkerNext
  BY <1>1, SearchStep, WorkerStep DEF WorkerNext
<1>2. CASE ClientNext
  BY <1>2, ClientStep DEF ClientNext
<1>3. CASE MainNext
  BY <1>3, MainStep
<1>4. CASE UNCHANGED vars
  BY <1>4 DEF vars, IInv, TypeOK, RefsExact, QueuedOnce, FinishedOnce, Stages,
     ProgressCovered, Queued, FinishedPending, WorkerRefs
<1> QED BY <1>1, <1>2, <1>3, <1>4 DEF Next

\* The inductive invariant holds in every reachable state.
THEOREM Invariance == Spec => []IInv
  BY InitIInv, NextIInv, PTL DEF Spec

\* Type correctness.
THEOREM TypeCorrect == Spec => []TypeOK
<1>1. IInv => TypeOK
  BY DEF IInv
<1> QED BY Invariance, <1>1, PTL

\* The references are counted exactly: none is leaked or dropped twice.
THEOREM ReferencesExact == Spec => []RefsExact
<1>1. IInv => RefsExact
  BY DEF IInv
<1> QED BY Invariance, <1>1, PTL

\* A job somebody counts as a holder of is alive.
LEMMA HoldersAlive ==
  ASSUME IInv, NEW j \in Jobs, j \in held \/ Queued(j) \/ cur = j \/ FinishedPending(j)
  PROVE  refs[j] > 0
<1>1. WorkerRefs(j) \in Nat /\ (cur = j => WorkerRefs(j) > 0)
  BY DEF WorkerRefs
<1>2. refs[j] = One(j \in held) + One(Queued(j)) + WorkerRefs(j) + One(FinishedPending(j))
  BY DEF IInv, RefsExact
<1> QED BY <1>1, <1>2 DEF One

LEMMA IdlesTyped ==
  ASSUME TypeOK
  PROVE  /\ DOMAIN idles = 1 .. Len(idles) /\ Len(idles) \in Nat
         /\ \A m \in DOMAIN idles : /\ idles[m] \in [kind : IdleKinds, job : Jobs]
                                    /\ idles[m].job \in Jobs
                                    /\ idles[m] = Idle(idles[m].kind, idles[m].job)
<1> DEFINE S == [kind : IdleKinds, job : Jobs]
<1>1. \A r \in S : r.job \in Jobs /\ r = Idle(r.kind, r.job)
  BY DEF Idle
<1>2. idles \in Seq(S)
  BY DEF TypeOK
<1> HIDE DEF S
<1>3. DOMAIN idles = 1 .. Len(idles) /\ Len(idles) \in Nat
  BY <1>2, LenProperties
<1>4. \A m \in DOMAIN idles : idles[m] \in S
  BY <1>2, <1>3, ElementOfSeq
<1>5. \A m \in DOMAIN idles : idles[m].job \in Jobs /\ idles[m] = Idle(idles[m].kind, idles[m].job)
  BY <1>1, <1>4
<1> QED BY <1>3, <1>4, <1>5 DEF S

\* No idle callback is run on a freed job, the progress ones that take no
\* reference included.
THEOREM CallbacksOnLiveJobs == Spec => []NoCallbackOnFreedJob
<1>1. IInv => NoCallbackOnFreedJob
  <2> SUFFICES ASSUME IInv, NEW i \in DOMAIN idles PROVE refs[idles[i].job] > 0
    BY DEF NoCallbackOnFreedJob
  <2>1. /\ idles[i] \in [kind : IdleKinds, job : Jobs] /\ idles[i].job \in Jobs
        /\ DOMAIN idles = 1 .. Len(idles)
    BY IdlesTyped DEF IInv
  <2>2. CASE idles[i].kind = "progress"
    <3>1. \/ cur = idles[i].job
          \/ \E k \in DOMAIN idles : idles[k] = Idle("finished", idles[i].job)
      BY <2>2 DEF IInv, ProgressCovered
    <3>2. cur = idles[i].job \/ FinishedPending(idles[i].job)
      BY <3>1, <2>1 DEF FinishedPending, Contains
    <3> QED BY <3>2, <2>1, HoldersAlive
  <2>3. CASE idles[i].kind = "finished"
    <3>1. idles[i] = Idle("finished", idles[i].job)
      BY <2>3, IdlesTyped DEF IInv
    <3>2. FinishedPending(idles[i].job)
      BY <3>1, <2>1 DEF FinishedPending, Contains
    <3> QED BY <3>2, <2>1, HoldersAlive
  <2> QED BY <2>1, <2>2, <2>3 DEF IdleKinds
<1> QED BY Invariance, <1>1, PTL

\* The thread, the main thread and the queues only have jobs that are alive.
THEOREM PointersAlive == Spec => []NoUseAfterFree
<1>1. IInv => NoUseAfterFree
  <2> SUFFICES ASSUME IInv PROVE NoUseAfterFree
    OBVIOUS
  <2>1. (cur # NoJob => cur \in Jobs) /\ (clearing # NoJob => clearing \in Jobs)
    BY DEF IInv, TypeOK
  <2>2. clearing # NoJob => clearing \in held
    BY DEF IInv, Stages
  <2> QED BY <2>1, <2>2, HoldersAlive DEF NoUseAfterFree
<1> QED BY Invariance, <1>1, PTL

\* A creator never hears of progress after it has heard that the job finished.
THEOREM FinishedComesLast == Spec => []FinishedIsLast
<1>1. IInv => FinishedIsLast
  <2> SUFFICES ASSUME IInv, NEW i \in DOMAIN idles, NEW k \in DOMAIN idles,
                      i < k, idles[i].kind = "finished", idles[k].job = idles[i].job
               PROVE  FALSE
    BY DEF FinishedIsLast
  <2>1. /\ DOMAIN idles = 1 .. Len(idles) /\ Len(idles) \in Nat
        /\ \A m \in DOMAIN idles : idles[m] \in [kind : IdleKinds, job : Jobs]
    BY IdlesTyped DEF IInv
  <2>2. idles[i] = Idle("finished", idles[i].job) /\ FinishedPending(idles[i].job)
    BY <2>1, IdlesTyped DEF IInv, FinishedPending, Contains
  <2>3. CASE idles[k].kind = "finished"
    <3>1. idles[k] = idles[i]
      BY <2>2, <2>3, IdlesTyped DEF IInv
    <3> QED BY <3>1, <2>1 DEF IInv, FinishedOnce
  <2>4. CASE idles[k].kind = "progress"
    <3>1. ~(cur = idles[k].job /\ worker \in {"running", "ran"})
      BY <2>2 DEF IInv, Stages
    <3>2. PICK m \in DOMAIN idles : m > k /\ idles[m] = idles[i]
      BY <2>2, <2>4, <3>1 DEF IInv, ProgressCovered
    <3>3. m = i
      BY <3>2 DEF IInv, FinishedOnce
    <3> QED BY <3>2, <3>3, <2>1
  <2> QED BY <2>1, <2>3, <2>4 DEF IdleKinds
<1> QED BY Invariance, <1>1, PTL

\* No wakeup is lost: a sleeping thread has nothing to do.
THEOREM WakeupsKept == Spec => []NoLostWakeup
<1>1. Init => NoLostWakeup
  BY DEF Init, NoLostWakeup
<1>2. IInv /\ NoLostWakeup /\ [Next]_vars => NoLostWakeup'
  <2> SUFFICES ASSUME IInv, NoLostWakeup, [Next]_vars, worker' = "waiting"
               PROVE  NoJobsAvailable'
    BY DEF NoLostWakeup
  <2> USE JobsAssumption
  <2>1. CASE LockQueues
    BY <2>1 DEF LockQueues, TakeJob, NoJobsAvailable
  <2>2. CASE worker = "waiting" /\ UNCHANGED queue
    BY <2>2 DEF NoLostWakeup, NoJobsAvailable
  <2>3. ASSUME NEW j \in Jobs, worker = "waiting", RemoveJob(j)
        PROVE  UNCHANGED queue
    <3>1. ClassOf[j] \in Classes /\ NoJobsAvailable
      BY <2>3 DEF NoLostWakeup
    <3>2. ~Queued(j)
      BY <3>1 DEF NoJobsAvailable, Queued, Contains
    <3> QED BY <2>3, <3>2 DEF RemoveJob
  <2>4. CASE WorkerNext /\ ~LockQueues
    BY <2>4 DEF WorkerNext, SpuriousWakeup, SearchAwake, TakeJob, RefJob, SetProgress,
                FinishRun, PostFinished, UnrefJob, workerVars
  <2>5. CASE ClientNext
    <3>1. PICK j \in Jobs : AddJob(j) \/ ReleaseJob(j) \/ RemoveThumbnailJob(j) \/ ClearJob(j)
      BY <2>5 DEF ClientNext
    <3>2. CASE AddJob(j)
      BY <3>2 DEF AddJob, Wake
    <3>3. CASE ReleaseJob(j) \/ ClearJob(j)
      BY <3>3, <2>2 DEF ReleaseJob, ClearJob, workerVars
    <3>4. CASE RemoveThumbnailJob(j)
      BY <3>4, <2>2, <2>3 DEF RemoveThumbnailJob, workerVars
    <3> QED BY <3>1, <3>2, <3>3, <3>4
  <2>6. CASE MainNext
    <3>1. CASE ClearRemove
      <4>1. clearing \in Jobs
        BY <3>1 DEF ClearRemove, IInv, Stages, TypeOK
      <4> QED BY <3>1, <4>1, <2>2, <2>3 DEF ClearRemove, workerVars
    <3>2. CASE ClearUnref \/ DispatchIdle
      BY <3>2, <2>2 DEF ClearUnref, DispatchIdle, workerVars
    <3> QED BY <2>6, <3>1, <3>2 DEF MainNext
  <2>7. CASE UNCHANGED vars
    BY <2>7, <2>2 DEF vars
  <2> QED BY <2>1, <2>4, <2>5, <2>6, <2>7 DEF Next
<1> QED BY Invariance, <1>1, <1>2, PTL DEF Spec
-----------------------------------------------------------------------------
(* The queue with its thread, locks and reference counts implements         *)
(* JobLifecycle: each step moves one job on to its next phase, or none.      *)

\* A step that changes the phase of one job is that job's move.
LEMMA MoveOfOne ==
  ASSUME NEW j \in Jobs, NEW from, NEW to,
         \A k \in Jobs : k # j => PhaseOf(k)' = PhaseOf(k),
         PhaseOf(j) \in from, PhaseOf(j)' = to
  PROVE  Lifecycle!Move(j, from, to)
  BY DEF Lifecycle!Move

\* A step that changes no job's phase is a stuttering step of JobLifecycle.
LEMMA NoMove ==
  ASSUME \A k \in Jobs : PhaseOf(k)' = PhaseOf(k)
  PROVE  [Lifecycle!Next]_([j \in Jobs |-> PhaseOf(j)])
  OBVIOUS

\* The job the thread takes is of the most urgent class that has one.
LEMMA TakesMostUrgent ==
  ASSUME TypeOK, QueuedOnce, TakeJob
  PROVE  \E h \in Jobs : /\ cur' = h /\ Queued(h)
                         /\ \A j \in Jobs : Queued(j)' <=> Queued(j) /\ j # h
                         /\ \A j \in Jobs : Queued(j) => Rank[ClassOf[h]] <= Rank[ClassOf[j]]
<1> USE JobsAssumption
<1>1. PICK h \in Jobs : /\ cur' = h /\ Queued(h)
                        /\ \A j \in Jobs : Queued(j)' <=> Queued(j) /\ j # h
  BY TakeJobEffect
<1>2. PICK c \in Classes : /\ queue[c] # <<>>
                           /\ \A d \in Classes : Rank[d] < Rank[c] => queue[d] = <<>>
                           /\ cur' = Head(queue[c])
  BY DEF TakeJob
<1>3. ClassOf[h] = c
  <2>1. queue[c] \in Seq(Jobs) /\ IsInjective(queue[c])
    BY DEF TypeOK, QueuedOnce
  <2>2. Contains(queue[c], Head(queue[c]))
    BY <1>2, <2>1, TailContains
  <2> QED BY <1>1, <1>2, <2>2 DEF QueuedOnce
<1>4. \A d \in Classes : Rank[d] \in 1 .. 6
  BY DEF Rank, Classes
<1>5. ASSUME NEW j \in Jobs, Queued(j) PROVE Rank[c] <= Rank[ClassOf[j]]
  <2>1. queue[ClassOf[j]] # <<>> /\ ClassOf[j] \in Classes
    BY <1>5 DEF Queued, Contains
  <2>2. ~(Rank[ClassOf[j]] < Rank[c])
    BY <1>2, <2>1
  <2> QED BY <1>4, <2>1, <2>2
<1> QED BY <1>1, <1>3, <1>5

\* The steps of the thread: Start, Complete, Free, or no move.
LEMMA WorkerMoves ==
  ASSUME IInv, WorkerNext
  PROVE  [Lifecycle!Next]_([j \in Jobs |-> PhaseOf(j)])
<1> USE JobsAssumption DEF mainVars, workerVars
<1>0. TypeOK /\ QueuedOnce /\ FinishedOnce /\ Stages
  BY DEF IInv
<1>1. CASE TakeJob /\ (LockQueues \/ SearchAwake)
  <2>1. cur = NoJob /\ UNCHANGED <<refs, idles>> /\ worker' = "popped"
    BY <1>0, <1>1 DEF LockQueues, SearchAwake, TakeJob, Stages
  <2>2. PICK h \in Jobs : /\ cur' = h /\ Queued(h)
                          /\ \A j \in Jobs : Queued(j)' <=> Queued(j) /\ j # h
                          /\ \A j \in Jobs : Queued(j) => Rank[ClassOf[h]] <= Rank[ClassOf[j]]
    BY <1>0, <1>1, TakesMostUrgent
  <2>3. \A k \in Jobs : FinishedPending(k)' <=> FinishedPending(k)
    BY <2>1 DEF FinishedPending
  <2>4. /\ \A k \in Jobs : PhaseOf(k) # "running" /\ (PhaseOf(k) = "queued" <=> Queued(k))
        /\ \A k \in Jobs : k # h => PhaseOf(k)' = PhaseOf(k)
        /\ PhaseOf(h)' = "running"
    BY <2>1, <2>2, <2>3 DEF PhaseOf
  <2>5. Lifecycle!Move(h, {"queued"}, "running")
    BY <2>2, <2>4, MoveOfOne
  <2>6. Lifecycle!Start(h)
    BY <2>2, <2>4, <2>5 DEF Lifecycle!Start
  <2> QED BY <2>6 DEF Lifecycle!Next
<1>2. CASE /\ UNCHANGED <<queue, cur, refs, idles>>
           /\ worker \in {"top", "waiting", "awake"} /\ worker' \in {"top", "waiting", "awake"}
  <2>1. \A k \in Jobs : PhaseOf(k)' = PhaseOf(k)
    BY <1>2 DEF PhaseOf, Queued, FinishedPending
  <2> QED BY <2>1, NoMove
<1>3. CASE RefJob
  <2>1. cur \in Jobs /\ UNCHANGED <<queue, cur, idles>>
        /\ worker = "popped" /\ worker' = "running"
        /\ \A k \in Jobs : k # cur => refs'[k] = refs[k]
    BY <1>0, <1>3 DEF RefJob, Stages, TypeOK
  <2>2. \A k \in Jobs : PhaseOf(k)' = PhaseOf(k)
    BY <1>0, <2>1 DEF PhaseOf, Queued, FinishedPending
  <2> QED BY <2>2, NoMove
<1>4. CASE SetProgress
  <2>1. cur \in Jobs
    BY <1>0, <1>4 DEF SetProgress, TypeOK, Stages
  <2>2. \A k \in Jobs : FinishedPending(k)' <=> FinishedPending(k)
    BY <1>0, <1>4, <2>1, PostEffect DEF SetProgress, IdleKinds
  <2>3. \A k \in Jobs : PhaseOf(k)' = PhaseOf(k)
    BY <1>4, <2>2 DEF SetProgress, PhaseOf, Queued
  <2> QED BY <2>3, NoMove
<1>5. CASE FinishRun
  <2>1. cur \in Jobs /\ UNCHANGED <<queue, cur, refs, idles>>
        /\ worker = "running" /\ worker' = "ran"
    BY <1>0, <1>5 DEF FinishRun, Stages, TypeOK
  <2>2. ~Queued(cur)
    BY <1>0, <2>1 DEF Stages
  <2>3. PICK h \in Jobs : h = cur
    BY <2>1
  <2>4. /\ \A k \in Jobs : k # h => PhaseOf(k)' = PhaseOf(k)
        /\ PhaseOf(h) = "running" /\ PhaseOf(h)' = "ran"
    BY <2>1, <2>2, <2>3 DEF PhaseOf, Queued, FinishedPending
  <2>5. Lifecycle!Move(h, {"running"}, "ran")
    BY <2>4, MoveOfOne
  <2> QED BY <2>5 DEF Lifecycle!Next, Lifecycle!Complete
<1>6. CASE PostFinished
  <2>1. cur \in Jobs /\ UNCHANGED <<queue, cur, refs>> /\ worker = "ran" /\ worker' = "posted"
    BY <1>0, <1>6 DEF PostFinished, TypeOK, Stages
  <2>2. ~FinishedPending(cur) /\ ~Queued(cur)
    BY <1>0, <2>1 DEF Stages
  <2>3. \A k \in Jobs : FinishedPending(k)' <=> FinishedPending(k) \/ k = cur
    BY <1>0, <1>6, <2>1, <2>2, PostEffect DEF PostFinished, IdleKinds
  <2>4. \A k \in Jobs : PhaseOf(k)' = PhaseOf(k)
    BY <2>1, <2>2, <2>3 DEF PhaseOf, Queued
  <2> QED BY <2>4, NoMove
<1>7. CASE UnrefJob
  <2>1. PICK h \in Jobs : h = cur
    BY <1>0, <1>7 DEF UnrefJob, TypeOK, Stages
  <2>2. /\ UNCHANGED <<queue, idles>> /\ worker = "posted" /\ worker' = "top" /\ cur' = NoJob
        /\ \A k \in Jobs : k # h => refs'[k] = refs[k]
    BY <1>0, <1>7, <2>1 DEF UnrefJob, TypeOK
  <2>3. ~Queued(h) /\ refs[h] > 0
    BY <1>0, <2>1, HoldersAlive DEF Stages
  <2>4. \A k \in Jobs : k # h => PhaseOf(k)' = PhaseOf(k)
    BY <2>1, <2>2 DEF PhaseOf, Queued, FinishedPending
  <2>5. CASE PhaseOf(h)' = PhaseOf(h)
    BY <2>4, <2>5, NoMove
  <2>6. CASE PhaseOf(h)' # PhaseOf(h)
    <3>1. PhaseOf(h) \in {"settled"} /\ PhaseOf(h)' = "none"
      BY <2>1, <2>2, <2>3, <2>6 DEF PhaseOf, Queued, FinishedPending
    <3>2. Lifecycle!Move(h, {"settled"}, "none")
      BY <2>4, <3>1, MoveOfOne
    <3> QED BY <3>2 DEF Lifecycle!Next, Lifecycle!Free
  <2> QED BY <2>5, <2>6
<1>8. CASE SpuriousWakeup
  BY <1>2, <1>8 DEF SpuriousWakeup
<1>9. CASE LockQueues \/ SearchAwake
  BY <1>1, <1>2, <1>9 DEF LockQueues, SearchAwake
<1> QED BY <1>3, <1>4, <1>5, <1>6, <1>7, <1>8, <1>9 DEF WorkerNext

\* A reference that is dropped frees a job whose story is over, or nothing.
LEMMA UnrefMoves ==
  ASSUME IInv, NEW j \in Jobs, refs[j] > 0, refs' = [refs EXCEPT ![j] = @ - 1],
         UNCHANGED <<queue, worker, cur, idles>>
  PROVE  [Lifecycle!Next]_([k \in Jobs |-> PhaseOf(k)])
<1>1. \A k \in Jobs : k # j => PhaseOf(k)' = PhaseOf(k)
  BY DEF PhaseOf, Queued, FinishedPending, IInv, TypeOK
<1>2. CASE PhaseOf(j)' = PhaseOf(j)
  BY <1>1, <1>2, NoMove
<1>3. CASE PhaseOf(j)' # PhaseOf(j)
  <2>1. PhaseOf(j) \in {"settled"} /\ PhaseOf(j)' = "none"
    BY <1>3 DEF PhaseOf, Queued, FinishedPending
  <2>2. Lifecycle!Move(j, {"settled"}, "none")
    BY <1>1, <2>1, MoveOfOne
  <2> QED BY <2>2 DEF Lifecycle!Next, Lifecycle!Free
<1> QED BY <1>2, <1>3

\* A job that is removed is withdrawn if it still waits, and goes on otherwise.
LEMMA RemoveMoves ==
  ASSUME IInv, NEW j \in Jobs, RemoveJob(j), UNCHANGED <<worker, cur, idles>>
  PROVE  [Lifecycle!Next]_([k \in Jobs |-> PhaseOf(k)])
<1>0. TypeOK /\ QueuedOnce /\ Stages
  BY DEF IInv
<1>1. CASE Queued(j)
  <2>1. /\ \A k \in Jobs : Queued(k)' <=> Queued(k) /\ k # j
        /\ refs' = [refs EXCEPT ![j] = @ - One(Queued(j))]
    BY <1>0, RemoveJobEffect
  <2>2. \A k \in Jobs : k # j => refs'[k] = refs[k]
    BY <1>0, <2>1 DEF TypeOK
  <2>3. cur # j /\ ~FinishedPending(j)
    BY <1>0, <1>1 DEF Stages
  <2>4. \A k \in Jobs : FinishedPending(k)' <=> FinishedPending(k)
    BY DEF FinishedPending
  <2>5. /\ \A k \in Jobs : k # j => PhaseOf(k)' = PhaseOf(k)
        /\ PhaseOf(j) = "queued" /\ PhaseOf(j)' \in {"settled", "none"}
    BY <1>1, <2>1, <2>2, <2>3, <2>4 DEF PhaseOf
  <2>6. PICK to \in {"settled", "none"} : PhaseOf(j)' = to
    BY <2>5
  <2>7. Lifecycle!Move(j, {"queued"}, to)
    BY <2>5, <2>6, MoveOfOne
  <2> QED BY <2>7 DEF Lifecycle!Next, Lifecycle!Withdraw
<1>2. CASE ~Queued(j)
  <2>1. UNCHANGED <<queue, refs>>
    BY <1>2 DEF RemoveJob
  <2>2. \A k \in Jobs : PhaseOf(k)' = PhaseOf(k)
    BY <2>1 DEF PhaseOf, Queued, FinishedPending
  <2> QED BY <2>2, NoMove
<1> QED BY <1>1, <1>2

\* The steps of a creator: Submit, Withdraw, Free, or no move.
LEMMA ClientMoves ==
  ASSUME IInv, NEW j \in Jobs,
         AddJob(j) \/ ReleaseJob(j) \/ RemoveThumbnailJob(j) \/ ClearJob(j)
  PROVE  [Lifecycle!Next]_([k \in Jobs |-> PhaseOf(k)])
<1> USE JobsAssumption DEF mainVars, workerVars
<1>0. TypeOK /\ QueuedOnce /\ Stages
  BY DEF IInv
<1>1. CASE AddJob(j)
  <2>1. ~Queued(j) /\ cur # j /\ ~FinishedPending(j) /\ refs[j] = 0
    BY <1>1, HoldersAlive DEF AddJob
  <2>2. \A k \in Jobs : Queued(k)' <=> Queued(k) \/ k = j
    BY <1>0, <1>1, <2>1, AddEffect DEF AddJob
  <2>3. /\ UNCHANGED <<cur, idles>> /\ \A k \in Jobs : k # j => refs'[k] = refs[k]
        /\ worker' = worker \/ (worker = "waiting" /\ worker' = "awake")
    BY <1>0, <1>1 DEF AddJob, Wake, TypeOK
  <2>4. \A k \in Jobs : FinishedPending(k)' <=> FinishedPending(k)
    BY <2>3 DEF FinishedPending
  <2>5. /\ \A k \in Jobs : k # j => PhaseOf(k)' = PhaseOf(k)
        /\ PhaseOf(j) = "none" /\ PhaseOf(j)' = "queued"
    BY <2>1, <2>2, <2>3, <2>4 DEF PhaseOf
  <2>6. Lifecycle!Move(j, {"none"}, "queued")
    BY <2>5, MoveOfOne
  <2> QED BY <2>6 DEF Lifecycle!Next, Lifecycle!Submit
<1>2. CASE ReleaseJob(j)
  <2>1. refs[j] > 0
    BY <1>2, HoldersAlive DEF ReleaseJob
  <2> QED BY <1>2, <2>1, UnrefMoves DEF ReleaseJob
<1>3. CASE RemoveThumbnailJob(j)
  BY <1>3, RemoveMoves DEF RemoveThumbnailJob
<1>4. CASE ClearJob(j)
  <2>1. \A k \in Jobs : PhaseOf(k)' = PhaseOf(k)
    BY <1>4 DEF ClearJob, PhaseOf, Queued, FinishedPending
  <2> QED BY <2>1, NoMove
<1> QED BY <1>1, <1>2, <1>3, <1>4

\* The rest of clearing a job, and the main loop: Report, or the moves above.
LEMMA MainMoves ==
  ASSUME IInv, MainNext
  PROVE  [Lifecycle!Next]_([k \in Jobs |-> PhaseOf(k)])
<1> USE JobsAssumption DEF mainVars, workerVars
<1>0. TypeOK /\ FinishedOnce /\ Stages
  BY DEF IInv
<1>1. CASE ClearRemove
  <2>1. PICK x \in Jobs : x = clearing
    BY <1>0, <1>1 DEF ClearRemove, TypeOK, Stages
  <2> QED BY <1>1, <2>1, RemoveMoves DEF ClearRemove
<1>2. CASE ClearUnref
  <2>1. PICK x \in Jobs : x = clearing /\ x \in held
    BY <1>0, <1>2 DEF ClearUnref, TypeOK, Stages
  <2>2. refs[x] > 0
    BY <2>1, HoldersAlive
  <2> QED BY <1>2, <2>1, <2>2, UnrefMoves DEF ClearUnref
<1>3. CASE DispatchIdle
  <2>1. PICK h \in [kind : IdleKinds, job : Jobs] : h = Head(idles)
    BY <1>0, <1>3, DispatchEffect DEF DispatchIdle
  <2>2. /\ \A k \in Jobs : h = Idle("finished", k) => FinishedPending(k)
        /\ \A k \in Jobs : FinishedPending(k)' <=> FinishedPending(k) /\ h # Idle("finished", k)
    BY <1>0, <1>3, <2>1, DispatchEffect DEF DispatchIdle
  <2>3. \A k \in Jobs : h = Idle("finished", k) <=> h.kind = "finished" /\ h.job = k
    BY DEF Idle
  <2>4. UNCHANGED <<queue, worker, cur>>
        /\ refs' = IF h.kind = "finished" THEN [refs EXCEPT ![h.job] = @ - 1] ELSE refs
    BY <1>3, <2>1 DEF DispatchIdle
  <2>5. \A k \in Jobs : Queued(k)' <=> Queued(k)
    BY <2>4 DEF Queued
  <2>6. CASE h.kind = "finished"
    <3>1. PICK x \in Jobs : x = h.job
      OBVIOUS
    <3>2. FinishedPending(x) /\ ~(FinishedPending(x)')
      BY <2>2, <2>3, <2>6, <3>1
    <3>3. \A k \in Jobs : k # x => (FinishedPending(k)' <=> FinishedPending(k)) /\ refs'[k] = refs[k]
      BY <1>0, <2>2, <2>3, <2>4, <2>6, <3>1 DEF TypeOK
    <3>4. ~Queued(x) /\ (cur = x => worker \notin {"popped", "running", "ran"})
      BY <1>0, <3>2 DEF Stages
    <3>5. /\ \A k \in Jobs : k # x => PhaseOf(k)' = PhaseOf(k)
          /\ PhaseOf(x) = "ran" /\ PhaseOf(x)' \in {"settled", "none"}
      BY <2>4, <2>5, <3>2, <3>3, <3>4 DEF PhaseOf
    <3>6. PICK to \in {"settled", "none"} : PhaseOf(x)' = to
      BY <3>5
    <3>7. Lifecycle!Move(x, {"ran"}, to)
      BY <3>5, <3>6, MoveOfOne
    <3> QED BY <3>7 DEF Lifecycle!Next, Lifecycle!Report
  <2>7. CASE h.kind # "finished"
    <3>1. refs' = refs /\ \A k \in Jobs : FinishedPending(k)' <=> FinishedPending(k)
      BY <2>2, <2>3, <2>4, <2>7
    <3>2. \A k \in Jobs : PhaseOf(k)' = PhaseOf(k)
      BY <2>4, <2>5, <3>1 DEF PhaseOf
    <3> QED BY <3>2, NoMove
  <2> QED BY <2>6, <2>7
<1> QED BY <1>1, <1>2, <1>3 DEF MainNext

\* The promise of the queue: a job runs at most once, one at a time, the more
\* urgent classes first; a job that is withdrawn in time never runs; a job that
\* ran is reported before its object is used again.
THEOREM Implements == Spec => ImplementsLifecycle
<1>1. Init => Lifecycle!Init
  <2> SUFFICES ASSUME Init PROVE \A j \in Jobs : PhaseOf(j) = "none"
    BY DEF Lifecycle!Init
  <2> QED BY JobsAssumption DEF Init, PhaseOf, Queued, FinishedPending, Contains
<1>2. IInv /\ [Next]_vars => [Lifecycle!Next]_([j \in Jobs |-> PhaseOf(j)])
  <2> SUFFICES ASSUME IInv, [Next]_vars
               PROVE  [Lifecycle!Next]_([j \in Jobs |-> PhaseOf(j)])
    OBVIOUS
  <2>1. CASE WorkerNext
    BY <2>1, WorkerMoves
  <2>2. CASE ClientNext
    BY <2>2, ClientMoves DEF ClientNext
  <2>3. CASE MainNext
    BY <2>3, MainMoves
  <2>4. CASE UNCHANGED vars
    <3>1. \A k \in Jobs : PhaseOf(k)' = PhaseOf(k)
      BY <2>4 DEF vars, mainVars, workerVars, PhaseOf, Queued, FinishedPending
    <3> QED BY <3>1, NoMove
  <2> QED BY <2>1, <2>2, <2>3, <2>4 DEF Next
<1> QED BY <1>1, <1>2, Invariance, PTL DEF Spec, ImplementsLifecycle, Lifecycle!Spec

=============================================================================
