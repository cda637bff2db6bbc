---------------------------- MODULE IntakeProofs ----------------------------
(***************************************************************************)
(* Proofs about how failures and verdicts come in: a failed run is         *)
(* repaired once whatever deliveries race, a run ends once, and the        *)
(* endpoint hands to HealX what HealX calls a hook and nothing else.       *)
(***************************************************************************)
EXTENDS HealXProofs, WebhookEntry, FiniteSetTheorems

-----------------------------------------------------------------------------
(* One repair for a failure *)

\* A failed run has one job.
RunsUnique ==
  \A i, j \in Jobs :
    Exists(i) /\ Exists(j) /\ job[i].run = job[j].run => i = j

\* The first repair of j is in one handler, in one place of the queue, or with
\* one worker.
HeldOnce(j) ==
  /\ \A g, h \in Handlers : Asks(g, j) /\ Asks(h, j) => g = h
  /\ \A h \in Handlers : Asks(h, j) =>
       /\ \A i \in DOMAIN queue : queue[i] # InitialTask(j)
       /\ \A w \in Workers : worker[w].task # InitialTask(j)
  /\ \A i, k \in DOMAIN queue :
       queue[i] = InitialTask(j) /\ queue[k] = InitialTask(j) => i = k
  /\ \A i \in DOMAIN queue : queue[i] = InitialTask(j) =>
       \A w \in Workers : worker[w].task # InitialTask(j)
  /\ \A v, w \in Workers :
       worker[v].task = InitialTask(j) /\ worker[w].task = InitialTask(j) =>
         v = w

NoRequests == \A c \in Clients : client[c].pc = "idle"

\* The inductive invariant, relative to Inv.
IntakeInv ==
  /\ RunsUnique
  /\ \A w \in Workers : worker[w].pc = "idle" => worker[w].task = None
  /\ retryCalls = 0 => NoRequests /\ \A j \in Jobs : HeldOnce(j)

LEMMA InitialTasksDiffer ==
  ASSUME NEW i, NEW j, InitialTask(i) = InitialTask(j)
  PROVE  i = j
  BY DEF InitialTask

LEMMA UniqueRunsStay ==
  ASSUME RunsUnique, RunsStay, NoneInserted
  PROVE  RunsUnique'
  <1>1. \A j \in Jobs : Exists(j)' => Exists(j) /\ job'[j].run = job[j].run
    BY DEF RunsStay, NoneInserted, Exists
  <1> QED BY <1>1 DEF RunsUnique

\* What happens to a task of a first repair in a step of a worker.
LEMMA WorkerHolds ==
  ASSUME Inv, IntakeInv, NEW w \in Workers, AnyStep(w), NEW j \in Jobs,
         HeldOnce(j)
  PROVE  HeldOnce(j)'
  <1> PICK t : t = InitialTask(j)
    OBVIOUS
  <1>1. \A v \in Workers : v # w => worker'[v] = worker[v]
    BY StepShape
  <1>2. UNCHANGED router
    BY StepShape
  <1>3. /\ \A h \in Handlers : Asks(h, j)' <=> Asks(h, j)
        /\ \A g, h \in Handlers : Asks(g, j)' /\ Asks(h, j)' => g = h
    BY <1>2 DEF Asks, HeldOnce
  <1>4. CASE TakeTask(w)
    <2>1. /\ worker'[w].task = queue[1] /\ 1 \in DOMAIN queue
          /\ DOMAIN queue' \subseteq Nat
          /\ \A i \in DOMAIN queue' : /\ i + 1 \in DOMAIN queue
                                      /\ i + 1 # 1
                                      /\ queue'[i] = queue[i + 1]
      BY <1>4, TakenTask
    <2>2. \A h \in Handlers : Asks(h, j) =>
            /\ \A i \in DOMAIN queue' : queue'[i] # t
            /\ \A v \in Workers : worker'[v].task # t
      BY <1>1, <2>1 DEF HeldOnce
    <2>3. \A i, k \in DOMAIN queue' : queue'[i] = t /\ queue'[k] = t => i = k
      <3>1. ASSUME NEW i \in DOMAIN queue', NEW k \in DOMAIN queue',
                   queue'[i] = t, queue'[k] = t
            PROVE  i = k
        <4>1. i + 1 = k + 1
          BY <2>1, <3>1 DEF HeldOnce
        <4> QED BY <2>1, <4>1
      <3> QED BY <3>1
    <2>4. \A i \in DOMAIN queue' : queue'[i] = t =>
            \A v \in Workers : worker'[v].task # t
      BY <1>1, <2>1 DEF HeldOnce
    <2>5. \A u, v \in Workers :
            worker'[u].task = t /\ worker'[v].task = t => u = v
      BY <1>1, <2>1 DEF HeldOnce
    <2> QED BY <1>3, <2>2, <2>3, <2>4, <2>5 DEF HeldOnce
  <1>5. CASE ~TakeTask(w)
    <2>1. UNCHANGED queue
      BY <1>5, StepShape, GoesOnShape
    <2>2. \A v \in Workers : worker'[v].task = t => worker[v].task = t
      <3>1. worker'[w].task = worker[w].task \/ worker'[w].task = None
        <4>1. CASE Done(w)
          BY <4>1 DEF Done, IdleWorker, Inv, TypeOK
        <4>2. CASE GoesOn(w)
          BY <4>2, GoesOnShape
        <4> QED BY <1>5, <4>1, <4>2, StepShape
      <3>2. t # None
        BY NoneIsNoTask, InitialTaskIsTask
      <3> QED BY <1>1, <3>1, <3>2
    <2> QED BY <1>3, <2>1, <2>2 DEF HeldOnce
  <1> QED BY <1>4, <1>5

\* What happens to it in the steps of the other processes, as long as nobody
\* asks for a retry.
LEMMA RouterHolds ==
  ASSUME Inv, IntakeInv, GitHubStep \/ RouterStep \/ ApiStep, NoRequests,
         NEW j \in Jobs, HeldOnce(j)
  PROVE  HeldOnce(j)'
  <1> PICK t : t = InitialTask(j)
    OBVIOUS
  <1>1. UNCHANGED worker
    BY OtherSteps
  <1>2. CASE \E h \in Handlers : InsertJob(h)
    <2>1. PICK h \in Handlers : InsertJob(h)
      BY <1>2
    <2>2. /\ UNCHANGED queue
          /\ router[h].pc = "insert"
          /\ router \in [Handlers -> HandlerStates]
      BY <2>1 DEF InsertJob, HandlerAt, Inv, TypeOK
    <2>3. CASE HandlerEnds(h)
      <3>1. \A g \in Handlers : Asks(g, j)' => Asks(g, j)
        BY <2>2, <2>3 DEF HandlerEnds, Asks, IdleHandler
      <3> QED BY <1>1, <2>2, <3>1 DEF HeldOnce
    <2>4. ASSUME NEW k \in Jobs, job[k] = None,
                 router' = [router EXCEPT ![h].pc = "enqueue", ![h].job = k]
          PROVE  HeldOnce(j)'
      <3>1. CASE k # j
        <4>1. \A g \in Handlers : Asks(g, j)' => Asks(g, j)
          BY <2>2, <2>4, <3>1 DEF Asks, HandlerStates
        <4> QED BY <1>1, <2>2, <4>1 DEF HeldOnce
      <3>2. CASE k = j
        <4>1. \A g \in Handlers : ~Asks(g, j)
          BY <2>4, <3>2
          DEF Asks, Inv, NothingDangles, HandlersHaveJobs, Exists
        <4>2. \A g \in Handlers : Asks(g, j)' => g = h
          BY <2>2, <2>4, <4>1 DEF Asks
        <4>3. \A i \in DOMAIN queue : queue[i] # t
          BY <2>4, <3>2, InitialTaskIsTask
          DEF Inv, NothingDangles, QueueHasJobs, Exists
        <4>4. \A w \in Workers : worker[w].task # t
          BY <2>4, <3>2, InitialTaskIsTask, NoneIsNoTask
          DEF IntakeInv, Inv, NothingDangles, WorkersHaveJobs, Exists
        <4> QED BY <1>1, <2>2, <4>2, <4>3, <4>4 DEF HeldOnce
      <3> QED BY <3>1, <3>2
    <2> QED BY <2>1, <2>3, <2>4, InsertedRow
  <1>3. CASE \E h \in Handlers : EnqueueInitial(h)
    <2>1. PICK h \in Handlers : EnqueueInitial(h)
      BY <1>3
    <2>2. PICK k : k = router[h].job
      OBVIOUS
    <2>3. /\ router[h].pc = "enqueue" /\ k \in Jobs
          /\ router' = [router EXCEPT ![h] = IdleHandler]
          /\ queue' = Append(queue, InitialTask(k))
          /\ router \in [Handlers -> HandlerStates]
      BY <2>1, <2>2 DEF EnqueueInitial, HandlerAt, HandlerEnds, Inv, TypeOK,
                        NothingDangles, HandlersHaveJobs
    <2>4. \A g \in Handlers : Asks(g, j)' => Asks(g, j) /\ g # h
      BY <2>3 DEF Asks, IdleHandler
    <2>5. /\ \A i \in DOMAIN queue : queue'[i] = queue[i]
          /\ queue'[Len(queue) + 1] = InitialTask(k)
          /\ \A i \in DOMAIN queue' : i \in DOMAIN queue \/ i = Len(queue) + 1
      BY <2>3, AppendedTask, InitialTaskIsTask
    <2>6. CASE k # j
      <3>1. \A i \in DOMAIN queue' :
              queue'[i] = t => i \in DOMAIN queue /\ queue[i] = t
        BY <2>5, <2>6, InitialTasksDiffer
      <3> QED BY <1>1, <2>4, <3>1 DEF HeldOnce
    <2>7. CASE k = j
      <3>1. Asks(h, j)
        BY <2>2, <2>3, <2>7 DEF Asks
      <3>2. /\ \A g \in Handlers : ~Asks(g, j)'
            /\ \A i \in DOMAIN queue : queue[i] # t
            /\ \A w \in Workers : worker[w].task # t
        BY <2>4, <3>1 DEF HeldOnce
      <3>3. \A i \in DOMAIN queue' : queue'[i] = t => i = Len(queue) + 1
        BY <2>5, <3>2
      <3> QED BY <1>1, <3>2, <3>3 DEF HeldOnce
    <2> QED BY <2>6, <2>7
  <1>4. CASE ~(\E h \in Handlers : InsertJob(h) \/ EnqueueInitial(h))
    <2>1. \A h \in Handlers : Asks(h, j)' => Asks(h, j)
      BY <1>4, AsksStay
    <2>2. CASE UNCHANGED queue
      BY <1>1, <2>1, <2>2 DEF HeldOnce
    <2>3. ASSUME NEW u \in Tasks, queue' = Append(queue, u), u # t
          PROVE  HeldOnce(j)'
      <3>1. /\ \A i \in DOMAIN queue : queue'[i] = queue[i]
            /\ queue'[Len(queue) + 1] = u
            /\ \A i \in DOMAIN queue' : i \in DOMAIN queue \/ i = Len(queue) + 1
        BY <2>3, AppendedTask
      <3>2. \A i \in DOMAIN queue' :
              queue'[i] = t => i \in DOMAIN queue /\ queue[i] = t
        BY <2>3, <3>1
      <3> QED BY <1>1, <2>1, <3>2 DEF HeldOnce
    <2>4. \A i, r, c : CompletionTask(i, r, c) # t
      BY DEF CompletionTask, InitialTask
    <2>5. ~(\E c \in Clients : RetryEnqueues(c))
      BY DEF NoRequests, RetryEnqueues
    <2> QED BY <1>4, <2>2, <2>3, <2>4, <2>5, EnqueueSteps
  <1> QED BY <1>2, <1>3, <1>4

\* A client gets busy by asking for a retry.
LEMMA RequestsCount ==
  ASSUME Inv, NoRequests, Next
  PROVE  retryCalls' # 0 \/ NoRequests'
  <1>1. CASE ApiStep
    <2>1. PICK c \in Clients, j \in Jobs : RetryReads(c, j)
      BY <1>1 DEF ApiStep, NoRequests, RetryCommits, RetryEnqueues, RetryFails
    <2>2. retryCalls' = retryCalls + 1 /\ retryCalls \in Nat
      BY <2>1, BoundsAssumption DEF RetryReads, Inv, TypeOK
    <2> QED BY <2>2
  <1>2. CASE WorkerStep
    BY <1>2, StepShape DEF WorkerStep, AnyStep, NoRequests
  <1>3. CASE GitHubStep
    BY <1>3 DEF GitHubStep, DevRunFails, RunEnds, Redeliver, LoseHook,
                apiVars, NoRequests
  <1>4. CASE RouterStep
    BY <1>4 DEF RouterStep, ReceiveFailure, SelectExisting, InsertJob,
                EnqueueInitial, IntakeRaises, HandlerCrashes,
                DeliverCompletion, ReceiveCompletion, LockExpires, apiVars,
                NoRequests
  <1> QED BY <1>1, <1>2, <1>3, <1>4 DEF Next

\* And none forgets that it was asked.
LEMMA CallsStay ==
  ASSUME Inv, Next, retryCalls' = 0
  PROVE  retryCalls = 0
  <1>1. retryCalls \in Nat
    BY BoundsAssumption DEF Inv, TypeOK
  <1>2. retryCalls' = retryCalls \/ retryCalls' = retryCalls + 1
    <2>1. CASE ApiStep
      BY <2>1 DEF ApiStep, RetryReads, RetryCommits, RetryEnqueues, RetryFails
    <2>2. CASE WorkerStep
      BY <2>2 DEF WorkerStep, WorkerAdvances, TakeTask, StartInitial,
           StartGreen, StartExhausted, StartRed, StampRed, ReadRetries,
           BumpRetry, DropOut,
           PushPatch, RecordAttempt, RejectPatch, FetchInternal, PushClean,
           OpenPR, CommitPR, Escalate, Raise, WorkerCrashes, apiVars
    <2>3. CASE GitHubStep
      BY <2>3 DEF GitHubStep, DevRunFails, RunEnds, Redeliver, LoseHook,
                  apiVars
    <2>4. CASE RouterStep
      BY <2>4 DEF RouterStep, ReceiveFailure, SelectExisting, InsertJob,
                  EnqueueInitial, IntakeRaises, HandlerCrashes,
                  DeliverCompletion, ReceiveCompletion, LockExpires, apiVars
    <2> QED BY <2>1, <2>2, <2>3, <2>4 DEF Next
  <1> QED BY <1>1, <1>2

\* The constraint on workflow_run_id is checked by the insert itself.
LEMMA RunsStayUnique ==
  ASSUME Inv, RunsUnique, Next
  PROVE  RunsUnique'
  <1>1. CASE UNCHANGED job
    BY <1>1 DEF RunsUnique, Exists
  <1>2. ASSUME NEW w \in Workers, AnyStep(w) PROVE RunsUnique'
    BY <1>2, WorkerColumns, UniqueRunsStay
  <1>3. ASSUME NEW c \in Clients, RetryCommits(c) PROVE RunsUnique'
    <2> PICK j : j = client[c].job
      OBVIOUS
    <2>1. /\ j \in Jobs /\ Exists(j)
          /\ job'[j].run = job[j].run
          /\ job'[j] # None
          /\ \A k \in Jobs : k # j => job'[k] = job[k]
      BY <1>3, RetryRow, NoneIsNoRow
    <2>2. RunsStay /\ NoneInserted
      BY <2>1 DEF RunsStay, NoneInserted, Exists
    <2> QED BY <2>2, UniqueRunsStay
  <1>4. ASSUME NEW h \in Handlers, InsertJob(h), ~UNCHANGED job
        PROVE  RunsUnique'
    <2> PICK d : d = router[h].run
      OBVIOUS
    <2>1. PICK j \in Jobs :
            /\ job[j] = None
            /\ job'[j] = NewRow(d)
            /\ \A k \in Jobs : k # j => job'[k] = job[k]
      BY <1>4, InsertedRow
    <2>2. RunIsNew(d)
      BY <1>4, InsertedRow
    <2>3. job'[j].run = d
      BY <2>1 DEF NewRow
    <2>4. \A k \in Jobs : k # j /\ Exists(k)' =>
            Exists(k) /\ job'[k].run = job[k].run /\ job[k].run # d
      BY <2>1, <2>2 DEF RunIsNew, Exists
    <2> QED BY <2>3, <2>4 DEF RunsUnique
  <1> QED BY <1>1, <1>2, <1>3, <1>4, OtherSteps DEF Next, WorkerStep, AnyStep

LEMMA IdleHaveNoTask ==
  ASSUME Inv, IntakeInv, Next
  PROVE  \A w \in Workers : worker'[w].pc = "idle" => worker'[w].task = None
  <1>1. CASE GitHubStep \/ RouterStep \/ ApiStep
    BY <1>1, OtherSteps DEF IntakeInv
  <1>2. ASSUME NEW w \in Workers, AnyStep(w), worker'[w].pc = "idle"
        PROVE  worker'[w].task = None
    <2>1. ~TakeTask(w)
      BY <1>2, TakenTask
    <2>2. ~GoesOn(w)
      BY <1>2, GoesOnShape DEF LeadsTo
    <2>3. Done(w)
      BY <1>2, <2>1, <2>2, StepShape
    <2> QED BY <2>3 DEF Done, IdleWorker, Inv, TypeOK
  <1>3. ASSUME NEW v \in Workers, WorkerStep, worker'[v].pc = "idle"
        PROVE  worker'[v].task = None
    <2>1. PICK w \in Workers : AnyStep(w)
      BY <1>3 DEF WorkerStep, AnyStep
    <2> QED BY <1>2, <1>3, <2>1, StepShape DEF IntakeInv
  <1> QED BY <1>1, <1>3 DEF Next

LEMMA InitIntake ==
  ASSUME Init
  PROVE  IntakeInv
  <1>1. RunsUnique
    BY DEF Init, RunsUnique, Exists
  <1>2. NoRequests
    BY DEF Init, NoRequests, IdleClient
  <1>3. ASSUME NEW j \in Jobs PROVE HeldOnce(j)
    BY InitialTaskIsTask, NoneIsNoTask
    DEF Init, HeldOnce, Asks, IdleHandler, IdleWorker
  <1> QED BY <1>1, <1>2, <1>3 DEF Init, IntakeInv, IdleWorker

LEMMA NextIntake ==
  ASSUME Inv, IntakeInv, [Next]_vars
  PROVE  IntakeInv'
  <1>1. CASE Next
    <2>1. RunsUnique'
      BY <1>1, RunsStayUnique DEF IntakeInv
    <2>2. \A w \in Workers : worker'[w].pc = "idle" => worker'[w].task = None
      BY <1>1, IdleHaveNoTask
    <2>3. ASSUME retryCalls' = 0
          PROVE  NoRequests' /\ \A j \in Jobs : HeldOnce(j)'
      <3>1. NoRequests /\ \A j \in Jobs : HeldOnce(j)
        BY <1>1, <2>3, CallsStay DEF IntakeInv
      <3>2. NoRequests'
        BY <1>1, <2>3, <3>1, RequestsCount
      <3> QED BY <1>1, <3>1, <3>2, WorkerHolds, RouterHolds
              DEF Next, WorkerStep, AnyStep
    <2> QED BY <2>1, <2>2, <2>3 DEF IntakeInv
  <1>2. CASE UNCHANGED vars
    BY <1>2 DEF vars, dbVars, redisVars, apiVars, IntakeInv, RunsUnique,
                Exists, NoRequests, HeldOnce, Asks
  <1> QED BY <1>1, <1>2

\* IntakeInv holds in every reachable state, as every action keeps it.
THEOREM IntakeInvHolds == Spec => []IntakeInv
  <1>1. Init => IntakeInv
    BY InitIntake
  <1>2. Inv /\ IntakeInv /\ [Next]_vars => IntakeInv'
    BY NextIntake
  <1> QED BY <1>1, <1>2, InvHolds, PTL DEF Spec

\* What is in at most one place is one thing at most.
LEMMA OnePlace ==
  ASSUME NEW j \in Jobs, HeldOnce(j)
  PROVE  Cardinality(InitialRepairs(j)) <= 1
  <1>1. \A x, y \in InitialRepairs(j) : x = y
    BY DEF InitialRepairs, HeldOnce, Asks
  <1>2. CASE InitialRepairs(j) = {}
    BY <1>2, FS_EmptySet
  <1>3. CASE InitialRepairs(j) # {}
    <2>1. PICK x : x \in InitialRepairs(j)
      BY <1>3
    <2>2. InitialRepairs(j) = {x}
      BY <1>1, <2>1
    <2>3. Cardinality({x}) = 1
      BY FS_Singleton
    <2> QED BY <2>2, <2>3
  <1> QED BY <1>2, <1>3

\* README.md:90, whatever deliveries race, locks expire and handlers fail, and
\* however many jobs and processes there are: a failed run has one job, and as
\* long as nobody asks for a retry the job's first repair is under way in at
\* most one place.
THEOREM FailuresRepairedOnce == Spec => []OneRepairPerFailure
  <1>1. IntakeInv => OneRepairPerFailure
    BY OnePlace DEF IntakeInv, RunsUnique, OneRepairPerFailure
  <1> QED BY <1>1, IntakeInvHolds, PTL

-----------------------------------------------------------------------------
(* The endpoint drives HealX *)

\* A run that has not ended is not delivered, and one that is on no internal
\* branch is a failed run of a developer.
LEMMA EntryStepIsStep ==
  ASSUME Inv, RunsInv, [EntryNext]_entryVars
  PROVE  [Next]_vars
  <1>1. CASE GitHubSends
    BY <1>1 DEF GitHubSends, DevRunStarts, DevRunEnds, RunIsAnnounced,
                RunCompletes, EventRepeats, Next, GitHubStep, Redeliver, Ended
  <1>2. CASE Endpoint
    <2>1. ASSUME NEW q \in requests, NEW h \in Handlers, HandleFailure(h, q)
          PROVE  Next
      <3>1. q.run \in hooks \intersect devFailed /\ ReceiveFailure(h, q.run)
        BY <2>1 DEF HandleFailure, OnInternalBranch, ReceiveFailure, RunsInv
      <3> QED BY <3>1 DEF Next, RouterStep
    <2>2. ASSUME NEW q \in requests, HandleCompletion(q)
          PROVE  Next
      <3>1. q.run \in running \union Ended /\ ReceiveCompletion(q.run)
            /\ q.run \in hooks
        BY <2>2 DEF HandleCompletion, OnInternalBranch, ReceiveCompletion
      <3>2. running \subseteq RunIds /\ devFailed \subseteq DevRuns
        BY DEF Inv, TypeOK
      <3>3. q.run \in hooks \intersect Ended
        BY <3>1, <3>2, RunsApart DEF RunsInv
      <3> QED BY <3>1, <3>3 DEF Next, RouterStep, DeliverCompletion
    <2>3. ASSUME NEW q \in requests, Refuse(q)
          PROVE  Next
      BY <2>3 DEF Refuse, LoseHook, Next, GitHubStep
    <2>4. ASSUME NEW q \in requests, Ignore(q)
          PROVE  UNCHANGED vars
      BY <2>4 DEF Ignore
    <2> QED BY <1>2, <2>1, <2>2, <2>3, <2>4 DEF Endpoint
  <1>3. CASE Inside
    BY <1>3 DEF Inside, Next, RouterStep
  <1>4. CASE UNCHANGED entryVars
    BY <1>4 DEF entryVars
  <1> QED BY <1>1, <1>2, <1>3, <1>4 DEF EntryNext

\* router.py:91-123, whatever GitHub sends, the endpoint starts no handler that
\* HealX does not start: every property of Spec is one of EntrySpec.
THEOREM EntryImplementsHealX == EntrySpec => Spec /\ [](Inv /\ RunsInv)
  <1>1. EntryInit => Init /\ Inv /\ RunsInv
    BY InitInv, InitRuns DEF EntryInit
  <1>2. Inv /\ RunsInv /\ [EntryNext]_entryVars => [Next]_vars
    BY EntryStepIsStep
  <1>3. Inv /\ RunsInv /\ [Next]_vars => Inv' /\ RunsInv'
    BY NextInv, NextRuns
  <1> QED BY <1>1, <1>2, <1>3, PTL DEF EntrySpec, Spec

-----------------------------------------------------------------------------
(* A hook for every request that passes *)

\* A request that tells of a failed run, or of an ended one on an internal
\* branch, whether it arrives intact or not.
Tells(q) == IsCompletion(q) /\ (q.run \in RunIds \/ IsFailure(q))

\* What is known of a request.
Honest(q) ==
  /\ IsCompletion(q) => q.run \in DevRuns \union Ended
  /\ IsCompletion(q) /\ q.run \in Ended => VerdictTold(q) = Conclusion(q.run)
  /\ ~q.intact => Tells(q)

\* The inductive invariant, relative to Inv and RunsInv: the hooks are the
\* runs told of, each by one request.
EntryInv ==
  /\ \A q \in requests : Honest(q)
  /\ \A q \in requests : Tells(q) => q.run \in hooks
  /\ \A p, q \in requests : Tells(p) /\ Tells(q) /\ p.run = q.run => p = q
  /\ \A e \in hooks : \E q \in requests : Tells(q) /\ q.run = e

\* An ended run stays as it has ended.
LEMMA HonestStays ==
  ASSUME Inv, RunsInv, [Next]_vars, NEW q, Honest(q)
  PROVE  Honest(q)'
  <1>1. /\ Ended \subseteq Ended'
        /\ \A r \in Ended : r \in green' <=> r \in green
        /\ \A r \in Ended' \ Ended : r \in running
    <2>1. CASE \E r \in running : RunEnds(r)
      BY <2>1 DEF RunEnds, Ended, RunsInv
    <2>2. CASE UNCHANGED <<green, red>>
      BY <2>2 DEF Ended
    <2>3. CASE GitHubStep
      BY <2>1, <2>2, <2>3
      DEF GitHubStep, DevRunFails, Redeliver, LoseHook
    <2>4. CASE RouterStep \/ ApiStep
      BY <2>2, <2>4
      DEF RouterStep, ReceiveFailure, SelectExisting, InsertJob,
          EnqueueInitial, IntakeRaises, HandlerCrashes, DeliverCompletion,
          ReceiveCompletion, LockExpires, ApiStep, RetryReads, RetryCommits,
          RetryEnqueues, RetryFails, ciVars
    <2>5. CASE WorkerStep
      BY <2>2, <2>5
      DEF WorkerStep, WorkerAdvances, TakeTask, StartInitial, StartGreen,
          StartExhausted, StartRed, StampRed, ReadRetries, BumpRetry, DropOut,
          PushPatch,
          RejectPatch, RecordAttempt, FetchInternal, PushClean, OpenPR,
          CommitPR, Escalate, Raise, WorkerCrashes, ciVars
    <2>6. CASE UNCHANGED vars
      BY <2>2, <2>6 DEF vars, ciVars
    <2> QED BY <2>3, <2>4, <2>5, <2>6 DEF Next
  <1>2. running \subseteq RunIds
    BY DEF Inv, TypeOK
  <1>3. Ended' \ Ended \subseteq RunIds /\ \A d \in DevRuns : d \notin RunIds
    BY <1>1, <1>2, RunsApart
  <1>4. running \intersect Ended = {}
    BY DEF RunsInv
  <1>5. Tells(q)' <=> Tells(q)
    BY DEF Tells, IsCompletion, IsFailure
  <1>6. ASSUME IsCompletion(q), q.run \in Ended'
        PROVE  VerdictTold(q) = Conclusion(q.run)'
    <2>1. q.run \in Ended
      BY <1>3, <1>6 DEF Honest
    <2> QED BY <1>1, <1>6, <2>1 DEF Honest, Conclusion
  <1> QED BY <1>1, <1>5, <1>6 DEF Honest, IsCompletion, VerdictTold

\* A new event is told by one request.
LEMMA EventTold ==
  ASSUME EntryInv, NEW q, Tells(q), q.run \notin hooks,
         hooks' = hooks \union {q.run}, Adds(q),
         \A p \in requests \union {q} : Honest(p)'
  PROVE  EntryInv'
  <1>1. \A p : Tells(p)' <=> Tells(p)
    BY DEF Tells, IsCompletion, IsFailure
  <1> QED BY <1>1 DEF EntryInv, Adds

\* Other requests come and go.
LEMMA NothingTold ==
  ASSUME EntryInv, NEW q, ~Tells(q), UNCHANGED hooks,
         Adds(q) \/ Takes(q) \/ UNCHANGED requests,
         \A p \in requests' : Honest(p)'
  PROVE  EntryInv'
  <1>1. \A p : Tells(p)' <=> Tells(p)
    BY DEF Tells, IsCompletion, IsFailure
  <1> QED BY <1>1 DEF EntryInv, Adds, Takes

\* A hook is dealt with together with its request.
LEMMA EventHandled ==
  ASSUME EntryInv, NEW q \in requests, Tells(q),
         hooks' = hooks \ {q.run}, Takes(q),
         \A p \in requests : Honest(p)'
  PROVE  EntryInv'
  <1>1. \A p : Tells(p)' <=> Tells(p)
    BY DEF Tells, IsCompletion, IsFailure
  <1> QED BY <1>1 DEF EntryInv, Takes

LEMMA HookHappened ==
  ASSUME Inv, RunsInv
  PROVE  /\ \A d \in DevRuns : d \notin RunIds
         /\ running \subseteq RunIds /\ Ended \subseteq RunIds
         /\ devFailed \subseteq DevRuns
         /\ \A r \in running : r \notin hooks /\ r \notin Ended
         /\ \A d \in DevRuns : d \in hooks => d \in devFailed
  <1>1. /\ running \subseteq RunIds /\ Ended \subseteq RunIds
        /\ devFailed \subseteq DevRuns
    BY DEF Inv, TypeOK, Ended
  <1> QED BY <1>1, RunsApart DEF RunsInv

\* What GitHub sends.
LEMMA GitHubTells ==
  ASSUME Inv, RunsInv, EntryInv, GitHubSends, [Next]_vars
  PROVE  EntryInv'
  <1>1. \A p \in requests : Honest(p)'
    BY HonestStays DEF EntryInv
  <1>2. \A d \in DevRuns : d \notin Ended'
    BY HookHappened, NextInv DEF Inv, TypeOK, Ended
  <1>3. ASSUME NEW d \in DevRuns, NEW i, Adds(Completed(d, "failure", i)),
               DevRunFails(d) \/ Redeliver(d)
        PROVE  EntryInv'
    <2> PICK q : q = Completed(d, "failure", i)
      OBVIOUS
    <2>1. /\ Tells(q) /\ q.run = d
          /\ IsCompletion(q) /\ IsFailure(q)
      BY DEF Tells, Completed, Sent, IsCompletion, IsFailure
    <2>2. d \notin hooks /\ hooks' = hooks \union {d}
      BY <1>3, HookHappened DEF DevRunFails, Redeliver
    <2>3. Honest(q)'
      BY <1>2, <2>1 DEF Honest, Tells, IsCompletion, IsFailure
    <2> QED BY <1>1, <1>3, <2>1, <2>2, <2>3, EventTold
  <1>4. ASSUME NEW r \in Ended', NEW c \in ConclusionsOf(r)', NEW i,
               Adds(Completed(r, c, i)), r \notin hooks,
               hooks' = hooks \union {r}, r \in RunIds
        PROVE  EntryInv'
    <2> PICK q : q = Completed(r, c, i)
      OBVIOUS
    <2>1. /\ Tells(q) /\ q.run = r /\ q.conclusion = c
          /\ IsCompletion(q)
      BY <1>4 DEF Tells, Completed, Sent, IsCompletion
    <2>2. VerdictTold(q) = Conclusion(r)'
      BY <2>1 DEF VerdictTold, Conclusion, ConclusionsOf
    <2>3. Honest(q)'
      BY <2>1, <2>2 DEF Honest, Tells, IsCompletion, IsFailure, VerdictTold,
                        Conclusion
    <2> QED BY <1>1, <1>4, <2>1, <2>3, EventTold
  <1>5. ASSUME NEW q, Adds(q), UNCHANGED hooks, ~Tells(q), q.intact,
               IsCompletion(q) => q.run \in DevRuns
        PROVE  EntryInv'
    <2>1. Honest(q)'
      BY <1>2, <1>5 DEF Honest, Tells, IsCompletion, IsFailure
    <2>2. \A p \in requests' : Honest(p)'
      BY <1>1, <1>5, <2>1 DEF Adds
    <2> QED BY <1>5, <2>2, NothingTold
  <1>6. ASSUME NEW d \in DevRuns, DevRunStarts(d)
        PROVE  EntryInv'
    <2> PICK q : q = Sent("workflow_run", d, "in_progress", None, TRUE)
      OBVIOUS
    <2>1. ~IsCompletion(q) /\ q.intact
      BY DEF Sent, IsCompletion
    <2> QED BY <1>5, <1>6, <2>1
            DEF DevRunStarts, Tells, vars, ciVars
  <1>7. ASSUME NEW d \in DevRuns, DevRunEnds(d)
        PROVE  EntryInv'
    <2>1. CASE \E c \in {"success", "cancelled"} :
                 Adds(Completed(d, c, TRUE)) /\ UNCHANGED vars
      <3>1. PICK c \in {"success", "cancelled"} :
                   Adds(Completed(d, c, TRUE)) /\ UNCHANGED vars
        BY <2>1
      <3> PICK q : q = Completed(d, c, TRUE)
        OBVIOUS
      <3>2. q.run = d /\ q.conclusion = c /\ q.intact
        BY DEF Completed, Sent
      <3>3. ~Tells(q)
        BY <3>2, HookHappened DEF Tells, IsFailure
      <3> QED BY <1>5, <3>1, <3>2, <3>3 DEF vars, ciVars
    <2>2. CASE /\ DevRunFails(d) \/ Redeliver(d)
               /\ \E i \in Intact : Adds(Completed(d, "failure", i))
      BY <1>3, <2>2
    <2> QED BY <1>7, <2>1, <2>2 DEF DevRunEnds
  <1>8. ASSUME NEW r \in running, RunIsAnnounced(r)
        PROVE  EntryInv'
    <2>1. PICK q : /\ Adds(q) /\ UNCHANGED hooks
                   /\ \/ q = Sent("workflow_run", r, "in_progress", None, TRUE)
                      \/ q = Sent("workflow_job", None, "completed", None, TRUE)
      BY <1>8 DEF RunIsAnnounced, vars, ciVars
    <2>2. ~IsCompletion(q) /\ q.intact
      BY <2>1 DEF Sent, IsCompletion
    <2> QED BY <1>5, <2>1, <2>2 DEF Tells
  <1>9. ASSUME NEW r \in running, RunCompletes(r)
        PROVE  EntryInv'
    <2>1. /\ r \in Ended' /\ hooks' = hooks \union {r}
          /\ r \notin hooks /\ r \in RunIds
      BY <1>9, HookHappened DEF RunCompletes, RunEnds, Ended
    <2>2. PICK c \in ConclusionsOf(r)', i \in Intact : Adds(Completed(r, c, i))
      BY <1>9 DEF RunCompletes
    <2> QED BY <1>4, <2>1, <2>2
  <1>10. ASSUME NEW e \in devFailed \union Ended, EventRepeats(e)
         PROVE  EntryInv'
    <2>1. /\ e \notin hooks /\ hooks' = hooks \union {e}
          /\ UNCHANGED <<green, red>> /\ Redeliver(e)
      BY <1>10 DEF EventRepeats, Redeliver
    <2>2. CASE e \in DevRuns
      BY <1>3, <1>10, <2>1, <2>2 DEF EventRepeats
    <2>3. CASE e \notin DevRuns
      <3>1. e \in RunIds /\ e \in Ended' /\ e \notin DevRuns
        BY <2>1, <2>3, HookHappened DEF Ended
      <3>2. PICK c \in ConclusionsOf(e)', i \in Intact :
              Adds(Completed(e, c, i))
        BY <1>10, <2>1, <3>1 DEF EventRepeats, ConclusionsOf
      <3> QED BY <1>4, <2>1, <3>1, <3>2
    <2> QED BY <2>2, <2>3
  <1> QED BY <1>6, <1>7, <1>8, <1>9, <1>10 DEF GitHubSends

\* What the endpoint makes of it.
LEMMA EndpointTells ==
  ASSUME Inv, RunsInv, EntryInv, Endpoint, [Next]_vars
  PROVE  EntryInv'
  <1>1. \A p \in requests : Honest(p)'
    BY HonestStays DEF EntryInv
  <1>2. ASSUME NEW q \in requests, NEW h \in Handlers, HandleFailure(h, q)
        PROVE  EntryInv'
    <2>1. Tells(q) /\ hooks' = hooks \ {q.run} /\ Takes(q)
      BY <1>2 DEF HandleFailure, Passes, Tells, ReceiveFailure
    <2> QED BY <1>1, <2>1, EventHandled
  <1>3. ASSUME NEW q \in requests, HandleCompletion(q)
        PROVE  EntryInv'
    <2>1. Tells(q) /\ hooks' = hooks \ {q.run} /\ Takes(q)
      BY <1>3, HookHappened
      DEF HandleCompletion, Passes, OnInternalBranch, Tells, ReceiveCompletion
    <2> QED BY <1>1, <2>1, EventHandled
  <1>4. ASSUME NEW q \in requests, Refuse(q)
        PROVE  EntryInv'
    <2>1. Tells(q) /\ hooks' = hooks \ {q.run} /\ Takes(q)
      BY <1>4 DEF Refuse, LoseHook, EntryInv, Honest
    <2> QED BY <1>1, <2>1, EventHandled
  <1>5. ASSUME NEW q \in requests, Ignore(q)
        PROVE  EntryInv'
    <2>1. ~Tells(q)
      BY <1>5, HookHappened
      DEF Ignore, Passes, Tells, OnInternalBranch, EntryInv, Honest
    <2>2. UNCHANGED hooks /\ Takes(q)
      BY <1>5 DEF Ignore, vars, ciVars
    <2>3. \A p \in requests' : Honest(p)'
      BY <1>1, <2>2 DEF Takes
    <2> QED BY <2>1, <2>2, <2>3, NothingTold
  <1> QED BY <1>2, <1>3, <1>4, <1>5 DEF Endpoint

LEMMA NextEntry ==
  ASSUME Inv, RunsInv, EntryInv, [EntryNext]_entryVars
  PROVE  EntryInv'
  <1>1. [Next]_vars
    BY EntryStepIsStep
  <1>2. CASE UNCHANGED <<hooks, requests>>
    <2>1. \A p \in requests' : Honest(p)'
      BY <1>1, <1>2, HonestStays DEF EntryInv
    <2>2. \A p : Tells(p)' <=> Tells(p)
      BY DEF Tells, IsCompletion, IsFailure
    <2> QED BY <1>2, <2>1, <2>2 DEF EntryInv
  <1>3. CASE Inside
    <2>1. WorkerStep => UNCHANGED hooks
      BY DEF WorkerStep, WorkerAdvances, TakeTask, StartInitial,
          StartGreen, StartExhausted, StartRed, StampRed, ReadRetries, BumpRetry,
          DropOut,
          PushPatch, RejectPatch, RecordAttempt, FetchInternal, PushClean,
          OpenPR, CommitPR, Escalate, Raise, WorkerCrashes, ciVars
    <2>2. UNCHANGED <<hooks, requests>>
      BY <1>3, <2>1
      DEF Inside, SelectExisting, InsertJob, EnqueueInitial, IntakeRaises,
          HandlerCrashes, LockExpires, ciVars
    <2> QED BY <1>2, <2>2
  <1>4. CASE UNCHANGED entryVars
    BY <1>2, <1>4 DEF entryVars, vars, ciVars
  <1> QED BY <1>1, <1>3, <1>4, GitHubTells, EndpointTells DEF EntryNext

LEMMA InitEntry ==
  ASSUME EntryInit
  PROVE  EntryInv
  <1> PICK q : q = Sent("ping", None, None, None, TRUE)
    OBVIOUS
  <1>1. ~IsCompletion(q) /\ q.intact
    BY DEF Sent, IsCompletion
  <1>2. requests = {q} /\ hooks = {}
    BY DEF EntryInit, Init
  <1> QED BY <1>1, <1>2 DEF EntryInv, Honest, Tells

LEMMA EntryInvImplies ==
  ASSUME Inv, RunsInv, EntryInv
  PROVE  EntryIsExact
  <1>1. \A q \in requests : Passes(q) <=> q.intact /\ Tells(q)
    BY HookHappened
    DEF Passes, Tells, OnInternalBranch, EntryInv, Honest
  <1>2. \A q \in requests : ~q.intact => Tells(q)
    BY DEF EntryInv, Honest
  <1>3. \A q \in requests : Passes(q) /\ OnInternalBranch(q) =>
          VerdictTold(q) = Conclusion(q.run)
    BY HookHappened DEF Passes, OnInternalBranch, EntryInv, Honest
  <1>4. \A q \in requests : Passes(q) => q.run \in hooks
    BY <1>1 DEF EntryInv
  <1>5. \A e \in hooks : \E q \in requests :
          q.run = e /\ (Passes(q) \/ ~q.intact)
    BY <1>1 DEF EntryInv
  <1> QED BY <1>3, <1>4, <1>5 DEF EntryIsExact

\* router.py:91-123, however many runs, events and damaged requests there are,
\* what passes the checks of the endpoint is what HealX needs, with the
\* verdict of its run.
THEOREM EntryExact == EntrySpec => []EntryIsExact
  <1>1. EntryInit => EntryInv
    BY InitEntry
  <1>2. Inv /\ RunsInv /\ EntryInv /\ [EntryNext]_entryVars => EntryInv'
    BY NextEntry
  <1>3. Inv /\ RunsInv /\ EntryInv => EntryIsExact
    BY EntryInvImplies
  <1> QED BY <1>1, <1>2, <1>3, EntryImplementsHealX, PTL DEF EntrySpec
=============================================================================
