----------------------------- MODULE LoopProofs -----------------------------
(***************************************************************************)
(* Proofs about the retry loop: it ends, and it does not stop half-way.    *)
(*                                                                         *)
(* First how often a job is repaired: what the counter of retries can      *)
(* reach when workers compare it with the limit and read it before others  *)
(* have written it back, and what that means for what is counted elsewhere.*)
(*                                                                         *)
(* Then that only a process that dies, an enqueue that fails or a webhook  *)
(* that is lost or ignored strands a job: every step that takes one of the *)
(* things that move a job hands it to another one or settles it.           *)
(***************************************************************************)
EXTENDS HealXProofs, FiniteSetTheorems

-----------------------------------------------------------------------------
(* A retry is read before it is counted *)

\* The inductive invariant, relative to Inv and AttemptInv: a worker about to
\* count a retry reads the row again, and then holds what it has read.
RetryInv ==
  \A w \in Workers :
    /\ worker[w].pc = "bump" => worker[w].loaded = None
    /\ worker[w].pc = "count" =>
         worker[w].loaded # None /\ worker[w].loaded.status = "retrying"

\* The row is read again for the increment.
LEMMA ReadRow ==
  ASSUME Inv, RetryInv, NEW w \in Workers, ReadRetries(w)
  PROVE  /\ JobRow(w) = job[JobOf(w)]
         /\ worker'[w].loaded # None
         /\ worker'[w].loaded.retries = job[JobOf(w)].retries
  BY ReadRetriesShape, NoneIsNoRow DEF RetryInv, JobRow

\* The counter gets what was read, plus one.
LEMMA BumpedRow ==
  ASSUME Inv, RetryInv, NEW w \in Workers, BumpRetry(w)
  PROVE  /\ worker[w].pc = "count"
         /\ JobOf(w) \in Jobs /\ Exists(JobOf(w))
         /\ worker[w].loaded.retries \in Nat
         /\ job'[JobOf(w)].retries = worker[w].loaded.retries + 1
         /\ \A k \in Jobs : k # JobOf(w) => job'[k] = job[k]
  <1>1. JobRow(w) = worker[w].loaded
    BY BumpRetryShape DEF RetryInv, JobRow
  <1> QED BY <1>1, BumpRetryShape DEF Row

LEMMA AnyStepRetry ==
  ASSUME Inv, AttemptInv, RetryInv, NEW w \in Workers, AnyStep(w)
  PROVE  RetryInv'
  <1>1. ASSUME NEW v \in Workers, v # w
        PROVE  worker'[v] = worker[v]
    BY <1>1, StepShape
  <1>2. ASSUME worker'[w].pc \in {"bump", "count"}
        PROVE  \/ StampRed(w) /\ worker'[w].pc = "bump"
               \/ ReadRetries(w) /\ worker'[w].pc = "count"
    <2>1. ~Done(w)
      BY <1>2, DoneMoves
    <2>2. ASSUME TakeTask(w) PROVE worker'[w].pc = "start"
      BY <2>2 DEF TakeTask, Inv, TypeOK, WorkerStates
    <2> QED BY <1>2, <2>1, <2>2, StepShape, GoesOnShape DEF LeadsTo
  <1>3. ASSUME StampRed(w), worker'[w].pc = "bump"
        PROVE  worker'[w].loaded = None
    <2>1. attempts[JobOf(w)] # <<>>
      BY <1>3, AttemptInvImplies DEF StampRed, At, CompletionHasAttempt
    <2>2. PICK i \in LatestAttempts(attempts[JobOf(w)]) :
            worker' = [worker EXCEPT
              ![w].pc = "bump", ![w].loaded = None,
              ![w].prev = attempts[JobOf(w)][i].patch]
      BY <1>3, <2>1 DEF StampRed
    <2> QED BY <2>2 DEF Inv, TypeOK, WorkerStates
  <1>4. ASSUME ReadRetries(w)
        PROVE  worker'[w].loaded # None /\ worker'[w].loaded.status = "retrying"
    BY <1>4, ReadRetriesShape, NoneIsNoRow
  <1>5. worker'[w].pc = "bump" => worker'[w].loaded = None
    BY <1>2, <1>3
  <1>6. worker'[w].pc = "count" =>
          worker'[w].loaded # None /\ worker'[w].loaded.status = "retrying"
    BY <1>2, <1>4
  <1> QED BY <1>1, <1>5, <1>6 DEF RetryInv

LEMMA NextRetry ==
  ASSUME Inv, AttemptInv, RetryInv, [Next]_vars
  PROVE  RetryInv'
  <1>1. CASE GitHubStep \/ RouterStep \/ ApiStep
    BY <1>1, OtherSteps DEF RetryInv
  <1>2. CASE WorkerStep
    BY <1>2, AnyStepRetry DEF WorkerStep, AnyStep
  <1>3. CASE UNCHANGED vars
    BY <1>3 DEF vars, RetryInv
  <1> QED BY <1>1, <1>2, <1>3 DEF Next

\* RetryInv holds in every reachable state, as every action keeps it.
THEOREM RetryInvHolds == Spec => []RetryInv
  <1>1. Init => RetryInv
    BY DEF Init, RetryInv, IdleWorker
  <1>2. Inv /\ AttemptInv /\ RetryInv /\ [Next]_vars => RetryInv'
    BY NextRetry
  <1> QED BY <1>1, <1>2, InvHolds, AttemptInvHolds, PTL DEF Spec

-----------------------------------------------------------------------------
(* What the counter can reach *)

\* The processes that can change the counter of a job: with more than these,
\* one of them can bring an old value back after others have been compared.
FewHands ==
  \/ Cardinality(Workers) <= 1
  \/ Cardinality(Workers) <= 2 /\ Clients = {}

\* What v has read and will write back is bounded as the counter is, and is no
\* more than the counter unless it leaves the limit alone.
ReadIsBounded(v, j) ==
  /\ worker[v].loaded.retries + Cardinality(Racers(j)) <= MaxRetries + Overrun
  /\ \/ worker[v].loaded.retries <= job[j].retries
     \/ worker[v].loaded.retries < MaxRetries

\* The inductive invariant, relative to Inv and RetryInv.
BoundInv ==
  /\ RetriesBounded
  /\ \A v \in Workers : \A j \in Jobs :
       worker[v].pc = "count" /\ JobOf(v) = j => ReadIsBounded(v, j)

\* Every worker but one is an overrun.
LEMMA WorkersCount ==
  ASSUME NEW S, S \subseteq Workers
  PROVE  /\ IsFiniteSet(S)
         /\ Cardinality(S) \in Nat
         /\ Cardinality(S) <= Overrun + 1
         /\ Overrun \in Nat
  <1>1. IsFiniteSet(S) /\ Cardinality(S) <= Cardinality(Workers)
    BY ProcessesAssumption, FS_Subset
  <1>2. Cardinality(S) \in Nat /\ Cardinality(Workers) \in Nat
    BY <1>1, ProcessesAssumption, FS_CardinalityType
  <1>3. Workers # {} => Cardinality(Workers) # 0
    BY ProcessesAssumption, FS_EmptySet
  <1>4. Cardinality({}) = 0
    BY FS_EmptySet
  <1> QED BY <1>1, <1>2, <1>3, <1>4 DEF Overrun

LEMMA FewOverrun ==
  ASSUME FewHands
  PROVE  Overrun \in {0, 1} /\ (Clients # {} => Overrun = 0)
  <1>1. Cardinality(Workers) \in Nat
    BY ProcessesAssumption, FS_CardinalityType
  <1>2. Workers # {} => Cardinality(Workers) # 0
    BY ProcessesAssumption, FS_EmptySet
  <1> QED BY <1>1, <1>2 DEF FewHands, Overrun

LEMMA RacersAreWorkers ==
  ASSUME NEW j
  PROVE  Racers(j) \subseteq Workers /\ Racers(j)' \subseteq Workers
  BY DEF Racers

\* Two of them are as many as there can be.
LEMMA RacersAreFew ==
  ASSUME NEW j, NEW v \in Racers(j), NEW w \in Racers(j), v # w
  PROVE  Cardinality(Racers(j)) >= 2
  <1>1. IsFiniteSet(Racers(j)) /\ Cardinality(Racers(j)) \in Nat
    BY RacersAreWorkers, WorkersCount
  <1>2. /\ IsFiniteSet(Racers(j) \ {v})
        /\ Cardinality(Racers(j) \ {v}) = Cardinality(Racers(j)) - 1
    BY <1>1, FS_RemoveElement
  <1>3. Cardinality(Racers(j) \ {v}) # 0 /\ Cardinality(Racers(j) \ {v}) \in Nat
    BY <1>2, FS_EmptySet, FS_CardinalityType
  <1> QED BY <1>1, <1>2, <1>3

\* Nobody joins the workers that are about to count a retry of j, and what is
\* counted, or is about to be written back, is no more.
LEMMA FewerRetries ==
  ASSUME NEW j, Racers(j)' \subseteq Racers(j), NEW c \in Nat, NEW d \in Nat,
         d <= c, c + Cardinality(Racers(j)) <= MaxRetries + Overrun
  PROVE  d + Cardinality(Racers(j)') <= MaxRetries + Overrun
  <1>1. /\ IsFiniteSet(Racers(j)) /\ Cardinality(Racers(j)) \in Nat
        /\ Overrun \in Nat
    BY RacersAreWorkers, WorkersCount
  <1>2. IsFiniteSet(Racers(j)')
        /\ Cardinality(Racers(j)') <= Cardinality(Racers(j))
    BY <1>1, FS_Subset
  <1>3. Cardinality(Racers(j)') \in Nat
    BY <1>2, FS_CardinalityType
  <1> QED BY <1>1, <1>2, <1>3, RetriesAssumption

\* Whom a step makes join: only one that found retries left.
LEMMA RacersJoin ==
  ASSUME Inv, NEW w \in Workers, AnyStep(w), ~StartRed(w), NEW j
  PROVE  Racers(j)' \subseteq Racers(j)
  <1> SUFFICES ASSUME NEW v \in Racers(j)' PROVE v \in Racers(j)
    OBVIOUS
  <1>1. /\ v \in Workers /\ worker'[v].pc \in {"red", "bump", "count"}
        /\ worker'[v].task.job = j
    BY DEF Racers, Compared, JobOf
  <1>2. CASE v # w
    <2>1. worker'[v] = worker[v]
      BY <1>1, <1>2, StepShape
    <2> QED BY <1>1, <2>1 DEF Racers, Compared, JobOf
  <1>3. CASE v = w
    <2>1. ~Done(w)
      BY <1>1, <1>3, DoneMoves
    <2>2. ~TakeTask(w)
      <3>1. ASSUME TakeTask(w) PROVE worker'[w].pc = "start"
        BY <3>1 DEF TakeTask, Inv, TypeOK, WorkerStates
      <3> QED BY <1>1, <1>3, <3>1
    <2>3. GoesOn(w)
      BY <2>1, <2>2, StepShape
    <2>4. /\ StampRed(w) \/ ReadRetries(w)
          /\ worker'[w].task = worker[w].task
      BY <1>1, <1>3, <2>3, GoesOnShape DEF LeadsTo
    <2> QED BY <1>1, <1>3, <2>4
            DEF Racers, Compared, StampRed, ReadRetries, At, JobOf
  <1> QED BY <1>2, <1>3

\* A worker that has read the counter, and the job it is about.
LEMMA Reader ==
  ASSUME Inv, RetryInv, NEW v \in Workers, worker[v].pc = "count"
  PROVE  /\ JobOf(v) \in Jobs /\ Exists(JobOf(v)) /\ v \in Racers(JobOf(v))
         /\ job[JobOf(v)].retries \in Nat /\ worker[v].loaded.retries \in Nat
  <1>1. /\ JobOf(v) \in Jobs /\ job[JobOf(v)] \in Row
        /\ worker[v] \in WorkerStates
    BY WorkersJob DEF Inv
  <1>2. worker[v].loaded \in Row
    BY <1>1 DEF RetryInv, WorkerStates
  <1> QED BY <1>1, <1>2, NoneIsNoRow DEF Exists, Racers, Compared, Row

\* A worker about to write the counter back that is not the one that steps.
LEMMA OtherReader ==
  ASSUME Inv, RetryInv, BoundInv, NEW v \in Workers, worker'[v] = worker[v],
         NEW j \in Jobs, worker'[v].pc = "count", JobOf(v)' = j,
         Racers(j)' \subseteq Racers(j)
  PROVE  /\ JobOf(v) = j /\ Exists(j) /\ v \in Racers(j)
         /\ worker[v].loaded.retries \in Nat /\ ReadIsBounded(v, j)
         /\ worker'[v].loaded.retries + Cardinality(Racers(j)')
              <= MaxRetries + Overrun
  <1>1. /\ JobOf(v) = j /\ Exists(j) /\ v \in Racers(j)
        /\ worker[v].loaded.retries \in Nat
    BY Reader DEF JobOf
  <1>2. ReadIsBounded(v, j)
    BY <1>1 DEF BoundInv
  <1> QED BY <1>1, <1>2, FewerRetries DEF ReadIsBounded

\* The step of a worker other than StartRed and BumpRetry.
LEMMA QuietBound ==
  ASSUME Inv, RetryInv, BoundInv, NEW w \in Workers, AnyStep(w),
         ~StartRed(w), ~BumpRetry(w)
  PROVE  BoundInv'
  <1>1. RetriesStay /\ NoneInserted
    BY WorkerColumns
  <1>2. \A k : Racers(k)' \subseteq Racers(k)
    BY RacersJoin
  <1>3. ASSUME NEW k \in Jobs, Exists(k)
        PROVE  /\ job'[k].retries = job[k].retries /\ job[k].retries \in Nat
               /\ job'[k].retries + Cardinality(Racers(k)')
                    <= MaxRetries + Overrun
    <2>1. job'[k].retries = job[k].retries /\ job[k].retries \in Nat
      BY <1>1, <1>3 DEF RetriesStay, Inv, TypeOK, Exists, Row
    <2>2. job[k].retries + Cardinality(Racers(k)) <= MaxRetries + Overrun
      BY <1>3 DEF BoundInv, RetriesBounded
    <2> QED BY <1>2, <2>1, <2>2, FewerRetries
  <1>4. RetriesBounded'
    BY <1>1, <1>3 DEF RetriesBounded, NoneInserted, Exists
  <1>5. ASSUME NEW v \in Workers, NEW j \in Jobs, worker'[v].pc = "count",
               JobOf(v)' = j
        PROVE  ReadIsBounded(v, j)'
    <2>1. CASE worker'[v] = worker[v]
      <3>1. /\ Exists(j) /\ ReadIsBounded(v, j)
            /\ worker'[v].loaded.retries + Cardinality(Racers(j)')
                 <= MaxRetries + Overrun
        BY <1>2, <1>5, <2>1, OtherReader
      <3>2. job'[j].retries = job[j].retries
        BY <1>3, <3>1
      <3> QED BY <2>1, <3>1, <3>2 DEF ReadIsBounded
    <2>2. CASE worker'[v] # worker[v]
      <3>1. v = w /\ ~Done(w) /\ ~TakeTask(w)
        <4>1. v = w
          BY <2>2, StepShape
        <4>2. ~Done(w)
          BY <1>5, <4>1, DoneMoves
        <4>3. ASSUME TakeTask(w) PROVE worker'[w].pc = "start"
          BY <4>3 DEF TakeTask, Inv, TypeOK, WorkerStates
        <4> QED BY <1>5, <4>1, <4>2, <4>3
      <3>2. ReadRetries(w)
        BY <1>5, <3>1, StepShape, GoesOnShape DEF LeadsTo
      <3>3. j = JobOf(w) /\ Exists(j) /\ worker'[w].loaded.retries = job[j].retries
        <4>1. j = JobOf(w)
          BY <1>5, <3>1, <3>2, ReadRetriesShape DEF JobOf
        <4> QED BY <3>2, <4>1, ReadRetriesShape, ReadRow, NoneIsNoRow DEF Exists
      <3>4. /\ job'[j].retries = job[j].retries /\ job[j].retries \in Nat
            /\ job'[j].retries + Cardinality(Racers(j)') <= MaxRetries + Overrun
        BY <1>3, <3>3
      <3> QED BY <3>1, <3>3, <3>4 DEF ReadIsBounded
    <2> QED BY <2>1, <2>2
  <1> QED BY <1>4, <1>5 DEF BoundInv

\* The limit was compared by this step, and every worker can have compared it.
LEMMA StartRedBound ==
  ASSUME Inv, RetryInv, BoundInv, FewHands, NEW w \in Workers, StartRed(w)
  PROVE  BoundInv'
  <1> PICK j : j = JobOf(w)
    OBVIOUS
  <1>1. worker[w].pc = "start" /\ UNCHANGED job /\ ~RetriesExhausted(job[j])
    BY DEF StartRed, Completes, At, dbVars
  <1>2. j \in Jobs /\ job[j] \in Row
    BY <1>1, WorkersJob DEF Inv
  <1>3. job[j].retries \in Nat /\ job[j].retries < MaxRetries
    BY <1>1, <1>2, RetriesAssumption DEF RetriesExhausted, Row
  <1>4. /\ worker'[w].task = worker[w].task /\ worker'[w].pc = "red"
        /\ \A v \in Workers : v # w => worker'[v] = worker[v]
    <2>1. worker'[w].pc = "red"
      BY DEF StartRed, Inv, TypeOK, WorkerStates
    <2> QED BY <2>1, GoesOnShape, StepShape DEF GoesOn, AnyStep, WorkerAdvances
  <1>5. /\ Cardinality(Racers(j)') \in Nat /\ Overrun \in Nat
        /\ Cardinality(Racers(j)') <= Overrun + 1
    BY RacersAreWorkers, WorkersCount
  <1>6. ASSUME NEW k, k # j PROVE Racers(k)' \subseteq Racers(k)
    BY <1>4, <1>6 DEF Racers, Compared, JobOf
  <1>7. ASSUME NEW k \in Jobs, Exists(k)
        PROVE  job[k].retries + Cardinality(Racers(k)') <= MaxRetries + Overrun
    <2>1. CASE k = j
      BY <1>3, <1>5, <2>1, RetriesAssumption
    <2>2. CASE k # j
      <3>1. job[k].retries \in Nat
        BY <1>7 DEF Inv, TypeOK, Exists, Row
      <3>2. job[k].retries + Cardinality(Racers(k)) <= MaxRetries + Overrun
        BY <1>7 DEF BoundInv, RetriesBounded
      <3> QED BY <1>6, <2>2, <3>1, <3>2, FewerRetries
    <2> QED BY <2>1, <2>2
  <1>8. RetriesBounded'
    BY <1>1, <1>7 DEF RetriesBounded, Exists
  <1>9. ASSUME NEW v \in Workers, NEW k \in Jobs, worker'[v].pc = "count",
               JobOf(v)' = k
        PROVE  ReadIsBounded(v, k)'
    <2>1. worker'[v] = worker[v]
      BY <1>4, <1>9
    <2>2. CASE k # j
      <3>1. /\ ReadIsBounded(v, k)
            /\ worker'[v].loaded.retries + Cardinality(Racers(k)')
                 <= MaxRetries + Overrun
        BY <1>6, <1>9, <2>1, <2>2, OtherReader
      <3> QED BY <1>1, <2>1, <3>1 DEF ReadIsBounded
    <2>3. CASE k = j
      <3>1. JobOf(v) = j /\ worker[v].loaded.retries \in Nat
        BY <1>9, <2>1, <2>3, Reader DEF JobOf
      <3>2. worker[v].loaded.retries < MaxRetries
        <4>1. ReadIsBounded(v, j)
          BY <1>2, <1>9, <2>1, <3>1 DEF BoundInv
        <4> QED BY <1>3, <3>1, <4>1, RetriesAssumption DEF ReadIsBounded
      <3> QED BY <1>5, <2>1, <2>3, <3>1, <3>2, RetriesAssumption
              DEF ReadIsBounded
    <2> QED BY <2>2, <2>3
  <1> QED BY <1>8, <1>9 DEF BoundInv

\* The retry that is written back is one that was about to be.
LEMMA BumpRetryBound ==
  ASSUME Inv, RetryInv, BoundInv, FewHands, NEW w \in Workers, BumpRetry(w)
  PROVE  BoundInv'
  <1> PICK j, l : j = JobOf(w) /\ l = worker[w].loaded.retries
    OBVIOUS
  <1>1. /\ worker[w].pc = "count" /\ j \in Jobs /\ Exists(j)
        /\ l \in Nat /\ job'[j].retries = l + 1
        /\ \A k \in Jobs : k # j => job'[k] = job[k]
    BY BumpedRow
  <1>2. /\ AnyStep(w) /\ ~StartRed(w) /\ NoneInserted
        /\ \A v \in Workers : v # w => worker'[v] = worker[v]
        /\ worker'[w].pc = "graph"
    <2>1. AnyStep(w) /\ ~StartRed(w)
      BY <1>1 DEF AnyStep, WorkerAdvances, StartRed, Completes, At
    <2> QED BY <2>1, WorkerColumns, StepShape, BumpRetryShape
  <1>3. \A k : Racers(k)' \subseteq Racers(k)
    BY <1>2, RacersJoin
  <1>4. /\ w \in Racers(j) /\ IsFiniteSet(Racers(j))
        /\ Cardinality(Racers(j)) \in Nat /\ Overrun \in {0, 1}
        /\ l + Cardinality(Racers(j)) <= MaxRetries + Overrun
    <2>1. w \in Racers(j)
      BY <1>1 DEF Racers, Compared
    <2>2. ReadIsBounded(w, j)
      BY <1>1 DEF BoundInv
    <2> QED BY <2>1, <2>2, RacersAreWorkers, WorkersCount, FewOverrun
            DEF ReadIsBounded
  <1>5. job'[j].retries + Cardinality(Racers(j)') <= MaxRetries + Overrun
    <2>1. w \notin Racers(j)'
      BY <1>2 DEF Racers, Compared
    <2>2. /\ Cardinality(Racers(j) \ {w}) = Cardinality(Racers(j)) - 1
          /\ IsFiniteSet(Racers(j) \ {w})
      BY <1>4, FS_RemoveElement
    <2>3. Racers(j)' \subseteq Racers(j) \ {w}
      BY <1>3, <2>1
    <2>4. /\ Cardinality(Racers(j)') <= Cardinality(Racers(j)) - 1
          /\ IsFiniteSet(Racers(j)')
      BY <2>2, <2>3, FS_Subset
    <2>5. Cardinality(Racers(j)') \in Nat
      BY <2>4, FS_CardinalityType
    <2> QED BY <1>1, <1>4, <2>4, <2>5, RetriesAssumption
  <1>6. ASSUME NEW k \in Jobs, Exists(k)
        PROVE  job'[k].retries + Cardinality(Racers(k)') <= MaxRetries + Overrun
    <2>1. CASE k # j
      <3>1. job'[k] = job[k] /\ job[k].retries \in Nat
        BY <1>1, <1>6, <2>1 DEF Inv, TypeOK, Exists, Row
      <3>2. job[k].retries + Cardinality(Racers(k)) <= MaxRetries + Overrun
        BY <1>6 DEF BoundInv, RetriesBounded
      <3> QED BY <1>3, <3>1, <3>2, FewerRetries
    <2> QED BY <1>5, <2>1
  <1>7. RetriesBounded'
    BY <1>2, <1>6 DEF RetriesBounded, NoneInserted, Exists
  <1>8. ASSUME NEW v \in Workers, NEW k \in Jobs, worker'[v].pc = "count",
               JobOf(v)' = k
        PROVE  ReadIsBounded(v, k)'
    <2>1. v # w /\ worker'[v] = worker[v]
      BY <1>2, <1>8
    <2>2. /\ v \in Racers(k) /\ worker[v].loaded.retries \in Nat
          /\ ReadIsBounded(v, k)
          /\ worker'[v].loaded.retries + Cardinality(Racers(k)')
               <= MaxRetries + Overrun
      BY <1>3, <1>8, <2>1, OtherReader
    <2>3. CASE k # j
      <3>1. job'[k] = job[k]
        BY <1>1, <2>3
      <3> QED BY <2>1, <2>2, <3>1 DEF ReadIsBounded
    <2>4. CASE k = j
      <3>1. Cardinality(Racers(j)) >= 2
        BY <1>4, <2>1, <2>2, <2>4, RacersAreFew
      <3>2. worker[v].loaded.retries < MaxRetries
        BY <1>4, <2>2, <2>4, <3>1, RetriesAssumption DEF ReadIsBounded
      <3> QED BY <2>1, <2>2, <3>2 DEF ReadIsBounded
    <2> QED BY <2>3, <2>4
  <1> QED BY <1>7, <1>8 DEF BoundInv

\* A request for a retry starts the count again, or leaves it.
LEMMA OtherStepsBound ==
  ASSUME Inv, RetryInv, BoundInv, FewHands, GitHubStep \/ RouterStep \/ ApiStep
  PROVE  BoundInv'
  <1>1. UNCHANGED worker
    BY OtherSteps
  <1>2. \A k : Racers(k)' = Racers(k)
    BY <1>1 DEF Racers, Compared, JobOf
  <1>3. ASSUME \A k \in Jobs : Exists(k) => job'[k].retries = job[k].retries,
               \A k \in Jobs : Exists(k)' /\ ~Exists(k) =>
                 job'[k].retries = 0 /\ Racers(k) = {}
        PROVE  BoundInv'
    <2>1. ASSUME NEW k \in Jobs, Exists(k)'
          PROVE  job'[k].retries + Cardinality(Racers(k)') <= MaxRetries + Overrun
      <3>1. CASE Exists(k)
        BY <1>2, <1>3, <3>1 DEF BoundInv, RetriesBounded
      <3>2. CASE ~Exists(k)
        <4>1. Cardinality(Racers(k)') = 0 /\ Overrun \in Nat
          BY <1>2, <1>3, <2>1, <3>2, FS_EmptySet, WorkersCount
        <4> QED BY <1>3, <2>1, <3>2, <4>1, RetriesAssumption
      <3> QED BY <3>1, <3>2
    <2>2. ASSUME NEW v \in Workers, NEW j \in Jobs, worker'[v].pc = "count",
                 JobOf(v)' = j
          PROVE  ReadIsBounded(v, j)'
      <3>1. Exists(j) /\ ReadIsBounded(v, j)
        BY <1>1, <1>2, <2>2, OtherReader
      <3> QED BY <1>1, <1>2, <1>3, <3>1 DEF ReadIsBounded
    <2> QED BY <2>1, <2>2 DEF BoundInv, RetriesBounded
  <1>4. CASE UNCHANGED job
    BY <1>3, <1>4 DEF Exists
  <1>5. ASSUME NEW h \in Handlers, InsertJob(h), ~UNCHANGED job
        PROVE  BoundInv'
    <2>1. PICK j \in Jobs :
            /\ job[j] = None
            /\ job'[j] = NewRow(router[h].run)
            /\ \A k \in Jobs : k # j => job'[k] = job[k]
      BY <1>5, InsertedRow
    <2>2. job'[j].retries = 0
      BY <2>1 DEF NewRow
    <2>3. Racers(j) = {}
      BY <2>1 DEF Racers, Compared, JobOf, Inv, NothingDangles,
                  WorkersHaveJobs, Exists
    <2> QED BY <1>3, <2>1, <2>2, <2>3 DEF Exists
  <1>6. ASSUME NEW c \in Clients, RetryCommits(c)
        PROVE  BoundInv'
    <2> PICK j, loaded : j = client[c].job /\ loaded = client[c].loaded
      OBVIOUS
    <2>1. /\ j \in Jobs /\ Exists(j) /\ job[j] \in Row
          /\ job'[j].retries = IF loaded.retries = 0 THEN job[j].retries
                                                     ELSE 0
          /\ \A k \in Jobs : k # j => job'[k] = job[k]
      BY <1>6, RetryRow
    <2>2. job[j].retries \in Nat
      BY <2>1 DEF Row
    <2>3. job'[j].retries \in Nat /\ job'[j].retries <= job[j].retries
      BY <2>1, <2>2
    <2>4. Overrun = 0
      BY <1>6, FewOverrun
    <2>5. ASSUME NEW k \in Jobs, Exists(k)'
          PROVE  job'[k].retries + Cardinality(Racers(k)') <= MaxRetries + Overrun
      <3>1. CASE k # j
        BY <1>2, <2>1, <2>5, <3>1 DEF BoundInv, RetriesBounded, Exists
      <3>2. CASE k = j
        <4>1. job[j].retries + Cardinality(Racers(j)) <= MaxRetries + Overrun
          BY <2>1 DEF BoundInv, RetriesBounded
        <4> QED BY <1>2, <2>2, <2>3, <3>2, <4>1, FewerRetries
      <3> QED BY <3>1, <3>2
    <2>6. ASSUME NEW v \in Workers, NEW k \in Jobs, worker'[v].pc = "count",
                 JobOf(v)' = k
          PROVE  ReadIsBounded(v, k)'
      <3>1. /\ v \in Racers(k) /\ worker[v].loaded.retries \in Nat
            /\ worker'[v].loaded.retries + Cardinality(Racers(k)')
                 <= MaxRetries + Overrun
        BY <1>1, <1>2, <2>6, OtherReader
      <3>2. IsFiniteSet(Racers(k)) /\ Cardinality(Racers(k)) \in Nat
        BY RacersAreWorkers, WorkersCount
      <3>3. Cardinality(Racers(k)) # 0
        BY <3>1, <3>2, FS_EmptySet
      <3>4. worker[v].loaded.retries < MaxRetries
        BY <1>1, <1>2, <2>4, <3>1, <3>2, <3>3, RetriesAssumption
      <3> QED BY <1>1, <3>1, <3>4 DEF ReadIsBounded
    <2> QED BY <2>5, <2>6 DEF BoundInv, RetriesBounded
  <1> QED BY <1>4, <1>5, <1>6, OtherSteps

LEMMA NextBound ==
  ASSUME Inv, RetryInv, BoundInv, FewHands, [Next]_vars
  PROVE  BoundInv'
  <1>1. CASE GitHubStep \/ RouterStep \/ ApiStep
    BY <1>1, OtherStepsBound
  <1>2. CASE WorkerStep
    BY <1>2, QuietBound, StartRedBound, BumpRetryBound DEF WorkerStep, AnyStep
  <1>3. CASE UNCHANGED vars
    BY <1>3 DEF vars, dbVars, BoundInv, RetriesBounded, ReadIsBounded, Racers,
                Compared, JobOf, Exists
  <1> QED BY <1>1, <1>2, <1>3 DEF Next

\* BoundInv holds in every reachable state, as every action keeps it.
THEOREM BoundInvHolds ==
  ASSUME FewHands
  PROVE  Spec => []BoundInv
  <1>1. Init => BoundInv
    BY DEF Init, BoundInv, RetriesBounded, Exists, IdleWorker
  <1>2. Inv /\ RetryInv /\ BoundInv /\ [Next]_vars => BoundInv'
    BY NextBound
  <1> QED BY <1>1, <1>2, InvHolds, RetryInvHolds, PTL DEF Spec

\* orchestrator.py:153 and 176, for one worker and any retries by hand, or for
\* two workers: however they compare the counter with the limit, read it and
\* write back what they have read, it passes the limit by at most one for the
\* second worker.
THEOREM RetriesStayBounded ==
  ASSUME FewHands
  PROVE  Spec => []RetriesBounded
  <1>1. BoundInv => RetriesBounded
    BY DEF BoundInv
  <1> QED BY <1>1, BoundInvHolds, PTL

-----------------------------------------------------------------------------
(* A CI run is counted once *)

\* A completion is about an ended run whose lock is held, and red if it says
\* so.
AboutRun(t, held, failed) ==
  t.fn = "completion" =>
    /\ t.run \in held
    /\ t.run.job = t.job
    /\ t.concl = "failure" => t.run \in failed

\* A run has one completion, in the queue or in the hands of a worker.
SameRun(t, u) ==
  t.fn = "completion" /\ u.fn = "completion" /\ t.run = u.run

Busy(w) == worker[w].pc # "idle"

QueuedOnce ==
  /\ \A i \in DOMAIN queue : AboutRun(queue[i], locks, red)
  /\ \A i, k \in DOMAIN queue : SameRun(queue[i], queue[k]) => i = k

TakenOnce ==
  /\ \A w \in Workers : Busy(w) => AboutRun(worker[w].task, locks, red)
  /\ \A w \in Workers : Busy(w) =>
       \A i \in DOMAIN queue : ~SameRun(worker[w].task, queue[i])
  /\ \A v, w \in Workers :
       Busy(v) /\ Busy(w) /\ SameRun(worker[v].task, worker[w].task) => v = w

\* A retry and an escalation follow a red run.
AfterRed ==
  \A w \in Workers : worker[w].pc \in {"red", "bump", "count"} =>
    worker[w].task.fn = "completion" /\ worker[w].task.concl = "failure"

\* Inductive, relative to Inv, as long as locks do not expire.
OnceInv == QueuedOnce /\ TakenOnce /\ AfterRed /\ IsFiniteSet(red)

LocksKept ==
  /\ \A r \in RunIds : r \in locks => r \in locks'
  /\ red \subseteq red'

\* The lock that a handler gives back is that of a developer's run.
LEMMA StepKeepsLocks ==
  ASSUME Inv, Next, "expiry" \notin Faults
  PROVE  LocksKept
  <1>1. CASE GitHubStep
    BY <1>1 DEF GitHubStep, DevRunFails, RunEnds, Redeliver, LoseHook,
                redisVars, LocksKept
  <1>2. CASE RouterStep
    <2>1. UNCHANGED red
      BY <1>2 DEF RouterStep, ReceiveFailure, SelectExisting, InsertJob,
                  EnqueueInitial, IntakeRaises, HandlerCrashes, LockExpires,
                  DeliverCompletion, ReceiveCompletion, ciVars
    <2>2. \/ locks \subseteq locks'
          \/ \E h \in Handlers : router[h].pc # "idle"
                                 /\ locks' = locks \ {router[h].run}
      BY <1>2 DEF RouterStep, ReceiveFailure, SelectExisting, InsertJob,
                  EnqueueInitial, IntakeRaises, HandlerCrashes, LockExpires,
                  DeliverCompletion, ReceiveCompletion, HandlerAt, redisVars
    <2>3. \A h \in Handlers : router[h].pc # "idle" =>
                                router[h].run \notin RunIds
      BY RunsApart DEF Inv, NothingDangles, HandlersHaveJobs
    <2> QED BY <2>1, <2>2, <2>3 DEF LocksKept
  <1>3. CASE ApiStep
    BY <1>3 DEF ApiStep, RetryReads, RetryCommits, RetryEnqueues, RetryFails,
                redisVars, ciVars, LocksKept
  <1>4. CASE WorkerStep
    <2>1. UNCHANGED <<locks, red>>
      BY <1>4 DEF WorkerStep, WorkerAdvances, TakeTask, StartInitial,
           StartGreen, StartExhausted, StartRed, StampRed, ReadRetries,
           BumpRetry, DropOut,
           PushPatch, RecordAttempt, RejectPatch, FetchInternal, PushClean,
           OpenPR, CommitPR, Escalate, Raise, WorkerCrashes, redisVars, ciVars
    <2> QED BY <2>1 DEF LocksKept
  <1> QED BY <1>1, <1>2, <1>3, <1>4 DEF Next

LEMMA AboutRunStays ==
  ASSUME NEW t \in Tasks, AboutRun(t, locks, red), LocksKept
  PROVE  AboutRun(t, locks', red')
  BY TaskFields DEF AboutRun, LocksKept

LEMMA RedIsFinite ==
  ASSUME IsFiniteSet(red), Next
  PROVE  IsFiniteSet(red')
  <1>1. UNCHANGED red \/ \E r : red' = red \union {r}
    <2>1. CASE GitHubStep
      BY <2>1 DEF GitHubStep, DevRunFails, RunEnds, Redeliver, LoseHook
    <2>2. CASE RouterStep
      BY <2>2 DEF RouterStep, ReceiveFailure, SelectExisting, InsertJob,
                  EnqueueInitial, IntakeRaises, HandlerCrashes, LockExpires,
                  DeliverCompletion, ReceiveCompletion, ciVars
    <2>3. CASE ApiStep
      BY <2>3 DEF ApiStep, RetryReads, RetryCommits, RetryEnqueues,
                  RetryFails, ciVars
    <2>4. CASE WorkerStep
      BY <2>4 DEF WorkerStep, WorkerAdvances, TakeTask, StartInitial,
           StartGreen, StartExhausted, StartRed, StampRed, ReadRetries,
           BumpRetry, DropOut,
           PushPatch, RecordAttempt, RejectPatch, FetchInternal, PushClean,
           OpenPR, CommitPR, Escalate, Raise, WorkerCrashes, ciVars
    <2> QED BY <2>1, <2>2, <2>3, <2>4 DEF Next
  <1> QED BY <1>1, FS_AddElement

\* A task is in the queue or with one worker, and goes from the one to the
\* other.
LEMMA AnyStepOnce ==
  ASSUME Inv, OnceInv, NEW w \in Workers, AnyStep(w), LocksKept
  PROVE  QueuedOnce' /\ TakenOnce' /\ AfterRed'
  <1>1. \A t \in Tasks : AboutRun(t, locks, red) => AboutRun(t, locks', red')
    BY AboutRunStays
  <1>2. \A i \in DOMAIN queue : queue[i] \in Tasks /\ AboutRun(queue[i], locks, red)
    BY DEF Inv, TypeOK, OnceInv, QueuedOnce
  <1>3. \A v \in Workers : Busy(v) => worker[v].task \in Tasks
                                      /\ AboutRun(worker[v].task, locks, red)
    BY WorkersJob DEF Inv, OnceInv, TakenOnce, Busy
  <1>4. \A v \in Workers : v # w => worker'[v] = worker[v]
    BY StepShape
  <1>5. CASE TakeTask(w)
    <2>1. /\ worker'[w].pc = "start" /\ worker'[w].task = queue[1]
          /\ 1 \in DOMAIN queue /\ queue[1] \in Tasks
          /\ DOMAIN queue' \subseteq Nat
          /\ \A i \in DOMAIN queue' : /\ i + 1 \in DOMAIN queue
                                      /\ i + 1 # 1
                                      /\ queue'[i] = queue[i + 1]
      BY <1>5, TakenTask
    <2>2. QueuedOnce'
      <3>1. \A i \in DOMAIN queue' : AboutRun(queue'[i], locks', red')
        BY <1>1, <1>2, <2>1
      <3>2. ASSUME NEW i \in DOMAIN queue', NEW k \in DOMAIN queue',
                   SameRun(queue'[i], queue'[k])
            PROVE  i = k
        <4>1. i + 1 = k + 1
          BY <2>1, <3>2 DEF OnceInv, QueuedOnce
        <4> QED BY <2>1, <4>1
      <3> QED BY <3>1, <3>2 DEF QueuedOnce
    <2>3. TakenOnce'
      <3>1. ASSUME NEW v \in Workers, Busy(v)'
            PROVE  AboutRun(worker'[v].task, locks', red')
        BY <1>1, <1>2, <1>3, <1>4, <2>1, <3>1 DEF Busy
      <3>2. ASSUME NEW v \in Workers, Busy(v)', NEW i \in DOMAIN queue',
                   SameRun(worker'[v].task, queue'[i])
            PROVE  FALSE
        <4>1. CASE v = w
          BY <2>1, <3>2, <4>1 DEF OnceInv, QueuedOnce
        <4>2. CASE v # w
          BY <1>4, <2>1, <3>2, <4>2 DEF OnceInv, TakenOnce, Busy
        <4> QED BY <4>1, <4>2
      <3>3. ASSUME NEW v \in Workers, NEW u \in Workers, Busy(v)', Busy(u)',
                   SameRun(worker'[v].task, worker'[u].task), v # u
            PROVE  FALSE
        <4>1. CASE v # w /\ u # w
          BY <1>4, <3>3, <4>1 DEF OnceInv, TakenOnce, Busy
        <4>2. CASE v = w \/ u = w
          BY <1>4, <2>1, <3>3, <4>2 DEF OnceInv, TakenOnce, Busy, SameRun
        <4> QED BY <4>1, <4>2
      <3> QED BY <3>1, <3>2, <3>3 DEF TakenOnce
    <2>4. AfterRed'
      BY <1>4, <2>1 DEF OnceInv, AfterRed
    <2> QED BY <2>2, <2>3, <2>4
  <1>6. CASE ~TakeTask(w)
    <2>1. /\ UNCHANGED queue
          /\ \A v \in Workers : Busy(v)' =>
               Busy(v) /\ worker'[v].task = worker[v].task
      BY <1>4, <1>6, StepShape, GoesOnShape, DoneMoves DEF Busy
    <2>2. QueuedOnce'
      <3>1. \A i \in DOMAIN queue' : AboutRun(queue'[i], locks', red')
        BY <1>1, <1>2, <2>1
      <3> QED BY <2>1, <3>1 DEF OnceInv, QueuedOnce, SameRun
    <2>3. TakenOnce'
      <3>1. ASSUME NEW v \in Workers, Busy(v)'
            PROVE  AboutRun(worker'[v].task, locks', red')
        BY <1>1, <1>3, <2>1, <3>1
      <3> QED BY <2>1, <3>1 DEF OnceInv, TakenOnce, SameRun
    <2>4. AfterRed'
      <3>1. ASSUME worker'[w].pc \in {"red", "bump", "count"}
            PROVE  /\ worker'[w].task.fn = "completion"
                   /\ worker'[w].task.concl = "failure"
        <4>1. /\ StartRed(w) \/ StampRed(w) \/ ReadRetries(w)
              /\ worker'[w].task = worker[w].task
          BY <1>6, <3>1, StepShape, GoesOnShape, DoneMoves DEF LeadsTo
        <4> QED BY <4>1 DEF StartRed, Completes, StampRed, ReadRetries, At,
                            OnceInv, AfterRed
      <3> QED BY <1>4, <3>1 DEF OnceInv, AfterRed
    <2> QED BY <2>2, <2>3, <2>4
  <1> QED BY <1>5, <1>6

\* A completion is enqueued by whoever gets the lock of its run.
LEMMA OtherStepsOnce ==
  ASSUME Inv, OnceInv, GitHubStep \/ RouterStep \/ ApiStep, LocksKept
  PROVE  QueuedOnce' /\ TakenOnce' /\ AfterRed'
  <1>1. \A t \in Tasks : AboutRun(t, locks, red) => AboutRun(t, locks', red')
    BY AboutRunStays
  <1>2. \A i \in DOMAIN queue : queue[i] \in Tasks /\ AboutRun(queue[i], locks, red)
    BY DEF Inv, TypeOK, OnceInv, QueuedOnce
  <1>3. \A v \in Workers : Busy(v) => worker[v].task \in Tasks
                                      /\ AboutRun(worker[v].task, locks, red)
    BY WorkersJob DEF Inv, OnceInv, TakenOnce, Busy
  <1>4. UNCHANGED worker
    BY OtherSteps
  <1>5. AfterRed'
    BY <1>4 DEF OnceInv, AfterRed
  <1>6. \A v \in Workers : Busy(v)' => AboutRun(worker'[v].task, locks', red')
    BY <1>1, <1>3, <1>4 DEF Busy
  <1>7. CASE UNCHANGED queue
    <2>1. \A i \in DOMAIN queue' : AboutRun(queue'[i], locks', red')
      BY <1>1, <1>2, <1>7
    <2> QED BY <1>4, <1>5, <1>6, <1>7, <2>1
            DEF OnceInv, QueuedOnce, TakenOnce, SameRun, Busy
  <1>8. ASSUME NEW t \in Tasks, queue' = Append(queue, t), AboutRun(t, locks', red'),
               t.fn = "completion" => t.run \notin locks
        PROVE  QueuedOnce' /\ TakenOnce' /\ AfterRed'
    <2>1. /\ \A i \in DOMAIN queue : queue'[i] = queue[i]
          /\ queue'[Len(queue) + 1] = t
          /\ \A i \in DOMAIN queue' :
               i \in DOMAIN queue \/ i = Len(queue) + 1
      BY <1>8, AppendedTask
    <2>2. \A i \in DOMAIN queue : ~SameRun(queue[i], t) /\ ~SameRun(t, queue[i])
      BY <1>2, <1>8 DEF SameRun, AboutRun
    <2>3. \A v \in Workers : Busy(v) => ~SameRun(worker[v].task, t)
      BY <1>3, <1>8 DEF SameRun, AboutRun
    <2>4. QueuedOnce'
      <3>1. \A i \in DOMAIN queue' : AboutRun(queue'[i], locks', red')
        BY <1>1, <1>2, <1>8, <2>1
      <3>2. \A i, k \in DOMAIN queue' : SameRun(queue'[i], queue'[k]) => i = k
        BY <2>1, <2>2 DEF OnceInv, QueuedOnce
      <3> QED BY <3>1, <3>2 DEF QueuedOnce, SameRun
    <2>5. TakenOnce'
      BY <1>4, <1>6, <2>1, <2>3 DEF OnceInv, TakenOnce, SameRun, Busy
    <2> QED BY <1>5, <2>4, <2>5
  <1>9. ASSUME NEW j \in Jobs, queue' = Append(queue, InitialTask(j))
        PROVE  QueuedOnce' /\ TakenOnce' /\ AfterRed'
    <2>1. InitialTask(j) \in Tasks /\ InitialTask(j).fn = "initial"
      BY InitialTaskIsTask
    <2> QED BY <1>8, <1>9, <2>1 DEF AboutRun
  <1>10. ASSUME NEW r \in RunIds, LockIsFree(r), r \in Ended,
                CompletionTask(r.job, r, Conclusion(r)) \in Tasks,
                queue' = Append(queue, CompletionTask(r.job, r, Conclusion(r))),
                locks' = locks \union {r}
         PROVE  QueuedOnce' /\ TakenOnce' /\ AfterRed'
    <2> PICK t \in Tasks : t = CompletionTask(r.job, r, Conclusion(r))
      BY <1>10
    <2>1. /\ t.fn = "completion" /\ t.run = r /\ t.job = r.job
          /\ t.concl = Conclusion(r)
      BY DEF CompletionTask
    <2>2. Conclusion(r) = "failure" => r \in red'
      BY <1>10 DEF Conclusion, Ended, LocksKept
    <2>3. AboutRun(t, locks', red')
      BY <1>10, <2>1, <2>2 DEF AboutRun
    <2> QED BY <1>8, <1>10, <2>1, <2>3 DEF LockIsFree
  <1> QED BY <1>7, <1>9, <1>10, EnqueueSteps DEF EnqueueInitial, RetryEnqueues

-----------------------------------------------------------------------------
(* Every retry that is counted is that of a red run *)

\* A worker that has a verdict and has not counted the retry it leads to.
Uncounted == {"start", "red", "bump", "count"}

\* A run whose completion waits, or has led to no retry yet.
Pending(r) ==
  \/ \E i \in DOMAIN queue : queue[i].fn = "completion" /\ queue[i].run = r
  \/ \E w \in Workers : /\ worker[w].pc \in Uncounted
                        /\ worker[w].task.fn = "completion"
                        /\ worker[w].task.run = r

\* The red runs of j that have led to a retry, or to none ever.
Counted(j) == {r \in red : r.job = j /\ r \in locks /\ ~Pending(r)}

\* The inductive invariant, relative to Inv, AttemptInv and RetryInv.
EscalationInv ==
  /\ OnceInv
  /\ \A j \in Jobs : Exists(j) => job[j].retries <= Cardinality(Counted(j))
  /\ \A v \in Workers : \A j \in Jobs :
       worker[v].pc = "count" /\ JobOf(v) = j =>
         worker[v].loaded.retries <= Cardinality(Counted(j))
  /\ \A w \in Workers : worker[w].pc = "escalate" =>
       Cardinality(RedRuns(JobOf(w))) > MaxRetries
  /\ EscalationEarned

LEMMA CountedFinite ==
  ASSUME IsFiniteSet(red), NEW j
  PROVE  /\ IsFiniteSet(Counted(j)) /\ IsFiniteSet(RedRuns(j))
         /\ Cardinality(Counted(j)) \in Nat
         /\ Cardinality(RedRuns(j)) \in Nat
         /\ Counted(j) \subseteq RedRuns(j)
  <1>1. Counted(j) \subseteq red /\ RedRuns(j) \subseteq red
        /\ Counted(j) \subseteq RedRuns(j)
    BY DEF Counted, RedRuns
  <1>2. IsFiniteSet(Counted(j)) /\ IsFiniteSet(RedRuns(j))
    BY <1>1, FS_Subset
  <1> QED BY <1>1, <1>2, FS_CardinalityType

\* Only a run whose lock was free gets to wait.
LEMMA NothingWaitsAgain ==
  ASSUME Inv, Next, NEW r \in RunIds, r \in locks, Pending(r)'
  PROVE  Pending(r)
  <1>1. CASE GitHubStep \/ RouterStep \/ ApiStep
    <2>1. UNCHANGED worker
      BY <1>1, OtherSteps
    <2>2. ASSUME NEW t \in Tasks, queue' = Append(queue, t),
                 ~(t.fn = "completion" /\ t.run = r)
          PROVE  Pending(r)
      <3>1. /\ \A i \in DOMAIN queue : queue'[i] = queue[i]
            /\ queue'[Len(queue) + 1] = t
            /\ \A i \in DOMAIN queue' :
                 i \in DOMAIN queue \/ i = Len(queue) + 1
        BY <2>2, AppendedTask
      <3> QED BY <2>1, <2>2, <3>1 DEF Pending
    <2>3. ASSUME NEW j \in Jobs, queue' = Append(queue, InitialTask(j))
          PROVE  Pending(r)
      <3>1. InitialTask(j) \in Tasks /\ InitialTask(j).fn = "initial"
        BY InitialTaskIsTask
      <3> QED BY <2>2, <2>3, <3>1
    <2>4. ASSUME NEW s \in RunIds, LockIsFree(s),
                 CompletionTask(s.job, s, Conclusion(s)) \in Tasks,
                 queue' = Append(queue, CompletionTask(s.job, s, Conclusion(s)))
          PROVE  Pending(r)
      <3>1. CompletionTask(s.job, s, Conclusion(s)).run # r
        BY <2>4 DEF CompletionTask, LockIsFree
      <3> QED BY <2>2, <2>4, <3>1
    <2>5. CASE UNCHANGED queue
      BY <2>1, <2>5 DEF Pending
    <2> QED BY <1>1, <2>3, <2>4, <2>5, EnqueueSteps
            DEF EnqueueInitial, RetryEnqueues
  <1>2. ASSUME NEW w \in Workers, AnyStep(w) PROVE Pending(r)
    <2>1. \A v \in Workers : v # w => worker'[v] = worker[v]
      BY <1>2, StepShape
    <2>2. CASE TakeTask(w)
      <3>1. /\ worker'[w].task = queue[1] /\ 1 \in DOMAIN queue
            /\ \A i \in DOMAIN queue' : /\ i + 1 \in DOMAIN queue
                                        /\ queue'[i] = queue[i + 1]
        BY <2>2, TakenTask
      <3> QED BY <2>1, <3>1 DEF Pending
    <2>3. CASE ~TakeTask(w)
      <3>1. UNCHANGED queue
        BY <1>2, <2>3, StepShape, GoesOnShape
      <3>2. worker'[w].pc \in Uncounted =>
              worker[w].pc \in Uncounted /\ worker'[w].task = worker[w].task
        <4>1. CASE Done(w)
          BY <4>1, DoneMoves DEF Uncounted
        <4>2. CASE GoesOn(w)
          BY <4>2, GoesOnShape
          DEF LeadsTo, Uncounted, StartRed, StampRed, ReadRetries, Completes, At
        <4> QED BY <1>2, <2>3, <4>1, <4>2, StepShape
      <3> QED BY <2>1, <3>1, <3>2 DEF Pending
    <2> QED BY <2>2, <2>3
  <1> QED BY <1>1, <1>2 DEF Next, WorkerStep, AnyStep

LEMMA CountedGrow ==
  ASSUME Inv, Next, LocksKept, NEW j
  PROVE  Counted(j) \subseteq Counted(j)' /\ RedRuns(j) \subseteq RedRuns(j)'
  <1>1. red \subseteq RunIds
    BY DEF Inv, TypeOK
  <1> QED BY <1>1, NothingWaitsAgain DEF Counted, RedRuns, LocksKept

\* A retry that is counted is that of one more run, and an exhausted job has one
\* red run that led to none.
LEMMA RunInHand ==
  ASSUME Inv, OnceInv, NEW w \in Workers, worker[w].pc \in Uncounted,
         worker[w].task.fn = "completion", worker[w].task.concl = "failure"
  PROVE  LET r == worker[w].task.run IN
         /\ r \in RunIds /\ r \in red /\ r \in locks /\ r.job = JobOf(w)
         /\ r \in RedRuns(JobOf(w)) /\ r \notin Counted(JobOf(w))
  <1>1. Busy(w)
    BY DEF Busy, Uncounted
  <1>2. AboutRun(worker[w].task, locks, red)
    BY <1>1 DEF OnceInv, TakenOnce
  <1>3. red \subseteq RunIds
    BY DEF Inv, TypeOK
  <1> QED BY <1>2, <1>3 DEF AboutRun, RedRuns, Counted, Pending, JobOf

\* What was counted stays counted when nothing new is.
LEMMA NoMoreRetries ==
  ASSUME Inv, EscalationInv, Next, LocksKept, NEW j,
         NEW c \in Nat, NEW d \in Nat, d <= c, c <= Cardinality(Counted(j))
  PROVE  d <= Cardinality(Counted(j)')
  <1>1. IsFiniteSet(red) /\ IsFiniteSet(red')
    BY RedIsFinite DEF EscalationInv, OnceInv
  <1>2. IsFiniteSet(Counted(j)) /\ Cardinality(Counted(j)) \in Nat
    BY <1>1, CountedFinite
  <1>3. IsFiniteSet(Counted(j)')
    BY <1>1, FS_Subset DEF Counted
  <1>4. Counted(j) \subseteq Counted(j)'
    BY CountedGrow
  <1>5. Cardinality(Counted(j)) <= Cardinality(Counted(j)')
        /\ Cardinality(Counted(j)') \in Nat
    BY <1>3, <1>4, FS_Subset, FS_CardinalityType
  <1> QED BY <1>2, <1>5

\* The counter of a job that there is.
LEMMA CounterIsCounted ==
  ASSUME Inv, EscalationInv, NEW j \in Jobs, Exists(j)
  PROVE  job[j].retries \in Nat /\ job[j].retries <= Cardinality(Counted(j))
  BY DEF EscalationInv, Inv, TypeOK, Exists, Row

\* The red runs of a job become no fewer.
LEMMA MoreRedRuns ==
  ASSUME Inv, EscalationInv, Next, LocksKept, NEW j,
         Cardinality(RedRuns(j)) > MaxRetries
  PROVE  Cardinality(RedRuns(j)') > MaxRetries
  <1>1. IsFiniteSet(red) /\ IsFiniteSet(red')
    BY RedIsFinite DEF EscalationInv, OnceInv
  <1>2. Cardinality(RedRuns(j)) \in Nat
    BY <1>1, CountedFinite
  <1>3. IsFiniteSet(RedRuns(j)')
    BY <1>1, FS_Subset DEF RedRuns
  <1>4. RedRuns(j) \subseteq RedRuns(j)'
    BY CountedGrow
  <1>5. Cardinality(RedRuns(j)) <= Cardinality(RedRuns(j)')
        /\ Cardinality(RedRuns(j)') \in Nat
    BY <1>3, <1>4, FS_Subset, FS_CardinalityType
  <1> QED BY <1>2, <1>5, RetriesAssumption

\* The run of a retry leaves the hands of its worker, and is in no others.
LEMMA BumpedIsCounted ==
  ASSUME Inv, RetryInv, EscalationInv, Next, LocksKept, NEW w \in Workers,
         BumpRetry(w), NEW j, j = JobOf(w)
  PROVE  job'[j].retries <= Cardinality(Counted(j)')
  <1> PICK r : r = worker[w].task.run
    OBVIOUS
  <1>1. /\ worker[w].pc = "count" /\ j \in Jobs /\ Exists(j)
        /\ worker[w].loaded.retries \in Nat
        /\ job'[j].retries = worker[w].loaded.retries + 1
    BY BumpedRow
  <1>2. worker[w].task.fn = "completion" /\ worker[w].task.concl = "failure"
    BY <1>1 DEF EscalationInv, OnceInv, AfterRed
  <1>3. /\ r \in RunIds /\ r \in red /\ r \in locks /\ r.job = j
        /\ r \notin Counted(j)
    BY <1>1, <1>2, RunInHand DEF EscalationInv, Uncounted
  <1>4. ~Pending(r)'
    <2>1. /\ worker'[w].pc = "graph" /\ UNCHANGED queue
          /\ \A v \in Workers : v # w => worker'[v] = worker[v]
      <3>1. AnyStep(w)
        BY DEF AnyStep, WorkerAdvances
      <3>2. worker \in [Workers -> WorkerStates]
        BY DEF Inv, TypeOK
      <3>3. worker'[w].pc = "graph" /\ UNCHANGED queue
        BY <3>2 DEF BumpRetry, redisVars, WorkerStates
      <3> QED BY <3>1, <3>3, StepShape
    <2>2. \A i \in DOMAIN queue :
            ~(queue[i].fn = "completion" /\ queue[i].run = r)
      BY <1>1, <1>2 DEF EscalationInv, OnceInv, TakenOnce, Busy, SameRun
    <2>3. \A v \in Workers : v # w /\ worker[v].pc \in Uncounted =>
            ~(worker[v].task.fn = "completion" /\ worker[v].task.run = r)
      BY <1>1, <1>2
      DEF EscalationInv, OnceInv, TakenOnce, Busy, SameRun, Uncounted
    <2>4. "graph" \notin Uncounted
      BY DEF Uncounted
    <2> QED BY <2>1, <2>2, <2>3, <2>4 DEF Pending
  <1>5. r \in Counted(j)'
    BY <1>3, <1>4 DEF Counted, LocksKept
  <1>6. IsFiniteSet(red) /\ IsFiniteSet(red')
    BY RedIsFinite DEF EscalationInv, OnceInv
  <1>7. IsFiniteSet(Counted(j)) /\ Cardinality(Counted(j)) \in Nat
    BY <1>6, CountedFinite
  <1>8. IsFiniteSet(Counted(j)')
    BY <1>6, FS_Subset DEF Counted
  <1>9. Counted(j) \union {r} \subseteq Counted(j)'
    BY <1>5, CountedGrow
  <1>10. Cardinality(Counted(j) \union {r}) = Cardinality(Counted(j)) + 1
    BY <1>3, <1>7, FS_AddElement
  <1>11. Cardinality(Counted(j) \union {r}) <= Cardinality(Counted(j)')
    BY <1>8, <1>9, FS_Subset
  <1>12. Cardinality(Counted(j)') \in Nat
    BY <1>8, FS_CardinalityType
  <1>13. worker[w].loaded.retries <= Cardinality(Counted(j))
    BY <1>1 DEF EscalationInv
  <1>14. job'[j].retries <= Cardinality(Counted(j)) + 1
    BY <1>1, <1>7, <1>13
  <1> QED BY <1>1, <1>7, <1>10, <1>11, <1>12, <1>14

\* retry_count >= MAX_RETRIES, and the run at hand has not been counted.
LEMMA ExhaustedByRedRuns ==
  ASSUME Inv, EscalationInv, NEW w \in Workers, StartExhausted(w)
  PROVE  Cardinality(RedRuns(JobOf(w))) > MaxRetries
  <1> PICK j, r : j = JobOf(w) /\ r = worker[w].task.run
    OBVIOUS
  <1>1. /\ worker[w].pc = "start" /\ job[j].retries >= MaxRetries
        /\ worker[w].task.fn = "completion" /\ worker[w].task.concl = "failure"
    BY DEF StartExhausted, Completes, At, RetriesExhausted
  <1>2. j \in Jobs /\ Exists(j) /\ job[j].retries \in Nat
    BY <1>1, WorkersJob, NoneIsNoRow DEF Inv, Exists, Row
  <1>3. r \in RedRuns(j) /\ r \notin Counted(j)
    BY <1>1, RunInHand DEF EscalationInv, Uncounted
  <1>4. IsFiniteSet(red)
    BY DEF EscalationInv, OnceInv
  <1>5. /\ IsFiniteSet(Counted(j)) /\ IsFiniteSet(RedRuns(j))
        /\ Cardinality(Counted(j)) \in Nat /\ Cardinality(RedRuns(j)) \in Nat
        /\ Counted(j) \subseteq RedRuns(j)
    BY <1>4, CountedFinite
  <1>6. Cardinality(Counted(j) \union {r}) = Cardinality(Counted(j)) + 1
    BY <1>3, <1>5, FS_AddElement
  <1>7. Counted(j) \union {r} \subseteq RedRuns(j)
    BY <1>3, <1>5
  <1>8. Cardinality(Counted(j) \union {r}) <= Cardinality(RedRuns(j))
    BY <1>5, <1>7, FS_Subset
  <1>9. job[j].retries <= Cardinality(Counted(j))
    BY <1>2 DEF EscalationInv
  <1> QED BY <1>1, <1>2, <1>5, <1>6, <1>8, <1>9, RetriesAssumption

\* The three parts of EscalationInv beside OnceInv.
LEMMA CountsKept ==
  ASSUME Inv, RetryInv, EscalationInv, Next, LocksKept
  PROVE  \A j \in Jobs : Exists(j)' =>
           job'[j].retries <= Cardinality(Counted(j)')
  <1>1. ASSUME UNCHANGED job, NEW j \in Jobs, Exists(j)'
        PROVE  job'[j].retries <= Cardinality(Counted(j)')
    <2>1. Exists(j) /\ job'[j].retries = job[j].retries
          /\ job[j].retries \in Nat
      BY <1>1 DEF Exists, Inv, TypeOK, Row
    <2> QED BY <2>1, CounterIsCounted, NoMoreRetries
  <1>2. ASSUME NEW h \in Handlers, InsertJob(h), ~UNCHANGED job,
               NEW j \in Jobs, Exists(j)'
        PROVE  job'[j].retries <= Cardinality(Counted(j)')
    <2>1. PICK i \in Jobs :
            /\ job[i] = None
            /\ job'[i] = NewRow(router[h].run)
            /\ \A k \in Jobs : k # i => job'[k] = job[k]
      BY <1>2, InsertedRow
    <2>2. CASE j = i
      <3>1. job'[j].retries = 0
        BY <2>1, <2>2 DEF NewRow
      <3>2. IsFiniteSet(red')
        BY RedIsFinite DEF EscalationInv, OnceInv
      <3>3. IsFiniteSet(Counted(j)')
        BY <3>2, FS_Subset DEF Counted
      <3> QED BY <3>1, <3>3, FS_CardinalityType
    <2>3. CASE j # i
      <3>1. Exists(j) /\ job'[j].retries = job[j].retries
            /\ job[j].retries \in Nat
        BY <1>2, <2>1, <2>3 DEF Exists, Inv, TypeOK, Row
      <3> QED BY <3>1, CounterIsCounted, NoMoreRetries
    <2> QED BY <2>2, <2>3
  <1>3. ASSUME NEW c \in Clients, RetryCommits(c), NEW j \in Jobs, Exists(j)'
        PROVE  job'[j].retries <= Cardinality(Counted(j)')
    <2> PICK k, loaded : k = client[c].job /\ loaded = client[c].loaded
      OBVIOUS
    <2>1. /\ k \in Jobs /\ Exists(k) /\ job[k] \in Row
          /\ job'[k].retries = IF loaded.retries = 0 THEN job[k].retries ELSE 0
          /\ \A i \in Jobs : i # k => job'[i] = job[i]
      BY <1>3, RetryRow
    <2>2. Exists(j) /\ job[j].retries \in Nat
      BY <1>3, <2>1 DEF Exists, Inv, TypeOK, Row
    <2>3. job'[j].retries \in Nat /\ job'[j].retries <= job[j].retries
      BY <2>1, <2>2
    <2> QED BY <2>2, <2>3, CounterIsCounted, NoMoreRetries
  <1>4. ASSUME NEW w \in Workers, AnyStep(w), NEW j \in Jobs, Exists(j)'
        PROVE  job'[j].retries <= Cardinality(Counted(j)')
    <2>1. CASE ~BumpRetry(w) \/ j # JobOf(w)
      <3>1. Exists(j)
        BY <1>4, WorkerColumns DEF NoneInserted, Exists
      <3>2. job'[j].retries = job[j].retries
        BY <1>4, <2>1, <3>1, WorkerColumns, BumpedRow DEF RetriesStay, Exists
      <3>3. job[j].retries \in Nat
        BY <3>1 DEF Exists, Inv, TypeOK, Row
      <3> QED BY <3>1, <3>2, <3>3, CounterIsCounted, NoMoreRetries
    <2> QED BY <2>1, BumpedIsCounted
  <1> QED BY <1>1, <1>2, <1>3, <1>4, OtherSteps DEF Next, WorkerStep, AnyStep

\* What a worker has read is no more than was counted when it read it.
LEMMA ReadsKept ==
  ASSUME Inv, RetryInv, EscalationInv, Next, LocksKept, NEW v \in Workers,
         NEW j \in Jobs, worker'[v].pc = "count", JobOf(v)' = j
  PROVE  worker'[v].loaded.retries <= Cardinality(Counted(j)')
  <1>1. CASE worker'[v] = worker[v]
    <2>1. JobOf(v) = j /\ worker[v].loaded.retries \in Nat
      BY <1>1, Reader DEF JobOf
    <2>2. worker[v].loaded.retries <= Cardinality(Counted(j))
      BY <1>1, <2>1 DEF EscalationInv
    <2> QED BY <1>1, <2>1, <2>2, NoMoreRetries
  <1>2. CASE worker'[v] # worker[v]
    <2>1. PICK w \in Workers : AnyStep(w)
      BY <1>2, OtherSteps DEF Next, WorkerStep, AnyStep
    <2>2. v = w /\ ~Done(w) /\ ~TakeTask(w)
      <3>1. v = w
        BY <1>2, <2>1, StepShape
      <3>2. ~Done(w)
        BY <3>1, DoneMoves
      <3>3. ASSUME TakeTask(w) PROVE worker'[w].pc = "start"
        BY <3>3 DEF TakeTask, Inv, TypeOK, WorkerStates
      <3> QED BY <3>1, <3>2, <3>3
    <2>3. ReadRetries(w)
      BY <2>1, <2>2, StepShape, GoesOnShape DEF LeadsTo
    <2>4. j = JobOf(w) /\ Exists(j) /\ worker'[w].loaded.retries = job[j].retries
      <3>1. j = JobOf(w)
        BY <2>2, <2>3, ReadRetriesShape DEF JobOf
      <3>2. Exists(JobOf(w))
        BY <2>3, ReadRetriesShape, NoneIsNoRow DEF Exists
      <3>3. worker'[w].loaded.retries = job[JobOf(w)].retries
        BY <2>3, ReadRow
      <3> QED BY <3>1, <3>2, <3>3
    <2> QED BY <2>2, <2>4, CounterIsCounted, NoMoreRetries
  <1> QED BY <1>1, <1>2

LEMMA EscalationsKept ==
  ASSUME Inv, EscalationInv, Next, LocksKept
  PROVE  /\ \A w \in Workers : \A j :
              worker'[w].pc = "escalate" /\ worker'[w].task.job = j =>
                Cardinality(RedRuns(j)') > MaxRetries
         /\ EscalationEarned'
  <1>1. \A j : Cardinality(RedRuns(j)) > MaxRetries =>
                 Cardinality(RedRuns(j)') > MaxRetries
    BY MoreRedRuns
  <1>2. \A v \in Workers : \A j :
          worker[v].pc = "escalate" /\ worker[v].task.job = j =>
            Cardinality(RedRuns(j)) > MaxRetries
    BY DEF EscalationInv, JobOf
  <1>3. CASE GitHubStep \/ RouterStep \/ ApiStep
    <2>1. UNCHANGED <<worker, escalated>>
      BY <1>3, OtherSteps
    <2> QED BY <1>1, <1>2, <2>1 DEF EscalationInv, EscalationEarned
  <1>4. ASSUME NEW w \in Workers, AnyStep(w)
        PROVE  /\ \A v \in Workers : \A j :
                    worker'[v].pc = "escalate" /\ worker'[v].task.job = j =>
                      Cardinality(RedRuns(j)') > MaxRetries
               /\ EscalationEarned'
    <2>1. ASSUME NEW v \in Workers, NEW j, worker'[v].pc = "escalate",
                 worker'[v].task.job = j
          PROVE  Cardinality(RedRuns(j)') > MaxRetries
      <3>1. CASE v # w
        <4>1. worker'[v] = worker[v]
          BY <1>4, <3>1, StepShape
        <4> QED BY <1>1, <1>2, <2>1, <4>1
      <3>2. CASE v = w
        <4>1. StartExhausted(w) /\ worker'[w].task = worker[w].task
          <5>1. ~TakeTask(w)
            BY <2>1, <3>2, TakenTask
          <5>2. ~Done(w)
            BY <2>1, <3>2, DoneMoves
          <5>3. GoesOn(w)
            BY <1>4, <5>1, <5>2, StepShape
          <5> QED BY <2>1, <3>2, <5>3, GoesOnShape DEF LeadsTo
        <4>2. j = JobOf(w)
          BY <2>1, <3>2, <4>1 DEF JobOf
        <4>3. Cardinality(RedRuns(j)) > MaxRetries
          BY <4>1, <4>2, ExhaustedByRedRuns
        <4> QED BY <1>1, <4>3
      <3> QED BY <3>1, <3>2
    <2>2. \/ escalated' = escalated
          \/ \E j : /\ worker[w].pc = "escalate" /\ worker[w].task.job = j
                    /\ escalated' = escalated \union {j}
      <3>1. CASE Escalate(w)
        BY <3>1 DEF Escalate, At, JobOf
      <3>2. CASE ~Escalate(w)
        BY <1>4, <3>2
        DEF AnyStep, WorkerAdvances, TakeTask, StartInitial, StartGreen,
            StartExhausted, StartRed, StampRed, ReadRetries, BumpRetry, DropOut,
            PushPatch,
            RecordAttempt, RejectPatch, FetchInternal, PushClean, OpenPR,
            CommitPR, Raise, WorkerCrashes, repoVars
      <3> QED BY <3>1, <3>2
    <2>3. \A j \in escalated' : Cardinality(RedRuns(j)) > MaxRetries
      BY <1>2, <2>2 DEF EscalationInv, EscalationEarned
    <2>4. EscalationEarned'
      BY <1>1, <2>3 DEF EscalationEarned
    <2> QED BY <2>1, <2>4
  <1> QED BY <1>3, <1>4 DEF Next, WorkerStep, AnyStep

LEMMA InitEscalation ==
  ASSUME Init
  PROVE  EscalationInv
  <1>1. IsFiniteSet(red)
    BY FS_EmptySet DEF Init
  <1>2. OnceInv
    BY <1>1 DEF Init, OnceInv, QueuedOnce, TakenOnce, AfterRed, Busy,
                IdleWorker
  <1> QED BY <1>2 DEF Init, EscalationInv, EscalationEarned, Exists, IdleWorker

LEMMA NextEscalation ==
  ASSUME Inv, RetryInv, EscalationInv, [Next]_vars, "expiry" \notin Faults
  PROVE  EscalationInv'
  <1>1. CASE Next
    <2>1. LocksKept /\ IsFiniteSet(red')
      BY <1>1, StepKeepsLocks, RedIsFinite DEF EscalationInv, OnceInv
    <2>2. QueuedOnce' /\ TakenOnce' /\ AfterRed'
      BY <1>1, <2>1, AnyStepOnce, OtherStepsOnce
      DEF Next, WorkerStep, AnyStep, EscalationInv
    <2>3. \A j \in Jobs : Exists(j)' =>
            job'[j].retries <= Cardinality(Counted(j)')
      BY <1>1, <2>1, CountsKept
    <2>4. /\ \A w \in Workers : \A j :
               worker'[w].pc = "escalate" /\ worker'[w].task.job = j =>
                 Cardinality(RedRuns(j)') > MaxRetries
          /\ EscalationEarned'
      BY <1>1, <2>1, EscalationsKept
    <2>5. \A w \in Workers : worker'[w].pc = "escalate" =>
            Cardinality({r \in red' : r.job = worker'[w].task.job})
              > MaxRetries
      BY <2>4 DEF RedRuns
    <2>6. OnceInv'
      BY <2>1, <2>2 DEF OnceInv
    <2>7. \A v \in Workers : \A j \in Jobs :
            worker'[v].pc = "count" /\ JobOf(v)' = j =>
              worker'[v].loaded.retries <= Cardinality(Counted(j)')
      BY <1>1, <2>1, ReadsKept
    <2> QED BY <2>3, <2>4, <2>5, <2>6, <2>7 DEF EscalationInv, JobOf, RedRuns
  <1>2. CASE UNCHANGED vars
    BY <1>2 DEF vars, dbVars, redisVars, repoVars, ciVars, EscalationInv,
                OnceInv, QueuedOnce, TakenOnce, AfterRed, Busy, JobOf,
                Exists, EscalationEarned, RedRuns, Counted, Pending
  <1> QED BY <1>1, <1>2

\* As long as locks do not expire, EscalationInv holds in every reachable
\* state.
THEOREM EscalationInvHolds ==
  ASSUME "expiry" \notin Faults
  PROVE  Spec => []EscalationInv
  <1>1. Init => EscalationInv
    BY InitEscalation
  <1>2. Inv /\ RetryInv /\ EscalationInv /\ [Next]_vars => EscalationInv'
    BY NextEscalation
  <1> QED BY <1>1, <1>2, InvHolds, RetryInvHolds, PTL DEF Spec

\* README.md:89, "if all 3 fail, an escalation comment is posted": as long as
\* locks do not expire the comment is on a commit of a job with more red runs
\* than retries, however many workers handle them at once and whatever is
\* retried by hand in between.
THEOREM EscalationsAreEarned ==
  ASSUME "expiry" \notin Faults
  PROVE  Spec => []EscalationEarned
  <1>1. EscalationInv => EscalationEarned
    BY DEF EscalationInv
  <1> QED BY <1>1, EscalationInvHolds, PTL

-----------------------------------------------------------------------------
(* How many patches are written *)

\* What will write one more patch for j: a first repair that is asked for or
\* waits, and a worker that runs the agents.
Claims(j) ==
  {<<"handler", h>> : h \in {h \in Handlers : Asks(h, j)}}
  \union {<<"client", c>> : c \in {c \in Clients : Requests(c, j)}}
  \union {<<"task", i>> : i \in {i \in DOMAIN queue :
       queue[i] = InitialTask(j)}}
  \union {<<"worker", w>> : w \in {w \in Workers :
       \/ worker[w].pc = "graph" /\ JobOf(w) = j
       \/ worker[w].pc = "start" /\ worker[w].task = InitialTask(j)}}

\* The requests that have not started the job again, and how often jobs have
\* been started at most.
Reading == {c \in Clients : client[c].pc = "read"}
Starts == retryCalls - Cardinality(Reading) + 1

\* What a job has used of its budget, or will: patches, claims, and the retries
\* that are left.
Used(j) == patches[j] + Cardinality(Claims(j)) + (MaxRetries - job[j].retries)

\* A worker that has read the counter is the only one to raise it, so that what
\* it writes back leaves one retry less than there is.
OneWorker == Cardinality(Workers) <= 1

ReadsHold ==
  \A v \in Workers : worker[v].pc = "count" =>
    job[JobOf(v)].retries <= worker[v].loaded.retries

\* The inductive invariant, relative to Inv, RetryInv and BoundInv.
BudgetInv ==
  /\ Cardinality(Reading) <= retryCalls
  /\ ReadsHold
  /\ \A j \in Jobs : ~Exists(j) => patches[j] = 0
  /\ \A j \in Jobs : Exists(j) => Used(j) <= (MaxRetries + 1) * Starts

LEMMA OnlyWorker ==
  ASSUME OneWorker
  PROVE  FewHands /\ Overrun = 0 /\ \A v, w \in Workers : v = w
  <1>1. FewHands
    BY DEF OneWorker, FewHands
  <1>2. Overrun = 0
    <2>1. Cardinality(Workers) \in Nat
      BY ProcessesAssumption, FS_CardinalityType
    <2>2. Workers # {} => Cardinality(Workers) # 0
      BY ProcessesAssumption, FS_EmptySet
    <2> QED BY <2>1, <2>2 DEF OneWorker, Overrun
  <1>3. ASSUME NEW v \in Workers, NEW w \in Workers, v # w
        PROVE  FALSE
    <2>1. IsFiniteSet({v}) /\ Cardinality({v}) = 1
      BY FS_Singleton
    <2>2. w \notin {v}
      BY <1>3
    <2>3. Cardinality({v} \union {w}) = 1 + 1
      BY <2>1, <2>2, FS_AddElement, Zenon
    <2>4. Cardinality({v} \union {w}) <= Overrun + 1
      BY <1>3, WorkersCount
    <2> QED BY <1>2, <2>3, <2>4
  <1> QED BY <1>1, <1>2, <1>3

LEMMA CounterInLimit ==
  ASSUME Inv, BoundInv, OneWorker, NEW j \in Jobs, Exists(j)
  PROVE  job[j].retries \in Nat /\ job[j].retries <= MaxRetries
  <1>1. Cardinality(Racers(j)) \in Nat /\ Overrun = 0
    BY RacersAreWorkers, WorkersCount, OnlyWorker
  <1>2. job[j].retries \in Nat
    BY DEF Inv, TypeOK, Exists, Row
  <1>3. job[j].retries + Cardinality(Racers(j)) <= MaxRetries + Overrun
    BY DEF BoundInv, RetriesBounded
  <1> QED BY <1>1, <1>2, <1>3, RetriesAssumption

LEMMA FewerElements ==
  ASSUME NEW S, IsFiniteSet(S), NEW T, T \subseteq S
  PROVE  /\ IsFiniteSet(T) /\ Cardinality(T) \in Nat /\ Cardinality(S) \in Nat
         /\ Cardinality(T) <= Cardinality(S)
  <1>1. IsFiniteSet(T) /\ Cardinality(T) <= Cardinality(S)
    BY FS_Subset
  <1> QED BY <1>1, FS_CardinalityType

LEMMA OneElementMore ==
  ASSUME NEW S, IsFiniteSet(S), NEW x, NEW T, T \subseteq S \union {x}
  PROVE  /\ IsFiniteSet(T) /\ Cardinality(T) \in Nat /\ Cardinality(S) \in Nat
         /\ Cardinality(T) <= Cardinality(S) + 1
  <1>1. /\ IsFiniteSet(S \union {x})
        /\ Cardinality(S \union {x}) =
             IF x \in S THEN Cardinality(S) ELSE Cardinality(S) + 1
    BY FS_AddElement
  <1>2. Cardinality(S) \in Nat
    BY FS_CardinalityType
  <1> QED BY <1>1, <1>2, FewerElements

LEMMA OneElementLess ==
  ASSUME NEW S, IsFiniteSet(S), NEW x \in S, NEW T, T \subseteq S \ {x}
  PROVE  /\ IsFiniteSet(T) /\ Cardinality(T) \in Nat /\ Cardinality(S) \in Nat
         /\ Cardinality(T) <= Cardinality(S) - 1
  <1>1. /\ IsFiniteSet(S \ {x})
        /\ Cardinality(S \ {x}) = Cardinality(S) - 1
    BY FS_RemoveElement
  <1>2. Cardinality(S) \in Nat
    BY FS_CardinalityType
  <1> QED BY <1>1, <1>2, FewerElements

LEMMA OneElementChanges ==
  ASSUME NEW S, IsFiniteSet(S), NEW x \in S, NEW y, NEW T,
         T \subseteq (S \ {x}) \union {y}
  PROVE  /\ IsFiniteSet(T) /\ Cardinality(T) \in Nat /\ Cardinality(S) \in Nat
         /\ Cardinality(T) <= Cardinality(S)
  <1>1. /\ IsFiniteSet(S \ {x}) /\ Cardinality(S \ {x}) \in Nat
        /\ Cardinality(S) \in Nat
        /\ Cardinality(S \ {x}) <= Cardinality(S) - 1
    BY OneElementLess
  <1>2. /\ IsFiniteSet(T) /\ Cardinality(T) \in Nat
        /\ Cardinality(T) <= Cardinality(S \ {x}) + 1
    BY <1>1, OneElementMore
  <1> QED BY <1>1, <1>2

LEMMA ClaimsFinite ==
  ASSUME Inv, NEW j
  PROVE  IsFiniteSet(Claims(j)) /\ Cardinality(Claims(j)) \in Nat
  <1>1. \A s, S : IsFiniteSet(S) => IsFiniteSet({s} \X S)
    BY FS_Singleton, FS_Product
  <1>2. IsFiniteSet(1 .. Len(queue)) /\ DOMAIN queue = 1 .. Len(queue)
    BY FS_Interval DEF Inv, TypeOK
  <1> DEFINE all == (({"handler"} \X Handlers) \union ({"client"} \X Clients))
                     \union (({"task"} \X (1 .. Len(queue)))
                             \union ({"worker"} \X Workers))
  <1>3. IsFiniteSet(all)
    <2>1. /\ IsFiniteSet({"handler"} \X Handlers)
          /\ IsFiniteSet({"client"} \X Clients)
          /\ IsFiniteSet({"task"} \X (1 .. Len(queue)))
          /\ IsFiniteSet({"worker"} \X Workers)
      BY <1>1, <1>2, ProcessesAssumption
    <2>2. /\ IsFiniteSet(({"handler"} \X Handlers) \union ({"client"} \X Clients))
          /\ IsFiniteSet(({"task"} \X (1 .. Len(queue)))
                           \union ({"worker"} \X Workers))
      BY <2>1, FS_Union
    <2> QED BY <2>2, FS_Union
  <1>4. Claims(j) \subseteq all
    BY <1>2 DEF Claims
  <1> QED BY <1>3, <1>4, FewerElements

\* The bound grows with every start by what a start can use.
LEMMA Bounds ==
  ASSUME NEW n \in Nat, NEW k \in Int, NEW m \in Int, k <= m
  PROVE  /\ n * k \in Int /\ n * m \in Int /\ n * k <= n * m
         /\ n * (k + 1) = n * k + n
  <1>1. n * (k + 1) = n * k + n
    OBVIOUS
  <1>2. n * k <= n * m
    <2>1. m - k \in Nat
      OBVIOUS
    <2>2. n * (m - k) >= 0
      BY <2>1
    <2>3. n * (m - k) = n * m - n * k
      OBVIOUS
    <2> QED BY <2>2, <2>3
  <1> QED BY <1>1, <1>2

\* What a step of a worker that does not take a task does to the claims.
LEMMA WorkerClaims ==
  ASSUME Inv, NEW w \in Workers, AnyStep(w), ~TakeTask(w), NEW j
  PROVE  /\ Claims(j)' \subseteq Claims(j) \union {<<"worker", w>>}
         /\ <<"worker", w>> \in Claims(j)' =>
              /\ StartInitial(w) \/ BumpRetry(w)
              /\ JobOf(w) = j
  <1>1. /\ UNCHANGED <<queue, router, client>>
        /\ \A v \in Workers : v # w => worker'[v] = worker[v]
    BY StepShape, GoesOnShape
  <1>2. Claims(j)' \subseteq Claims(j) \union {<<"worker", w>>}
    BY <1>1 DEF Claims, Asks, Requests, JobOf
  <1>3. ASSUME <<"worker", w>> \in Claims(j)'
        PROVE  (StartInitial(w) \/ BumpRetry(w)) /\ JobOf(w) = j
    <2>1. \/ worker'[w].pc = "graph" /\ worker'[w].task.job = j
          \/ worker'[w].pc = "start"
      BY <1>3 DEF Claims, JobOf
    <2>2. ~Done(w)
      BY <2>1, DoneMoves
    <2>3. GoesOn(w)
      BY <2>2, StepShape
    <2>4. worker'[w].task = worker[w].task /\ LeadsTo(w, worker'[w].pc)
      BY <2>3, GoesOnShape
    <2> QED BY <2>1, <2>4 DEF LeadsTo, JobOf
  <1> QED BY <1>2, <1>3

\* A task that is taken leaves the queue, whose other tasks move up.
LEMMA TakenClaims ==
  ASSUME Inv, NEW w \in Workers, TakeTask(w), NEW j
  PROVE  /\ Cardinality(Claims(j)') \in Nat
         /\ Cardinality(Claims(j)') <= Cardinality(Claims(j))
  <1> DEFINE f == [x \in Claims(j)' |->
                     IF x = <<"worker", w>> THEN <<"task", 1>>
                     ELSE IF x[1] = "task" THEN <<"task", x[2] + 1>>
                     ELSE x]
  <1>1. /\ worker[w].pc = "idle"
        /\ worker'[w].pc = "start" /\ worker'[w].task = queue[1]
        /\ 1 \in DOMAIN queue
        /\ DOMAIN queue' \subseteq Nat
        /\ \A i \in DOMAIN queue' : /\ i + 1 \in DOMAIN queue
                                    /\ i + 1 # 1
                                    /\ queue'[i] = queue[i + 1]
    BY TakenTask
  <1>2. /\ UNCHANGED <<router, client>>
        /\ \A v \in Workers : v # w => worker'[v] = worker[v]
    BY StepShape DEF AnyStep, WorkerAdvances
  <1>3. ASSUME NEW x \in Claims(j)'
        PROVE  \/ /\ x = <<"worker", w>> /\ queue[1] = InitialTask(j)
               \/ \E i \in DOMAIN queue' :
                    x = <<"task", i>> /\ queue[i + 1] = InitialTask(j)
               \/ /\ x \in Claims(j) /\ x # <<"worker", w>> /\ x[1] # "task"
    BY <1>1, <1>2 DEF Claims, Asks, Requests, JobOf
  <1>4. \A x \in Claims(j)' : f[x] \in Claims(j)
    <2>1. ASSUME NEW x \in Claims(j)' PROVE f[x] \in Claims(j)
      <3>1. CASE x = <<"worker", w>> /\ queue[1] = InitialTask(j)
        BY <1>1, <3>1 DEF Claims
      <3>2. CASE \E i \in DOMAIN queue' :
                   x = <<"task", i>> /\ queue[i + 1] = InitialTask(j)
        <4>1. PICK i \in DOMAIN queue' :
                x = <<"task", i>> /\ queue[i + 1] = InitialTask(j)
          BY <3>2
        <4>2. f[x] = <<"task", i + 1>>
          BY <4>1
        <4> QED BY <1>1, <4>1, <4>2 DEF Claims
      <3>3. CASE x \in Claims(j) /\ x # <<"worker", w>> /\ x[1] # "task"
        BY <3>3
      <3> QED BY <1>3, <3>1, <3>2, <3>3
    <2> QED BY <2>1
  <1>5. ASSUME NEW x \in Claims(j)', NEW y \in Claims(j)', f[x] = f[y]
        PROVE  x = y
    <2>1. \A z \in Claims(j)' :
            \/ z = <<"worker", w>> /\ f[z] = <<"task", 1>>
            \/ \E i \in DOMAIN queue' :
                 z = <<"task", i>> /\ f[z] = <<"task", i + 1>>
            \/ f[z] = z /\ z[1] # "task"
      BY <1>3
    <2>2. ASSUME NEW i \in DOMAIN queue', NEW k \in DOMAIN queue',
                 x = <<"task", i>>, f[x] = <<"task", i + 1>>,
                 y = <<"task", k>>, f[y] = <<"task", k + 1>>
          PROVE  x = y
      <3>1. i + 1 = k + 1 /\ i \in Nat /\ k \in Nat
        BY <1>1, <1>5, <2>2
      <3> QED BY <2>2, <3>1
    <2>3. ASSUME NEW i \in DOMAIN queue', <<"task", i + 1>> = <<"task", 1>>
          PROVE  FALSE
      BY <1>1, <2>3
    <2> HIDE DEF f
    <2> QED BY <1>5, <2>1, <2>2, <2>3
  <1>6. f \in Injection(Claims(j)', Claims(j))
    <2>1. f \in [Claims(j)' -> Claims(j)]
      BY <1>4
    <2> HIDE DEF f
    <2> QED BY <1>5, <2>1 DEF Injection, IsInjective
  <1>7. IsFiniteSet(Claims(j))
    BY ClaimsFinite
  <1> HIDE DEF f
  <1>8. IsFiniteSet(Claims(j)')
        /\ Cardinality(Claims(j)') <= Cardinality(Claims(j))
    BY <1>6, <1>7, FS_Injection
  <1> QED BY <1>8, FS_CardinalityType

\* The writing of a patch uses up the claim of the worker that writes it.
LEMMA PatchUsed ==
  ASSUME Inv, RetryInv, NEW w \in Workers, NEW ft \in FailureTypes,
         PushPatch(w, ft) \/ RejectPatch(w, ft), NEW j \in Jobs
  PROVE  /\ Cardinality(Claims(j)') \in Nat
         /\ patches'[j] \in Nat
         /\ patches'[j] + Cardinality(Claims(j)')
              <= patches[j] + Cardinality(Claims(j))
  <1> PICK k : k = JobOf(w)
    OBVIOUS
  <1>1. worker[w].pc = "graph"
    BY DEF PushPatch, RejectPatch, At
  <1>2. /\ AnyStep(w) /\ ~TakeTask(w) /\ ~StartInitial(w) /\ ~BumpRetry(w)
    BY <1>1 DEF AnyStep, WorkerAdvances, TakeTask, StartInitial, BumpRetry, At
  <1>3. k \in Jobs
    BY <1>1, WorkersJob DEF Inv
  <1>4. patches' = [patches EXCEPT ![k] = patches[k] + 1]
        /\ patches \in [Jobs -> Nat]
    BY DEF PushPatch, RejectPatch, Inv, TypeOK
  <1>5. Claims(j)' \subseteq Claims(j) \ {<<"worker", w>>}
    BY <1>2, WorkerClaims
  <1>6. IsFiniteSet(Claims(j)) /\ Cardinality(Claims(j)) \in Nat
    BY ClaimsFinite
  <1>7. CASE k = j
    <2>1. <<"worker", w>> \in Claims(j)
      BY <1>1, <1>7 DEF Claims
    <2>2. /\ Cardinality(Claims(j)') \in Nat
          /\ Cardinality(Claims(j)') <= Cardinality(Claims(j)) - 1
      BY <1>5, <1>6, <2>1, OneElementLess
    <2>3. patches'[j] = patches[j] + 1 /\ patches[j] \in Nat
      BY <1>3, <1>4, <1>7
    <2> QED BY <1>6, <2>2, <2>3
  <1>8. CASE k # j
    <2>1. /\ Cardinality(Claims(j)') \in Nat
          /\ Cardinality(Claims(j)') <= Cardinality(Claims(j))
      BY <1>5, <1>6, FewerElements
    <2>2. patches'[j] = patches[j] /\ patches[j] \in Nat
      BY <1>3, <1>4, <1>8
    <2> QED BY <1>6, <2>1, <2>2
  <1> QED BY <1>7, <1>8

\* No step of a worker uses more than what the job has.
LEMMA WorkerUses ==
  ASSUME Inv, RetryInv, ReadsHold, NEW w \in Workers, AnyStep(w),
         NEW j \in Jobs, Exists(j)
  PROVE  Used(j)' \in Int /\ Used(j)' <= Used(j) /\ Used(j) \in Int
  <1>1. /\ patches[j] \in Nat /\ job[j].retries \in Nat
        /\ IsFiniteSet(Claims(j)) /\ Cardinality(Claims(j)) \in Nat
        /\ MaxRetries \in Nat
    <2>1. job[j].retries \in Nat
      BY DEF Inv, TypeOK, Exists, Row
    <2> QED BY <2>1, ClaimsFinite, RetriesAssumption DEF Inv, TypeOK
  <1>2. \/ UNCHANGED patches
        \/ \E ft \in FailureTypes : PushPatch(w, ft) \/ RejectPatch(w, ft)
    BY DEF AnyStep, WorkerAdvances, TakeTask, StartInitial, StartGreen,
           StartExhausted, StartRed, StampRed, ReadRetries, BumpRetry, DropOut,
           RecordAttempt, FetchInternal, PushClean, OpenPR, CommitPR,
           Escalate, Raise, WorkerCrashes, repoVars
  <1>3. CASE BumpRetry(w)
    <2>1. /\ worker[w].pc = "count" /\ ~TakeTask(w)
          /\ UNCHANGED patches
      BY <1>3 DEF BumpRetry, TakeTask, At, repoVars
    <2> PICK k : k = JobOf(w)
      OBVIOUS
    <2> PICK l : l = worker[w].loaded.retries
      OBVIOUS
    <2>2. /\ k \in Jobs /\ l \in Nat /\ job[k].retries <= l
          /\ job'[k].retries = l + 1
          /\ \A i \in Jobs : i # k => job'[i] = job[i]
      BY <1>3, <2>1, BumpedRow DEF ReadsHold
    <2>3. CASE k = j
      <3>1. /\ Cardinality(Claims(j)') \in Nat
            /\ Cardinality(Claims(j)') <= Cardinality(Claims(j)) + 1
        BY <1>1, <2>1, WorkerClaims, OneElementMore
      <3>2. job'[j].retries = l + 1 /\ l \in Nat /\ job[j].retries <= l
        BY <2>2, <2>3
      <3> QED BY <1>1, <2>1, <3>1, <3>2 DEF Used
    <2>4. CASE k # j
      <3>1. Claims(j)' \subseteq Claims(j)
        BY <2>1, <2>4, WorkerClaims
      <3>2. /\ Cardinality(Claims(j)') \in Nat
            /\ Cardinality(Claims(j)') <= Cardinality(Claims(j))
        BY <1>1, <3>1, FewerElements
      <3>3. job'[j].retries = job[j].retries
        BY <2>2, <2>4
      <3> QED BY <1>1, <2>1, <3>2, <3>3 DEF Used
    <2> QED BY <2>3, <2>4
  <1>4. CASE ~BumpRetry(w)
    <2>1. job'[j].retries = job[j].retries
      BY <1>4, WorkerColumns DEF RetriesStay
    <2>2. CASE \E ft \in FailureTypes : PushPatch(w, ft) \/ RejectPatch(w, ft)
      <3>1. /\ Cardinality(Claims(j)') \in Nat /\ patches'[j] \in Nat
            /\ patches'[j] + Cardinality(Claims(j)')
                 <= patches[j] + Cardinality(Claims(j))
        BY <2>2, PatchUsed
      <3> QED BY <1>1, <2>1, <3>1 DEF Used
    <2>3. CASE UNCHANGED patches
      <3>1. /\ Cardinality(Claims(j)') \in Nat
            /\ Cardinality(Claims(j)') <= Cardinality(Claims(j))
        <4>1. CASE TakeTask(w)
          BY <4>1, TakenClaims
        <4>2. CASE ~TakeTask(w)
          <5>1. Claims(j)' \subseteq Claims(j)
            <6>1. ASSUME <<"worker", w>> \in Claims(j)'
                  PROVE  <<"worker", w>> \in Claims(j)
              <7>1. StartInitial(w) /\ JobOf(w) = j
                BY <1>4, <4>2, <6>1, WorkerClaims
              <7>2. worker[w].pc = "start" /\ worker[w].task \in Tasks
                    /\ worker[w].task.fn = "initial"
                BY <7>1, WorkersJob DEF StartInitial, At, Inv
              <7>3. worker[w].task = InitialTask(j)
                BY <7>1, <7>2 DEF Tasks, InitialTask, JobOf
              <7> QED BY <7>2, <7>3 DEF Claims
            <6> QED BY <4>2, <6>1, WorkerClaims
          <5> QED BY <1>1, <5>1, FewerElements
        <4> QED BY <4>1, <4>2
      <3> QED BY <1>1, <2>1, <2>3, <3>1 DEF Used
    <2> QED BY <1>2, <2>2, <2>3
  <1> QED BY <1>3, <1>4

\* A start is counted when its request is committed, or fails before that.
LEMMA StartsGrow ==
  ASSUME Inv, BudgetInv, Next
  PROVE  /\ Starts \in Int /\ Starts' \in Int /\ Starts >= 1
         /\ Starts <= Starts'
         /\ Cardinality(Reading') <= retryCalls'
         /\ \A c \in Clients : RetryCommits(c) => Starts + 1 <= Starts'
  <1>1. /\ IsFiniteSet(Reading) /\ Cardinality(Reading) \in Nat
        /\ retryCalls \in Nat /\ Cardinality(Reading) <= retryCalls
        /\ client \in [Clients -> ClientStates]
    <2>1. IsFiniteSet(Reading)
      BY ProcessesAssumption, FS_Subset DEF Reading
    <2> QED BY <2>1, FS_CardinalityType, BoundsAssumption
            DEF Inv, TypeOK, BudgetInv
  <1> DEFINE Goal == /\ Starts' \in Int
                     /\ Starts <= Starts'
                     /\ Cardinality(Reading') <= retryCalls'
  <1>2. CASE UNCHANGED apiVars
    <2>1. UNCHANGED <<client, retryCalls>>
      BY <1>2 DEF apiVars
    <2>2. Reading' = Reading /\ \A c \in Clients : ~RetryCommits(c)
      <3>1. ASSUME NEW c \in Clients, RetryCommits(c) PROVE FALSE
        <4>1. client[c].pc = "read" /\ client'[c].pc = "enqueue"
          BY <1>1, <3>1 DEF RetryCommits, ClientStates
        <4> QED BY <2>1, <4>1
      <3> QED BY <2>1, <3>1 DEF Reading
    <2> QED BY <1>1, <2>1, <2>2 DEF Starts
  <1>3. ASSUME NEW c \in Clients, NEW j, RetryReads(c, j)
        PROVE  Goal /\ \A b \in Clients : ~RetryCommits(b)
    <2>1. Reading' \subseteq Reading \union {c}
      BY <1>1, <1>3 DEF RetryReads, Reading
    <2>2. /\ Cardinality(Reading') \in Nat
          /\ Cardinality(Reading') <= Cardinality(Reading) + 1
      BY <1>1, <2>1, OneElementMore
    <2>3. retryCalls' = retryCalls + 1
      BY <1>3 DEF RetryReads
    <2>4. \A b \in Clients : ~RetryCommits(b)
      <3>1. retryCalls' # retryCalls
        BY <1>1, <2>3
      <3> QED BY <3>1 DEF RetryCommits
    <2> QED BY <1>1, <2>2, <2>3, <2>4 DEF Starts
  <1>4. ASSUME NEW c \in Clients, RetryCommits(c)
        PROVE  Goal /\ Starts + 1 <= Starts'
    <2>1. c \in Reading /\ Reading' \subseteq Reading \ {c}
      BY <1>1, <1>4 DEF RetryCommits, Reading, ClientStates
    <2>2. /\ Cardinality(Reading') \in Nat
          /\ Cardinality(Reading') <= Cardinality(Reading) - 1
      BY <1>1, <2>1, OneElementLess
    <2>3. retryCalls' = retryCalls
      BY <1>4 DEF RetryCommits
    <2> QED BY <1>1, <2>2, <2>3 DEF Starts
  <1>5. ASSUME NEW c \in Clients, RetryEnqueues(c) \/ RetryFails(c)
        PROVE  Goal /\ \A b \in Clients : ~RetryCommits(b)
    <2>1. ClientEnds(c) /\ UNCHANGED <<job, retryCalls>>
      BY <1>5 DEF RetryEnqueues, RetryFails, dbVars
    <2>2. Reading' \subseteq Reading
      BY <1>1, <2>1 DEF ClientEnds, IdleClient, Reading
    <2>3. /\ Cardinality(Reading') \in Nat
          /\ Cardinality(Reading') <= Cardinality(Reading)
      BY <1>1, <2>2, FewerElements
    <2>4. \A b \in Clients : ~RetryCommits(b)
      <3>1. ASSUME NEW b \in Clients, RetryCommits(b) PROVE FALSE
        <4>1. client'[b].pc = "enqueue" /\ client[b].pc = "read"
          BY <1>1, <3>1 DEF RetryCommits, ClientStates
        <4> QED BY <1>1, <2>1, <4>1 DEF ClientEnds, IdleClient
      <3> QED BY <3>1
    <2> QED BY <1>1, <2>1, <2>3, <2>4 DEF Starts
  <1>6. Starts \in Int /\ Starts >= 1
    BY <1>1 DEF Starts
  <1>7. CASE ~ApiStep
    <2>1. UNCHANGED apiVars
      <3>1. CASE WorkerStep
        BY <3>1 DEF WorkerStep, WorkerAdvances, TakeTask, StartInitial,
           StartGreen, StartExhausted, StartRed, StampRed, ReadRetries,
           BumpRetry, DropOut,
           PushPatch, RecordAttempt, RejectPatch, FetchInternal, PushClean,
           OpenPR, CommitPR, Escalate, Raise, WorkerCrashes
      <3>2. CASE GitHubStep
        BY <3>2 DEF GitHubStep, DevRunFails, RunEnds, Redeliver, LoseHook
      <3>3. CASE RouterStep
        BY <3>3 DEF RouterStep, ReceiveFailure, SelectExisting, InsertJob,
                  EnqueueInitial, IntakeRaises, HandlerCrashes,
                  DeliverCompletion, ReceiveCompletion, LockExpires
      <3> QED BY <1>7, <3>1, <3>2, <3>3 DEF Next
    <2> QED BY <1>1, <1>2, <1>6, <1>7, <2>1 DEF Starts, ApiStep
  <1>8. CASE ApiStep
    <2>1. PICK c \in Clients :
            \/ \E j \in Jobs : RetryReads(c, j)
            \/ RetryCommits(c)
            \/ RetryEnqueues(c) \/ RetryFails(c)
      BY <1>8 DEF ApiStep
    <2>2. CASE RetryCommits(c)
      <3>1. \A b \in Clients : RetryCommits(b) => Starts + 1 <= Starts'
        BY <1>4
      <3> QED BY <1>4, <1>6, <2>2, <3>1
    <2> QED BY <1>3, <1>5, <1>6, <2>1, <2>2
  <1> QED BY <1>7, <1>8

\* A first repair that is enqueued goes from a handler or a client to the
\* queue.
LEMMA EnqueuedClaims ==
  ASSUME Inv, GitHubStep \/ RouterStep \/ ApiStep,
         ~(\E h \in Handlers : InsertJob(h)),
         ~(\E c \in Clients : RetryCommits(c)), NEW j \in Jobs
  PROVE  /\ Cardinality(Claims(j)') \in Nat
         /\ Cardinality(Claims(j)') <= Cardinality(Claims(j))
  <1>1. /\ UNCHANGED worker
        /\ \A h \in Handlers : Asks(h, j)' => Asks(h, j)
        /\ \A c \in Clients : Requests(c, j)' => Requests(c, j)
    BY OtherSteps, AsksStay, RequestsStay
  <1>2. IsFiniteSet(Claims(j))
    BY ClaimsFinite
  <1> DEFINE last == <<"task", Len(queue) + 1>>
  <1>3. ASSUME NEW t \in Tasks, queue' = Append(queue, t)
        PROVE  /\ Claims(j)' \subseteq Claims(j) \union {last}
               /\ t # InitialTask(j) => Claims(j)' \subseteq Claims(j)
    <2>1. /\ \A i \in DOMAIN queue : queue'[i] = queue[i]
          /\ queue'[Len(queue) + 1] = t
          /\ \A i \in DOMAIN queue' : i \in DOMAIN queue \/ i = Len(queue) + 1
      BY <1>3, AppendedTask
    <2> QED BY <1>1, <2>1 DEF Claims, JobOf
  <1>4. ASSUME NEW k \in Jobs, queue' = Append(queue, InitialTask(k)),
               NEW x, k = j => x \in Claims(j) /\ x \notin Claims(j)' /\ x # last
        PROVE  /\ Cardinality(Claims(j)') \in Nat
               /\ Cardinality(Claims(j)') <= Cardinality(Claims(j))
    <2>1. InitialTask(k) \in Tasks
      BY InitialTaskIsTask
    <2>2. CASE k = j
      <3>1. Claims(j)' \subseteq (Claims(j) \ {x}) \union {last}
        BY <1>3, <1>4, <2>1, <2>2
      <3> QED BY <1>2, <1>4, <2>2, <3>1, OneElementChanges
    <2>3. CASE k # j
      <3>1. InitialTask(k) # InitialTask(j)
        BY <2>3 DEF InitialTask
      <3>2. Claims(j)' \subseteq Claims(j)
        BY <1>3, <1>4, <2>1, <3>1
      <3> QED BY <1>2, <3>2, FewerElements
    <2> QED BY <2>2, <2>3
  <1>5. ASSUME NEW h \in Handlers, EnqueueInitial(h), router[h].job \in Jobs
        PROVE  /\ Cardinality(Claims(j)') \in Nat
               /\ Cardinality(Claims(j)') <= Cardinality(Claims(j))
    <2> PICK k : k = router[h].job
      OBVIOUS
    <2>1. /\ router[h].pc = "enqueue" /\ k \in Jobs
          /\ queue' = Append(queue, InitialTask(k))
          /\ router'[h].pc = "idle"
      BY <1>5 DEF EnqueueInitial, HandlerAt, HandlerEnds, IdleHandler, Inv,
                  TypeOK
    <2>2. k = j => /\ <<"handler", h>> \in Claims(j)
                   /\ <<"handler", h>> \notin Claims(j)'
                   /\ <<"handler", h>> # last
      BY <2>1 DEF Claims, Asks
    <2> QED BY <1>4, <2>1, <2>2
  <1>6. ASSUME NEW c \in Clients, RetryEnqueues(c), client[c].job \in Jobs
        PROVE  /\ Cardinality(Claims(j)') \in Nat
               /\ Cardinality(Claims(j)') <= Cardinality(Claims(j))
    <2> PICK k : k = client[c].job
      OBVIOUS
    <2>1. /\ client[c].pc = "enqueue" /\ k \in Jobs
          /\ queue' = Append(queue, InitialTask(k))
          /\ client'[c].pc = "idle"
      BY <1>6 DEF RetryEnqueues, ClientEnds, IdleClient, Inv, TypeOK
    <2>2. k = j => /\ <<"client", c>> \in Claims(j)
                   /\ <<"client", c>> \notin Claims(j)'
                   /\ <<"client", c>> # last
      BY <2>1 DEF Claims, Requests
    <2> QED BY <1>4, <2>1, <2>2
  <1>7. ASSUME NEW r \in RunIds, NEW c,
               CompletionTask(r.job, r, c) \in Tasks,
               queue' = Append(queue, CompletionTask(r.job, r, c))
        PROVE  /\ Cardinality(Claims(j)') \in Nat
               /\ Cardinality(Claims(j)') <= Cardinality(Claims(j))
    <2>1. CompletionTask(r.job, r, c) # InitialTask(j)
      BY DEF CompletionTask, InitialTask
    <2>2. Claims(j)' \subseteq Claims(j)
      BY <1>3, <1>7, <2>1
    <2> QED BY <1>2, <2>2, FewerElements
  <1>8. CASE UNCHANGED queue
    <2>1. Claims(j)' \subseteq Claims(j)
      BY <1>1, <1>8 DEF Claims, JobOf
    <2> QED BY <1>2, <2>1, FewerElements
  <1>9. \/ UNCHANGED queue
        \/ \E h \in Handlers : EnqueueInitial(h) /\ router[h].job \in Jobs
        \/ \E c \in Clients : RetryEnqueues(c) /\ client[c].job \in Jobs
        \/ \E r \in RunIds :
             /\ CompletionTask(r.job, r, Conclusion(r)) \in Tasks
             /\ queue' = Append(queue, CompletionTask(r.job, r, Conclusion(r)))
    BY EnqueueSteps
  <1> HIDE DEF last
  <1>10. CASE \E r \in RunIds :
             /\ CompletionTask(r.job, r, Conclusion(r)) \in Tasks
             /\ queue' = Append(queue, CompletionTask(r.job, r, Conclusion(r)))
    <2>1. PICK r \in RunIds :
            /\ CompletionTask(r.job, r, Conclusion(r)) \in Tasks
            /\ queue' = Append(queue, CompletionTask(r.job, r, Conclusion(r)))
      BY <1>10
    <2> QED BY <1>7, <2>1
  <1> QED BY <1>5, <1>6, <1>8, <1>9, <1>10

\* A job has used nothing when it is inserted, and is about to be repaired.
LEMMA InsertedUses ==
  ASSUME Inv, BudgetInv, NEW h \in Handlers, InsertJob(h), NEW j \in Jobs,
         Exists(j)'
  PROVE  /\ Exists(j) => /\ Cardinality(Claims(j)') \in Nat
                         /\ Cardinality(Claims(j)') <= Cardinality(Claims(j))
                         /\ job'[j] = job[j]
         /\ ~Exists(j) => /\ Cardinality(Claims(j)') \in Nat
                          /\ Cardinality(Claims(j)') <= 1
                          /\ patches[j] = 0 /\ job'[j].retries = 0
  <1>1. UNCHANGED <<worker, queue, client>>
    BY DEF InsertJob, apiVars
  <1>2. /\ router[h].pc = "insert"
        /\ router \in [Handlers -> HandlerStates]
    BY DEF InsertJob, HandlerAt, Inv, TypeOK
  <1>3. IsFiniteSet(Claims(j))
    BY ClaimsFinite
  <1>4. CASE UNCHANGED job /\ HandlerEnds(h)
    <2>1. \A g \in Handlers : Asks(g, j)' => Asks(g, j)
      BY <1>2, <1>4 DEF HandlerEnds, IdleHandler, Asks
    <2>2. Claims(j)' \subseteq Claims(j)
      BY <1>1, <2>1 DEF Claims, Requests, JobOf
    <2>3. Exists(j)
      BY <1>4 DEF Exists
    <2> QED BY <1>3, <1>4, <2>2, <2>3, FewerElements
  <1>5. ASSUME NEW k \in Jobs, job[k] = None,
               job'[k] = NewRow(router[h].run),
               \A i \in Jobs : i # k => job'[i] = job[i],
               router' = [router EXCEPT ![h].pc = "enqueue", ![h].job = k]
        PROVE  /\ Exists(j) => /\ Cardinality(Claims(j)') \in Nat
                               /\ Cardinality(Claims(j)')
                                    <= Cardinality(Claims(j))
                               /\ job'[j] = job[j]
               /\ ~Exists(j) => /\ Cardinality(Claims(j)') \in Nat
                                /\ Cardinality(Claims(j)') <= 1
                                /\ patches[j] = 0 /\ job'[j].retries = 0
    <2>1. CASE k = j
      <3>1. Claims(j) = {}
        <4>1. /\ \A g \in Handlers : ~Asks(g, j)
              /\ \A c \in Clients : ~Requests(c, j)
          BY <1>5, <2>1
          DEF Asks, Requests, Inv, NothingDangles, HandlersHaveJobs,
              ClientsHaveJobs, Exists
        <4>2. \A i \in DOMAIN queue : queue[i] # InitialTask(j)
          BY <1>5, <2>1, InitialTaskIsTask
          DEF Inv, NothingDangles, QueueHasJobs, Exists
        <4>3. \A w \in Workers : worker[w].pc # "idle" =>
                JobOf(w) # j /\ worker[w].task # InitialTask(j)
          BY <1>5, <2>1, InitialTaskIsTask
          DEF Inv, NothingDangles, WorkersHaveJobs, Exists, JobOf
        <4> QED BY <4>1, <4>2, <4>3 DEF Claims
      <3>2. Claims(j)' \subseteq Claims(j) \union {<<"handler", h>>}
        BY <1>1, <1>2, <1>5 DEF Claims, Asks, Requests, JobOf
      <3>3. /\ Cardinality(Claims(j)') \in Nat
            /\ Cardinality(Claims(j)') <= Cardinality(Claims(j)) + 1
        BY <1>3, <3>2, OneElementMore
      <3>4. Cardinality(Claims(j)) = 0
        BY <3>1, FS_EmptySet
      <3>5. ~Exists(j) /\ patches[j] = 0
        BY <1>5, <2>1 DEF Exists, BudgetInv
      <3>6. job'[j].retries = 0
        BY <1>5, <2>1 DEF NewRow
      <3> QED BY <3>3, <3>4, <3>5, <3>6
    <2>2. CASE k # j
      <3>1. Exists(j) /\ job'[j] = job[j]
        BY <1>5, <2>2 DEF Exists
      <3>2. \A g \in Handlers : Asks(g, j)' => Asks(g, j)
        BY <1>2, <1>5, <2>2 DEF Asks, HandlerStates
      <3>3. Claims(j)' \subseteq Claims(j)
        BY <1>1, <3>2 DEF Claims, Requests, JobOf
      <3> QED BY <1>3, <3>1, <3>3, FewerElements
    <2> QED BY <2>1, <2>2
  <1> QED BY <1>4, <1>5, InsertedRow

\* A request starts the count of retries again, and asks for one repair.
LEMMA RequestedUses ==
  ASSUME Inv, BoundInv, OneWorker, NEW c \in Clients, RetryCommits(c),
         NEW j \in Jobs, Exists(j)
  PROVE  Used(j)' \in Int /\ Used(j)' <= Used(j) + MaxRetries + 1
  <1> PICK k, loaded : k = client[c].job /\ loaded = client[c].loaded
    OBVIOUS
  <1>1. /\ k \in Jobs /\ Exists(k) /\ job[k] \in Row
        /\ job'[k].retries = IF loaded.retries = 0 THEN job[k].retries ELSE 0
        /\ \A i \in Jobs : i # k => job'[i] = job[i]
    BY RetryRow
  <1>2. job[j].retries \in Nat /\ job[j].retries <= MaxRetries
        /\ MaxRetries \in Nat
    BY CounterInLimit, RetriesAssumption
  <1>3. job'[j].retries \in Nat
    BY <1>1, <1>2
  <1>4. /\ UNCHANGED <<worker, queue, router, patches>>
        /\ client \in [Clients -> ClientStates]
        /\ client' = [client EXCEPT ![c].pc = "enqueue", ![c].loaded = None]
    BY DEF RetryCommits, redisVars, repoVars, Inv, TypeOK
  <1>5. IsFiniteSet(Claims(j)) /\ Cardinality(Claims(j)) \in Nat
        /\ patches[j] \in Nat
    BY ClaimsFinite DEF Inv, TypeOK
  <1>6. Claims(j)' \subseteq Claims(j) \union {<<"client", c>>}
    BY <1>4 DEF Claims, Asks, Requests, JobOf
  <1>7. /\ Cardinality(Claims(j)') \in Nat
        /\ Cardinality(Claims(j)') <= Cardinality(Claims(j)) + 1
    BY <1>5, <1>6, OneElementMore
  <1>8. /\ Used(j) = patches[j] + Cardinality(Claims(j))
                       + (MaxRetries - job[j].retries)
        /\ Used(j)' = patches[j] + Cardinality(Claims(j)')
                        + (MaxRetries - job'[j].retries)
    BY <1>2, <1>4 DEF Used
  <1> QED BY <1>2, <1>3, <1>5, <1>7, <1>8

LEMMA OtherStepsBudget ==
  ASSUME Inv, BoundInv, BudgetInv, OneWorker,
         GitHubStep \/ RouterStep \/ ApiStep, NEW j \in Jobs, Exists(j)'
  PROVE  Used(j)' <= (MaxRetries + 1) * Starts'
  <1>1. /\ Starts \in Int /\ Starts' \in Int /\ Starts >= 1
        /\ Starts <= Starts'
        /\ \A c \in Clients : RetryCommits(c) => Starts + 1 <= Starts'
    BY StartsGrow DEF Next
  <1>2. MaxRetries \in Nat
    BY RetriesAssumption
  <1> PICK n, m, k : n = MaxRetries + 1 /\ m = Starts /\ k = Starts'
    OBVIOUS
  <1>3. /\ n \in Nat /\ m \in Int /\ k \in Int /\ m <= k
        /\ n * m \in Int /\ n * k \in Int /\ n * m <= n * k
        /\ n * (m + 1) = n * m + n
    <2>1. n \in Nat /\ m \in Int /\ k \in Int /\ m <= k
      BY <1>1, <1>2
    <2> QED BY <2>1, Bounds, Zenon
  <1>4. UNCHANGED patches /\ patches[j] \in Nat
    BY OtherSteps DEF Inv, TypeOK
  <1>5. ASSUME Exists(j)
        PROVE  /\ Used(j) <= n * m
               /\ Used(j) = patches[j] + Cardinality(Claims(j))
                              + (MaxRetries - job[j].retries)
               /\ Cardinality(Claims(j)) \in Nat /\ job[j].retries \in Nat
    <2>1. Used(j) <= (MaxRetries + 1) * Starts /\ Cardinality(Claims(j)) \in Nat
      BY <1>5, ClaimsFinite DEF BudgetInv
    <2> QED BY <1>5, <2>1 DEF Used, Inv, TypeOK, Exists, Row
  <1>6. ASSUME Cardinality(Claims(j)') \in Nat,
               Cardinality(Claims(j)') <= Cardinality(Claims(j)),
               Exists(j), job'[j] = job[j]
        PROVE  Used(j)' <= n * k
    <2>1. Used(j)' = patches[j] + Cardinality(Claims(j)')
                       + (MaxRetries - job[j].retries)
      BY <1>2, <1>4, <1>6 DEF Used
    <2>2. Used(j) \in Int
      BY <1>2, <1>4, <1>5, <1>6
    <2>3. Used(j)' \in Int /\ Used(j)' <= Used(j)
      BY <1>2, <1>4, <1>5, <1>6, <2>1
    <2> QED BY <1>3, <1>5, <1>6, <2>2, <2>3
  <1>7. ASSUME NEW h \in Handlers, InsertJob(h) PROVE Used(j)' <= n * k
    <2>1. CASE Exists(j)
      BY <1>6, <1>7, <2>1, InsertedUses
    <2>2. CASE ~Exists(j)
      <3>1. /\ Cardinality(Claims(j)') \in Nat
            /\ Cardinality(Claims(j)') <= 1
            /\ patches[j] = 0 /\ job'[j].retries = 0
        BY <1>7, <2>2, InsertedUses
      <3>2. Used(j)' = 0 + Cardinality(Claims(j)') + (MaxRetries - 0)
        BY <1>2, <1>4, <3>1 DEF Used
      <3>3. Used(j)' \in Int /\ Used(j)' <= n
        BY <1>2, <3>1, <3>2
      <3>4. n * 1 <= n * k
        BY <1>1, <1>3, Bounds
      <3> QED BY <1>3, <3>3, <3>4
    <2> QED BY <2>1, <2>2
  <1>8. ASSUME NEW c \in Clients, RetryCommits(c) PROVE Used(j)' <= n * k
    <2>1. Exists(j)
      <3>1. NoneInserted
        BY <1>8, RetryRow DEF NoneInserted, Exists
      <3> QED BY <3>1 DEF NoneInserted, Exists
    <2>2. Used(j)' \in Int /\ Used(j)' <= Used(j) + MaxRetries + 1
      BY <1>8, <2>1, RequestedUses
    <2>3. Used(j) \in Int
      BY <1>2, <1>4, <1>5, <2>1
    <2>4. m + 1 \in Int /\ m + 1 <= k
      BY <1>1, <1>3, <1>8
    <2>5. n * (m + 1) <= n * k
      BY <1>3, <2>4, Bounds, Zenon
    <2> PICK low, high : low = n * m /\ high = n * k
      OBVIOUS
    <2>6. low \in Int /\ high \in Int /\ low + n <= high
      BY <1>3, <2>5
    <2>7. Used(j) <= low
      BY <1>5, <2>1
    <2>8. Used(j)' <= high
      BY <1>2, <2>2, <2>3, <2>6, <2>7
    <2> QED BY <2>8
  <1>9. CASE /\ ~(\E h \in Handlers : InsertJob(h))
             /\ ~(\E c \in Clients : RetryCommits(c))
    <2>1. UNCHANGED job
      BY <1>9, OtherSteps
    <2> QED BY <1>6, <1>9, <2>1, EnqueuedClaims DEF Exists
  <1>10. Used(j)' <= n * k
    BY <1>7, <1>8, <1>9
  <1> QED BY <1>2, <1>10

LEMMA WorkerBudget ==
  ASSUME Inv, RetryInv, BudgetInv, NEW w \in Workers, AnyStep(w),
         NEW j \in Jobs, Exists(j)'
  PROVE  Used(j)' <= (MaxRetries + 1) * Starts'
  <1>1. Starts \in Int /\ Starts' \in Int /\ Starts <= Starts'
    BY StartsGrow DEF Next, WorkerStep, AnyStep
  <1>2. MaxRetries \in Nat
    BY RetriesAssumption
  <1> PICK n, m, k : n = MaxRetries + 1 /\ m = Starts /\ k = Starts'
    OBVIOUS
  <1>3. n * m \in Int /\ n * k \in Int /\ n * m <= n * k
    <2>1. n \in Nat /\ m \in Int /\ k \in Int /\ m <= k
      BY <1>1, <1>2
    <2> QED BY <2>1, Bounds, Zenon
  <1>4. Exists(j)
    BY WorkerColumns DEF NoneInserted, Exists
  <1>5. Used(j)' \in Int /\ Used(j)' <= Used(j) /\ Used(j) \in Int
    BY <1>4, WorkerUses DEF BudgetInv
  <1>6. Used(j) <= n * m
    BY <1>4 DEF BudgetInv
  <1> QED BY <1>3, <1>5, <1>6

\* Nothing is written for a job that does not exist.
LEMMA NoPatchBefore ==
  ASSUME Inv, BudgetInv, Next, NEW j \in Jobs, ~Exists(j)'
  PROVE  patches'[j] = 0
  <1>1. ASSUME NEW w \in Workers, AnyStep(w)
        PROVE  patches'[j] = 0
    <2>1. RunsStay
      BY <1>1, WorkerColumns
    <2>2. ~Exists(j)
      BY <2>1 DEF RunsStay, Exists
    <2>3. ASSUME NEW ft \in FailureTypes, PushPatch(w, ft) \/ RejectPatch(w, ft)
          PROVE  patches'[j] = patches[j]
      <3>1. worker[w].pc # "idle"
        BY <2>3 DEF PushPatch, RejectPatch, At
      <3>2. JobOf(w) # j
        BY <2>2, <3>1 DEF Inv, NothingDangles, WorkersHaveJobs, Exists, JobOf
      <3> QED BY <2>3, <3>2 DEF PushPatch, RejectPatch, Inv, TypeOK
    <2>4. patches'[j] = patches[j]
      BY <1>1, <2>3 DEF AnyStep, WorkerAdvances, TakeTask, StartInitial,
           StartGreen, StartExhausted, StartRed, StampRed, ReadRetries,
           BumpRetry, DropOut,
           RecordAttempt, FetchInternal, PushClean, OpenPR, CommitPR,
           Escalate, Raise, WorkerCrashes, repoVars
    <2> QED BY <2>2, <2>4 DEF BudgetInv
  <1>2. CASE GitHubStep \/ RouterStep \/ ApiStep
    <2>1. ~Exists(j)
      BY <1>2, OtherSteps, InsertedRow, RetryRow, NoneIsNoRow DEF Exists
    <2> QED BY <1>2, <2>1, OtherSteps DEF BudgetInv
  <1> QED BY <1>1, <1>2 DEF Next, WorkerStep, AnyStep

\* Nobody but the worker raises the counter, and what it reads is the counter.
LEMMA NextReadsHold ==
  ASSUME Inv, RetryInv, ReadsHold, OneWorker, Next
  PROVE  ReadsHold'
  <1> SUFFICES ASSUME NEW v \in Workers, worker'[v].pc = "count"
               PROVE  job'[JobOf(v)'].retries <= worker'[v].loaded.retries
    BY DEF ReadsHold
  <1>1. ASSUME NEW w \in Workers, AnyStep(w)
        PROVE  job'[JobOf(v)'].retries <= worker'[v].loaded.retries
    <2>1. v = w
      BY <1>1, OnlyWorker
    <2>2. ~Done(w)
      BY <2>1, <1>1, DoneMoves
    <2>3. ASSUME TakeTask(w) PROVE worker'[w].pc = "start"
      BY <2>3 DEF TakeTask, Inv, TypeOK, WorkerStates
    <2>4. ReadRetries(w)
      BY <1>1, <2>1, <2>2, <2>3, StepShape, GoesOnShape DEF LeadsTo
    <2>5. /\ JobOf(w)' = JobOf(w) /\ UNCHANGED job
          /\ job[JobOf(w)] \in Row
      BY <2>4, ReadRetriesShape DEF JobOf, dbVars
    <2>6. worker'[w].loaded.retries = job[JobOf(w)].retries
      BY <2>4, ReadRow
    <2>7. job[JobOf(w)].retries \in Nat
      BY <2>5 DEF Row
    <2> QED BY <2>1, <2>5, <2>6, <2>7
  <1>2. CASE GitHubStep \/ RouterStep \/ ApiStep
    <2> PICK j, l : j = JobOf(v) /\ l = worker[v].loaded.retries
      OBVIOUS
    <2>1. UNCHANGED worker
      BY <1>2, OtherSteps
    <2>2. /\ j \in Jobs /\ Exists(j) /\ job[j].retries \in Nat /\ l \in Nat
          /\ job[j].retries <= l /\ JobOf(v)' = j
      BY <2>1, Reader DEF ReadsHold, JobOf
    <2>3. CASE UNCHANGED job
      BY <2>1, <2>2, <2>3
    <2>4. ASSUME NEW h \in Handlers, InsertJob(h)
          PROVE  job'[j] = job[j]
      BY <2>2, <2>4, InsertedRow DEF Exists
    <2>5. ASSUME NEW c \in Clients, RetryCommits(c)
          PROVE  job'[j].retries <= l
      BY <2>2, <2>5, RetryRow
    <2> QED BY <1>2, <2>1, <2>2, <2>3, <2>4, <2>5, OtherSteps
  <1> QED BY <1>1, <1>2 DEF Next, WorkerStep, AnyStep

LEMMA NextBudget ==
  ASSUME Inv, RetryInv, BoundInv, BudgetInv, OneWorker, [Next]_vars
  PROVE  BudgetInv'
  <1>1. CASE Next
    <2>1. ReadsHold'
      BY <1>1, NextReadsHold DEF BudgetInv
    <2>2. Cardinality(Reading') <= retryCalls'
      BY <1>1, StartsGrow
    <2>3. \A j \in Jobs : ~Exists(j)' => patches'[j] = 0
      BY <1>1, NoPatchBefore
    <2>4. \A j \in Jobs : Exists(j)' => Used(j)' <= (MaxRetries + 1) * Starts'
      BY <1>1, OtherStepsBudget, WorkerBudget DEF Next, WorkerStep, AnyStep
    <2> QED BY <2>1, <2>2, <2>3, <2>4 DEF BudgetInv
  <1>2. CASE UNCHANGED vars
    BY <1>2 DEF vars, dbVars, redisVars, repoVars, apiVars, BudgetInv, Used,
                ReadsHold, Claims, Asks, Requests, Reading, Starts, Exists,
                JobOf
  <1> QED BY <1>1, <1>2

LEMMA InitBudget ==
  ASSUME Init
  PROVE  BudgetInv
  <1>1. Reading = {}
    BY DEF Init, Reading, IdleClient
  <1>2. Cardinality(Reading) = 0
    BY <1>1, FS_EmptySet
  <1> QED BY <1>2 DEF Init, BudgetInv, ReadsHold, Exists, IdleWorker

\* BudgetInv holds in every reachable state, as every action keeps it.
THEOREM BudgetInvHolds ==
  ASSUME OneWorker
  PROVE  Spec => []BudgetInv
  <1>1. Init => BudgetInv
    BY InitBudget
  <1>2. Inv /\ RetryInv /\ BoundInv /\ BudgetInv /\ [Next]_vars => BudgetInv'
    BY NextBudget
  <1>3. Spec => []BoundInv
    BY BoundInvHolds, OnlyWorker
  <1> QED BY <1>1, <1>2, <1>3, InvHolds, RetryInvHolds, PTL DEF Spec

LEMMA BudgetInvImplies ==
  ASSUME Inv, BoundInv, BudgetInv, OneWorker
  PROVE  AttemptBudget
  <1>2. ASSUME NEW j \in Jobs, Exists(j)
        PROVE  job[j].retries \in Nat /\ job[j].retries <= MaxRetries
    BY <1>2, CounterInLimit
  <1> PICK n, m, k : n = MaxRetries + 1 /\ m = Starts /\ k = retryCalls + 1
    OBVIOUS
  <1>3. n \in Nat /\ m \in Int /\ k \in Nat /\ m <= k
    <2>1. IsFiniteSet(Reading)
      BY ProcessesAssumption, FS_Subset DEF Reading
    <2>2. Cardinality(Reading) \in Nat /\ retryCalls \in Nat
      BY <2>1, FS_CardinalityType, BoundsAssumption DEF Inv, TypeOK
    <2> QED BY <2>2, RetriesAssumption DEF Starts
  <1>4. n * m \in Int /\ n * k \in Int /\ n * m <= n * k
    BY <1>3, Bounds
  <1>5. n * k >= 0
    BY <1>3
  <1>6. ASSUME NEW j \in Jobs PROVE patches[j] <= n * k
    <2>1. CASE ~Exists(j)
      BY <1>4, <1>5, <2>1 DEF BudgetInv
    <2>2. CASE Exists(j)
      <3>1. patches[j] + Cardinality(Claims(j)) + (MaxRetries - job[j].retries)
              <= n * m
        BY <2>2 DEF BudgetInv, Used
      <3>2. Cardinality(Claims(j)) \in Nat /\ patches[j] \in Nat
        BY ClaimsFinite DEF Inv, TypeOK
      <3>3. MaxRetries - job[j].retries \in Nat
        BY <1>2, <2>2, RetriesAssumption
      <3>4. patches[j] <= n * m
        BY <1>4, <3>1, <3>2, <3>3
      <3> QED BY <1>4, <3>2, <3>4
    <2> QED BY <2>1, <2>2
  <1> QED BY <1>2, <1>6 DEF AttemptBudget

\* db.py:123 with the code's reading of the limit: one worker writes no more
\* patches for a job than a first one and MaxRetries more for each time it was
\* started, whatever is delivered twice, crashes, or is retried by hand while it
\* is being repaired, and the counter stays in the limit.
THEOREM PatchesStayBounded ==
  ASSUME OneWorker
  PROVE  Spec => []AttemptBudget
  <1>1. Inv /\ BoundInv /\ BudgetInv => AttemptBudget
    BY BudgetInvImplies
  <1>2. Spec => []BoundInv
    BY BoundInvHolds, OnlyWorker
  <1> QED BY <1>1, <1>2, InvHolds, BudgetInvHolds, PTL

-----------------------------------------------------------------------------
(* What moves a job *)

Underway == {"repairing", "retrying"}

\* The inductive invariant, relative to those of the other modules: a worker
\* whose session has to write the status has read one that is not terminal,
\* and no run is locked before it has ended.
SessionFits(w) ==
  /\ worker[w].pc \in {"idle", "start", "bump"} => worker[w].loaded = None
  /\ worker[w].pc \in {"count", "graph", "pushed"} =>
       worker[w].loaded # None /\ worker[w].loaded.status \in Underway

LocksEnded == locks \subseteq DevRuns \union Ended

SessionInv == LocksEnded /\ \A w \in Workers : SessionFits(w)

\* All that the proof stands on.
Facts == Inv /\ AttemptInv /\ RunsInv /\ SessionInv

-----------------------------------------------------------------------------
(* Sessions *)

\* A status that is written is not the one that was read.
LEMMA StatusOfFlush ==
  ASSUME NEW row \in Row, NEW loaded \in Row, NEW new \in Row
  PROVE  Flush(row, loaded, new).status =
           (IF new.status = loaded.status THEN row.status ELSE new.status)
  BY DEF Flush

\* The increment writes its status, whatever the row holds.
LEMMA BumpIsUnderway ==
  ASSUME Facts, NEW w \in Workers, BumpRetry(w)
  PROVE  /\ JobOf(w) \in Jobs /\ job'[JobOf(w)] # None
         /\ job'[JobOf(w)].status = "retrying"
         /\ \A k \in Jobs : k # JobOf(w) => job'[k] = job[k]
  BY BumpRetryShape, NoneIsNoRow DEF Facts

\* The session of a worker after its step.
LEMMA StepSession ==
  ASSUME Facts, NEW w \in Workers, AnyStep(w)
  PROVE  \A v \in Workers : SessionFits(v)'
  <1>1. \A v \in Workers : v # w => worker'[v] = worker[v]
    BY StepShape DEF Facts
  <1>2. \A v \in Workers : v # w => SessionFits(v)'
    BY <1>1 DEF SessionFits, Facts, SessionInv
  <1>3. worker \in [Workers -> WorkerStates] /\ SessionFits(w)
    BY DEF Facts, SessionInv, Inv, TypeOK
  <1>4. CASE Done(w)
    BY <1>2, <1>3, <1>4 DEF Done, IdleWorker, SessionFits
  <1>5. CASE TakeTask(w)
    BY <1>2, <1>3, <1>5 DEF TakeTask, At, WorkerStates, SessionFits
  <1>6. CASE StartInitial(w)
    <2> DEFINE row == [job[JobOf(w)] EXCEPT !.status = "repairing"]
    <2>1. job[JobOf(w)] \in Row
      BY <1>6, WorkersJob DEF StartInitial, At, Facts, Inv
    <2>2. row \in Row /\ row.status = "repairing"
      BY <2>1 DEF Row, Statuses
    <2> HIDE DEF row
    <2>3. worker'[w].pc = "graph" /\ worker'[w].loaded = row
      BY <1>3, <1>6 DEF StartInitial, WorkerStates, row
    <2>4. SessionFits(w)'
      BY <2>2, <2>3, NoneIsNoRow DEF SessionFits, Underway
    <2> QED BY <1>2, <2>4
  <1>7. CASE BumpRetry(w)
    <2>1. worker'[w].pc = "graph" /\ worker'[w].loaded = job'[JobOf(w)]
      BY <1>7, BumpRetryShape DEF Facts
    <2>2. job'[JobOf(w)] # None /\ job'[JobOf(w)].status = "retrying"
      BY <1>7, BumpIsUnderway
    <2>3. SessionFits(w)'
      BY <2>1, <2>2 DEF SessionFits, Underway
    <2> QED BY <1>2, <2>3
  <1>8. CASE StampRed(w)
    <2>1. attempts[JobOf(w)] # <<>>
      BY <1>8 DEF StampRed, At, Facts, AttemptInv, WorkerHasBranch, AfterCI,
                  OnBranch
    <2>2. PICK p : worker' = [worker EXCEPT ![w].pc = "bump",
                                ![w].loaded = None, ![w].prev = p]
      BY <1>8, <2>1 DEF StampRed
    <2>3. worker'[w].pc = "bump" /\ worker'[w].loaded = None
      BY <1>3, <2>2 DEF WorkerStates
    <2>4. SessionFits(w)'
      BY <2>3 DEF SessionFits
    <2> QED BY <1>2, <2>4
  <1>9. CASE \E ft \in FailureTypes : PushPatch(w, ft)
    BY <1>2, <1>3, <1>9 DEF PushPatch, At, WorkerStates, SessionFits
  <1>10. CASE worker'[w].pc \in {"red", "green", "fetched", "cleaned",
                                 "opened", "escalate"}
    BY <1>2, <1>10 DEF SessionFits
  <1>12. CASE ReadRetries(w)
    <2>1. /\ worker'[w].pc = "count" /\ worker'[w].loaded \in Row
          /\ worker'[w].loaded.status = "retrying"
      BY <1>12, ReadRetriesShape DEF Facts
    <2>2. SessionFits(w)'
      BY <2>1, NoneIsNoRow DEF SessionFits, Underway
    <2> QED BY <1>2, <2>2
  <1>11. \/ Done(w) \/ TakeTask(w) \/ StartInitial(w) \/ BumpRetry(w)
         \/ ReadRetries(w) \/ StampRed(w) \/ (\E ft \in FailureTypes : PushPatch(w, ft))
         \/ worker'[w].pc \in {"red", "green", "fetched", "cleaned",
                               "opened", "escalate"}
    <2>1. TakeTask(w) \/ GoesOn(w) \/ Done(w)
      BY StepShape DEF Facts
    <2>2. CASE StartGreen(w)
      BY <1>3, <2>2 DEF StartGreen, WorkerStates
    <2>4. CASE StartRed(w)
      BY <1>3, <2>4 DEF StartRed, WorkerStates
    <2>5. CASE FetchInternal(w)
      BY <1>3, <2>5 DEF FetchInternal, WorkerStates
    <2>3. CASE StartExhausted(w) \/ PushClean(w) \/ OpenPR(w)
      BY <1>3, <2>3 DEF StartExhausted, PushClean, OpenPR, Goto, WorkerStates
    <2> QED BY <2>1, <2>2, <2>3, <2>4, <2>5 DEF GoesOn
  <1> QED BY <1>4, <1>5, <1>6, <1>7, <1>8, <1>9, <1>10, <1>11, <1>12

\* Only what has happened is locked.
LEMMA StepLocks ==
  ASSUME Facts, [Next]_vars
  PROVE  LocksEnded'
  <1>1. Ended \subseteq Ended' /\ devFailed \subseteq DevRuns
    <2>1. green \subseteq green' /\ red \subseteq red'
      BY DEF Next, GitHubStep, DevRunFails, RunEnds, Redeliver, LoseHook,
             RouterStep, ReceiveFailure, SelectExisting, InsertJob,
             EnqueueInitial, IntakeRaises, HandlerCrashes, DeliverCompletion,
             ReceiveCompletion, LockExpires, ApiStep, RetryReads,
             RetryCommits, RetryEnqueues, RetryFails, WorkerStep,
             WorkerAdvances, TakeTask, StartInitial, StartGreen,
             StartExhausted, StartRed, StampRed, ReadRetries, BumpRetry, DropOut,
             PushPatch, RejectPatch, RecordAttempt, FetchInternal, PushClean,
             OpenPR, CommitPR, Escalate, Raise, WorkerCrashes, vars, ciVars
    <2> QED BY <2>1 DEF Ended, Facts, Inv, TypeOK
  <1>2. \A l \in locks' : l \in locks \/ l \in DevRuns \/ l \in Ended
    <2>1. CASE RouterStep
      BY <1>1, <2>1
         DEF RouterStep, ReceiveFailure, SelectExisting, InsertJob,
             EnqueueInitial, IntakeRaises, HandlerCrashes, DeliverCompletion,
             ReceiveCompletion, LockExpires, redisVars
    <2>2. CASE GitHubStep \/ ApiStep
      BY <2>2 DEF GitHubStep, DevRunFails, RunEnds, Redeliver, LoseHook,
                  ApiStep, RetryReads, RetryCommits, RetryEnqueues,
                  RetryFails, redisVars
    <2>3. CASE WorkerStep
      BY <2>3 DEF WorkerStep, WorkerAdvances, TakeTask, StartInitial,
         StartGreen, StartExhausted, StartRed, StampRed, ReadRetries, BumpRetry,
         DropOut,
         PushPatch, RejectPatch, RecordAttempt, FetchInternal, PushClean,
         OpenPR, CommitPR, Escalate, Raise, WorkerCrashes, redisVars
    <2>4. CASE UNCHANGED vars
      BY <2>4 DEF vars, redisVars
    <2> QED BY <2>1, <2>2, <2>3, <2>4 DEF Next
  <1> QED BY <1>1, <1>2 DEF LocksEnded, Facts, SessionInv

LEMMA NextSession ==
  ASSUME Facts, [Next]_vars
  PROVE  SessionInv'
  <1>1. LocksEnded'
    BY StepLocks
  <1>2. CASE \E w \in Workers : AnyStep(w)
    BY <1>1, <1>2, StepSession DEF SessionInv
  <1>3. CASE UNCHANGED worker
    BY <1>1, <1>3 DEF SessionInv, SessionFits, Facts
  <1>4. GitHubStep \/ RouterStep \/ ApiStep => UNCHANGED worker
    BY OtherSteps DEF Facts
  <1> QED BY <1>2, <1>3, <1>4 DEF Next, WorkerStep, AnyStep, vars

LEMMA InitSession ==
  ASSUME Init
  PROVE  SessionInv
  BY DEF Init, SessionInv, LocksEnded, SessionFits, IdleWorker

THEOREM FactsHold == Spec => []Facts
  <1>1. Init => SessionInv
    BY InitSession
  <1>2. Facts /\ [Next]_vars => SessionInv'
    BY NextSession
  <1> QED BY <1>1, <1>2, InvHolds, AttemptInvHolds, RunsInvHolds, PTL
          DEF Spec, Facts
-----------------------------------------------------------------------------
(* What moves a job *)

Unsettled(j) == Exists(j) /\ job[j].status \notin Terminal

\* A worker that is sure to move j on.
Works(w, j) ==
  /\ worker[w].pc \notin {"idle", "pushed", "escalate"}
  /\ JobOf(w) = j
  /\ ~Stale(w)

\* A run of j that has not ended, and one that has and will be delivered.
Tests(r, j) == r \in running /\ r.job = j
Reports(r, j) == r \in hooks \intersect Ended /\ r.job = j /\ r \notin locks

\* What moves j, but for the workers.
WaitsFor(j) ==
  \/ \E h \in Handlers : Asks(h, j)
  \/ \E c \in Clients : Requests(c, j)
  \/ \E i \in DOMAIN queue : queue[i].job = j
  \/ \E r \in running : Tests(r, j)
  \/ \E r \in hooks : Reports(r, j)

Moved(j) == WaitsFor(j) \/ \E w \in Workers : Works(w, j)

LEMMA MoversAre ==
  ASSUME NEW j
  PROVE  Movers(j) # {} <=> Moved(j)
  <1>1. \A x : x \in Movers(j) <=>
          \/ \E h \in Handlers : x = <<"handler", h>> /\ Asks(h, j)
          \/ \E c \in Clients : x = <<"client", c>> /\ Requests(c, j)
          \/ \E i \in DOMAIN queue : x = <<"task", i>> /\ queue[i].job = j
          \/ \E w \in Workers : x = <<"worker", w>> /\ Works(w, j)
          \/ \E r \in running : x = <<"run", r>> /\ Tests(r, j)
          \/ \E r \in hooks : x = <<"hook", r>> /\ Reports(r, j)
    BY DEF Movers, Drivers, Asks, Requests, Works, At, Tests, Reports
  <1>2. ASSUME Movers(j) # {} PROVE Moved(j)
    <2>1. PICK x : x \in Movers(j)
      BY <1>2
    <2> QED BY <1>1, <2>1 DEF Moved, WaitsFor
  <1>3. ASSUME Moved(j) PROVE Movers(j) # {}
    BY <1>1, <1>3 DEF Moved, WaitsFor
  <1> QED BY <1>2, <1>3

LEMMA StrandedIs ==
  ASSUME NEW j
  PROVE  Stranded(j) <=> Unsettled(j) /\ ~Moved(j)
  BY MoversAre DEF Stranded, Settled, Unsettled

\* What is left alone goes on moving j.
LEMMA WaitingStays ==
  ASSUME NEW j, WaitsFor(j),
         UNCHANGED <<router, client, hooks, green, red, locks>>,
         running \subseteq running',
         \A i \in DOMAIN queue : queue[i].job = j =>
           \E k \in DOMAIN queue' : queue'[k].job = j
  PROVE  WaitsFor(j)'
  BY DEF WaitsFor, Asks, Requests, Tests, Reports, Ended

LEMMA WorkingStays ==
  ASSUME NEW j, NEW w \in Workers, Works(w, j), worker'[w] = worker[w]
  PROVE  Works(w, j)'
  BY DEF Works, JobOf, Stale

-----------------------------------------------------------------------------
(* What a worker's step does to the status *)

\* A commit that means to settle the job does, unless it has read the status it
\* means to write.
LEMMA CommitSettles ==
  ASSUME Facts, NEW w \in Workers, worker[w].pc # "idle", NEW new \in Row,
         new.status \in Terminal, Commits(w, new)
  PROVE  /\ JobOf(w) \in Jobs
         /\ \A k \in Jobs : k # JobOf(w) => job'[k] = job[k]
         /\ job'[JobOf(w)].status \in Terminal \union {job[JobOf(w)].status}
         /\ ~Stale(w) => job'[JobOf(w)].status \in Terminal
  <1> PICK j : j = JobOf(w)
    OBVIOUS
  <1>1. j \in Jobs /\ job[j] \in Row /\ JobRow(w) \in Row
    BY WorkersJob DEF Facts, Inv
  <1>2. /\ job'[j] = Flush(job[j], JobRow(w), new)
        /\ \A k \in Jobs : k # j => job'[k] = job[k]
    BY CommitOfRow DEF Facts
  <1>3. job'[j].status = (IF new.status = JobRow(w).status
                          THEN job[j].status ELSE new.status)
    BY <1>1, <1>2, StatusOfFlush
  <1>4. CASE worker[w].loaded = None
    <2>1. JobRow(w) = job[j]
      BY <1>4 DEF JobRow
    <2> QED BY <1>1, <1>2, <1>3, <2>1
  <1>5. CASE worker[w].loaded # None
    <2>1. JobRow(w) = worker[w].loaded
      BY <1>5 DEF JobRow
    <2> QED BY <1>1, <1>2, <1>3, <1>5, <2>1 DEF Stale
  <1> QED BY <1>4, <1>5

\* The ends of a task that mean to settle the job.
Settles(w) ==
  \/ \E ft \in FailureTypes : DropOut(w, ft) \/ RejectPatch(w, ft)
  \/ CommitPR(w)
  \/ Raise(w)

SettlesWith(new, loaded) ==
  new.status \in Terminal /\ new.tracked = loaded.tracked

LEMMA SettlingCommits ==
  ASSUME Facts, NEW w \in Workers, Settles(w)
  PROVE  /\ worker[w].pc # "idle"
         /\ \E new \in Row : Commits(w, new) /\ SettlesWith(new, JobRow(w))
  <1>1. worker[w].pc # "idle"
    BY DEF Settles, DropOut, RejectPatch, CommitPR, Raise, At, CallPoints,
           TryPoints
  <1>2. JobRow(w) \in Row
    BY <1>1, WorkersJob DEF Facts, Inv
  <1>3. ASSUME NEW ft \in FailureTypes, DropOut(w, ft)
        PROVE  \E new \in Row : Commits(w, new) /\ SettlesWith(new, JobRow(w))
    <2>1. PICK s \in {"undiagnosable", "needs-human-review"} :
            Commits(w, [JobRow(w) EXCEPT !.status = s, !.failure = ft])
      BY <1>3 DEF DropOut
    <2> DEFINE new == [JobRow(w) EXCEPT !.status = s, !.failure = ft]
    <2>2. new \in Row /\ SettlesWith(new, JobRow(w))
      BY <1>2 DEF Row, Statuses, Terminal, SettlesWith
    <2> QED BY <2>1, <2>2
  <1>4. ASSUME NEW ft \in FailureTypes, RejectPatch(w, ft)
        PROVE  \E new \in Row : Commits(w, new) /\ SettlesWith(new, JobRow(w))
    <2> DEFINE new == [JobRow(w) EXCEPT !.status = "needs-human-review",
                                        !.failure = ft]
    <2>1. new \in Row /\ SettlesWith(new, JobRow(w))
      BY <1>2 DEF Row, Statuses, Terminal, SettlesWith
    <2> QED BY <1>4, <2>1 DEF RejectPatch
  <1>5. CASE CommitPR(w)
    <2> PICK new : new = [JobRow(w) EXCEPT !.status = "pr_opened",
                                           !.pr = CleanType(w)]
      OBVIOUS
    <2>1. CleanType(w) \in FailureTypes
      BY <1>2, UnknownAssumption DEF CleanType, Row
    <2>2. new \in Row /\ SettlesWith(new, JobRow(w))
      BY <1>2, <2>1 DEF Row, Statuses, Terminal, SettlesWith
    <2>3. Commits(w, new)
      BY <1>5 DEF CommitPR
    <2> QED BY <1>1, <2>2, <2>3
  <1>6. CASE Raise(w)
    <2> PICK new : new = [JobRow(w) EXCEPT !.status = "failed"]
      OBVIOUS
    <2>1. new \in Row /\ SettlesWith(new, JobRow(w))
      BY <1>2 DEF Row, Statuses, Terminal, SettlesWith
    <2>2. Commits(w, new)
      BY <1>6 DEF Raise
    <2> QED BY <1>1, <2>1, <2>2
  <1> QED BY <1>1, <1>3, <1>4, <1>5, <1>6 DEF Settles

\* The attempt is recorded with the status the job had when it was read.
LEMMA RecordKeepsStatus ==
  ASSUME Facts, NEW w \in Workers, RecordAttempt(w)
  PROVE  /\ JobOf(w) \in Jobs
         /\ \A k \in Jobs : k # JobOf(w) => job'[k] = job[k]
         /\ job'[JobOf(w)].status = job[JobOf(w)].status
  <1> PICK j : j = JobOf(w)
    OBVIOUS
  <1>1. worker[w].pc = "pushed"
    BY DEF RecordAttempt, At
  <1>2. /\ j \in Jobs /\ job[j] \in Row /\ JobRow(w) \in Row
        /\ worker[w] \in WorkerStates
    BY <1>1, WorkersJob DEF Facts, Inv
  <1>3. JobRow(w).status \in Underway
    BY <1>1 DEF JobRow, Facts, SessionInv, SessionFits
  <1> PICK new : new = Dispatched(JobRow(w), worker[w].ft)
    OBVIOUS
  <1>4. new \in Row /\ new.status = JobRow(w).status
    BY <1>2, <1>3 DEF Dispatched, Underway, Row, Statuses, WorkerStates
  <1>5. /\ job'[j] = Flush(job[j], JobRow(w), new)
        /\ \A k \in Jobs : k # j => job'[k] = job[k]
    BY <1>1, <1>4, CommitOfRow DEF RecordAttempt, Facts
  <1> QED BY <1>2, <1>4, <1>5, StatusOfFlush

\* What a worker's step can do to the status of j.
LEMMA WorkerStatus ==
  ASSUME Facts, NEW w \in Workers, AnyStep(w), NEW j \in Jobs
  PROVE  \/ job'[j] = job[j]
         \/ /\ JobOf(w) = j
            /\ \/ job'[j].status \in Terminal \union {job[j].status}
               \/ StartInitial(w) \/ BumpRetry(w)
  <1>1. CASE UNCHANGED job
    BY <1>1
  <1>2. CASE StartInitial(w) \/ StartExhausted(w)
    <2>1. job \in [Jobs -> Row \union {None}]
      BY DEF Facts, Inv, TypeOK
    <2>2. CASE StartInitial(w)
      BY <2>1, <2>2 DEF StartInitial
    <2>3. CASE StartExhausted(w)
      <3>1. JobOf(w) \in Jobs /\ job[JobOf(w)] \in Row
        BY <2>3, WorkersJob DEF StartExhausted, Completes, At, Facts, Inv
      <3>2. job' = [job EXCEPT ![JobOf(w)].status = "failed"]
        BY <2>3 DEF StartExhausted
      <3> QED BY <2>1, <3>1, <3>2 DEF Terminal, Row
    <2> QED BY <1>2, <2>2, <2>3
  <1>3. CASE Settles(w)
    <2>1. PICK new \in Row : Commits(w, new) /\ SettlesWith(new, JobRow(w))
      BY <1>3, SettlingCommits
    <2> QED BY <1>3, <2>1, SettlingCommits, CommitSettles DEF SettlesWith
  <1>4. CASE RecordAttempt(w)
    BY <1>4, RecordKeepsStatus
  <1>5. CASE BumpRetry(w)
    BY <1>5, BumpIsUnderway
  <1>6. \/ UNCHANGED job \/ StartInitial(w) \/ StartExhausted(w)
        \/ Settles(w) \/ RecordAttempt(w) \/ BumpRetry(w)
    BY DEF AnyStep, WorkerAdvances, Settles, TakeTask, StartGreen, StartRed,
           StampRed, ReadRetries, PushPatch, FetchInternal, PushClean, OpenPR,
           Escalate, WorkerCrashes, dbVars
  <1> QED BY <1>1, <1>2, <1>3, <1>4, <1>5, <1>6

\* A worker that reads the job reads what is unsettled as unsettled.
LEMMA ReadsUnsettled ==
  ASSUME Facts, NEW w \in Workers, NEW j \in Jobs, Unsettled(j), JobOf(w) = j,
         StartGreen(w) \/ StartRed(w)
  PROVE  Works(w, j)'
  <1>1. worker \in [Workers -> WorkerStates]
    BY DEF Facts, Inv, TypeOK
  <1>2. /\ worker'[w].pc \in {"green", "red"}
        /\ worker'[w].loaded = job[j]
        /\ worker'[w].task = worker[w].task
    <2>1. CASE StartGreen(w)
      BY <1>1, <2>1 DEF StartGreen, WorkerStates
    <2>2. CASE StartRed(w)
      BY <1>1, <2>2 DEF StartRed, WorkerStates
    <2> QED BY <2>1, <2>2
  <1>3. JobOf(w)' = j
    BY <1>2 DEF JobOf
  <1>4. ~Stale(w)'
    BY <1>2 DEF Stale, Unsettled
  <1> QED BY <1>2, <1>3, <1>4 DEF Works

\* A worker that goes on with what it has read still moves the job.
LEMMA GoesOnMoving ==
  ASSUME Facts, NEW w \in Workers, NEW j \in Jobs, Works(w, j),
         StampRed(w) \/ FetchInternal(w) \/ PushClean(w) \/ OpenPR(w)
  PROVE  Works(w, j)'
  <1>1. worker \in [Workers -> WorkerStates]
    BY DEF Facts, Inv, TypeOK
  <1>2. GoesOn(w)
    BY DEF GoesOn
  <1>3. worker'[w].task = worker[w].task
    BY <1>2, GoesOnShape DEF Facts
  <1>4. /\ worker'[w].pc \in {"bump", "fetched", "cleaned", "opened"}
        /\ worker'[w].loaded \in {worker[w].loaded, None}
    <2>1. CASE StampRed(w)
      <3>1. worker'[w].pc = "bump"
        <4>2. CASE Goto(w, "bump")
          BY <1>1, <4>2 DEF Goto, WorkerStates
        <4>3. CASE \E p : worker' = [worker EXCEPT ![w].pc = "bump",
                                 ![w].loaded = None, ![w].prev = p]
          <5>1. PICK p : worker' = [worker EXCEPT ![w].pc = "bump",
                                 ![w].loaded = None, ![w].prev = p]
            BY <4>3
          <5> QED BY <1>1, <5>1 DEF WorkerStates
        <4> QED BY <2>1, <4>2, <4>3 DEF StampRed
      <3>2. AnyStep(w)
        BY <2>1 DEF AnyStep, WorkerAdvances
      <3>3. worker'[w].loaded = None
        BY <3>1, <3>2, StepSession DEF SessionFits
      <3> QED BY <3>1, <3>3
    <2>2. CASE FetchInternal(w)
      BY <1>1, <2>2 DEF FetchInternal, WorkerStates
    <2>3. CASE PushClean(w) \/ OpenPR(w)
      BY <1>1, <2>3 DEF PushClean, OpenPR, Goto, WorkerStates
    <2> QED BY <2>1, <2>2, <2>3
  <1>5. JobOf(w)' = j
    BY <1>3 DEF JobOf, Works
  <1>6. ~Stale(w)'
    BY <1>4 DEF Stale, Works
  <1> QED BY <1>4, <1>5, <1>6 DEF Works

\* A repair that begins moves its job, and so does one about to be counted.
LEMMA BeginsMoving ==
  ASSUME Facts, NEW w \in Workers, NEW j \in Jobs, JobOf(w) = j,
         StartInitial(w) \/ ReadRetries(w) \/ BumpRetry(w)
  PROVE  Works(w, j)'
  <1>1. worker \in [Workers -> WorkerStates]
    BY DEF Facts, Inv, TypeOK
  <1>2. GoesOn(w) /\ AnyStep(w)
    BY DEF GoesOn, AnyStep, WorkerAdvances
  <1>3. worker'[w].task = worker[w].task
    BY <1>2, GoesOnShape DEF Facts
  <1>4. worker'[w].pc \in {"graph", "count"}
    <2>1. CASE StartInitial(w)
      BY <1>1, <2>1 DEF StartInitial, WorkerStates
    <2>2. CASE ReadRetries(w) \/ BumpRetry(w)
      BY <2>2, ReadRetriesShape, BumpRetryShape DEF Facts
    <2> QED BY <2>1, <2>2
  <1>5. SessionFits(w)'
    BY <1>2, StepSession
  <1>6. ~Stale(w)'
    BY <1>4, <1>5 DEF SessionFits, Stale, Underway, Terminal
  <1>7. JobOf(w)' = j
    BY <1>3 DEF JobOf
  <1> QED BY <1>4, <1>6, <1>7 DEF Works

-----------------------------------------------------------------------------
(* A job that is moved stays moved, unless a step drops it *)

\* What has to be shown of a step.
Keeps(j) ==
  (Unsettled(j) => Moved(j)) /\ Unsettled(j)' /\ ~Drops(j) => Moved(j)'

\* A run that has been started has not ended, and tests its job.
LEMMA PushedRuns ==
  ASSUME NEW w \in Workers, NEW ft \in FailureTypes, PushPatch(w, ft),
         NEW j \in Jobs, JobOf(w) = j
  PROVE  WaitsFor(j)'
  <1>3. PICK f : f \in Workflows
    BY WorkflowsAssumption
  <1>4. PICK r : r = [job |-> j, patch |-> patches[j] + 1, wf |-> f]
    OBVIOUS
  <1>5. r \in running' /\ r.job = j
    BY <1>3, <1>4 DEF PushPatch
  <1>6. Tests(r, j)'
    BY <1>5 DEF Tests
  <1> QED BY <1>5, <1>6 DEF WaitsFor

\* What waits for j is not touched by a worker, but for the task it takes.
LEMMA WorkersLeaveWaiting ==
  ASSUME Facts, NEW w \in Workers, AnyStep(w), NEW j \in Jobs, WaitsFor(j)
  PROVE  Moved(j)'
  <1>1. UNCHANGED <<router, client, hooks, green, red, locks>>
        /\ running \subseteq running'
    BY DEF AnyStep, WorkerAdvances, TakeTask, StartInitial,
         StartGreen, StartExhausted, StartRed, StampRed, ReadRetries, BumpRetry,
         DropOut,
         PushPatch, RejectPatch, RecordAttempt, FetchInternal, PushClean,
         OpenPR, CommitPR, Escalate, Raise, WorkerCrashes, redisVars, ciVars,
         apiVars
  <1>2. CASE UNCHANGED queue
    BY <1>1, <1>2, WaitingStays DEF Moved
  <1>3. CASE TakeTask(w) /\ queue[1].job = j
    <2>1. /\ worker'[w] = [worker[w] EXCEPT !.pc = "start", !.task = queue[1]]
          /\ worker'[w].pc = "start" /\ worker'[w].task = queue[1]
          /\ worker[w].pc = "idle"
      BY <1>3, TakenTask DEF Facts
    <2>2. worker'[w].loaded = None
      BY <2>1, StepSession DEF SessionFits
    <2>3. Works(w, j)'
      BY <1>3, <2>1, <2>2 DEF Works, JobOf, Stale
    <2> QED BY <2>3 DEF Moved
  <1>4. CASE TakeTask(w) /\ queue[1].job # j
    <2>1. \A i \in DOMAIN queue : i # 1 =>
              i - 1 \in DOMAIN queue' /\ queue'[i - 1] = queue[i]
      BY <1>4, TakenTask DEF Facts
    <2>2. \A i \in DOMAIN queue : queue[i].job = j =>
            \E k \in DOMAIN queue' : queue'[k].job = j
      BY <1>4, <2>1
    <2> QED BY <1>1, <2>2, WaitingStays DEF Moved
  <1>5. UNCHANGED queue \/ TakeTask(w)
    BY StepShape, GoesOnShape DEF Facts
  <1> QED BY <1>2, <1>3, <1>4, <1>5

\* A worker that moves a job moves it on, settles it or drops it.
LEMMA WorkerMovesOn ==
  ASSUME Facts, NEW w \in Workers, AnyStep(w), NEW j \in Jobs, Works(w, j),
         Unsettled(j)', Unsettled(j), ~Drops(j)
  PROVE  Moved(j)'
  <1>1. JobOf(w) = j /\ ~Stale(w) /\ worker[w].pc \notin {"idle", "pushed", "escalate"}
    BY DEF Works
  <1>2. CASE StartInitial(w) \/ ReadRetries(w) \/ BumpRetry(w)
    BY <1>1, <1>2, BeginsMoving DEF Moved
  <1>3. CASE StartGreen(w) \/ StartRed(w)
    BY <1>1, <1>3, ReadsUnsettled DEF Moved
  <1>4. CASE StampRed(w) \/ FetchInternal(w) \/ PushClean(w) \/ OpenPR(w)
    BY <1>4, GoesOnMoving DEF Moved
  <1>5. CASE \E ft \in FailureTypes : PushPatch(w, ft)
    BY <1>1, <1>5, PushedRuns DEF Moved
  <1>6. ~StartExhausted(w)
    <2> SUFFICES ASSUME StartExhausted(w) PROVE FALSE
      OBVIOUS
    <2>1. job \in [Jobs -> Row \union {None}] /\ job[j] \in Row
      BY <1>1, WorkersJob DEF Facts, Inv, TypeOK
    <2>2. job'[j].status = "failed"
      BY <1>1, <2>1 DEF StartExhausted, Row
    <2> QED BY <2>2 DEF Unsettled, Terminal
  <1>7. ~Settles(w)
    <2> SUFFICES ASSUME Settles(w) PROVE FALSE
      OBVIOUS
    <2>1. PICK new \in Row : Commits(w, new) /\ SettlesWith(new, JobRow(w))
      BY SettlingCommits
    <2>2. job'[j].status \in Terminal
      BY <1>1, <2>1, SettlingCommits, CommitSettles DEF SettlesWith
    <2> QED BY <2>2 DEF Unsettled
  <1>8. ~RecordAttempt(w) /\ ~Escalate(w) /\ ~TakeTask(w)
    BY <1>1 DEF RecordAttempt, Escalate, TakeTask, At
  <1>9. ~WorkerCrashes(w)
    BY <1>1 DEF Drops, At
  <1> QED BY <1>2, <1>3, <1>4, <1>5, <1>6, <1>7, <1>8, <1>9
          DEF AnyStep, WorkerAdvances, Settles

LEMMA WorkerStepKeeps ==
  ASSUME Facts, NEW w \in Workers, AnyStep(w), NEW j \in Jobs
  PROVE  Keeps(j)
  <1> SUFFICES ASSUME Unsettled(j) => Moved(j), Unsettled(j)', ~Drops(j)
               PROVE  Moved(j)'
    BY DEF Keeps
  <1>1. CASE ~Unsettled(j)
    <2>1. job'[j] # job[j]
      BY <1>1 DEF Unsettled, Exists
    <2>2. JobOf(w) = j /\ (StartInitial(w) \/ BumpRetry(w)
                           \/ job'[j].status \in Terminal \union {job[j].status})
      BY <2>1, WorkerStatus
    <2>3. CASE StartInitial(w) \/ BumpRetry(w)
      BY <2>2, <2>3, BeginsMoving DEF Moved
    <2>4. CASE ~(StartInitial(w) \/ BumpRetry(w))
      <3>1. worker[w].pc # "idle"
        BY <2>1, <2>4 DEF AnyStep, WorkerAdvances, TakeTask, StartGreen,
           StartExhausted, StartRed, StampRed, ReadRetries, DropOut, PushPatch,
           RejectPatch, RecordAttempt, FetchInternal, PushClean, OpenPR,
           CommitPR, Escalate, Raise, WorkerCrashes, Completes, At, dbVars,
           CallPoints, TryPoints
      <3>2. Exists(j)
        BY <2>2, <3>1, WorkersJob, NoneIsNoRow DEF Facts, Inv, Exists
      <3> QED BY <1>1, <2>2, <2>4, <3>2 DEF Unsettled
    <2> QED BY <2>3, <2>4
  <1>2. CASE WaitsFor(j)
    BY <1>2, WorkersLeaveWaiting
  <1>3. ASSUME NEW v \in Workers, Works(v, j), v # w
        PROVE  Moved(j)'
    BY <1>3, StepShape, WorkingStays DEF Moved, Facts
  <1>4. CASE Unsettled(j) /\ Works(w, j)
    BY <1>4, WorkerMovesOn
  <1> QED BY <1>1, <1>2, <1>3, <1>4 DEF Moved

\* Where the workers stay, whatever moves j but for them is to be kept.
LEMMA WorkersGoOnWorking ==
  ASSUME NEW j, UNCHANGED worker
  PROVE  (\E w \in Workers : Works(w, j)) => Moved(j)'
  BY WorkingStays DEF Moved

\* GitHub: a run that ends reports, and only a loss takes a report away.
LEMMA GitHubStepKeeps ==
  ASSUME Facts, GitHubStep, NEW j \in Jobs
  PROVE  Keeps(j)
  <1> SUFFICES ASSUME Unsettled(j) => Moved(j), Unsettled(j)', ~Drops(j)
               PROVE  Moved(j)'
    BY DEF Keeps
  <1>1. UNCHANGED <<job, worker, router, client, queue, locks>>
    BY DEF GitHubStep, DevRunFails, RunEnds, Redeliver, LoseHook, dbVars,
           redisVars, apiVars
  <1>2. Unsettled(j) /\ Moved(j)
    BY <1>1 DEF Unsettled, Exists
  <1>3. CASE \E w \in Workers : Works(w, j)
    BY <1>1, <1>3, WorkersGoOnWorking
  <1>4. CASE \/ \E h \in Handlers : Asks(h, j)
             \/ \E c \in Clients : Requests(c, j)
             \/ \E i \in DOMAIN queue : queue[i].job = j
    <2>1. WaitsFor(j)'
      BY <1>1, <1>4 DEF WaitsFor, Asks, Requests
    <2> QED BY <2>1 DEF Moved
  <1>5. ASSUME NEW r \in running, Tests(r, j)
        PROVE  Moved(j)'
    <2>1. CASE r \in running'
      <3>1. Tests(r, j)'
        BY <1>5, <2>1 DEF Tests
      <3> QED BY <2>1, <3>1 DEF Moved, WaitsFor
    <2>2. CASE r \notin running'
      <3>1. RunEnds(r)
        BY <2>2 DEF GitHubStep, DevRunFails, RunEnds, Redeliver, LoseHook
      <3>2. r \in hooks' /\ r \in Ended'
        BY <3>1 DEF RunEnds, Ended
      <3>3. r \notin Ended /\ r \in RunIds
        BY DEF Facts, RunsInv, Inv, TypeOK
      <3>4. r \notin locks
        BY <3>3, RunsApart DEF Facts, SessionInv, LocksEnded
      <3>5. Reports(r, j)'
        BY <1>1, <1>5, <3>2, <3>4 DEF Reports, Tests
      <3> QED BY <3>2, <3>5 DEF Moved, WaitsFor
    <2> QED BY <2>1, <2>2
  <1>6. ASSUME NEW r \in hooks, Reports(r, j)
        PROVE  Moved(j)'
    <2>1. r \in Ended /\ r.job = j /\ r \notin locks
      BY <1>6 DEF Reports
    <2>2. r \in Ended'
      BY <2>1 DEF Ended, GitHubStep, DevRunFails, RunEnds, Redeliver, LoseHook
    <2>3. ~LoseHook(r)
      BY <1>6, <2>1 DEF Drops
    <2>4. r \in hooks'
      BY <2>3 DEF GitHubStep, DevRunFails, RunEnds, Redeliver, LoseHook
    <2>5. Reports(r, j)'
      BY <1>1, <2>1, <2>2, <2>4 DEF Reports
    <2> QED BY <2>4, <2>5 DEF Moved, WaitsFor
  <1> QED BY <1>2, <1>3, <1>4, <1>5, <1>6 DEF Moved, WaitsFor

\* Only workers take tasks.
LEMMA TasksStay ==
  ASSUME Facts, GitHubStep \/ RouterStep \/ ApiStep
  PROVE  \A i \in DOMAIN queue : i \in DOMAIN queue' /\ queue'[i] = queue[i]
  <1>1. CASE UNCHANGED queue
    BY <1>1
  <1>2. ASSUME NEW t \in Tasks, queue' = Append(queue, t)
        PROVE  \A i \in DOMAIN queue :
                 i \in DOMAIN queue' /\ queue'[i] = queue[i]
    BY <1>2, AppendedTask DEF Facts
  <1>3. UNCHANGED queue \/ \E t \in Tasks : queue' = Append(queue, t)
    BY EnqueueSteps, InitialTaskIsTask
       DEF EnqueueInitial, RetryEnqueues, Facts
  <1> QED BY <1>1, <1>2, <1>3

\* Who inserts a job will ask for its repair, and asks until it has enqueued.
LEMMA InsertedAsked ==
  ASSUME Facts, RouterStep, NEW j \in Jobs, job'[j] # job[j]
  PROVE  \E h \in Handlers : Asks(h, j)'
  <1>1. router \in [Handlers -> HandlerStates]
    BY DEF Facts, Inv, TypeOK
  <1>2. PICK h \in Handlers : InsertJob(h)
    BY DEF RouterStep, ReceiveFailure, SelectExisting, EnqueueInitial,
           IntakeRaises, HandlerCrashes, DeliverCompletion,
           ReceiveCompletion, LockExpires, dbVars
  <1>3. PICK k \in Jobs :
          /\ job[k] = None
          /\ job' = [job EXCEPT ![k] = NewRow(router[h].run)]
          /\ router' = [router EXCEPT ![h].pc = "enqueue", ![h].job = k]
    BY <1>2 DEF InsertJob
  <1>4. k = j
    BY <1>3 DEF Facts, Inv, TypeOK
  <1>5. Asks(h, j)'
    BY <1>1, <1>3, <1>4 DEF Asks, HandlerStates
  <1> QED BY <1>5

LEMMA AskedEnqueued ==
  ASSUME Facts, RouterStep, NEW h \in Handlers, NEW j \in Jobs, Asks(h, j),
         ~IntakeRaises(h), ~HandlerCrashes(h)
  PROVE  Asks(h, j)' \/ \E i \in DOMAIN queue' : queue'[i] = InitialTask(j)
  <1>1. CASE router'[h] = router[h]
    BY <1>1 DEF Asks
  <1>2. CASE EnqueueInitial(h)
    <2>1. queue' = Append(queue, InitialTask(j))
      BY <1>2 DEF EnqueueInitial, Asks
    <2> QED BY <2>1, InitialTaskIsTask, AppendedTask DEF Facts
  <1>3. router'[h] = router[h] \/ EnqueueInitial(h)
    <2>1. router \in [Handlers -> HandlerStates]
      BY DEF Facts, Inv, TypeOK
    <2> QED BY <2>1
       DEF RouterStep, ReceiveFailure, SelectExisting, InsertJob,
           EnqueueInitial, IntakeRaises, HandlerCrashes, DeliverCompletion,
           ReceiveCompletion, LockExpires, HandlerAt, HandlerEnds, Asks
  <1> QED BY <1>1, <1>2, <1>3

\* The same of who commits a retry.
LEMMA CommittedRequested ==
  ASSUME Facts, ApiStep, NEW j \in Jobs, job'[j] # job[j]
  PROVE  \E c \in Clients : Requests(c, j)'
  <1>1. client \in [Clients -> ClientStates]
    BY DEF Facts, Inv, TypeOK
  <1>2. PICK c \in Clients : RetryCommits(c)
    BY DEF ApiStep, RetryReads, RetryEnqueues, RetryFails, dbVars
  <1>3. client[c].job = j
    BY <1>2 DEF RetryCommits, Facts, Inv, TypeOK
  <1>4. Requests(c, j)'
    BY <1>1, <1>2, <1>3 DEF RetryCommits, Requests, ClientStates
  <1> QED BY <1>4

LEMMA RequestedEnqueued ==
  ASSUME Facts, ApiStep, NEW c \in Clients, NEW j \in Jobs, Requests(c, j),
         ~RetryFails(c)
  PROVE  Requests(c, j)' \/ \E i \in DOMAIN queue' : queue'[i] = InitialTask(j)
  <1>1. CASE client'[c] = client[c]
    BY <1>1 DEF Requests
  <1>2. CASE RetryEnqueues(c)
    <2>1. queue' = Append(queue, InitialTask(j))
      BY <1>2 DEF RetryEnqueues, Requests
    <2> QED BY <2>1, InitialTaskIsTask, AppendedTask DEF Facts
  <1>3. client'[c] = client[c] \/ RetryEnqueues(c)
    <2>1. client \in [Clients -> ClientStates]
      BY DEF Facts, Inv, TypeOK
    <2> QED BY <2>1 DEF ApiStep, RetryReads, RetryCommits, RetryEnqueues,
                        RetryFails, ClientEnds, Requests
  <1> QED BY <1>1, <1>2, <1>3

\* The router: a job that is inserted is asked for, what is enqueued waits in
\* the queue, and only what Drops names is dropped.
LEMMA RouterStepKeeps ==
  ASSUME Facts, RouterStep, NEW j \in Jobs
  PROVE  Keeps(j)
  <1> SUFFICES ASSUME Unsettled(j) => Moved(j), Unsettled(j)', ~Drops(j)
               PROVE  Moved(j)'
    BY DEF Keeps
  <1>1. UNCHANGED <<worker, client, running, green, red, devFailed>>
    BY DEF RouterStep, ReceiveFailure, SelectExisting, InsertJob,
           EnqueueInitial, IntakeRaises, HandlerCrashes, DeliverCompletion,
           ReceiveCompletion, LockExpires, ciVars, apiVars
  <1>3. ASSUME ~Unsettled(j) PROVE Moved(j)'
    <2>1. job'[j] # job[j]
      BY <1>3 DEF Unsettled, Exists
    <2> QED BY <2>1, InsertedAsked DEF Moved, WaitsFor
  <1>4. CASE \E w \in Workers : Works(w, j)
    BY <1>1, <1>4, WorkersGoOnWorking
  <1>5. CASE \E c \in Clients : Requests(c, j)
    BY <1>1, <1>5 DEF Moved, WaitsFor, Requests
  <1>6. CASE \E r \in running : Tests(r, j)
    BY <1>1, <1>6 DEF Moved, WaitsFor, Tests
  <1>7. CASE \E i \in DOMAIN queue : queue[i].job = j
    BY <1>7, TasksStay DEF Moved, WaitsFor
  <1>8. ASSUME NEW h \in Handlers, Asks(h, j) PROVE Moved(j)'
    <2>1. ~IntakeRaises(h) /\ ~HandlerCrashes(h)
      BY <1>8 DEF Drops, Asks
    <2>2. Asks(h, j)' \/ \E i \in DOMAIN queue' : queue'[i] = InitialTask(j)
      BY <1>8, <2>1, AskedEnqueued
    <2> QED BY <2>2, InitialTaskIsTask DEF Moved, WaitsFor
  <1>9. ASSUME NEW r \in hooks, Reports(r, j), Unsettled(j) PROVE Moved(j)'
    <2>1. r \in Ended /\ r.job = j /\ r \notin locks /\ r \in RunIds
      BY <1>9 DEF Reports, Ended, Facts, Inv, TypeOK
    <2>2. CASE r \in hooks' /\ r \notin locks'
      <3>1. Reports(r, j)'
        BY <1>1, <2>1, <2>2 DEF Reports, Ended
      <3> QED BY <2>2, <3>1 DEF Moved, WaitsFor
    <2>3. CASE ReceiveCompletion(r)
      <3>1. job[j].tracked /\ ~(r \in locks' /\ queue' = queue)
        BY <1>9, <2>1, <2>3 DEF Drops
      <3>2. KnownBranch(r) /\ LockIsFree(r)
        BY <1>9, <2>1, <3>1 DEF KnownBranch, LockIsFree, Unsettled, Exists
      <3>3. queue' = Append(queue, CompletionTask(j, r, Conclusion(r)))
        BY <2>1, <2>3, <3>1, <3>2 DEF ReceiveCompletion
      <3>4. CompletionTask(j, r, Conclusion(r)) \in Tasks
        BY <2>1 DEF CompletionTask, Conclusion, Conclusions, Tasks
      <3>5. Len(queue) + 1 \in DOMAIN queue'
            /\ queue'[Len(queue) + 1].job = j
        BY <3>3, <3>4, AppendedTask DEF Facts, CompletionTask
      <3> QED BY <3>5 DEF Moved, WaitsFor
    <2>4. (r \in hooks' /\ r \notin locks') \/ ReceiveCompletion(r)
      <3>1. r \notin DevRuns
        BY <2>1, RunsApart
      <3> QED BY <1>9, <2>1, <3>1
         DEF RouterStep, ReceiveFailure, SelectExisting, InsertJob,
             EnqueueInitial, IntakeRaises, HandlerCrashes, DeliverCompletion,
             ReceiveCompletion, LockExpires, redisVars, ciVars, Facts, Inv,
             TypeOK
    <2> QED BY <2>2, <2>3, <2>4
  <1> QED BY <1>3, <1>4, <1>5, <1>6, <1>7, <1>8, <1>9 DEF Moved, WaitsFor

\* The API: a retry that is committed is requested until it is enqueued.
LEMMA ApiStepKeeps ==
  ASSUME Facts, ApiStep, NEW j \in Jobs
  PROVE  Keeps(j)
  <1> SUFFICES ASSUME Unsettled(j) => Moved(j), Unsettled(j)', ~Drops(j)
               PROVE  Moved(j)'
    BY DEF Keeps
  <1>1. UNCHANGED <<worker, router, running, green, red, hooks, locks>>
    BY DEF ApiStep, RetryReads, RetryCommits, RetryEnqueues, RetryFails,
           ciVars, redisVars
  <1>3. ASSUME ~Unsettled(j) PROVE Moved(j)'
    <2>1. job'[j] # job[j]
      BY <1>3 DEF Unsettled, Exists
    <2> QED BY <2>1, CommittedRequested DEF Moved, WaitsFor
  <1>4. CASE \E w \in Workers : Works(w, j)
    BY <1>1, <1>4, WorkersGoOnWorking
  <1>5. CASE \/ \E h \in Handlers : Asks(h, j)
             \/ \E r \in running : Tests(r, j)
             \/ \E r \in hooks : Reports(r, j)
    <2>1. WaitsFor(j)'
      BY <1>1, <1>5 DEF WaitsFor, Asks, Tests, Reports, Ended
    <2> QED BY <2>1 DEF Moved
  <1>6. CASE \E i \in DOMAIN queue : queue[i].job = j
    BY <1>6, TasksStay DEF Moved, WaitsFor
  <1>7. ASSUME NEW c \in Clients, Requests(c, j) PROVE Moved(j)'
    <2>1. ~RetryFails(c)
      BY <1>7 DEF Drops, Requests
    <2>2. Requests(c, j)' \/ \E i \in DOMAIN queue' : queue'[i] = InitialTask(j)
      BY <1>7, <2>1, RequestedEnqueued
    <2> QED BY <2>2, InitialTaskIsTask DEF Moved, WaitsFor
  <1> QED BY <1>3, <1>4, <1>5, <1>6, <1>7 DEF Moved, WaitsFor
-----------------------------------------------------------------------------
(* Only faults strand *)

LEMMA StepsKeep ==
  ASSUME Facts, [Next]_vars, NEW j \in Jobs
  PROVE  Keeps(j)
  <1>1. CASE UNCHANGED vars
    BY <1>1 DEF vars, dbVars, redisVars, ciVars, apiVars, Keeps, Unsettled,
                Exists, Moved, WaitsFor, Works, Tests, Reports, Ended, Asks,
                Requests, JobOf, Stale
  <1> QED BY <1>1, GitHubStepKeeps, RouterStepKeeps, ApiStepKeeps,
             WorkerStepKeeps DEF Next, WorkerStep, AnyStep

\* orchestrator.py:63, 333 and 538, router.py:188 and 240, jobs.py:164: with
\* any number of processes, whatever they interleave, a step that leaves an
\* unsettled job with nothing to move it is a process that dies, an enqueue
\* that fails, or a webhook that is lost or ignored.
THEOREM OnlyDropsStrand == Spec => OnlyFaultsStrand
  <1> DEFINE Meaning ==
        \A j \in Jobs : Stranded(j) <=> Unsettled(j) /\ ~Moved(j)
  <1>0. Meaning
    BY StrandedIs
  <1>1. Facts /\ Meaning /\ Meaning' /\ [Next]_vars =>
          [\A j \in Jobs : ~Stranded(j) /\ Stranded(j)' => Drops(j)]_vars
    <2> SUFFICES ASSUME Facts, Meaning, Meaning', [Next]_vars,
                        NEW j \in Jobs, ~Stranded(j), Stranded(j)', ~Drops(j)
                 PROVE  FALSE
      OBVIOUS
    <2>1. (Unsettled(j) => Moved(j)) /\ Unsettled(j)' /\ ~Moved(j)'
      OBVIOUS
    <2> HIDE DEF Meaning
    <2> QED BY <2>1, StepsKeep DEF Keeps
  <1> HIDE DEF Meaning
  <1> QED BY <1>0, <1>1, FactsHold, PTL DEF Spec, OnlyFaultsStrand

-----------------------------------------------------------------------------
(* Where nothing is lost *)

\* Calls fail, jobs time out and locks expire, but no process dies, every
\* enqueue succeeds, no webhook is lost, and CI takes longer than the commit.
NothingLost == Faults \intersect {"crash", "redis", "loss", "fastCI"} = {}

\* A worker that will set current_internal_branch, or settles its job.
WillTrack(w, j) ==
  /\ JobOf(w) = j
  /\ \/ worker[w].pc = "start" /\ worker[w].task.fn = "initial"
     \/ worker[w].pc \in {"graph", "pushed"} /\ ~worker[w].loaded.tracked

\* What will track the branch of a job that retry_job has untracked.
Restarts(j) ==
  \/ \E h \in Handlers : Asks(h, j)
  \/ \E c \in Clients : Requests(c, j)
  \/ \E i \in DOMAIN queue : queue[i] = InitialTask(j)
  \/ \E w \in Workers : WillTrack(w, j)

\* No webhook that is still to come finds an unsettled job untracked, unless
\* something else moves the job ...
UntrackedRestart ==
  \A j \in Jobs : Unsettled(j) /\ ~job[j].tracked => Restarts(j)

\* ... and the runs of a patch that is not recorded are still under way.
PushedRun(w) ==
  worker[w].pc = "pushed" =>
    \A f \in Workflows :
      [job |-> JobOf(w), patch |-> worker[w].patch, wf |-> f] \in running

RestartInv == UntrackedRestart /\ \A w \in Workers : PushedRun(w)

\* A commit that does not mean to clear current_internal_branch does not.
LEMMA CommitKeepsTrack ==
  ASSUME Facts, NEW w \in Workers, worker[w].pc # "idle", NEW new \in Row,
         Commits(w, new), JobRow(w).tracked => new.tracked,
         NEW k \in Jobs, Exists(k), job[k].tracked
  PROVE  job'[k].tracked
  <1>1. CASE k # JobOf(w)
    BY <1>1, CommitOfRow DEF Facts
  <1>2. CASE k = JobOf(w)
    <2>1. job'[k] = Flush(job[k], JobRow(w), new) /\ JobRow(w) \in Row
      BY <1>2, CommitOfRow DEF Facts
    <2> QED BY <2>1 DEF Flush, Row
  <1> QED BY <1>1, <1>2

\* Only retry_job does.
LEMMA WorkersKeepTrack ==
  ASSUME Facts, NEW w \in Workers, AnyStep(w), NEW j \in Jobs, Exists(j),
         job[j].tracked
  PROVE  job'[j].tracked
  <1>1. CASE UNCHANGED job
    BY <1>1
  <1>2. CASE StartInitial(w) \/ StartExhausted(w)
    <2>1. job \in [Jobs -> Row \union {None}] /\ job[j] \in Row
      BY NoneIsNoRow DEF Facts, Inv, TypeOK, Exists
    <2>2. CASE StartInitial(w)
      BY <2>1, <2>2 DEF StartInitial, Row
    <2>3. CASE StartExhausted(w)
      <3>1. job' = [job EXCEPT ![JobOf(w)].status = "failed"]
        BY <2>3 DEF StartExhausted
      <3> QED BY <2>1, <3>1 DEF Row
    <2> QED BY <1>2, <2>2, <2>3
  <1>3. CASE Settles(w)
    <2>1. PICK new \in Row : Commits(w, new) /\ SettlesWith(new, JobRow(w))
      BY <1>3, SettlingCommits
    <2> QED BY <1>3, <2>1, SettlingCommits, CommitKeepsTrack DEF SettlesWith
  <1>4. CASE RecordAttempt(w) \/ BumpRetry(w)
    <2>1. worker[w].pc \in {"pushed", "count"}
      BY <1>4 DEF RecordAttempt, BumpRetry, At
    <2>2. JobRow(w) \in Row /\ worker[w] \in WorkerStates
      BY <2>1, WorkersJob DEF Facts, Inv
    <2>3. CASE RecordAttempt(w)
      <3> PICK new : new = Dispatched(JobRow(w), worker[w].ft)
        OBVIOUS
      <3>1. new \in Row /\ new.tracked
        BY <2>2 DEF Dispatched, Row, Statuses, WorkerStates
      <3> QED BY <2>1, <2>3, <3>1, CommitKeepsTrack DEF RecordAttempt
    <2>4. CASE BumpRetry(w)
      BY <2>4, BumpRetryShape DEF Facts
    <2> QED BY <1>4, <2>3, <2>4
  <1>5. \/ UNCHANGED job \/ StartInitial(w) \/ StartExhausted(w)
        \/ Settles(w) \/ RecordAttempt(w) \/ BumpRetry(w)
    BY DEF AnyStep, WorkerAdvances, Settles, TakeTask, StartGreen, StartRed,
           StampRed, ReadRetries, PushPatch, FetchInternal, PushClean, OpenPR,
           Escalate, WorkerCrashes, dbVars
  <1> QED BY <1>1, <1>2, <1>3, <1>4, <1>5

\* The attempt is recorded together with its branch.
LEMMA RecordTracks ==
  ASSUME Facts, NEW w \in Workers, NEW j \in Jobs, JobOf(w) = j,
         RecordAttempt(w), ~worker[w].loaded.tracked
  PROVE  job'[j].tracked
  <1>1. worker[w].pc = "pushed"
    BY DEF RecordAttempt, At
  <1>2. /\ job[j] \in Row /\ JobRow(w) \in Row /\ worker[w] \in WorkerStates
        /\ ~JobRow(w).tracked
    BY <1>1, WorkersJob DEF Facts, Inv, JobRow, SessionInv, SessionFits
  <1> PICK new : new = Dispatched(JobRow(w), worker[w].ft)
    OBVIOUS
  <1>3. new \in Row /\ new.tracked
    BY <1>2 DEF Dispatched, Row, Statuses, WorkerStates
  <1>4. job'[j] = Flush(job[j], JobRow(w), new)
    BY <1>1, <1>3, CommitOfRow DEF RecordAttempt, Facts
  <1> QED BY <1>2, <1>3, <1>4 DEF Flush

-----------------------------------------------------------------------------
(* An untracked job is being restarted *)

\* A repair that begins will track the branch if it is not tracked.
LEMMA BeginsTracking ==
  ASSUME Facts, NEW w \in Workers, NEW j \in Jobs, JobOf(w) = j,
         StartInitial(w) \/ BumpRetry(w), ~job'[j].tracked
  PROVE  WillTrack(w, j)'
  <1>1. worker \in [Workers -> WorkerStates] /\ job \in [Jobs -> Row \union {None}]
    BY DEF Facts, Inv, TypeOK
  <1>2. GoesOn(w) /\ worker'[w].task = worker[w].task
    BY GoesOnShape DEF GoesOn, Facts
  <1>3. worker'[w].pc = "graph" /\ worker'[w].loaded = job'[j]
    <2>1. CASE StartInitial(w)
      BY <1>1, <2>1 DEF StartInitial, WorkerStates
    <2>2. CASE BumpRetry(w)
      BY <1>1, <2>2 DEF BumpRetry, WorkerStates
    <2> QED BY <2>1, <2>2
  <1>4. JobOf(w)' = j
    BY <1>2 DEF JobOf
  <1> QED BY <1>3, <1>4 DEF WillTrack

\* The worker that will track the branch goes on, or does, or settles the job.
LEMMA TrackerGoesOn ==
  ASSUME Facts, NothingLost, NEW w \in Workers, AnyStep(w), NEW j \in Jobs,
         WillTrack(w, j), Unsettled(j)', ~job'[j].tracked
  PROVE  WillTrack(w, j)'
  <1>1. worker \in [Workers -> WorkerStates] /\ JobOf(w) = j
    BY DEF Facts, Inv, TypeOK, WillTrack
  <1>2. CASE StartInitial(w)
    BY <1>1, <1>2, BeginsTracking
  <1>3. CASE \E ft \in FailureTypes : PushPatch(w, ft)
    <2>1. PICK ft \in FailureTypes : PushPatch(w, ft)
      BY <1>3
    <2>2. /\ worker[w].pc = "graph" /\ worker'[w].pc = "pushed"
          /\ worker'[w].loaded = worker[w].loaded
          /\ worker'[w].task = worker[w].task
      BY <1>1, <2>1 DEF PushPatch, At, WorkerStates
    <2>3. JobOf(w)' = j
      BY <1>1, <2>2 DEF JobOf
    <2> QED BY <2>2, <2>3 DEF WillTrack
  <1>4. ~Settles(w)
    <2> SUFFICES ASSUME Settles(w) PROVE FALSE
      OBVIOUS
    <2>1. worker[w].pc # "start"
      BY DEF Settles, DropOut, RejectPatch, CommitPR, Raise, At, CallPoints,
             TryPoints
    <2>2. ~Stale(w)
      BY <2>1 DEF WillTrack, Facts, SessionInv, SessionFits, Stale, Underway,
                  Terminal
    <2>3. PICK new \in Row : Commits(w, new) /\ SettlesWith(new, JobRow(w))
      BY SettlingCommits
    <2>4. job'[j].status \in Terminal
      BY <1>1, <2>2, <2>3, SettlingCommits, CommitSettles DEF SettlesWith
    <2> QED BY <2>4 DEF Unsettled
  <1>5. ~RecordAttempt(w)
    <2> SUFFICES ASSUME RecordAttempt(w) PROVE FALSE
      OBVIOUS
    <2>1. ~worker[w].loaded.tracked
      BY DEF RecordAttempt, At, WillTrack
    <2> QED BY <1>1, <2>1, RecordTracks
  <1>6. ~WorkerCrashes(w)
    BY DEF WorkerCrashes, NothingLost
  <1> QED BY <1>2, <1>3, <1>4, <1>5, <1>6
      DEF AnyStep, WorkerAdvances, Settles, TakeTask, StartGreen,
          StartExhausted, StartRed, StampRed, ReadRetries, BumpRetry, FetchInternal,
          PushClean, OpenPR, Escalate, Completes, At, WillTrack

\* What would restart a job goes on to, a worker's step apart.
LEMMA WorkersLeaveRestarts ==
  ASSUME Facts, NothingLost, NEW w \in Workers, AnyStep(w), NEW j \in Jobs,
         Restarts(j), Unsettled(j)', ~job'[j].tracked
  PROVE  Restarts(j)'
  <1>1. UNCHANGED <<router, client>>
    BY StepShape DEF Facts
  <1>2. CASE (\E h \in Handlers : Asks(h, j)) \/ (\E c \in Clients : Requests(c, j))
    BY <1>1, <1>2 DEF Restarts, Asks, Requests
  <1>3. ASSUME NEW i \in DOMAIN queue, queue[i] = InitialTask(j)
        PROVE  Restarts(j)'
    <2>1. CASE UNCHANGED queue
      BY <1>3, <2>1 DEF Restarts
    <2>2. CASE TakeTask(w) /\ i = 1
      <3>1. worker'[w].pc = "start" /\ worker'[w].task = InitialTask(j)
        BY <1>3, <2>2, TakenTask DEF Facts
      <3>2. WillTrack(w, j)'
        BY <3>1 DEF WillTrack, JobOf, InitialTask
      <3> QED BY <3>2 DEF Restarts
    <2>3. CASE TakeTask(w) /\ i # 1
      <3>1. i - 1 \in DOMAIN queue' /\ queue'[i - 1] = InitialTask(j)
        BY <1>3, <2>3, TakenTask DEF Facts
      <3> QED BY <3>1 DEF Restarts
    <2>4. UNCHANGED queue \/ TakeTask(w)
      BY StepShape, GoesOnShape DEF Facts
    <2> QED BY <2>1, <2>2, <2>3, <2>4
  <1>4. ASSUME NEW v \in Workers, WillTrack(v, j)
        PROVE  Restarts(j)'
    <2>1. CASE v # w
      <3>1. worker'[v] = worker[v]
        BY <2>1, StepShape DEF Facts
      <3>2. WillTrack(v, j)'
        BY <1>4, <3>1 DEF WillTrack, JobOf
      <3> QED BY <3>2 DEF Restarts
    <2>2. CASE v = w
      BY <1>4, <2>2, TrackerGoesOn DEF Restarts
    <2> QED BY <2>1, <2>2
  <1> QED BY <1>2, <1>3, <1>4 DEF Restarts

LEMMA WorkerStepRestarts ==
  ASSUME Facts, NothingLost, UntrackedRestart, NEW w \in Workers, AnyStep(w)
  PROVE  UntrackedRestart'
  <1> SUFFICES ASSUME NEW j \in Jobs, Unsettled(j)', ~job'[j].tracked
               PROVE  Restarts(j)'
    BY DEF UntrackedRestart
  <1>1. CASE JobOf(w) = j /\ (StartInitial(w) \/ BumpRetry(w))
    BY <1>1, BeginsTracking DEF Restarts
  <1>2. CASE ~(JobOf(w) = j /\ (StartInitial(w) \/ BumpRetry(w)))
    <2>1. CASE job'[j] = job[j]
      <3>1. Unsettled(j) /\ ~job[j].tracked
        BY <2>1 DEF Unsettled, Exists
      <3> QED BY <3>1, WorkersLeaveRestarts DEF UntrackedRestart
    <2>2. CASE job'[j] # job[j]
      <3>1. JobOf(w) = j /\ job'[j].status \in Terminal \union {job[j].status}
        BY <1>2, <2>2, WorkerStatus
      <3>2. Exists(j)
        BY <2>2, WorkerColumns DEF NoneInserted, Facts, Exists
      <3>3. Unsettled(j) /\ ~job[j].tracked
        BY <3>1, <3>2, WorkersKeepTrack DEF Unsettled
      <3> QED BY <3>3, WorkersLeaveRestarts DEF UntrackedRestart
    <2> QED BY <2>1, <2>2
  <1> QED BY <1>1, <1>2

LEMMA OtherStepsRestart ==
  ASSUME Facts, NothingLost, UntrackedRestart,
         GitHubStep \/ RouterStep \/ ApiStep
  PROVE  UntrackedRestart'
  <1> SUFFICES ASSUME NEW j \in Jobs, Unsettled(j)', ~job'[j].tracked
               PROVE  Restarts(j)'
    BY DEF UntrackedRestart
  <1>1. CASE job'[j] # job[j]
    <2>1. ~GitHubStep
      BY <1>1 DEF GitHubStep, DevRunFails, RunEnds, Redeliver, LoseHook, dbVars
    <2> QED BY <1>1, <2>1, InsertedAsked, CommittedRequested DEF Restarts
  <1>2. CASE job'[j] = job[j]
    <2>1. Restarts(j)
      BY <1>2 DEF UntrackedRestart, Unsettled, Exists
    <2>2. ASSUME NEW i \in DOMAIN queue, queue[i] = InitialTask(j)
          PROVE  Restarts(j)'
      BY <2>2, TasksStay DEF Restarts
    <2>3. ASSUME NEW w \in Workers, WillTrack(w, j)
          PROVE  Restarts(j)'
      <3>1. UNCHANGED worker
        BY OtherSteps DEF Facts
      <3>2. WillTrack(w, j)'
        BY <2>3, <3>1 DEF WillTrack, JobOf
      <3> QED BY <3>2 DEF Restarts
    <2>4. ASSUME NEW h \in Handlers, Asks(h, j)
          PROVE  Restarts(j)'
      <3>1. CASE RouterStep
        <4>1. ~IntakeRaises(h) /\ ~HandlerCrashes(h)
          BY DEF IntakeRaises, HandlerCrashes, NothingLost
        <4> QED BY <2>4, <3>1, <4>1, AskedEnqueued DEF Restarts
      <3>2. CASE GitHubStep \/ ApiStep
        <4>1. UNCHANGED router
          BY <3>2 DEF GitHubStep, DevRunFails, RunEnds, Redeliver, LoseHook,
             ApiStep, RetryReads, RetryCommits, RetryEnqueues, RetryFails
        <4> QED BY <2>4, <4>1 DEF Restarts, Asks
      <3> QED BY <3>1, <3>2
    <2>5. ASSUME NEW c \in Clients, Requests(c, j)
          PROVE  Restarts(j)'
      <3>1. CASE ApiStep
        <4>1. ~RetryFails(c)
          BY DEF RetryFails, NothingLost
        <4> QED BY <2>5, <3>1, <4>1, RequestedEnqueued DEF Restarts
      <3>2. CASE GitHubStep \/ RouterStep
        <4>1. UNCHANGED client
          BY <3>2 DEF GitHubStep, DevRunFails, RunEnds, Redeliver, LoseHook,
             RouterStep, ReceiveFailure, SelectExisting, InsertJob,
             EnqueueInitial, IntakeRaises, HandlerCrashes, DeliverCompletion,
             ReceiveCompletion, LockExpires, apiVars
        <4> QED BY <2>5, <4>1 DEF Restarts, Requests
      <3> QED BY <3>1, <3>2
    <2> QED BY <2>1, <2>2, <2>3, <2>4, <2>5 DEF Restarts
  <1> QED BY <1>1, <1>2

-----------------------------------------------------------------------------
(* The runs of a patch that is not recorded *)

\* Of the steps in the middle of a task, only the push leads to "pushed".
LEMMA PushedByPush ==
  ASSUME Facts, NEW w \in Workers, GoesOn(w), worker'[w].pc = "pushed"
  PROVE  \E ft \in FailureTypes : PushPatch(w, ft)
  <1>1. worker \in [Workers -> WorkerStates]
    BY DEF Facts, Inv, TypeOK
  <1>2. CASE StartInitial(w)
    BY <1>1, <1>2 DEF StartInitial, WorkerStates
  <1>5. CASE StartGreen(w)
    BY <1>1, <1>5 DEF StartGreen, WorkerStates
  <1>6. CASE StartRed(w)
    BY <1>1, <1>6 DEF StartRed, WorkerStates
  <1>7. CASE ReadRetries(w) \/ BumpRetry(w)
    BY <1>7, ReadRetriesShape, BumpRetryShape DEF Facts
  <1>8. CASE FetchInternal(w)
    BY <1>1, <1>8 DEF FetchInternal, WorkerStates
  <1>3. CASE StartExhausted(w) \/ PushClean(w) \/ OpenPR(w)
    BY <1>1, <1>3 DEF StartExhausted, PushClean, OpenPR, Goto, WorkerStates
  <1>4. CASE StampRed(w)
    <2>1. worker'[w].pc = "bump"
      <3>1. CASE Goto(w, "bump")
        BY <1>1, <3>1 DEF Goto, WorkerStates
      <3>2. ASSUME NEW p, worker' = [worker EXCEPT ![w].pc = "bump",
                             ![w].loaded = None, ![w].prev = p]
            PROVE  worker'[w].pc = "bump"
        BY <1>1, <3>2 DEF WorkerStates
      <3> QED BY <1>4, <3>1, <3>2 DEF StampRed
    <2> QED BY <2>1
  <1> QED BY <1>2, <1>3, <1>4, <1>5, <1>6, <1>7, <1>8 DEF GoesOn

\* A run ends only after the commit that follows its push.
LEMMA StepPushedRuns ==
  ASSUME Facts, NothingLost, \A w \in Workers : PushedRun(w), [Next]_vars
  PROVE  \A w \in Workers : PushedRun(w)'
  <1> SUFFICES ASSUME NEW w \in Workers, worker'[w].pc = "pushed",
                      NEW f \in Workflows
               PROVE  [job |-> JobOf(w)', patch |-> worker'[w].patch,
                       wf |-> f] \in running'
    BY DEF PushedRun
  <1>1. CASE worker'[w] = worker[w]
    <2> PICK r : r = [job |-> JobOf(w), patch |-> worker[w].patch, wf |-> f]
      OBVIOUS
    <2>1. r \in running
      BY <1>1 DEF PushedRun
    <2>2. JobOf(w)' = JobOf(w)
      BY <1>1 DEF JobOf
    <2>3. ~RunEnds(r)
      <3>1. "fastCI" \notin Faults
        BY DEF NothingLost
      <3>2. worker[w].task.job = r.job /\ worker[w].patch = r.patch
        BY DEF JobOf
      <3> QED BY <1>1, <3>1, <3>2 DEF RunEnds, OutlastsCommit
    <2>4. r \in running'
      BY <2>1, <2>3 DEF Next, GitHubStep, DevRunFails, RunEnds, Redeliver,
         LoseHook, RouterStep, ReceiveFailure, SelectExisting, InsertJob,
         EnqueueInitial, IntakeRaises, HandlerCrashes, DeliverCompletion,
         ReceiveCompletion, LockExpires, ApiStep, RetryReads, RetryCommits,
         RetryEnqueues, RetryFails, WorkerStep, WorkerAdvances, TakeTask,
         StartInitial, StartGreen, StartExhausted, StartRed, StampRed,
         ReadRetries, BumpRetry, DropOut, PushPatch, RejectPatch, RecordAttempt,
         FetchInternal, PushClean, OpenPR, CommitPR, Escalate, Raise,
         WorkerCrashes, vars, ciVars
    <2> QED BY <1>1, <2>2, <2>4
  <1>2. CASE worker'[w] # worker[w]
    <2>1. AnyStep(w)
      <3>1. CASE GitHubStep \/ RouterStep \/ ApiStep
        BY <1>2, <3>1, OtherSteps DEF Facts
      <3>2. CASE \E v \in Workers : AnyStep(v)
        BY <1>2, <3>2, StepShape DEF Facts
      <3>3. CASE UNCHANGED worker
        BY <1>2, <3>3
      <3> QED BY <3>1, <3>2, <3>3 DEF Next, WorkerStep, AnyStep, vars
    <2>2. ~TakeTask(w) /\ ~Done(w)
      <3>1. ~TakeTask(w)
        BY TakenTask DEF Facts
      <3>2. ASSUME Done(w) PROVE worker'[w].pc = "idle"
        BY <3>2 DEF Facts, Done, IdleWorker, Inv, TypeOK
      <3> QED BY <3>1, <3>2
    <2>3. GoesOn(w)
      BY <2>1, <2>2, StepShape DEF Facts
    <2>4. PICK ft \in FailureTypes : PushPatch(w, ft)
      BY <1>2, <2>3, GoesOnShape, PushedByPush DEF Facts
    <2>5. /\ worker'[w].patch = patches[JobOf(w)] + 1
          /\ worker'[w].task = worker[w].task
      BY <2>4 DEF PushPatch, Facts, Inv, TypeOK, WorkerStates
    <2>6. JobOf(w)' = JobOf(w)
      BY <2>5 DEF JobOf
    <2>7. [job |-> JobOf(w), patch |-> patches[JobOf(w)] + 1, wf |-> f]
             \in running'
      BY <2>4 DEF PushPatch
    <2> QED BY <2>5, <2>6, <2>7
  <1> QED BY <1>1, <1>2

LEMMA NextRestart ==
  ASSUME Facts, NothingLost, RestartInv, [Next]_vars
  PROVE  RestartInv'
  <1>1. UntrackedRestart'
    <2>1. CASE UNCHANGED vars
      BY <2>1 DEF RestartInv, UntrackedRestart, Unsettled, Exists, Restarts,
         WillTrack, JobOf, Asks, Requests, vars, dbVars, redisVars, apiVars
    <2> QED BY <2>1, WorkerStepRestarts, OtherStepsRestart
            DEF Next, WorkerStep, AnyStep, RestartInv
  <1> QED BY <1>1, StepPushedRuns DEF RestartInv

LEMMA InitRestart ==
  ASSUME Init
  PROVE  RestartInv
  BY DEF Init, RestartInv, UntrackedRestart, Unsettled, Exists, PushedRun,
         IdleWorker

-----------------------------------------------------------------------------
(* No job is stranded *)

AllMoved == \A j \in Jobs : Unsettled(j) => Moved(j)

\* What moves j, but for the webhooks on their way.
MovedAtHand(j) ==
  \/ \E h \in Handlers : Asks(h, j)
  \/ \E c \in Clients : Requests(c, j)
  \/ \E i \in DOMAIN queue : queue[i].job = j
  \/ \E r \in running : Tests(r, j)
  \/ \E w \in Workers : Works(w, j)

LEMMA RestartsMove ==
  ASSUME Facts, RestartInv, NEW j \in Jobs, Restarts(j)
  PROVE  MovedAtHand(j)
  <1>1. CASE \/ \E h \in Handlers : Asks(h, j)
             \/ \E c \in Clients : Requests(c, j)
             \/ \E i \in DOMAIN queue : queue[i] = InitialTask(j)
    BY <1>1, InitialTaskIsTask DEF MovedAtHand
  <1>2. ASSUME NEW w \in Workers, WillTrack(w, j)
        PROVE  MovedAtHand(j)
    <2>1. CASE worker[w].pc \in {"start", "graph"}
      <3>1. ~Stale(w)
        BY <2>1 DEF Facts, SessionInv, SessionFits, Stale, Underway, Terminal
      <3>2. Works(w, j)
        BY <1>2, <2>1, <3>1 DEF WillTrack, Works
      <3> QED BY <3>2 DEF MovedAtHand
    <2>2. CASE worker[w].pc = "pushed"
      <3>1. PICK f \in Workflows : TRUE
        BY WorkflowsAssumption
      <3> PICK r : r = [job |-> j, patch |-> worker[w].patch, wf |-> f]
        OBVIOUS
      <3>2. r \in running /\ r.job = j
        BY <1>2, <2>2 DEF RestartInv, PushedRun, WillTrack
      <3> QED BY <3>2 DEF MovedAtHand, Tests
    <2> QED BY <1>2, <2>1, <2>2 DEF WillTrack
  <1> QED BY <1>1, <1>2 DEF Restarts

\* A webhook that is ignored was not what moved the job.
LEMMA IgnoredKeeps ==
  ASSUME Facts, RestartInv, AllMoved, NEW j \in Jobs, Unsettled(j)',
         NEW r \in hooks \intersect Ended, r.job = j,
         ReceiveCompletion(r), UNCHANGED <<queue, locks>>
  PROVE  Moved(j)'
  <1>1. UNCHANGED <<job, worker, router, client, running, green, red>>
        /\ hooks' = hooks \ {r}
    BY DEF ReceiveCompletion, dbVars, apiVars
  <1>2. Unsettled(j) /\ Moved(j)
    BY <1>1 DEF Unsettled, Exists, AllMoved
  <1>3. CASE MovedAtHand(j)
    BY <1>1, <1>3, WorkersGoOnWorking
       DEF MovedAtHand, Moved, WaitsFor, Asks, Requests, Tests
  <1>4. ASSUME NEW e \in hooks, Reports(e, j), e # r
        PROVE  Moved(j)'
    BY <1>1, <1>4 DEF Moved, WaitsFor, Reports, Ended
  <1>5. CASE Reports(r, j)
    <2>1. ~KnownBranch(r)
      BY <1>5 DEF ReceiveCompletion, Reports, LockIsFree
    <2>2. ~job[j].tracked
      BY <1>2, <2>1 DEF KnownBranch, Unsettled, Exists
    <2>3. Restarts(j)
      BY <1>2, <2>2 DEF RestartInv, UntrackedRestart
    <2> QED BY <1>3, <2>3, RestartsMove
  <1> QED BY <1>2, <1>3, <1>4, <1>5 DEF Moved, WaitsFor, MovedAtHand

\* The only steps of Drops that are left are webhooks that are ignored.
LEMMA DropIsIgnored ==
  ASSUME Facts, NothingLost, [Next]_vars, NEW j \in Jobs, Drops(j)
  PROVE  \E r \in hooks \intersect Ended :
           r.job = j /\ ReceiveCompletion(r) /\ UNCHANGED <<queue, locks>>
  <1>1. PICK r \in hooks \intersect Ended :
          /\ r.job = j /\ ReceiveCompletion(r)
          /\ ~job[j].tracked \/ queue' = queue
    BY DEF Drops, IntakeRaises, HandlerCrashes, RetryFails, WorkerCrashes,
           LoseHook, NothingLost
  <1>2. CASE UNCHANGED redisVars
    BY <1>1, <1>2 DEF redisVars
  <1>3. CASE KnownBranch(r)
             /\ queue' = Append(queue, CompletionTask(r.job, r, Conclusion(r)))
    <2>1. queue' # queue
      BY <1>3 DEF Facts, Inv, TypeOK
    <2> QED BY <1>1, <1>3, <2>1 DEF KnownBranch
  <1> QED BY <1>1, <1>2, <1>3 DEF ReceiveCompletion, NothingLost

LEMMA NextMoved ==
  ASSUME Facts, NothingLost, RestartInv, AllMoved, [Next]_vars
  PROVE  AllMoved'
  <1> SUFFICES ASSUME NEW j \in Jobs, Unsettled(j)'
               PROVE  Moved(j)'
    BY DEF AllMoved
  <1>1. CASE ~Drops(j)
    BY <1>1, StepsKeep DEF Keeps, AllMoved
  <1>2. CASE Drops(j)
    BY <1>2, DropIsIgnored, IgnoredKeeps
  <1> QED BY <1>1, <1>2

LEMMA InitMoved ==
  ASSUME Init
  PROVE  AllMoved
  BY DEF Init, AllMoved, Unsettled, Exists

\* orchestrator.py:63-64, control always comes back: as long as nothing is
\* lost, every job that is not settled has something that will move it on,
\* with any number of workers, webhook handlers, redeliveries and manual
\* retries, and whatever calls fail, time out or are repeated.
THEOREM NothingLostStrands ==
  ASSUME NothingLost
  PROVE  Spec => []NoStrandedJob
  <1>1. Init => RestartInv /\ AllMoved
    BY InitRestart, InitMoved
  <1>2. Facts /\ RestartInv /\ AllMoved /\ [Next]_vars
          => RestartInv' /\ AllMoved'
    BY NextRestart, NextMoved
  <1>3. AllMoved => NoStrandedJob
    BY StrandedIs DEF AllMoved, NoStrandedJob
  <1> QED BY <1>1, <1>2, <1>3, FactsHold, PTL DEF Spec
=============================================================================
