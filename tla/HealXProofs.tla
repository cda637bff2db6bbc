---------------------------- MODULE HealXProofs ----------------------------
(***************************************************************************)
(* Proofs about HealX, for every number of jobs, workflows, workers,       *)
(* handlers and clients, every MaxRetries and every set of faults.         *)
(***************************************************************************)
EXTENDS HealX, TLAPS

-----------------------------------------------------------------------------
(* Operators *)

\* A commit writes a row of the table.
LEMMA FlushIsRow ==
  ASSUME NEW row \in Row, NEW loaded \in Row, NEW new \in Row
  PROVE  Flush(row, loaded, new) \in Row
  BY DEF Flush, Row

\* A task names a job and is of one of two kinds.
LEMMA TaskFields ==
  ASSUME NEW t \in Tasks
  PROVE  /\ t.job \in Jobs
         /\ t.fn = "completion" => t.run \in RunIds /\ t.concl \in Conclusions
  BY DEF Tasks, InitialTask

LEMMA InitialTaskIsTask ==
  ASSUME NEW j \in Jobs
  PROVE  InitialTask(j) \in Tasks /\ InitialTask(j).job = j
         /\ InitialTask(j).fn = "initial"
  BY DEF Tasks, InitialTask

LEMMA CompletionTaskIsTask ==
  ASSUME NEW j \in Jobs, NEW r \in RunIds, NEW c \in Conclusions
  PROVE  CompletionTask(j, r, c) \in Tasks /\ CompletionTask(j, r, c).job = j
  BY DEF Tasks, CompletionTask

LEMMA NewRowIsRow ==
  ASSUME NEW d \in DevRuns
  PROVE  NewRow(d) \in Row
  BY DEF NewRow, Row, Statuses

LEMMA IdleStates ==
  IdleWorker \in WorkerStates /\ IdleHandler \in HandlerStates
    /\ IdleClient \in ClientStates
  BY DEF IdleWorker, WorkerStates, WorkerPCs, IdleHandler, HandlerStates,
         IdleClient, ClientStates

\* What a worker that is not idle is about exists and has a row.
LEMMA WorkersJob ==
  ASSUME TypeOK, NothingDangles, NEW w \in Workers, worker[w].pc # "idle"
  PROVE  /\ worker[w] \in WorkerStates
         /\ worker[w].task \in Tasks
         /\ JobOf(w) \in Jobs
         /\ job[JobOf(w)] \in Row
         /\ JobRow(w) \in Row
  BY TaskFields DEF TypeOK, NothingDangles, WorkersHaveJobs, JobOf, JobRow, WorkerStates, Exists

\* A row that is written does not make a job disappear.
LEMMA JobsRemain ==
  ASSUME TypeOK, NEW j \in Jobs, NEW row \in Row,
         job' = [job EXCEPT ![j] = row]
  PROVE  /\ job' \in [Jobs -> Row \union {None}]
         /\ \A k \in Jobs : Exists(k) => Exists(k)'
  BY NoneIsNoRow DEF TypeOK, Exists

-----------------------------------------------------------------------------
(* Type correctness *)

\* The inductive invariant.
Inv == TypeOK /\ NothingDangles

\* A worker that moves on with its task, or is done with it, while the queue
\* and the other processes stay, and no job disappears.
LEMMA WorkerMoves ==
  ASSUME Inv, NEW w \in Workers,
         worker' = [worker EXCEPT ![w] = worker'[w]],
         worker'[w] \in WorkerStates,
         \/ worker'[w].pc = "idle"
         \/ worker[w].pc # "idle" /\ worker'[w].task = worker[w].task,
         \A k \in Jobs : Exists(k) => Exists(k)',
         UNCHANGED <<queue, router, client>>
  PROVE  /\ worker' \in [Workers -> WorkerStates]
         /\ NothingDangles'
  <1>1. worker' \in [Workers -> WorkerStates]
    BY DEF Inv, TypeOK
  <1>2. QueueHasJobs'
    BY TaskFields DEF Inv, TypeOK, NothingDangles, QueueHasJobs
  <1>3. WorkersHaveJobs'
    BY TaskFields DEF Inv, TypeOK, NothingDangles, WorkersHaveJobs, Exists
  <1>4. HandlersHaveJobs' /\ ClientsHaveJobs'
    BY DEF Inv, NothingDangles, HandlersHaveJobs, ClientsHaveJobs
  <1> QED BY <1>1, <1>2, <1>3, <1>4 DEF NothingDangles

\* A commit of a worker's session.
LEMMA CommitsRow ==
  ASSUME Inv, NEW w \in Workers, worker[w].pc # "idle", NEW new \in Row,
         Commits(w, new)
  PROVE  /\ job' \in [Jobs -> Row \union {None}]
         /\ job'[JobOf(w)] \in Row
         /\ \A k \in Jobs : Exists(k) => Exists(k)'
  <1>1. /\ JobOf(w) \in Jobs /\ job[JobOf(w)] \in Row /\ JobRow(w) \in Row
    BY WorkersJob DEF Inv
  <1>2. Flush(job[JobOf(w)], JobRow(w), new) \in Row
    BY <1>1, FlushIsRow
  <1> QED BY <1>1, <1>2, JobsRemain DEF Commits, Inv, TypeOK

\* The end of a task.
LEMMA DoneMoves ==
  ASSUME Inv, NEW w \in Workers, Done(w)
  PROVE  /\ worker' = [worker EXCEPT ![w] = worker'[w]]
         /\ worker'[w] \in WorkerStates
         /\ worker'[w].pc = "idle"
  BY IdleStates DEF Done, Inv, TypeOK, IdleWorker

\* A stamp changes no row's type.
LEMMA StampIsRows ==
  ASSUME NEW rows \in Seq(Attempt), NEW i \in DOMAIN rows,
         NEW r \in RunIds \union {None}, NEW success \in BOOLEAN
  PROVE  StampLatest(rows, i, r, success) \in Seq(Attempt)
  <1> DEFINE row == [rows[i] EXCEPT !.ciRun = r, !.success = success,
                                    !.output = @ \/ ~success]
  <1>1. rows[i] \in Attempt
    OBVIOUS
  <1>2. row \in Attempt
    <2>1. rows[i].output \in BOOLEAN
      BY <1>1 DEF Attempt
    <2>2. (rows[i].output \/ ~success) \in BOOLEAN
      OBVIOUS
    <2> QED BY <1>1, <2>2 DEF Attempt
  <1>3. StampLatest(rows, i, r, success) = [rows EXCEPT ![i] = row]
    BY DEF StampLatest
  <1> HIDE DEF row
  <1> QED BY <1>2, <1>3

LEMMA StampsRows ==
  ASSUME Inv, NEW w \in Workers, worker[w].pc # "idle",
         NEW success \in BOOLEAN, Stamps(w, success)
  PROVE  attempts' \in [Jobs -> Seq(Attempt)]
  <1>1. JobOf(w) \in Jobs /\ worker[w].task \in Tasks
    BY WorkersJob DEF Inv
  <1>2. worker[w].task.run \in RunIds \union {None}
    BY <1>1 DEF Tasks, InitialTask
  <1>3. CASE attempts[JobOf(w)] = <<>>
    BY <1>3 DEF Stamps, Inv, TypeOK
  <1>4. CASE attempts[JobOf(w)] # <<>>
    <2>1. PICK i \in LatestAttempts(attempts[JobOf(w)]) :
            attempts' = [attempts EXCEPT ![JobOf(w)] =
              StampLatest(attempts[JobOf(w)], i, worker[w].task.run, success)]
      BY <1>4 DEF Stamps
    <2>2. attempts[JobOf(w)] \in Seq(Attempt)
          /\ i \in DOMAIN attempts[JobOf(w)]
      BY <1>1, <2>1 DEF LatestAttempts, Inv, TypeOK
    <2> QED BY <1>1, <1>2, <2>1, <2>2, StampIsRows DEF Inv, TypeOK
  <1> QED BY <1>3, <1>4

-----------------------------------------------------------------------------
(* The steps of a worker *)

LEMMA TakeTaskInv ==
  ASSUME Inv, NEW w \in Workers, TakeTask(w)
  PROVE  Inv'
  <1>1. queue \in Seq(Tasks) /\ queue # <<>>
    BY DEF Inv, TypeOK, TakeTask
  <1>2. /\ Head(queue) \in Tasks
        /\ Exists(Head(queue).job)
        /\ queue' \in Seq(Tasks)
        /\ \A i \in DOMAIN queue' : i + 1 \in DOMAIN queue
                                    /\ queue'[i] = queue[i + 1]
    BY <1>1 DEF TakeTask, Inv, NothingDangles, QueueHasJobs
  <1>3. worker' \in [Workers -> WorkerStates]
    <2>1. worker \in [Workers -> WorkerStates]
      BY DEF Inv, TypeOK
    <2>2. worker' = [worker EXCEPT ![w] =
            [worker[w] EXCEPT !.pc = "start", !.task = Head(queue)]]
      BY <2>1 DEF TakeTask
    <2>3. [worker[w] EXCEPT !.pc = "start", !.task = Head(queue)]
            \in WorkerStates
      BY <1>2, <2>1 DEF WorkerStates, WorkerPCs
    <2> QED BY <2>1, <2>2, <2>3
  <1>4. QueueHasJobs'
    BY <1>2 DEF TakeTask, dbVars, Inv, NothingDangles, QueueHasJobs, Exists
  <1>5. WorkersHaveJobs'
    BY <1>2 DEF TakeTask, dbVars, Inv, TypeOK, NothingDangles,
                WorkersHaveJobs, Exists, WorkerStates
  <1>6. HandlersHaveJobs' /\ ClientsHaveJobs'
    BY DEF TakeTask, dbVars, apiVars, Inv, NothingDangles, HandlersHaveJobs,
           ClientsHaveJobs, Exists
  <1> QED
    BY <1>2, <1>3, <1>4, <1>5, <1>6
    DEF Inv, TypeOK, NothingDangles, TakeTask, dbVars, repoVars, ciVars,
        apiVars

LEMMA StartInitialInv ==
  ASSUME Inv, NEW w \in Workers, StartInitial(w)
  PROVE  Inv'
  <1> DEFINE j == JobOf(w)
             row == [job[j] EXCEPT !.status = "repairing"]
  <1>1. worker[w].pc = "start"
    BY DEF StartInitial, At
  <1>2. worker[w] \in WorkerStates /\ j \in Jobs /\ job[j] \in Row
    BY <1>1, WorkersJob DEF Inv
  <1>3. row \in Row
    BY <1>2 DEF Row, Statuses
  <1>4. /\ worker' = [worker EXCEPT ![w] = worker'[w]]
        /\ worker'[w] \in WorkerStates
        /\ worker'[w].task = worker[w].task
    BY <1>2, <1>3 DEF StartInitial, WorkerStates, WorkerPCs, Inv, TypeOK
  <1>5. /\ job' \in [Jobs -> Row \union {None}]
        /\ \A k \in Jobs : Exists(k) => Exists(k)'
    BY <1>2, <1>3, JobsRemain DEF StartInitial, Inv
  <1>6. worker' \in [Workers -> WorkerStates] /\ NothingDangles'
    BY <1>1, <1>4, <1>5, WorkerMoves DEF StartInitial, redisVars, apiVars
  <1> QED
    BY <1>5, <1>6 DEF Inv, TypeOK, StartInitial, redisVars, repoVars, ciVars,
                      apiVars

LEMMA StartGreenInv ==
  ASSUME Inv, NEW w \in Workers, StartGreen(w)
  PROVE  Inv'
  <1>1. worker[w].pc = "start"
    BY DEF StartGreen, Completes, At
  <1>2. worker[w] \in WorkerStates /\ job[JobOf(w)] \in Row
    BY <1>1, WorkersJob DEF Inv
  <1>3. /\ worker' = [worker EXCEPT ![w] = worker'[w]]
        /\ worker'[w] \in WorkerStates
        /\ worker'[w].task = worker[w].task
    BY <1>2 DEF StartGreen, WorkerStates, WorkerPCs, Inv, TypeOK
  <1>4. attempts' \in [Jobs -> Seq(Attempt)]
    BY <1>1, StampsRows DEF StartGreen
  <1>5. worker' \in [Workers -> WorkerStates] /\ NothingDangles'
    BY <1>1, <1>3, WorkerMoves DEF StartGreen, redisVars, apiVars, Exists
  <1> QED
    BY <1>4, <1>5 DEF Inv, TypeOK, StartGreen, redisVars, repoVars, ciVars,
                      apiVars

LEMMA StartExhaustedInv ==
  ASSUME Inv, NEW w \in Workers, StartExhausted(w)
  PROVE  Inv'
  <1> DEFINE j == JobOf(w)
             row == [job[j] EXCEPT !.status = "failed"]
  <1>1. worker[w].pc = "start"
    BY DEF StartExhausted, Completes, At
  <1>2. worker[w] \in WorkerStates /\ j \in Jobs /\ job[j] \in Row
    BY <1>1, WorkersJob DEF Inv
  <1>3. row \in Row
    BY <1>2 DEF Row, Statuses
  <1>4. job' = [job EXCEPT ![j] = row]
    BY <1>2 DEF StartExhausted, Inv, TypeOK
  <1>5. /\ job' \in [Jobs -> Row \union {None}]
        /\ \A k \in Jobs : Exists(k) => Exists(k)'
    BY <1>2, <1>3, <1>4, JobsRemain DEF Inv
  <1>6. /\ worker' = [worker EXCEPT ![w] = worker'[w]]
        /\ worker'[w] \in WorkerStates
        /\ worker'[w].task = worker[w].task
    BY <1>2 DEF StartExhausted, Goto, WorkerStates, WorkerPCs, Inv, TypeOK
  <1>7. worker' \in [Workers -> WorkerStates] /\ NothingDangles'
    BY <1>1, <1>5, <1>6, WorkerMoves DEF StartExhausted, redisVars, apiVars
  <1> QED
    BY <1>5, <1>7 DEF Inv, TypeOK, StartExhausted, redisVars, repoVars,
                      ciVars, apiVars

LEMMA StartRedInv ==
  ASSUME Inv, NEW w \in Workers, StartRed(w)
  PROVE  Inv'
  <1>1. worker[w].pc = "start"
    BY DEF StartRed, Completes, At
  <1>2. worker[w] \in WorkerStates /\ job[JobOf(w)] \in Row
    BY <1>1, WorkersJob DEF Inv
  <1>3. /\ worker' = [worker EXCEPT ![w] = worker'[w]]
        /\ worker'[w] \in WorkerStates
        /\ worker'[w].task = worker[w].task
    BY <1>2 DEF StartRed, WorkerStates, WorkerPCs, Inv, TypeOK
  <1>4. worker' \in [Workers -> WorkerStates] /\ NothingDangles'
    BY <1>1, <1>3, WorkerMoves
    DEF StartRed, dbVars, redisVars, apiVars, Exists
  <1> QED
    BY <1>4 DEF Inv, TypeOK, StartRed, dbVars, redisVars, repoVars, ciVars,
                apiVars

LEMMA StampRedInv ==
  ASSUME Inv, NEW w \in Workers, StampRed(w)
  PROVE  Inv'
  <1> DEFINE j == JobOf(w)
  <1>1. worker[w].pc = "red"
    BY DEF StampRed, At
  <1>2. worker[w] \in WorkerStates /\ worker[w].task \in Tasks /\ j \in Jobs
    BY <1>1, WorkersJob DEF Inv
  <1>3. /\ worker' = [worker EXCEPT ![w] = worker'[w]]
        /\ worker'[w] \in WorkerStates
        /\ worker'[w].task = worker[w].task
        /\ attempts' \in [Jobs -> Seq(Attempt)]
    <2>1. CASE attempts[j] = <<>> /\ Goto(w, "bump") /\ UNCHANGED attempts
      BY <1>2, <2>1 DEF Goto, WorkerStates, WorkerPCs, Inv, TypeOK
    <2>2. CASE \E i \in LatestAttempts(attempts[j]) :
                 /\ attempts' = [attempts EXCEPT ![j] =
                      StampLatest(attempts[j], i, worker[w].task.run, FALSE)]
                 /\ worker' = [worker EXCEPT ![w].pc = "bump",
                                             ![w].loaded = None,
                                             ![w].prev = attempts[j][i].patch]
      <3>1. PICK i \in LatestAttempts(attempts[j]) :
              /\ attempts' = [attempts EXCEPT ![j] =
                   StampLatest(attempts[j], i, worker[w].task.run, FALSE)]
              /\ worker' = [worker EXCEPT ![w].pc = "bump",
                                          ![w].loaded = None,
                                          ![w].prev = attempts[j][i].patch]
        BY <2>2
      <3>2. attempts[j] \in Seq(Attempt) /\ i \in DOMAIN attempts[j]
        BY <1>2, <3>1 DEF LatestAttempts, Inv, TypeOK
      <3>3. attempts[j][i].patch \in Nat
        <4>1. attempts[j][i] \in Attempt
          BY <3>2
        <4> QED BY <4>1 DEF Attempt
      <3>4. worker[w].task.run \in RunIds \union {None}
        BY <1>2 DEF Tasks, InitialTask
      <3>5. attempts' \in [Jobs -> Seq(Attempt)]
        BY <1>2, <3>1, <3>2, <3>4, StampIsRows DEF Inv, TypeOK
      <3>6. worker'[w] = [worker[w] EXCEPT !.pc = "bump", !.loaded = None,
                                           !.prev = attempts[j][i].patch]
            /\ worker' = [worker EXCEPT ![w] = worker'[w]]
        <4>1. worker \in [Workers -> WorkerStates]
          BY DEF Inv, TypeOK
        <4> QED BY <3>1, <4>1
      <3>7. worker'[w] \in WorkerStates /\ worker'[w].task = worker[w].task
        BY <1>2, <3>3, <3>6 DEF WorkerStates, WorkerPCs
      <3> QED BY <3>5, <3>6, <3>7
    <2> QED BY <2>1, <2>2 DEF StampRed
  <1>4. worker' \in [Workers -> WorkerStates] /\ NothingDangles'
    BY <1>1, <1>3, WorkerMoves DEF StampRed, redisVars, apiVars, Exists
  <1> QED
    BY <1>3, <1>4 DEF Inv, TypeOK, StampRed, redisVars, repoVars, ciVars,
                      apiVars

\* What the read of the counter puts into the session.
LEMMA ReadRetriesShape ==
  ASSUME Inv, NEW w \in Workers, ReadRetries(w)
  PROVE  /\ worker[w].pc = "bump" /\ worker[w] \in WorkerStates
         /\ JobOf(w) \in Jobs /\ job[JobOf(w)] \in Row /\ JobRow(w) \in Row
         /\ worker' = [worker EXCEPT ![w] = worker'[w]]
         /\ worker'[w] = [worker[w] EXCEPT !.pc = "count",
              !.loaded = [JobRow(w) EXCEPT !.status = "retrying"]]
         /\ worker'[w] \in WorkerStates
         /\ worker'[w].pc = "count" /\ worker'[w].task = worker[w].task
         /\ worker'[w].loaded \in Row
         /\ worker'[w].loaded = [JobRow(w) EXCEPT !.status = "retrying"]
         /\ worker'[w].loaded.status = "retrying"
         /\ worker'[w].loaded.run = JobRow(w).run
         /\ worker'[w].loaded.retries = JobRow(w).retries
         /\ worker'[w].loaded.tracked = JobRow(w).tracked
         /\ worker'[w].loaded.failure = JobRow(w).failure
         /\ worker'[w].loaded.pr = JobRow(w).pr
         /\ UNCHANGED <<dbVars, redisVars, repoVars, ciVars, router, apiVars>>
  <1>1. worker[w].pc = "bump"
    BY DEF ReadRetries, At
  <1>2. /\ worker[w] \in WorkerStates /\ JobRow(w) \in Row
        /\ JobOf(w) \in Jobs /\ job[JobOf(w)] \in Row
    BY <1>1, WorkersJob DEF Inv
  <1> DEFINE row == [JobRow(w) EXCEPT !.status = "retrying"]
  <1>3. /\ row \in Row /\ row.status = "retrying"
        /\ row.run = JobRow(w).run /\ row.retries = JobRow(w).retries
        /\ row.tracked = JobRow(w).tracked /\ row.failure = JobRow(w).failure
        /\ row.pr = JobRow(w).pr
    BY <1>2 DEF Row, Statuses
  <1>4. /\ worker' = [worker EXCEPT ![w] = worker'[w]]
        /\ worker'[w] = [worker[w] EXCEPT !.pc = "count", !.loaded = row]
    <2>1. worker \in [Workers -> WorkerStates]
      BY DEF Inv, TypeOK
    <2> QED BY <2>1 DEF ReadRetries
  <1> HIDE DEF row
  <1>5. /\ worker'[w] \in WorkerStates
        /\ worker'[w].pc = "count" /\ worker'[w].task = worker[w].task
        /\ worker'[w].loaded = row
    BY <1>2, <1>3, <1>4 DEF WorkerStates, WorkerPCs
  <1> QED BY <1>1, <1>2, <1>3, <1>4, <1>5 DEF ReadRetries, row

LEMMA ReadRetriesInv ==
  ASSUME Inv, NEW w \in Workers, ReadRetries(w)
  PROVE  Inv'
  <1>1. worker' \in [Workers -> WorkerStates] /\ NothingDangles'
    BY ReadRetriesShape, WorkerMoves DEF dbVars, redisVars, apiVars, Exists
  <1> QED
    BY <1>1, ReadRetriesShape
    DEF Inv, TypeOK, dbVars, redisVars, repoVars, ciVars, apiVars

\* What the UPDATE of a retry makes of the row, and of the session.
LEMMA BumpRetryShape ==
  ASSUME Inv, NEW w \in Workers, BumpRetry(w)
  PROVE  /\ worker[w].pc = "count" /\ worker[w] \in WorkerStates
         /\ JobOf(w) \in Jobs /\ Exists(JobOf(w))
         /\ job[JobOf(w)] \in Row /\ JobRow(w) \in Row
         /\ job'[JobOf(w)] = [job[JobOf(w)] EXCEPT
              !.status = "retrying", !.retries = JobRow(w).retries + 1]
         /\ job'[JobOf(w)] \in Row /\ job'[JobOf(w)] # None
         /\ job'[JobOf(w)].run = job[JobOf(w)].run
         /\ job'[JobOf(w)].status = "retrying"
         /\ job'[JobOf(w)].retries = JobRow(w).retries + 1
         /\ job'[JobOf(w)].tracked = job[JobOf(w)].tracked
         /\ job'[JobOf(w)].failure = job[JobOf(w)].failure
         /\ job'[JobOf(w)].pr = job[JobOf(w)].pr
         /\ \A k \in Jobs : k # JobOf(w) => job'[k] = job[k]
         /\ job' \in [Jobs -> Row \union {None}]
         /\ worker' = [worker EXCEPT ![w] = worker'[w]]
         /\ worker'[w] = [worker[w] EXCEPT !.pc = "graph",
              !.loaded = job'[JobOf(w)], !.num = job'[JobOf(w)].retries + 1]
         /\ worker'[w] \in WorkerStates
         /\ worker'[w].pc = "graph" /\ worker'[w].task = worker[w].task
         /\ worker'[w].loaded = job'[JobOf(w)]
         /\ UNCHANGED <<attempts, redisVars, repoVars, ciVars, router, apiVars>>
  <1> DEFINE j == JobOf(w)
             row == [job[j] EXCEPT !.status = "retrying",
                                   !.retries = JobRow(w).retries + 1]
  <1>1. worker[w].pc = "count"
    BY DEF BumpRetry, At
  <1>2. /\ worker[w] \in WorkerStates /\ JobRow(w) \in Row
        /\ j \in Jobs /\ job[j] \in Row
    BY <1>1, WorkersJob DEF Inv
  <1>3. JobRow(w).retries + 1 \in Nat
    BY <1>2 DEF Row
  <1>4. /\ row \in Row /\ row.run = job[j].run /\ row.status = "retrying"
        /\ row.retries = JobRow(w).retries + 1
        /\ row.tracked = job[j].tracked /\ row.failure = job[j].failure
        /\ row.pr = job[j].pr
    BY <1>2, <1>3 DEF Row, Statuses
  <1>5. job' = [job EXCEPT ![j] = row]
    BY <1>2 DEF BumpRetry, Retrying, Inv, TypeOK
  <1> HIDE DEF row
  <1>6. /\ job'[j] = row /\ job' \in [Jobs -> Row \union {None}]
        /\ \A k \in Jobs : k # j => job'[k] = job[k]
        /\ Exists(j) /\ job'[j] # None
    BY <1>2, <1>4, <1>5, NoneIsNoRow DEF Inv, TypeOK, Exists
  <1>7. row.retries + 1 \in Nat
    BY <1>4 DEF Row
  <1>8. /\ worker' = [worker EXCEPT ![w] = worker'[w]]
        /\ worker'[w] = [worker[w] EXCEPT !.pc = "graph",
             !.loaded = job'[j], !.num = job'[j].retries + 1]
    <2>1. worker \in [Workers -> WorkerStates]
      BY DEF Inv, TypeOK
    <2> DEFINE new == job'[j]
    <2>2. worker' = [worker EXCEPT ![w].pc = "graph", ![w].loaded = new,
                                   ![w].num = new.retries + 1]
      BY DEF BumpRetry
    <2> HIDE DEF new
    <2>3. /\ worker' = [worker EXCEPT ![w] = worker'[w]]
          /\ worker'[w] = [worker[w] EXCEPT !.pc = "graph", !.loaded = new,
                                            !.num = new.retries + 1]
      BY <2>1, <2>2
    <2> QED BY <2>3 DEF new
  <1>9. /\ worker'[w] \in WorkerStates
        /\ worker'[w].pc = "graph" /\ worker'[w].task = worker[w].task
        /\ worker'[w].loaded = job'[j]
    BY <1>2, <1>4, <1>6, <1>7, <1>8 DEF WorkerStates, WorkerPCs
  <1>10. job'[j] = [job[j] EXCEPT !.status = "retrying",
                                  !.retries = JobRow(w).retries + 1]
    BY <1>6 DEF row
  <1> QED BY <1>1, <1>2, <1>4, <1>6, <1>8, <1>9, <1>10 DEF BumpRetry

LEMMA BumpRetryInv ==
  ASSUME Inv, NEW w \in Workers, BumpRetry(w)
  PROVE  Inv'
  <1>1. \A k \in Jobs : Exists(k) => Exists(k)'
    BY BumpRetryShape DEF Exists
  <1>2. worker' \in [Workers -> WorkerStates] /\ NothingDangles'
    BY <1>1, BumpRetryShape, WorkerMoves DEF redisVars, apiVars
  <1> QED
    BY <1>2, BumpRetryShape
    DEF Inv, TypeOK, redisVars, repoVars, ciVars, apiVars

\* A worker that commits its session and is done.
LEMMA CommitAndDone ==
  ASSUME Inv, NEW w \in Workers, worker[w].pc # "idle", NEW new \in Row,
         Commits(w, new), Done(w), UNCHANGED <<queue, router, client>>
  PROVE  /\ job' \in [Jobs -> Row \union {None}]
         /\ worker' \in [Workers -> WorkerStates]
         /\ NothingDangles'
  <1>1. /\ job' \in [Jobs -> Row \union {None}]
        /\ \A k \in Jobs : Exists(k) => Exists(k)'
    BY CommitsRow
  <1> QED BY <1>1, DoneMoves, WorkerMoves

LEMMA DropOutInv ==
  ASSUME Inv, NEW w \in Workers, NEW ft \in FailureTypes, DropOut(w, ft)
  PROVE  Inv'
  <1>1. worker[w].pc = "graph"
    BY DEF DropOut, At
  <1>2. JobRow(w) \in Row
    BY <1>1, WorkersJob DEF Inv
  <1>3. PICK status \in {"undiagnosable", "needs-human-review"} :
          Commits(w, [JobRow(w) EXCEPT !.status = status, !.failure = ft])
    BY DEF DropOut
  <1>4. [JobRow(w) EXCEPT !.status = status, !.failure = ft] \in Row
    BY <1>2 DEF Row, Statuses
  <1>5. /\ job' \in [Jobs -> Row \union {None}]
        /\ worker' \in [Workers -> WorkerStates]
        /\ NothingDangles'
    BY <1>1, <1>3, <1>4, CommitAndDone DEF DropOut, redisVars, apiVars
  <1> QED
    BY <1>5 DEF Inv, TypeOK, DropOut, redisVars, repoVars, ciVars, apiVars

LEMMA PushPatchInv ==
  ASSUME Inv, NEW w \in Workers, NEW ft \in FailureTypes, PushPatch(w, ft)
  PROVE  Inv'
  <1> DEFINE j == JobOf(w)
             p == patches[j] + 1
  <1>1. worker[w].pc = "graph"
    BY DEF PushPatch, At
  <1>2. worker[w] \in WorkerStates /\ j \in Jobs
    BY <1>1, WorkersJob DEF Inv
  <1>3. p \in Nat
    BY <1>2 DEF Inv, TypeOK
  <1>4. patches' \in [Jobs -> Nat] /\ tip' \in [Jobs -> Nat]
    BY <1>3 DEF PushPatch, Inv, TypeOK
  <1>5. running' \subseteq RunIds
    BY <1>2, <1>3 DEF PushPatch, RunIds, Inv, TypeOK
  <1>6. /\ worker' = [worker EXCEPT ![w] = worker'[w]]
        /\ worker'[w] = [worker[w] EXCEPT !.pc = "pushed", !.patch = p,
                                          !.ft = ft]
    BY DEF PushPatch, Inv, TypeOK
  <1>7. worker'[w] \in WorkerStates /\ worker'[w].task = worker[w].task
    BY <1>2, <1>3, <1>6 DEF WorkerStates, WorkerPCs
  <1>8. worker' \in [Workers -> WorkerStates] /\ NothingDangles'
    BY <1>1, <1>6, <1>7, WorkerMoves
    DEF PushPatch, dbVars, redisVars, apiVars, Exists
  <1> QED
    BY <1>4, <1>5, <1>8 DEF Inv, TypeOK, PushPatch, dbVars, redisVars, apiVars

LEMMA RecordAttemptInv ==
  ASSUME Inv, NEW w \in Workers, RecordAttempt(w)
  PROVE  Inv'
  <1> DEFINE j == JobOf(w)
             new == Dispatched(JobRow(w), worker[w].ft)
  <1>1. worker[w].pc = "pushed"
    BY DEF RecordAttempt, At
  <1>2. worker[w] \in WorkerStates /\ j \in Jobs /\ JobRow(w) \in Row
    BY <1>1, WorkersJob DEF Inv
  <1>3. new \in Row
    BY <1>2 DEF Dispatched, Row, Statuses, WorkerStates
  <1>4. PushedAttempt(w) \in Attempt
    BY <1>2 DEF PushedAttempt, Attempt, WorkerStates
  <1>5. attempts' \in [Jobs -> Seq(Attempt)]
    BY <1>2, <1>4 DEF RecordAttempt, Inv, TypeOK
  <1>6. /\ job' \in [Jobs -> Row \union {None}]
        /\ worker' \in [Workers -> WorkerStates]
        /\ NothingDangles'
    BY <1>1, <1>3, CommitAndDone DEF RecordAttempt, redisVars, apiVars
  <1> QED
    BY <1>5, <1>6 DEF Inv, TypeOK, RecordAttempt, redisVars, repoVars, ciVars,
                      apiVars

LEMMA RejectPatchInv ==
  ASSUME Inv, NEW w \in Workers, NEW ft \in FailureTypes, RejectPatch(w, ft)
  PROVE  Inv'
  <1> DEFINE j == JobOf(w)
             p == patches[j] + 1
             row == [num |-> worker[w].num, patch |-> p, pushed |-> FALSE,
                     success |-> FALSE, ciRun |-> None, output |-> TRUE]
             new == [JobRow(w) EXCEPT !.status = "needs-human-review",
                                      !.failure = ft]
  <1>1. worker[w].pc = "graph"
    BY DEF RejectPatch, At
  <1>2. worker[w] \in WorkerStates /\ j \in Jobs /\ JobRow(w) \in Row
    BY <1>1, WorkersJob DEF Inv
  <1>3. p \in Nat
    BY <1>2 DEF Inv, TypeOK
  <1>4. row \in Attempt
    BY <1>2, <1>3 DEF Attempt, WorkerStates
  <1>5. new \in Row
    BY <1>2 DEF Row, Statuses
  <1>6. attempts' \in [Jobs -> Seq(Attempt)] /\ patches' \in [Jobs -> Nat]
    BY <1>2, <1>3, <1>4 DEF RejectPatch, Inv, TypeOK
  <1>7. /\ job' \in [Jobs -> Row \union {None}]
        /\ worker' \in [Workers -> WorkerStates]
        /\ NothingDangles'
    BY <1>1, <1>5, CommitAndDone DEF RejectPatch, redisVars, apiVars
  <1> QED
    BY <1>6, <1>7 DEF Inv, TypeOK, RejectPatch, redisVars, ciVars, apiVars

LEMMA CleanTypeIsType ==
  ASSUME Inv, NEW w \in Workers, worker[w].pc # "idle"
  PROVE  /\ CleanType(w) \in FailureTypes
         /\ HeadBranch(w) \in Jobs \X FailureTypes
  BY UnknownAssumption, WorkersJob DEF Inv, CleanType, HeadBranch, Row

LEMMA FetchInternalInv ==
  ASSUME Inv, NEW w \in Workers, FetchInternal(w)
  PROVE  Inv'
  <1>1. worker[w].pc = "green"
    BY DEF FetchInternal, At
  <1>2. worker[w] \in WorkerStates /\ JobOf(w) \in Jobs
    BY <1>1, WorkersJob DEF Inv
  <1>3. tip[JobOf(w)] \in Nat
    BY <1>2 DEF Inv, TypeOK
  <1>4. /\ worker' = [worker EXCEPT ![w] = worker'[w]]
        /\ worker'[w] = [worker[w] EXCEPT !.pc = "fetched",
                                          !.patch = tip[JobOf(w)]]
    BY DEF FetchInternal, Inv, TypeOK
  <1>5. worker'[w] \in WorkerStates /\ worker'[w].task = worker[w].task
    BY <1>2, <1>3, <1>4 DEF WorkerStates, WorkerPCs
  <1>6. worker' \in [Workers -> WorkerStates] /\ NothingDangles'
    BY <1>1, <1>4, <1>5, WorkerMoves
    DEF FetchInternal, dbVars, redisVars, apiVars, Exists
  <1> QED
    BY <1>6 DEF Inv, TypeOK, FetchInternal, dbVars, redisVars, repoVars,
                ciVars, apiVars

\* A worker that goes on with its task.
LEMMA GotoMoves ==
  ASSUME Inv, NEW w \in Workers, worker[w].pc # "idle", NEW pc \in WorkerPCs,
         Goto(w, pc), UNCHANGED <<job, queue, router, client>>
  PROVE  worker' \in [Workers -> WorkerStates] /\ NothingDangles'
  <1>1. worker[w] \in WorkerStates
    BY WorkersJob DEF Inv
  <1>2. /\ worker' = [worker EXCEPT ![w] = worker'[w]]
        /\ worker'[w] = [worker[w] EXCEPT !.pc = pc]
    BY DEF Goto, Inv, TypeOK
  <1>3. worker'[w] \in WorkerStates /\ worker'[w].task = worker[w].task
    BY <1>1, <1>2 DEF WorkerStates
  <1> QED BY <1>2, <1>3, WorkerMoves DEF Exists

LEMMA PushCleanInv ==
  ASSUME Inv, NEW w \in Workers, PushClean(w)
  PROVE  Inv'
  <1>1. worker[w].pc = "fetched"
    BY DEF PushClean, At
  <1>2. /\ worker[w].patch \in Nat
        /\ JobOf(w) \in Jobs
        /\ CleanType(w) \in FailureTypes
    BY <1>1, WorkersJob, CleanTypeIsType DEF Inv, WorkerStates
  <1>3. clean' \in [Jobs -> [FailureTypes -> Nat]]
    BY <1>2 DEF PushClean, Inv, TypeOK
  <1>4. worker' \in [Workers -> WorkerStates] /\ NothingDangles'
    BY <1>1, GotoMoves DEF PushClean, dbVars, redisVars, apiVars, WorkerPCs
  <1> QED
    BY <1>3, <1>4 DEF Inv, TypeOK, PushClean, dbVars, redisVars, ciVars,
                      apiVars

LEMMA OpenPRInv ==
  ASSUME Inv, NEW w \in Workers, OpenPR(w)
  PROVE  Inv'
  <1>1. worker[w].pc = "cleaned"
    BY DEF OpenPR, At
  <1>2. HeadBranch(w) \in Jobs \X FailureTypes
    BY <1>1, CleanTypeIsType
  <1>3. worker' \in [Workers -> WorkerStates] /\ NothingDangles'
    BY <1>1, GotoMoves DEF OpenPR, dbVars, redisVars, apiVars, WorkerPCs
  <1> QED
    BY <1>2, <1>3 DEF Inv, TypeOK, OpenPR, dbVars, redisVars, ciVars, apiVars

LEMMA CommitPRInv ==
  ASSUME Inv, NEW w \in Workers, CommitPR(w)
  PROVE  Inv'
  <1> DEFINE new == [JobRow(w) EXCEPT !.status = "pr_opened",
                                      !.pr = CleanType(w)]
  <1>1. worker[w].pc = "opened"
    BY DEF CommitPR, At
  <1>2. JobRow(w) \in Row /\ CleanType(w) \in FailureTypes
    BY <1>1, WorkersJob, CleanTypeIsType DEF Inv
  <1>3. new \in Row
    BY <1>2 DEF Row, Statuses
  <1>4. /\ job' \in [Jobs -> Row \union {None}]
        /\ worker' \in [Workers -> WorkerStates]
        /\ NothingDangles'
    BY <1>1, <1>3, CommitAndDone DEF CommitPR, redisVars, apiVars
  <1> QED
    BY <1>4 DEF Inv, TypeOK, CommitPR, redisVars, repoVars, ciVars, apiVars

LEMMA EscalateInv ==
  ASSUME Inv, NEW w \in Workers, Escalate(w)
  PROVE  Inv'
  <1>1. worker[w].pc = "escalate"
    BY DEF Escalate, At
  <1>2. escalated' \subseteq Jobs
    BY <1>1, WorkersJob DEF Escalate, Inv, TypeOK
  <1>3. worker' \in [Workers -> WorkerStates] /\ NothingDangles'
    BY DoneMoves, WorkerMoves DEF Escalate, dbVars, redisVars, apiVars, Exists
  <1> QED
    BY <1>2, <1>3 DEF Inv, TypeOK, Escalate, dbVars, redisVars, ciVars,
                      apiVars

LEMMA RaiseInv ==
  ASSUME Inv, NEW w \in Workers, Raise(w)
  PROVE  Inv'
  <1> DEFINE new == [JobRow(w) EXCEPT !.status = "failed"]
  <1>1. worker[w].pc # "idle"
    BY DEF Raise, At, CallPoints, TryPoints
  <1>2. new \in Row
    BY <1>1, WorkersJob DEF Inv, Row, Statuses
  <1>3. /\ job' \in [Jobs -> Row \union {None}]
        /\ worker' \in [Workers -> WorkerStates]
        /\ NothingDangles'
    BY <1>1, <1>2, CommitAndDone DEF Raise, redisVars, apiVars
  <1> QED
    BY <1>3 DEF Inv, TypeOK, Raise, redisVars, repoVars, ciVars, apiVars

LEMMA WorkerCrashesInv ==
  ASSUME Inv, NEW w \in Workers, WorkerCrashes(w)
  PROVE  Inv'
  <1>1. worker' \in [Workers -> WorkerStates] /\ NothingDangles'
    BY DoneMoves, WorkerMoves
    DEF WorkerCrashes, dbVars, redisVars, apiVars, Exists
  <1> QED
    BY <1>1 DEF Inv, TypeOK, WorkerCrashes, dbVars, redisVars, repoVars,
                ciVars, apiVars

LEMMA WorkerStepInv ==
  ASSUME Inv, WorkerStep
  PROVE  Inv'
  <1> PICK w \in Workers : WorkerAdvances(w) \/ Raise(w) \/ WorkerCrashes(w)
    BY DEF WorkerStep
  <1>1. CASE WorkerAdvances(w)
    BY <1>1, TakeTaskInv, StartInitialInv, StartGreenInv, StartExhaustedInv,
       StartRedInv, StampRedInv, ReadRetriesInv, BumpRetryInv, DropOutInv,
       PushPatchInv, RecordAttemptInv, RejectPatchInv, FetchInternalInv, PushCleanInv,
       OpenPRInv, CommitPRInv, EscalateInv
    DEF WorkerAdvances
  <1>2. CASE Raise(w)
    BY <1>2, RaiseInv
  <1>3. CASE WorkerCrashes(w)
    BY <1>3, WorkerCrashesInv
  <1> QED BY <1>1, <1>2, <1>3

-----------------------------------------------------------------------------
(* The steps of GitHub, the router and the API *)

\* Steps that touch neither a job nor a process.
LEMMA BystandersStay ==
  ASSUME NothingDangles, UNCHANGED <<job, queue, worker, router, client>>
  PROVE  NothingDangles'
  BY DEF NothingDangles, QueueHasJobs, WorkersHaveJobs, HandlersHaveJobs,
         ClientsHaveJobs, Exists

LEMMA GitHubStepInv ==
  ASSUME Inv, GitHubStep
  PROVE  Inv'
  <1>1. ASSUME NEW d \in DevRuns, DevRunFails(d) PROVE Inv'
    <2>1. NothingDangles'
      BY <1>1, BystandersStay DEF Inv, DevRunFails, dbVars, redisVars, apiVars
    <2> QED
      BY <1>1, <2>1 DEF Inv, TypeOK, DevRunFails, dbVars, redisVars, repoVars,
                        apiVars
  <1>2. ASSUME NEW r \in running, RunEnds(r) PROVE Inv'
    <2>1. NothingDangles'
      BY <1>2, BystandersStay DEF Inv, RunEnds, dbVars, redisVars, apiVars
    <2> QED
      BY <1>2, <2>1 DEF Inv, TypeOK, RunEnds, dbVars, redisVars, repoVars,
                        apiVars
  <1>3. ASSUME NEW e \in devFailed \union Ended, Redeliver(e) PROVE Inv'
    <2>1. NothingDangles'
      BY <1>3, BystandersStay DEF Inv, Redeliver, dbVars, redisVars, apiVars
    <2>2. redeliveries' \in 0 .. MaxRedeliveries
      BY <1>3, BoundsAssumption DEF Redeliver, Inv, TypeOK
    <2> QED
      BY <1>3, <2>1, <2>2 DEF Inv, TypeOK, Redeliver, Ended, dbVars,
                              redisVars, repoVars, apiVars
  <1>4. ASSUME NEW e \in hooks, LoseHook(e) PROVE Inv'
    <2>1. NothingDangles'
      BY <1>4, BystandersStay DEF Inv, LoseHook, dbVars, redisVars, apiVars
    <2> QED
      BY <1>4, <2>1 DEF Inv, TypeOK, LoseHook, dbVars, redisVars, repoVars,
                        apiVars
  <1> QED BY <1>1, <1>2, <1>3, <1>4 DEF GitHubStep

\* A handler that moves, while every job stays.
LEMMA HandlerMoves ==
  ASSUME Inv, NEW h \in Handlers,
         router' = [router EXCEPT ![h] = router'[h]],
         router'[h] \in HandlerStates,
         router'[h].pc # "idle" => router'[h].run \in DevRuns,
         router'[h].pc = "enqueue" =>
           router'[h].job \in Jobs /\ job'[router'[h].job] # None,
         \A k \in Jobs : Exists(k) => Exists(k)',
         UNCHANGED <<queue, worker, client>>
  PROVE  /\ router' \in [Handlers -> HandlerStates]
         /\ NothingDangles'
  <1>1. router' \in [Handlers -> HandlerStates]
    BY DEF Inv, TypeOK
  <1>2. QueueHasJobs' /\ WorkersHaveJobs' /\ ClientsHaveJobs'
    BY TaskFields DEF Inv, TypeOK, NothingDangles, QueueHasJobs,
                      WorkersHaveJobs, ClientsHaveJobs
  <1>3. HandlersHaveJobs'
    BY DEF Inv, TypeOK, NothingDangles, HandlersHaveJobs, Exists
  <1> QED BY <1>1, <1>2, <1>3 DEF NothingDangles

\* A handler that returns or dies.
LEMMA HandlerEndsMoves ==
  ASSUME Inv, NEW h \in Handlers, HandlerEnds(h),
         UNCHANGED <<job, queue, worker, client>>
  PROVE  /\ router' \in [Handlers -> HandlerStates]
         /\ NothingDangles'
  <1>1. /\ router' = [router EXCEPT ![h] = router'[h]]
        /\ router'[h] = IdleHandler
    BY DEF HandlerEnds, Inv, TypeOK
  <1> QED BY <1>1, IdleStates, HandlerMoves DEF IdleHandler, Exists

\* A task about an existing job is appended to the queue.
LEMMA Enqueued ==
  ASSUME Inv, NEW t \in Tasks, Exists(t.job), queue' = Append(queue, t),
         UNCHANGED job
  PROVE  queue' \in Seq(Tasks) /\ QueueHasJobs'
  BY DEF Inv, TypeOK, NothingDangles, QueueHasJobs, Exists

LEMMA ReceiveFailureInv ==
  ASSUME Inv, NEW h \in Handlers, NEW d \in DevRuns, ReceiveFailure(h, d)
  PROVE  Inv'
  <1>1. locks' \subseteq DevRuns \union RunIds
        /\ hooks' \subseteq DevRuns \union RunIds
    BY DEF ReceiveFailure, Inv, TypeOK
  <1>2. CASE router' = [router EXCEPT ![h] =
               [pc |-> "select", run |-> d, job |-> None]]
    <2>1. /\ router' = [router EXCEPT ![h] = router'[h]]
          /\ router'[h] = [pc |-> "select", run |-> d, job |-> None]
      BY <1>2 DEF Inv, TypeOK
    <2>2. router'[h] \in HandlerStates
      BY <2>1 DEF HandlerStates
    <2>3. router' \in [Handlers -> HandlerStates] /\ NothingDangles'
      BY <2>1, <2>2, HandlerMoves
      DEF ReceiveFailure, dbVars, apiVars, Exists
    <2> QED
      BY <1>1, <2>3 DEF Inv, TypeOK, ReceiveFailure, dbVars, repoVars, apiVars
  <1>3. CASE UNCHANGED router
    <2>1. NothingDangles'
      BY <1>3, BystandersStay DEF ReceiveFailure, Inv, dbVars, apiVars
    <2> QED
      BY <1>1, <1>3, <2>1
      DEF Inv, TypeOK, ReceiveFailure, dbVars, repoVars, apiVars
  <1> QED BY <1>2, <1>3 DEF ReceiveFailure

LEMMA SelectExistingInv ==
  ASSUME Inv, NEW h \in Handlers, SelectExisting(h)
  PROVE  Inv'
  <1>1. locks' \subseteq DevRuns \union RunIds
    BY DEF SelectExisting, Inv, TypeOK
  <1>2. router' \in [Handlers -> HandlerStates] /\ NothingDangles'
    <2>1. CASE router' = [router EXCEPT ![h].pc = "insert"]
      <3>1. /\ router' = [router EXCEPT ![h] = router'[h]]
            /\ router'[h] = [router[h] EXCEPT !.pc = "insert"]
        BY <2>1 DEF Inv, TypeOK
      <3>2. router'[h] \in HandlerStates /\ router'[h].pc = "insert"
        BY <3>1 DEF Inv, TypeOK, HandlerStates
      <3>3. router[h].run \in DevRuns /\ router'[h].run = router[h].run
        BY <3>1 DEF SelectExisting, HandlerAt, Inv, TypeOK, HandlerStates,
                    NothingDangles, HandlersHaveJobs
      <3> QED BY <3>1, <3>2, <3>3, HandlerMoves
              DEF SelectExisting, dbVars, apiVars, Exists
    <2>2. CASE HandlerEnds(h)
      BY <2>2, HandlerEndsMoves DEF SelectExisting, dbVars, apiVars
    <2> QED BY <2>1, <2>2 DEF SelectExisting
  <1> QED
    BY <1>1, <1>2 DEF Inv, TypeOK, SelectExisting, dbVars, repoVars, ciVars,
                      apiVars

LEMMA InsertJobInv ==
  ASSUME Inv, NEW h \in Handlers, InsertJob(h)
  PROVE  Inv'
  <1> DEFINE d == router[h].run
  <1>1. locks' \subseteq DevRuns \union RunIds
    BY DEF InsertJob, Inv, TypeOK
  <1>2. CASE \E j \in Jobs :
               /\ job[j] = None
               /\ job' = [job EXCEPT ![j] = NewRow(d)]
               /\ router' = [router EXCEPT ![h].pc = "enqueue", ![h].job = j]
    <2>1. PICK j \in Jobs :
            /\ job[j] = None
            /\ job' = [job EXCEPT ![j] = NewRow(d)]
            /\ router' = [router EXCEPT ![h].pc = "enqueue", ![h].job = j]
      BY <1>2
    <2>2. d \in DevRuns
      BY DEF InsertJob, HandlerAt, Inv, NothingDangles, HandlersHaveJobs
    <2>3. /\ job' \in [Jobs -> Row \union {None}]
          /\ \A k \in Jobs : Exists(k) => Exists(k)'
          /\ job'[j] # None
      <3>1. NewRow(d) \in Row
        BY <2>2, NewRowIsRow
      <3>2. job'[j] = NewRow(d)
        BY <2>1 DEF Inv, TypeOK
      <3> QED BY <2>1, <3>1, <3>2, JobsRemain, NoneIsNoRow DEF Inv
    <2>4. /\ router' = [router EXCEPT ![h] = router'[h]]
          /\ router'[h] = [router[h] EXCEPT !.pc = "enqueue", !.job = j]
      BY <2>1 DEF Inv, TypeOK
    <2>5. /\ router'[h] \in HandlerStates
          /\ router'[h].run = d
          /\ router'[h].job = j
      <3>1. router[h] \in HandlerStates
        BY DEF Inv, TypeOK
      <3> QED BY <2>4, <3>1 DEF HandlerStates
    <2>6. router' \in [Handlers -> HandlerStates] /\ NothingDangles'
      BY <2>2, <2>3, <2>4, <2>5, HandlerMoves DEF InsertJob, apiVars
    <2> QED
      BY <1>1, <2>3, <2>6 DEF Inv, TypeOK, InsertJob, repoVars, ciVars,
                              apiVars
  <1>3. CASE HandlerEnds(h) /\ UNCHANGED job
    <2>1. router' \in [Handlers -> HandlerStates] /\ NothingDangles'
      BY <1>3, HandlerEndsMoves DEF InsertJob, apiVars
    <2> QED
      BY <1>1, <1>3, <2>1 DEF Inv, TypeOK, InsertJob, repoVars, ciVars,
                              apiVars
  <1> QED BY <1>2, <1>3 DEF InsertJob

LEMMA EnqueueInitialInv ==
  ASSUME Inv, NEW h \in Handlers, EnqueueInitial(h)
  PROVE  Inv'
  <1>1. router[h].job \in Jobs /\ Exists(router[h].job)
    BY DEF EnqueueInitial, HandlerAt, Inv, NothingDangles, HandlersHaveJobs
  <1>2. queue' \in Seq(Tasks) /\ QueueHasJobs'
    BY <1>1, InitialTaskIsTask, Enqueued DEF EnqueueInitial, dbVars
  <1>3. /\ router' = [router EXCEPT ![h] = router'[h]]
        /\ router'[h] = IdleHandler
    BY DEF EnqueueInitial, HandlerEnds, Inv, TypeOK
  <1>4. router' \in [Handlers -> HandlerStates]
    BY <1>3, IdleStates DEF Inv, TypeOK
  <1>5. HandlersHaveJobs'
    <2>1. ASSUME NEW g \in Handlers, g # h PROVE router'[g] = router[g]
      BY <2>1 DEF EnqueueInitial, HandlerEnds, Inv, TypeOK
    <2>2. UNCHANGED job
      BY DEF EnqueueInitial, dbVars
    <2> QED
      BY <1>3, <2>1, <2>2
      DEF Inv, NothingDangles, HandlersHaveJobs, IdleHandler, Exists
  <1>6. WorkersHaveJobs' /\ ClientsHaveJobs'
    BY DEF EnqueueInitial, dbVars, apiVars, Inv, NothingDangles,
           WorkersHaveJobs, ClientsHaveJobs, Exists
  <1> QED
    BY <1>2, <1>4, <1>5, <1>6
    DEF Inv, TypeOK, NothingDangles, EnqueueInitial, dbVars, repoVars,
        ciVars, apiVars

LEMMA IntakeRaisesInv ==
  ASSUME Inv, NEW h \in Handlers, IntakeRaises(h)
  PROVE  Inv'
  <1>1. router' \in [Handlers -> HandlerStates] /\ NothingDangles'
    BY HandlerEndsMoves DEF IntakeRaises, dbVars, apiVars
  <1> QED
    BY <1>1 DEF Inv, TypeOK, IntakeRaises, dbVars, repoVars, ciVars, apiVars

LEMMA HandlerCrashesInv ==
  ASSUME Inv, NEW h \in Handlers, HandlerCrashes(h)
  PROVE  Inv'
  <1>1. router' \in [Handlers -> HandlerStates] /\ NothingDangles'
    BY HandlerEndsMoves DEF HandlerCrashes, dbVars, redisVars, apiVars
  <1> QED
    BY <1>1 DEF Inv, TypeOK, HandlerCrashes, dbVars, redisVars, repoVars,
                ciVars, apiVars

LEMMA ReceiveCompletionInv ==
  ASSUME Inv, NEW r \in RunIds, ReceiveCompletion(r)
  PROVE  Inv'
  <1>1. /\ locks' \subseteq DevRuns \union RunIds
        /\ hooks' \subseteq DevRuns \union RunIds
    BY DEF ReceiveCompletion, redisVars, Inv, TypeOK
  <1>2. CASE UNCHANGED queue
    <2>1. NothingDangles'
      BY <1>2, BystandersStay DEF ReceiveCompletion, Inv, dbVars, apiVars
    <2> QED
      BY <1>1, <1>2, <2>1
      DEF Inv, TypeOK, ReceiveCompletion, dbVars, repoVars, apiVars
  <1>3. CASE /\ KnownBranch(r)
             /\ queue' = Append(queue, CompletionTask(r.job, r, Conclusion(r)))
    <2>1. r.job \in Jobs /\ Exists(r.job) /\ Conclusion(r) \in Conclusions
      BY <1>3 DEF KnownBranch, Exists, RunIds, Conclusion, Conclusions
    <2>2. queue' \in Seq(Tasks) /\ QueueHasJobs'
      BY <1>3, <2>1, CompletionTaskIsTask, Enqueued
      DEF ReceiveCompletion, dbVars
    <2>3. WorkersHaveJobs' /\ HandlersHaveJobs' /\ ClientsHaveJobs'
      BY DEF ReceiveCompletion, dbVars, apiVars, Inv, NothingDangles,
             WorkersHaveJobs, HandlersHaveJobs, ClientsHaveJobs, Exists
    <2> QED
      BY <1>1, <2>2, <2>3 DEF Inv, TypeOK, NothingDangles, ReceiveCompletion,
                              dbVars, repoVars, apiVars
  <1> QED BY <1>2, <1>3 DEF ReceiveCompletion, redisVars

LEMMA RouterStepInv ==
  ASSUME Inv, RouterStep
  PROVE  Inv'
  <1>1. ASSUME NEW h \in Handlers, NEW d \in hooks \intersect devFailed,
               ReceiveFailure(h, d)
        PROVE  Inv'
    BY <1>1, ReceiveFailureInv DEF Inv, TypeOK
  <1>2. ASSUME NEW h \in Handlers,
               \/ SelectExisting(h) \/ InsertJob(h) \/ EnqueueInitial(h)
               \/ IntakeRaises(h) \/ HandlerCrashes(h)
        PROVE  Inv'
    BY <1>2, SelectExistingInv, InsertJobInv, EnqueueInitialInv,
       IntakeRaisesInv, HandlerCrashesInv
  <1>3. ASSUME DeliverCompletion PROVE Inv'
    BY <1>3, ReceiveCompletionInv DEF DeliverCompletion, Ended, Inv, TypeOK
  <1>4. ASSUME NEW r \in locks, LockExpires(r) PROVE Inv'
    <2>1. NothingDangles'
      BY <1>4, BystandersStay DEF LockExpires, Inv, dbVars, apiVars
    <2> QED
      BY <1>4, <2>1 DEF Inv, TypeOK, LockExpires, dbVars, repoVars, ciVars,
                        apiVars
  <1> QED BY <1>1, <1>2, <1>3, <1>4 DEF RouterStep

\* A client that moves, while every job stays.
LEMMA ClientMoves ==
  ASSUME Inv, NEW c \in Clients,
         client' = [client EXCEPT ![c] = client'[c]],
         client'[c] \in ClientStates,
         client'[c].pc # "idle" =>
           client'[c].job \in Jobs /\ job'[client'[c].job] # None,
         client'[c].pc = "read" => client'[c].loaded \in Row,
         \A k \in Jobs : Exists(k) => Exists(k)',
         UNCHANGED <<worker, router>>
  PROVE  /\ client' \in [Clients -> ClientStates]
         /\ WorkersHaveJobs' /\ HandlersHaveJobs' /\ ClientsHaveJobs'
  <1>1. client' \in [Clients -> ClientStates]
    BY DEF Inv, TypeOK
  <1>2. WorkersHaveJobs' /\ HandlersHaveJobs'
    BY TaskFields DEF Inv, NothingDangles, WorkersHaveJobs, HandlersHaveJobs
  <1>3. ClientsHaveJobs'
    <2>1. ASSUME NEW b \in Clients, b # c PROVE client'[b] = client[b]
      BY <2>1 DEF Inv, TypeOK
    <2> QED
      BY <2>1 DEF Inv, NothingDangles, ClientsHaveJobs, Exists
  <1> QED BY <1>1, <1>2, <1>3

LEMMA ClientEndsMoves ==
  ASSUME Inv, NEW c \in Clients, ClientEnds(c),
         UNCHANGED <<job, worker, router>>
  PROVE  /\ client' \in [Clients -> ClientStates]
         /\ WorkersHaveJobs' /\ HandlersHaveJobs' /\ ClientsHaveJobs'
  <1>1. /\ client' = [client EXCEPT ![c] = client'[c]]
        /\ client'[c] = IdleClient
    BY DEF ClientEnds, Inv, TypeOK
  <1> QED BY <1>1, IdleStates, ClientMoves DEF IdleClient, Exists

LEMMA RetryReadsInv ==
  ASSUME Inv, NEW c \in Clients, NEW j \in Jobs, RetryReads(c, j)
  PROVE  Inv'
  <1>1. job[j] \in Row
    BY DEF RetryReads, Inv, TypeOK
  <1>2. /\ client' = [client EXCEPT ![c] = client'[c]]
        /\ client'[c] = [pc |-> "read", job |-> j, loaded |-> job[j]]
    BY DEF RetryReads, Inv, TypeOK
  <1>3. client'[c] \in ClientStates
    BY <1>1, <1>2 DEF ClientStates
  <1>4. UNCHANGED <<job, queue, worker, router>>
    BY DEF RetryReads, dbVars, redisVars
  <1>5. /\ client' \in [Clients -> ClientStates]
        /\ WorkersHaveJobs' /\ HandlersHaveJobs' /\ ClientsHaveJobs'
    BY <1>1, <1>2, <1>3, <1>4, ClientMoves, NoneIsNoRow DEF Exists
  <1>6. QueueHasJobs'
    BY <1>4 DEF Inv, NothingDangles, QueueHasJobs, Exists
  <1>7. retryCalls' \in 0 .. MaxManualRetries
    BY BoundsAssumption DEF RetryReads, Inv, TypeOK
  <1> QED
    BY <1>5, <1>6, <1>7 DEF Inv, TypeOK, NothingDangles, RetryReads, dbVars,
                            redisVars, repoVars, ciVars

LEMMA RetryCommitsInv ==
  ASSUME Inv, NEW c \in Clients, RetryCommits(c)
  PROVE  Inv'
  <1> DEFINE j == client[c].job
             loaded == client[c].loaded
             row == Flush(job[j], loaded, Requeued(loaded))
  <1>1. /\ client[c] \in ClientStates
        /\ j \in Jobs /\ job[j] \in Row /\ loaded \in Row
    BY DEF RetryCommits, Inv, TypeOK, NothingDangles, ClientsHaveJobs, Exists
  <1>2. Requeued(loaded) \in Row
    BY <1>1 DEF Requeued, Row, Statuses
  <1>3. row \in Row
    BY <1>1, <1>2, FlushIsRow
  <1>4. /\ job' \in [Jobs -> Row \union {None}]
        /\ \A k \in Jobs : Exists(k) => Exists(k)'
    BY <1>1, <1>3, JobsRemain DEF RetryCommits, Inv
  <1>5. job'[j] # None
    BY <1>1, <1>4, NoneIsNoRow DEF Exists
  <1>6. /\ client' = [client EXCEPT ![c] = client'[c]]
        /\ client'[c] = [client[c] EXCEPT !.pc = "enqueue", !.loaded = None]
    BY DEF RetryCommits, Inv, TypeOK
  <1>7. /\ client'[c] \in ClientStates
        /\ client'[c].job = j /\ client'[c].pc = "enqueue"
    BY <1>1, <1>6 DEF ClientStates
  <1>8. UNCHANGED <<queue, worker, router>>
    BY DEF RetryCommits, redisVars
  <1>9. /\ client' \in [Clients -> ClientStates]
        /\ WorkersHaveJobs' /\ HandlersHaveJobs' /\ ClientsHaveJobs'
    BY <1>1, <1>4, <1>5, <1>6, <1>7, <1>8, ClientMoves
  <1>10. QueueHasJobs'
    BY <1>4, <1>8, TaskFields DEF Inv, TypeOK, NothingDangles, QueueHasJobs
  <1> QED
    BY <1>4, <1>9, <1>10 DEF Inv, TypeOK, NothingDangles, RetryCommits,
                             redisVars, repoVars, ciVars

LEMMA RetryEnqueuesInv ==
  ASSUME Inv, NEW c \in Clients, RetryEnqueues(c)
  PROVE  Inv'
  <1>1. client[c].job \in Jobs /\ Exists(client[c].job)
    BY DEF RetryEnqueues, Inv, NothingDangles, ClientsHaveJobs
  <1>2. queue' \in Seq(Tasks) /\ QueueHasJobs'
    BY <1>1, InitialTaskIsTask, Enqueued DEF RetryEnqueues, dbVars
  <1>3. /\ client' \in [Clients -> ClientStates]
        /\ WorkersHaveJobs' /\ HandlersHaveJobs' /\ ClientsHaveJobs'
    BY ClientEndsMoves DEF RetryEnqueues, dbVars
  <1> QED
    BY <1>2, <1>3 DEF Inv, TypeOK, NothingDangles, RetryEnqueues, dbVars,
                      repoVars, ciVars

LEMMA RetryFailsInv ==
  ASSUME Inv, NEW c \in Clients, RetryFails(c)
  PROVE  Inv'
  <1>1. /\ client' \in [Clients -> ClientStates]
        /\ WorkersHaveJobs' /\ HandlersHaveJobs' /\ ClientsHaveJobs'
    BY ClientEndsMoves DEF RetryFails, dbVars
  <1>2. QueueHasJobs'
    BY DEF RetryFails, dbVars, redisVars, Inv, NothingDangles, QueueHasJobs,
           Exists
  <1> QED
    BY <1>1, <1>2 DEF Inv, TypeOK, NothingDangles, RetryFails, dbVars,
                      redisVars, repoVars, ciVars

LEMMA ApiStepInv ==
  ASSUME Inv, ApiStep
  PROVE  Inv'
  BY RetryReadsInv, RetryCommitsInv, RetryEnqueuesInv, RetryFailsInv
  DEF ApiStep

-----------------------------------------------------------------------------
(* The theorems *)

LEMMA InitInv == Init => Inv
  <1> SUFFICES ASSUME Init PROVE Inv
    OBVIOUS
  <1>1. TypeOK
    BY IdleStates, BoundsAssumption DEF Init, TypeOK
  <1>2. NothingDangles
    BY DEF Init, NothingDangles, QueueHasJobs, WorkersHaveJobs,
           HandlersHaveJobs, ClientsHaveJobs, IdleWorker, IdleHandler,
           IdleClient
  <1> QED BY <1>1, <1>2 DEF Inv

LEMMA StutterInv == Inv /\ UNCHANGED vars => Inv'
  BY DEF Inv, TypeOK, NothingDangles, QueueHasJobs, WorkersHaveJobs,
         HandlersHaveJobs, ClientsHaveJobs, Exists, vars, dbVars, redisVars,
         repoVars, ciVars, apiVars

LEMMA NextInv == Inv /\ [Next]_vars => Inv'
  <1> SUFFICES ASSUME Inv, [Next]_vars PROVE Inv'
    OBVIOUS
  <1>1. CASE GitHubStep
    BY <1>1, GitHubStepInv
  <1>2. CASE RouterStep
    BY <1>2, RouterStepInv
  <1>3. CASE ApiStep
    BY <1>3, ApiStepInv
  <1>4. CASE WorkerStep
    BY <1>4, WorkerStepInv
  <1>5. CASE UNCHANGED vars
    BY <1>5, StutterInv
  <1> QED BY <1>1, <1>2, <1>3, <1>4, <1>5 DEF Next

\* Inv holds in every reachable state, as every action keeps it.
THEOREM InvHolds == Spec => []Inv
  BY InitInv, NextInv, PTL DEF Spec

\* Every variable keeps its type whatever the environment does; in
\* particular no commit of a stale session and no status assignment of the
\* orchestrator, the router or retry_job (router.py, jobs.py,
\* orchestrator.py) writes a row that repair_jobs could not hold.
THEOREM TypeCorrect == Spec => []TypeOK
  <1>1. Inv => TypeOK
    BY DEF Inv
  <1> QED BY <1>1, InvHolds, PTL

\* orchestrator.py:71-74 and 140-143: no task, worker, handler or client is
\* ever about a job that does not exist.
THEOREM TasksHaveJobs == Spec => []NothingDangles
  <1>1. Inv => NothingDangles
    BY DEF Inv
  <1> QED BY <1>1, InvHolds, PTL

-----------------------------------------------------------------------------
(* What a step does to the table *)

\* Rows stay, with their failed run; with their counter; with their pull
\* request, and without a new one being announced.
RunsStay ==
  \A j \in Jobs : Exists(j) => job'[j] # None /\ job'[j].run = job[j].run

RetriesStay == \A j \in Jobs : Exists(j) => job'[j].retries = job[j].retries

PRsStay ==
  \A j \in Jobs : Exists(j) =>
    /\ job'[j].pr = job[j].pr
    /\ job'[j].status = "pr_opened" => job[j].status = "pr_opened"

NoneInserted == \A j \in Jobs : job[j] = None => job'[j] = None

LEMMA ColumnsOfFlush ==
  ASSUME NEW row \in Row, NEW loaded \in Row, NEW new \in Row
  PROVE  LET f == Flush(row, loaded, new) IN
         /\ new.run = loaded.run => f.run = row.run
         /\ f.retries = IF new.retries = loaded.retries THEN row.retries
                                                        ELSE new.retries
         /\ f.pr = IF new.pr = loaded.pr THEN row.pr ELSE new.pr
         /\ f.status = IF new.status = loaded.status THEN row.status
                                                     ELSE new.status
  BY DEF Flush, Row

\* A commit changes one row, and the columns its session has changed.
LEMMA CommitOfRow ==
  ASSUME Inv, NEW w \in Workers, worker[w].pc # "idle", NEW new \in Row,
         Commits(w, new)
  PROVE  /\ JobOf(w) \in Jobs /\ Exists(JobOf(w))
         /\ job[JobOf(w)] \in Row /\ JobRow(w) \in Row
         /\ job'[JobOf(w)] = Flush(job[JobOf(w)], JobRow(w), new)
         /\ job'[JobOf(w)] # None
         /\ \A k \in Jobs : k # JobOf(w) => job'[k] = job[k]
  <1>1. JobOf(w) \in Jobs /\ job[JobOf(w)] \in Row /\ JobRow(w) \in Row
    BY WorkersJob DEF Inv
  <1>2. Exists(JobOf(w))
    BY <1>1, NoneIsNoRow DEF Exists
  <1>3. Flush(job[JobOf(w)], JobRow(w), new) \in Row
    BY <1>1, FlushIsRow
  <1> QED BY <1>1, <1>2, <1>3, NoneIsNoRow DEF Commits, Inv, TypeOK

LEMMA CommitColumns ==
  ASSUME Inv, NEW w \in Workers, worker[w].pc # "idle", NEW new \in Row,
         Commits(w, new), new.run = JobRow(w).run
  PROVE  /\ RunsStay /\ NoneInserted
         /\ new.retries = JobRow(w).retries => RetriesStay
         /\ new.pr = JobRow(w).pr /\ new.status # "pr_opened" => PRsStay
  <1>1. /\ JobOf(w) \in Jobs /\ Exists(JobOf(w))
        /\ job[JobOf(w)] \in Row /\ JobRow(w) \in Row
        /\ job'[JobOf(w)] = Flush(job[JobOf(w)], JobRow(w), new)
        /\ job'[JobOf(w)] # None
        /\ \A k \in Jobs : k # JobOf(w) => job'[k] = job[k]
    BY CommitOfRow
  <1>2. RunsStay /\ NoneInserted
    BY <1>1, ColumnsOfFlush DEF RunsStay, NoneInserted, Exists
  <1>3. ASSUME new.retries = JobRow(w).retries PROVE RetriesStay
    BY <1>1, <1>3, ColumnsOfFlush DEF RetriesStay
  <1>4. ASSUME new.pr = JobRow(w).pr, new.status # "pr_opened" PROVE PRsStay
    BY <1>1, <1>4, ColumnsOfFlush DEF PRsStay
  <1> QED BY <1>2, <1>3, <1>4

LEMMA TableStaysColumns ==
  ASSUME UNCHANGED job
  PROVE  RunsStay /\ RetriesStay /\ PRsStay /\ NoneInserted
  BY DEF RunsStay, RetriesStay, PRsStay, NoneInserted, Exists

\* A new status that is not pr_opened, written to the row itself.
LEMMA StatusColumns ==
  ASSUME Inv, NEW j \in Jobs, job[j] \in Row, NEW s \in Statuses \ {"pr_opened"},
         job' = [job EXCEPT ![j] = [job[j] EXCEPT !.status = s]]
  PROVE  RunsStay /\ RetriesStay /\ PRsStay /\ NoneInserted
  <1>1. /\ job'[j] = [job[j] EXCEPT !.status = s]
        /\ \A k \in Jobs : k # j => job'[k] = job[k]
    BY DEF Inv, TypeOK
  <1>2. [job[j] EXCEPT !.status = s] \in Row
    BY DEF Row
  <1>3. job[j] # None /\ job'[j] # None
    BY <1>1, <1>2, NoneIsNoRow
  <1>4. /\ job'[j].run = job[j].run /\ job'[j].retries = job[j].retries
        /\ job'[j].pr = job[j].pr /\ job'[j].status = s
    BY <1>1 DEF Row
  <1> QED
    BY <1>1, <1>3, <1>4
    DEF RunsStay, RetriesStay, PRsStay, NoneInserted, Exists

AnyStep(w) == WorkerAdvances(w) \/ Raise(w) \/ WorkerCrashes(w)

\* Of a worker's steps, only BumpRetry counts, and only CommitPR announces a
\* pull request; none changes the run a job is about.
LEMMA WorkerColumns ==
  ASSUME Inv, NEW w \in Workers, AnyStep(w)
  PROVE  /\ RunsStay /\ NoneInserted
         /\ BumpRetry(w) \/ RetriesStay
         /\ CommitPR(w) \/ PRsStay
  <1> DEFINE Goal == /\ RunsStay /\ NoneInserted
                     /\ BumpRetry(w) \/ RetriesStay
                     /\ CommitPR(w) \/ PRsStay
  <1>1. CASE UNCHANGED job
    BY <1>1, TableStaysColumns
  <1>2. CASE StartInitial(w) \/ StartExhausted(w)
    <2>1. worker[w].pc # "idle"
      BY <1>2 DEF StartInitial, StartExhausted, Completes, At
    <2>2. JobOf(w) \in Jobs /\ job[JobOf(w)] \in Row
      BY <2>1, WorkersJob DEF Inv
    <2>3. PICK s \in {"repairing", "failed"} :
            job' = [job EXCEPT ![JobOf(w)] =
                      [job[JobOf(w)] EXCEPT !.status = s]]
      <3>1. CASE StartInitial(w)
        BY <3>1 DEF StartInitial
      <3>2. CASE StartExhausted(w)
        BY <2>2, <3>2 DEF StartExhausted, Inv, TypeOK
      <3> QED BY <1>2, <3>1, <3>2
    <2> QED BY <2>2, <2>3, StatusColumns DEF Statuses
  <1>3. ASSUME NEW ft \in FailureTypes,
               DropOut(w, ft) \/ RejectPatch(w, ft) \/ RecordAttempt(w)
                 \/ Raise(w)
        PROVE  Goal
    <2>1. worker[w].pc # "idle"
      BY <1>3 DEF DropOut, RejectPatch, RecordAttempt, Raise, At, CallPoints,
                  TryPoints
    <2>2. JobRow(w) \in Row /\ worker[w] \in WorkerStates
      BY <2>1, WorkersJob DEF Inv
    <2>3. PICK new \in Row :
            /\ Commits(w, new)
            /\ new.run = JobRow(w).run /\ new.retries = JobRow(w).retries
            /\ new.pr = JobRow(w).pr /\ new.status # "pr_opened"
      <3>1. CASE DropOut(w, ft)
        <4>1. PICK s \in {"undiagnosable", "needs-human-review"} :
                Commits(w, [JobRow(w) EXCEPT !.status = s, !.failure = ft])
          BY <3>1 DEF DropOut
        <4> DEFINE new == [JobRow(w) EXCEPT !.status = s, !.failure = ft]
        <4>2. /\ new \in Row
              /\ new.run = JobRow(w).run /\ new.retries = JobRow(w).retries
              /\ new.pr = JobRow(w).pr /\ new.status # "pr_opened"
          BY <2>2 DEF Row, Statuses
        <4> QED BY <4>1, <4>2
      <3>2. CASE RejectPatch(w, ft)
        <4> DEFINE new == [JobRow(w) EXCEPT !.status = "needs-human-review",
                                            !.failure = ft]
        <4>1. /\ new \in Row
              /\ new.run = JobRow(w).run /\ new.retries = JobRow(w).retries
              /\ new.pr = JobRow(w).pr /\ new.status # "pr_opened"
          BY <2>2 DEF Row, Statuses
        <4> QED BY <3>2, <4>1 DEF RejectPatch
      <3>3. CASE RecordAttempt(w)
        <4>1. Dispatched(JobRow(w), worker[w].ft) \in Row
          BY <2>2 DEF Dispatched, Row, Statuses, WorkerStates
        <4> QED BY <2>2, <3>3, <4>1 DEF RecordAttempt, Dispatched, Row
      <3>4. CASE Raise(w)
        BY <2>2, <3>4 DEF Raise, Row, Statuses
      <3> QED BY <1>3, <3>1, <3>2, <3>3, <3>4
    <2> QED BY <2>1, <2>3, CommitColumns
  <1>4. CASE BumpRetry(w)
    BY <1>4, BumpRetryShape DEF RunsStay, PRsStay, NoneInserted, Exists
  <1>5. CASE CommitPR(w)
    <2>1. worker[w].pc # "idle"
      BY <1>5 DEF CommitPR, At
    <2>2. JobRow(w) \in Row /\ CleanType(w) \in FailureTypes
      BY <2>1, WorkersJob, CleanTypeIsType DEF Inv
    <2> DEFINE new == [JobRow(w) EXCEPT !.status = "pr_opened",
                                        !.pr = CleanType(w)]
    <2>3. new \in Row /\ new.run = JobRow(w).run
          /\ new.retries = JobRow(w).retries
      BY <2>2 DEF Row, Statuses
    <2>4. Commits(w, new)
      BY <1>5 DEF CommitPR
    <2> HIDE DEF new
    <2> QED BY <1>5, <2>1, <2>3, <2>4, CommitColumns
  <1>6. \/ UNCHANGED job \/ StartInitial(w) \/ StartExhausted(w)
        \/ (\E ft \in FailureTypes : DropOut(w, ft) \/ RejectPatch(w, ft))
        \/ RecordAttempt(w) \/ Raise(w) \/ BumpRetry(w) \/ CommitPR(w)
    BY DEF AnyStep, WorkerAdvances, TakeTask, StartGreen, StartRed, StampRed,
           ReadRetries, PushPatch, FetchInternal, PushClean, OpenPR, Escalate,
           WorkerCrashes, dbVars
  <1> QED BY <1>1, <1>2, <1>3, <1>4, <1>5, <1>6, UnknownAssumption

-----------------------------------------------------------------------------
(* What a step does to the workers *)

\* The steps in the middle of a task.
GoesOn(w) ==
  \/ StartInitial(w) \/ StartGreen(w) \/ StartExhausted(w) \/ StartRed(w)
  \/ StampRed(w) \/ ReadRetries(w) \/ BumpRetry(w)
  \/ FetchInternal(w) \/ PushClean(w) \/ OpenPR(w)
  \/ \E ft \in FailureTypes : PushPatch(w, ft)

\* Where a step in the middle of a task leads to.
LeadsTo(w, pc) ==
  /\ pc \notin {"idle", "start"}
  /\ pc = "graph" => StartInitial(w) \/ BumpRetry(w)
  /\ pc = "red" => StartRed(w)
  /\ pc = "bump" => StampRed(w)
  /\ pc = "count" => ReadRetries(w)
  /\ pc = "green" => StartGreen(w)
  /\ pc = "opened" => OpenPR(w)
  /\ pc = "escalate" => StartExhausted(w)

LEMMA GoesOnShape ==
  ASSUME Inv, NEW w \in Workers, GoesOn(w)
  PROVE  /\ worker[w].pc # "idle"
         /\ worker' = [worker EXCEPT ![w] = worker'[w]]
         /\ worker'[w].task = worker[w].task
         /\ LeadsTo(w, worker'[w].pc)
         /\ UNCHANGED <<queue, router, client>>
  <1>1. worker \in [Workers -> WorkerStates] /\ worker[w] \in WorkerStates
    BY DEF Inv, TypeOK
  <1>2. CASE StartInitial(w)
    BY <1>1, <1>2 DEF StartInitial, At, redisVars, apiVars, WorkerStates,
                      LeadsTo
  <1>3. CASE StartGreen(w)
    BY <1>1, <1>3 DEF StartGreen, Completes, At, redisVars, apiVars,
                      WorkerStates, LeadsTo
  <1>4. CASE StartExhausted(w)
    BY <1>1, <1>4 DEF StartExhausted, Goto, Completes, At, redisVars, apiVars,
                      WorkerStates, LeadsTo
  <1>5. CASE StartRed(w)
    BY <1>1, <1>5 DEF StartRed, Completes, At, redisVars, apiVars,
                      WorkerStates, LeadsTo
  <1>6. CASE StampRed(w)
    <2>1. /\ worker[w].pc # "idle"
          /\ worker' = [worker EXCEPT ![w] = worker'[w]]
          /\ worker'[w].task = worker[w].task
          /\ worker'[w].pc = "bump"
      <3>1. CASE Goto(w, "bump")
        BY <1>1, <1>6, <3>1 DEF StampRed, Goto, At, WorkerStates
      <3>2. CASE \E p : worker' = [worker EXCEPT ![w].pc = "bump",
                               ![w].loaded = None, ![w].prev = p]
        <4>1. PICK p : worker' = [worker EXCEPT ![w].pc = "bump",
                               ![w].loaded = None, ![w].prev = p]
          BY <3>2
        <4>2. worker[w].pc = "red"
          BY <1>6 DEF StampRed, At
        <4> QED BY <1>1, <4>1, <4>2 DEF WorkerStates
      <3> QED BY <1>6, <3>1, <3>2 DEF StampRed
    <2>2. UNCHANGED <<queue, router, client>>
      BY <1>6 DEF StampRed, redisVars, apiVars
    <2> QED BY <1>6, <2>1, <2>2 DEF LeadsTo
  <1>7. CASE BumpRetry(w)
    BY <1>7, BumpRetryShape DEF redisVars, apiVars, LeadsTo
  <1>11. CASE ReadRetries(w)
    BY <1>11, ReadRetriesShape DEF redisVars, apiVars, LeadsTo
  <1>8. CASE FetchInternal(w)
    BY <1>1, <1>8 DEF FetchInternal, At, redisVars, apiVars,
                      WorkerStates, LeadsTo
  <1>9. CASE PushClean(w) \/ OpenPR(w)
    BY <1>1, <1>9 DEF PushClean, OpenPR, Goto, At, redisVars, apiVars,
                      WorkerStates, LeadsTo
  <1>10. ASSUME NEW ft \in FailureTypes, PushPatch(w, ft)
         PROVE  /\ worker[w].pc # "idle"
                /\ worker' = [worker EXCEPT ![w] = worker'[w]]
                /\ worker'[w].task = worker[w].task
                /\ LeadsTo(w, worker'[w].pc)
                /\ UNCHANGED <<queue, router, client>>
    BY <1>1, <1>10 DEF PushPatch, At, redisVars, apiVars, WorkerStates,
                       LeadsTo
  <1> QED BY <1>2, <1>3, <1>4, <1>5, <1>6, <1>7, <1>8, <1>9, <1>10, <1>11
          DEF GoesOn

\* A worker takes a task, goes on with it, or is done with it.
LEMMA StepShape ==
  ASSUME Inv, NEW w \in Workers, AnyStep(w)
  PROVE  /\ UNCHANGED <<router, client>>
         /\ worker' = [worker EXCEPT ![w] = worker'[w]]
         /\ \A v \in Workers : v # w => worker'[v] = worker[v]
         /\ \/ TakeTask(w)
            \/ GoesOn(w)
            \/ Done(w) /\ worker[w].pc # "idle" /\ UNCHANGED queue
  <1>1. CASE TakeTask(w)
    BY <1>1 DEF TakeTask, apiVars, Inv, TypeOK
  <1>2. CASE GoesOn(w)
    BY <1>2, GoesOnShape DEF Inv, TypeOK
  <1>3. CASE ~GoesOn(w) /\ ~TakeTask(w)
    <2>1. Done(w) /\ worker[w].pc # "idle" /\ UNCHANGED <<queue, router, client>>
      BY <1>3 DEF AnyStep, WorkerAdvances, GoesOn, DropOut, RecordAttempt,
           RejectPatch, CommitPR, Escalate, Raise, WorkerCrashes, At,
           CallPoints, TryPoints, redisVars, apiVars
    <2> QED BY <2>1, DoneMoves DEF Inv, TypeOK
  <1> QED BY <1>1, <1>2, <1>3
-----------------------------------------------------------------------------
(* What the other processes do *)

\* No other step moves a worker; what they do to the table and the queue.
LEMMA OtherSteps ==
  ASSUME Inv, GitHubStep \/ RouterStep \/ ApiStep
  PROVE  /\ UNCHANGED <<worker, attempts, patches, tip, clean, prs, escalated>>
         /\ \/ UNCHANGED job
            \/ \E h \in Handlers : InsertJob(h)
            \/ \E c \in Clients : RetryCommits(c)
  <1>1. CASE GitHubStep
    BY <1>1 DEF GitHubStep, DevRunFails, RunEnds, Redeliver, LoseHook, dbVars,
                repoVars
  <1>2. CASE RouterStep
    BY <1>2 DEF RouterStep, ReceiveFailure, SelectExisting, InsertJob,
                EnqueueInitial, IntakeRaises, HandlerCrashes,
                DeliverCompletion, ReceiveCompletion, LockExpires, dbVars,
                repoVars
  <1>3. CASE ApiStep
    BY <1>3 DEF ApiStep, RetryReads, RetryCommits, RetryEnqueues, RetryFails,
                dbVars, repoVars
  <1> QED BY <1>1, <1>2, <1>3

\* A retry requeues the row it has read.
LEMMA RetryRow ==
  ASSUME Inv, NEW c \in Clients, RetryCommits(c)
  PROVE  LET j == client[c].job
             loaded == client[c].loaded IN
         /\ j \in Jobs /\ Exists(j) /\ job[j] \in Row
         /\ job'[j] \in Row
         /\ job'[j].run = job[j].run
         /\ job'[j].pr = job[j].pr
         /\ job'[j].retries = IF loaded.retries = 0 THEN job[j].retries ELSE 0
         /\ job'[j].status = "queued" \/ job'[j].status = job[j].status
         /\ \A k \in Jobs : k # j => job'[k] = job[k]
  <1> DEFINE j == client[c].job
             loaded == client[c].loaded
             row == Flush(job[j], loaded, Requeued(loaded))
  <1>1. /\ client[c].pc = "read" /\ job' = [job EXCEPT ![j] = row]
    BY DEF RetryCommits
  <1>2. j \in Jobs /\ Exists(j) /\ job[j] \in Row /\ loaded \in Row
    BY <1>1 DEF Inv, TypeOK, NothingDangles, ClientsHaveJobs, Exists
  <1>3. /\ Requeued(loaded) \in Row
        /\ Requeued(loaded).run = loaded.run
        /\ Requeued(loaded).pr = loaded.pr
        /\ Requeued(loaded).retries = 0
        /\ Requeued(loaded).status = "queued"
    BY <1>2 DEF Requeued, Row, Statuses
  <1>4. row \in Row
    BY <1>2, <1>3, FlushIsRow
  <1>5. /\ row.run = job[j].run
        /\ row.pr = job[j].pr
        /\ row.retries = IF loaded.retries = 0 THEN job[j].retries ELSE 0
        /\ row.status = "queued" \/ row.status = job[j].status
    BY <1>3 DEF Flush
  <1>6. job'[j] = row /\ \A k \in Jobs : k # j => job'[k] = job[k]
    BY <1>1, <1>2 DEF Inv, TypeOK
  <1> QED BY <1>2, <1>4, <1>5, <1>6

\* The insert of a row: nothing was about its job.
LEMMA InsertedRow ==
  ASSUME Inv, NEW h \in Handlers, InsertJob(h)
  PROVE  \/ UNCHANGED job /\ HandlerEnds(h)
         \/ /\ RunIsNew(router[h].run)
            /\ router[h].run \in DevRuns
            /\ \E j \in Jobs :
                 /\ job[j] = None
                 /\ job'[j] = NewRow(router[h].run)
                 /\ job'[j] \in Row
                 /\ \A k \in Jobs : k # j => job'[k] = job[k]
                 /\ router' = [router EXCEPT ![h].pc = "enqueue", ![h].job = j]
  <1>1. router[h].run \in DevRuns
    BY DEF InsertJob, HandlerAt, Inv, NothingDangles, HandlersHaveJobs
  <1>2. NewRow(router[h].run) \in Row
    BY <1>1, NewRowIsRow
  <1> QED BY <1>1, <1>2 DEF InsertJob, Inv, TypeOK

-----------------------------------------------------------------------------
(* What a step does to the queue *)

\* The queue is shifted by one, and its head is what the worker gets.
LEMMA TakenTask ==
  ASSUME Inv, NEW w \in Workers, TakeTask(w)
  PROVE  /\ worker[w].pc = "idle"
         /\ worker'[w] = [worker[w] EXCEPT !.pc = "start", !.task = queue[1]]
         /\ worker'[w].pc = "start" /\ worker'[w].task = queue[1]
         /\ 1 \in DOMAIN queue /\ queue[1] \in Tasks
         /\ DOMAIN queue' \subseteq Nat
         /\ \A i \in DOMAIN queue' : /\ i + 1 \in DOMAIN queue
                                     /\ i + 1 # 1
                                     /\ queue'[i] = queue[i + 1]
         /\ \A i \in DOMAIN queue : i # 1 =>
              i - 1 \in DOMAIN queue' /\ queue'[i - 1] = queue[i]
  <1>1. queue \in Seq(Tasks) /\ queue # <<>> /\ queue' = Tail(queue)
    BY DEF TakeTask, Inv, TypeOK
  <1>2. Head(queue) = queue[1] /\ 1 \in DOMAIN queue /\ queue[1] \in Tasks
    BY <1>1
  <1>3. worker \in [Workers -> WorkerStates]
    BY DEF Inv, TypeOK
  <1>4. /\ worker[w].pc = "idle"
        /\ worker'[w] = [worker[w] EXCEPT !.pc = "start", !.task = queue[1]]
        /\ worker'[w].pc = "start" /\ worker'[w].task = queue[1]
    BY <1>2, <1>3 DEF TakeTask, At, WorkerStates
  <1> QED BY <1>1, <1>2, <1>4

\* A task is appended, and the others stay where they are.
LEMMA AppendedTask ==
  ASSUME Inv, NEW t \in Tasks, queue' = Append(queue, t)
  PROVE  /\ DOMAIN queue \subseteq DOMAIN queue'
         /\ \A i \in DOMAIN queue : queue'[i] = queue[i]
         /\ Len(queue) + 1 \in DOMAIN queue' /\ queue'[Len(queue) + 1] = t
         /\ Len(queue) + 1 \notin DOMAIN queue
         /\ \A i \in DOMAIN queue' :
              i \in DOMAIN queue \/ i = Len(queue) + 1
  BY DEF Inv, TypeOK

\* Only the router and the API enqueue.
LEMMA EnqueueSteps ==
  ASSUME Inv, GitHubStep \/ RouterStep \/ ApiStep
  PROVE  \/ UNCHANGED queue
         \/ \E h \in Handlers : EnqueueInitial(h) /\ router[h].job \in Jobs
         \/ \E c \in Clients : RetryEnqueues(c) /\ client[c].job \in Jobs
         \/ \E r \in hooks \intersect Ended :
              /\ r \in RunIds /\ ReceiveCompletion(r) /\ LockIsFree(r)
              /\ CompletionTask(r.job, r, Conclusion(r)) \in Tasks
              /\ queue' = Append(queue, CompletionTask(r.job, r, Conclusion(r)))
              /\ locks' = locks \union {r}
  <1>1. CASE GitHubStep
    BY <1>1 DEF GitHubStep, DevRunFails, RunEnds, Redeliver, LoseHook,
                redisVars
  <1>2. CASE ApiStep
    BY <1>2 DEF ApiStep, RetryReads, RetryCommits, RetryEnqueues, RetryFails,
                redisVars, Inv, NothingDangles, ClientsHaveJobs
  <1>3. CASE DeliverCompletion
    <2>1. PICK r \in hooks \intersect Ended : ReceiveCompletion(r)
      BY <1>3 DEF DeliverCompletion
    <2>2. r \in RunIds
      BY DEF Ended, Inv, TypeOK
    <2>3. CompletionTask(r.job, r, Conclusion(r)) \in Tasks
      BY <2>2, CompletionTaskIsTask DEF RunIds, Conclusion, Conclusions
    <2> QED BY <2>1, <2>2, <2>3 DEF ReceiveCompletion, redisVars
  <1>4. CASE RouterStep /\ ~DeliverCompletion
    BY <1>4 DEF RouterStep, ReceiveFailure, SelectExisting, InsertJob,
                EnqueueInitial, IntakeRaises, HandlerCrashes, LockExpires,
                HandlerAt, redisVars, Inv, NothingDangles, HandlersHaveJobs
  <1> QED BY <1>1, <1>2, <1>3, <1>4

-----------------------------------------------------------------------------
(* Who is about to enqueue a repair *)

\* A handler about to enqueue the first repair of j, and a client about to
\* enqueue its repair by request.
Asks(h, j) == router[h].pc = "enqueue" /\ router[h].job = j
Requests(c, j) == client[c].pc = "enqueue" /\ client[c].job = j

LEMMA AsksStay ==
  ASSUME Inv, GitHubStep \/ RouterStep \/ ApiStep,
         ~(\E h \in Handlers : InsertJob(h)), NEW j
  PROVE  \A h \in Handlers : Asks(h, j)' => Asks(h, j)
  <1> DEFINE Stay == \A h \in Handlers : Asks(h, j)' => Asks(h, j)
  <1>1. router \in [Handlers -> HandlerStates]
    BY DEF Inv, TypeOK
  <1>2. CASE UNCHANGED router
    BY <1>2 DEF Asks
  <1>3. ASSUME NEW h \in Handlers, HandlerEnds(h) PROVE Stay
    BY <1>1, <1>3 DEF Asks, HandlerEnds, IdleHandler
  <1>4. ASSUME NEW h \in Handlers, router' = [router EXCEPT ![h].pc = "insert"]
        PROVE  Stay
    BY <1>1, <1>4 DEF Asks, HandlerStates
  <1>5. ASSUME NEW h \in Handlers, NEW d, ReceiveFailure(h, d) PROVE Stay
    <2>1. CASE UNCHANGED router
      BY <1>2, <2>1
    <2>2. CASE ~UNCHANGED router
      <3>1. router' = [router EXCEPT ![h] =
                         [pc |-> "select", run |-> d, job |-> None]]
        BY <1>5, <2>2 DEF ReceiveFailure
      <3> QED BY <1>1, <3>1 DEF Asks
    <2> QED BY <2>1, <2>2
  <1>6. CASE RouterStep
    BY <1>2, <1>3, <1>4, <1>5, <1>6
    DEF RouterStep, SelectExisting, EnqueueInitial, IntakeRaises,
        HandlerCrashes, DeliverCompletion, ReceiveCompletion, LockExpires
  <1>7. CASE GitHubStep
    BY <1>2, <1>7 DEF GitHubStep, DevRunFails, RunEnds, Redeliver, LoseHook
  <1>8. CASE ApiStep
    BY <1>2, <1>8
    DEF ApiStep, RetryReads, RetryCommits, RetryEnqueues, RetryFails
  <1> QED BY <1>6, <1>7, <1>8

LEMMA RequestsStay ==
  ASSUME Inv, GitHubStep \/ RouterStep \/ ApiStep,
         ~(\E c \in Clients : RetryCommits(c)), NEW j
  PROVE  \A c \in Clients : Requests(c, j)' => Requests(c, j)
  <1>1. client \in [Clients -> ClientStates]
    BY DEF Inv, TypeOK
  <1>2. CASE UNCHANGED client
    BY <1>2 DEF Requests
  <1>3. CASE GitHubStep
    BY <1>2, <1>3 DEF GitHubStep, DevRunFails, RunEnds, Redeliver, LoseHook,
                      apiVars
  <1>4. CASE RouterStep
    BY <1>2, <1>4
    DEF RouterStep, ReceiveFailure, SelectExisting, InsertJob, EnqueueInitial,
        IntakeRaises, HandlerCrashes, DeliverCompletion, ReceiveCompletion,
        LockExpires, apiVars
  <1>5. ASSUME NEW c \in Clients, ClientEnds(c)
        PROVE  \A b \in Clients : Requests(b, j)' => Requests(b, j)
    BY <1>1, <1>5 DEF ClientEnds, IdleClient, Requests
  <1>6. ASSUME NEW c \in Clients, NEW i, RetryReads(c, i)
        PROVE  \A b \in Clients : Requests(b, j)' => Requests(b, j)
    BY <1>1, <1>6 DEF RetryReads, Requests
  <1> QED BY <1>3, <1>4, <1>5, <1>6 DEF ApiStep, RetryEnqueues, RetryFails
-----------------------------------------------------------------------------
(* A run ends once *)

\* The inductive invariant, relative to Inv: a run is of a patch that was
\* written, has ended or has not, and what is delivered has happened.
RunsInv ==
  /\ \A r \in running \union Ended : r.patch <= patches[r.job]
  /\ running \intersect Ended = {}
  /\ hooks \subseteq devFailed \union Ended

\* Steps that neither start a run nor end one nor deliver anything new.
LEMMA RunsUntouched ==
  ASSUME Inv, RunsInv, UNCHANGED <<running, green, red, devFailed>>,
         hooks' \subseteq hooks \union devFailed \union Ended,
         \A j \in Jobs : patches'[j] \in Nat /\ patches[j] <= patches'[j]
  PROVE  RunsInv'
  <1>1. \A r \in running \union Ended : r \in RunIds
    BY DEF Inv, TypeOK, Ended
  <1>2. \A r \in running \union Ended : r.patch <= patches'[r.job]
    <2>1. ASSUME NEW r \in running \union Ended
          PROVE  r.patch <= patches'[r.job]
      <3>1. r.job \in Jobs /\ r.patch \in Nat /\ r.patch <= patches[r.job]
        BY <1>1 DEF RunIds, RunsInv
      <3>2. patches[r.job] \in Nat
        BY <3>1 DEF Inv, TypeOK
      <3> QED BY <3>1, <3>2
    <2> QED BY <2>1
  <1> QED BY <1>2 DEF RunsInv, Ended

LEMMA PushPatchRuns ==
  ASSUME Inv, RunsInv, NEW w \in Workers, NEW ft, PushPatch(w, ft)
  PROVE  RunsInv'
  <1> PICK j, p : j = JobOf(w) /\ p = patches[j] + 1
    OBVIOUS
  <1> DEFINE new == {[job |-> j, patch |-> p, wf |-> f] : f \in Workflows}
  <1>1. worker[w].pc # "idle"
    BY DEF PushPatch, At
  <1>2. j \in Jobs /\ patches[j] \in Nat /\ patches \in [Jobs -> Nat]
    BY <1>1, WorkersJob DEF Inv, TypeOK
  <1>3. /\ patches' = [patches EXCEPT ![j] = p]
        /\ running' = running \union new
        /\ UNCHANGED <<green, red, devFailed, hooks>>
    BY DEF PushPatch
  <1>4. \A r \in running \union Ended :
          /\ r.job \in Jobs /\ r.patch \in Nat
          /\ r.patch <= patches[r.job] /\ patches[r.job] \in Nat
    BY <1>2 DEF Inv, TypeOK, Ended, RunIds, RunsInv
  <1>5. \A r \in running \union Ended : r.patch <= patches'[r.job]
    BY <1>2, <1>3, <1>4
  <1>6. \A r \in new : r.patch = p /\ r.job = j /\ r.patch <= patches'[r.job]
    BY <1>2, <1>3
  <1>7. \A r \in new : r \notin Ended
    BY <1>2, <1>4, <1>6
  <1> QED BY <1>3, <1>5, <1>6, <1>7 DEF RunsInv, Ended

LEMMA NextRuns ==
  ASSUME Inv, RunsInv, [Next]_vars
  PROVE  RunsInv'
  <1>1. \A j \in Jobs : patches[j] \in Nat /\ patches[j] <= patches[j]
    BY DEF Inv, TypeOK
  <1>2. CASE GitHubStep
    <2>1. UNCHANGED patches
      BY <1>2, OtherSteps
    <2>2. CASE \E r \in running : RunEnds(r)
      BY <2>1, <2>2 DEF RunEnds, RunsInv, Ended
    <2>3. CASE \E d \in DevRuns : DevRunFails(d)
      BY <2>1, <2>3 DEF DevRunFails, RunsInv, Ended
    <2>4. CASE \E e : Redeliver(e) \/ LoseHook(e)
      <3>1. /\ UNCHANGED <<running, green, red, devFailed>>
            /\ hooks' \subseteq hooks \union devFailed \union Ended
        BY <2>4 DEF Redeliver, LoseHook, Ended
      <3> QED BY <1>1, <2>1, <3>1, RunsUntouched
    <2> QED BY <1>2, <2>2, <2>3, <2>4 DEF GitHubStep
  <1>3. CASE RouterStep \/ ApiStep
    <2>1. UNCHANGED patches
      BY <1>3, OtherSteps
    <2>2. /\ UNCHANGED <<running, green, red, devFailed>>
          /\ hooks' \subseteq hooks
      BY <1>3 DEF RouterStep, ReceiveFailure, SelectExisting, InsertJob,
             EnqueueInitial, IntakeRaises, HandlerCrashes, DeliverCompletion,
             ReceiveCompletion, LockExpires, ApiStep, RetryReads,
             RetryCommits, RetryEnqueues, RetryFails, ciVars
    <2> QED BY <1>1, <2>1, <2>2, RunsUntouched
  <1>4. ASSUME NEW w \in Workers, AnyStep(w) PROVE RunsInv'
    <2>1. CASE \E ft \in FailureTypes : PushPatch(w, ft)
      BY <2>1, PushPatchRuns
    <2>2. CASE \E ft \in FailureTypes : RejectPatch(w, ft)
      <3>1. UNCHANGED <<running, green, red, devFailed, hooks>>
        BY <2>2 DEF RejectPatch, ciVars
      <3>2. \A j \in Jobs : patches'[j] \in Nat /\ patches[j] <= patches'[j]
        <4>1. patches' = [patches EXCEPT ![JobOf(w)] = patches[JobOf(w)] + 1]
              /\ patches \in [Jobs -> Nat]
          BY <2>2 DEF RejectPatch, Inv, TypeOK
        <4> QED BY <4>1
      <3> QED BY <3>1, <3>2, RunsUntouched
    <2>3. CASE ~(\E ft \in FailureTypes : PushPatch(w, ft) \/ RejectPatch(w, ft))
      <3>1. UNCHANGED <<running, green, red, devFailed, hooks, patches>>
        BY <1>4, <2>3
        DEF AnyStep, WorkerAdvances, TakeTask, StartInitial, StartGreen,
            StartExhausted, StartRed, StampRed, ReadRetries, BumpRetry, DropOut,
            RecordAttempt, FetchInternal, PushClean, OpenPR, CommitPR,
            Escalate, Raise, WorkerCrashes, repoVars, ciVars
      <3> QED BY <1>1, <3>1, RunsUntouched
    <2> QED BY <2>1, <2>2, <2>3
  <1>5. CASE UNCHANGED vars
    BY <1>5 DEF vars, ciVars, repoVars, RunsInv, Ended
  <1> QED BY <1>2, <1>3, <1>4, <1>5 DEF Next, WorkerStep, AnyStep

LEMMA InitRuns ==
  ASSUME Init
  PROVE  RunsInv
  BY DEF Init, RunsInv, Ended

\* RunsInv holds in every reachable state, as every action keeps it.
THEOREM RunsInvHolds == Spec => []RunsInv
  <1>1. Init => RunsInv
    BY InitRuns
  <1>2. Inv /\ RunsInv /\ [Next]_vars => RunsInv'
    BY NextRuns
  <1> QED BY <1>1, <1>2, InvHolds, PTL DEF Spec
-----------------------------------------------------------------------------
(* The attempts                                                            *)
(*                                                                         *)
(* A job whose internal branch HealX tracks has that branch and a row for  *)
(* the attempt on it, whatever stale sessions write, requests for a retry  *)
(* overlap with, or faults leave unfinished: a completion that is enqueued,*)
(* waits or is handled always finds the attempt it is about.               *)


\* The internal branch of j is on GitHub, and an attempt of j is recorded.
OnBranch(j) == tip[j] # 0 /\ attempts[j] # <<>>

TrackedHaveBranch == \A j \in Jobs : Exists(j) /\ job[j].tracked => OnBranch(j)

QueuedHaveBranch ==
  \A i \in DOMAIN queue : queue[i].fn = "completion" => OnBranch(queue[i].job)

\* The steps that only a completion leads to.
AfterCI == {"red", "bump", "count", "green", "fetched"}

WorkerHasBranch(w) ==
  /\ worker[w].pc # "idle" /\ worker[w].task.fn = "completion" =>
       OnBranch(JobOf(w))
  /\ worker[w].pc \in AfterCI => worker[w].task.fn = "completion"
  /\ worker[w].pc = "pushed" => tip[JobOf(w)] # 0
  /\ worker[w].pc = "fetched" => worker[w].patch # 0

\* The inductive invariant, relative to Inv.
AttemptInv ==
  /\ TrackedHaveBranch
  /\ QueuedHaveBranch
  /\ \A w \in Workers : WorkerHasBranch(w)

\* No step takes a branch away, or the last attempt of a job.
BranchesStay ==
  \A j \in Jobs :
    /\ tip[j] # 0 => tip'[j] # 0
    /\ attempts[j] # <<>> => attempts'[j] # <<>>

-----------------------------------------------------------------------------
(* What a step leaves intact *)

LEMMA UnchangedStay ==
  ASSUME UNCHANGED <<tip, attempts>>
  PROVE  BranchesStay
  BY DEF BranchesStay

LEMMA BystanderHasBranch ==
  ASSUME Inv, NEW v \in Workers, WorkerHasBranch(v), BranchesStay,
         worker'[v] = worker[v]
  PROVE  WorkerHasBranch(v)'
  <1>1. CASE worker[v].pc = "idle"
    BY <1>1 DEF WorkerHasBranch, AfterCI
  <1>2. CASE worker[v].pc # "idle"
    <2>1. JobOf(v) \in Jobs /\ JobOf(v)' = JobOf(v)
      BY <1>2, WorkersJob DEF Inv, JobOf
    <2> QED BY <2>1 DEF WorkerHasBranch, BranchesStay, OnBranch, JobOf
  <1> QED BY <1>1, <1>2

\* A worker moves, and the queue stays.
LEMMA WorkerStepsAttempt ==
  ASSUME Inv, AttemptInv, NEW w \in Workers,
         worker' = [worker EXCEPT ![w] = worker'[w]],
         WorkerHasBranch(w)', TrackedHaveBranch', BranchesStay,
         UNCHANGED queue
  PROVE  AttemptInv'
  <1>1. QueuedHaveBranch'
    <2>1. \A i \in DOMAIN queue : queue[i].job \in Jobs
      BY TaskFields DEF Inv, TypeOK
    <2> QED BY <2>1 DEF AttemptInv, QueuedHaveBranch, BranchesStay, OnBranch
  <1>2. ASSUME NEW v \in Workers PROVE WorkerHasBranch(v)'
    <2>1. CASE v = w
      BY <2>1
    <2>2. CASE v # w
      <3>1. worker'[v] = worker[v] /\ WorkerHasBranch(v)
        BY <2>2 DEF Inv, TypeOK, AttemptInv
      <3> QED BY <3>1, BystanderHasBranch
    <2> QED BY <2>1, <2>2
  <1> QED BY <1>1, <1>2 DEF AttemptInv

\* The table of jobs stays as well.
LEMMA TableStays ==
  ASSUME AttemptInv, BranchesStay, UNCHANGED job
  PROVE  TrackedHaveBranch'
  BY DEF AttemptInv, TrackedHaveBranch, BranchesStay, OnBranch, Exists

\* A commit that does not begin to track the branch of a job without one: the
\* column keeps what is in the row, or gets what the session has changed.
LEMMA CommitTracks ==
  ASSUME Inv, AttemptInv, NEW w \in Workers, worker[w].pc # "idle",
         NEW new \in Row, Commits(w, new), BranchesStay,
         new.tracked =>
           \/ JobRow(w).tracked
           \/ tip'[JobOf(w)] # 0 /\ attempts'[JobOf(w)] # <<>>
  PROVE  TrackedHaveBranch'
  <1>1. JobOf(w) \in Jobs /\ job[JobOf(w)] \in Row /\ JobRow(w) \in Row
    BY WorkersJob DEF Inv
  <1>2. SUFFICES ASSUME NEW j \in Jobs, Exists(j)', job'[j].tracked
                 PROVE  OnBranch(j)'
    BY DEF TrackedHaveBranch
  <1>3. CASE j # JobOf(w)
    <2>1. job'[j] = job[j]
      BY <1>1, <1>3 DEF Commits, Inv, TypeOK
    <2> QED BY <1>2, <2>1 DEF AttemptInv, TrackedHaveBranch, BranchesStay,
                              OnBranch, Exists
  <1>4. CASE j = JobOf(w)
    <2>1. job'[j] = Flush(job[j], JobRow(w), new)
      BY <1>1, <1>4 DEF Commits, Inv, TypeOK
    <2>2. job[j].tracked \/ (new.tracked /\ ~JobRow(w).tracked)
      BY <1>1, <1>2, <1>4, <2>1 DEF Flush, Row
    <2>3. Exists(j)
      BY <1>1, <1>4, NoneIsNoRow DEF Exists
    <2>4. CASE job[j].tracked
      BY <2>3, <2>4 DEF AttemptInv, TrackedHaveBranch, BranchesStay, OnBranch
    <2>5. CASE new.tracked /\ ~JobRow(w).tracked
      BY <1>4, <2>5 DEF OnBranch
    <2> QED BY <2>2, <2>4, <2>5
  <1> QED BY <1>3, <1>4

\* A worker that has ended its task.
LEMMA IdleHasBranch ==
  ASSUME Inv, NEW w \in Workers, Done(w)
  PROVE  WorkerHasBranch(w)'
  BY DoneMoves DEF WorkerHasBranch, AfterCI

-----------------------------------------------------------------------------
(* The steps of a worker *)

\* The task of a completion was enqueued for a job with a branch.
LEMMA TakeTaskAttempt ==
  ASSUME Inv, AttemptInv, NEW w \in Workers, TakeTask(w)
  PROVE  AttemptInv'
  <1>1. /\ queue \in Seq(Tasks) /\ queue # <<>> /\ queue' = Tail(queue)
        /\ UNCHANGED <<job, tip, attempts>>
    BY DEF TakeTask, dbVars, repoVars, Inv, TypeOK
  <1> PICK t : t = Head(queue)
    OBVIOUS
  <1>2. /\ t = queue[1] /\ 1 \in DOMAIN queue
        /\ \A i \in DOMAIN queue' : i + 1 \in DOMAIN queue
                                    /\ queue'[i] = queue[i + 1]
    BY <1>1
  <1>3. t.fn = "completion" => OnBranch(t.job)
    BY <1>2 DEF AttemptInv, QueuedHaveBranch
  <1>4. worker'[w].pc = "start" /\ worker'[w].task = t
    BY DEF TakeTask, Inv, TypeOK, WorkerStates
  <1>5. QueuedHaveBranch'
    BY <1>1, <1>2 DEF AttemptInv, QueuedHaveBranch, OnBranch
  <1>6. BranchesStay
    BY <1>1, UnchangedStay
  <1>7. ASSUME NEW v \in Workers PROVE WorkerHasBranch(v)'
    <2>1. CASE v = w
      BY <1>1, <1>3, <1>4, <2>1 DEF WorkerHasBranch, AfterCI, OnBranch, JobOf
    <2>2. CASE v # w
      <3>1. worker'[v] = worker[v] /\ WorkerHasBranch(v)
        BY <2>2 DEF TakeTask, Inv, TypeOK, AttemptInv
      <3> QED BY <1>6, <3>1, BystanderHasBranch
    <2> QED BY <2>1, <2>2
  <1>8. TrackedHaveBranch'
    BY <1>1, <1>6, TableStays
  <1> QED BY <1>5, <1>7, <1>8 DEF AttemptInv

LEMMA StartInitialAttempt ==
  ASSUME Inv, AttemptInv, NEW w \in Workers, StartInitial(w)
  PROVE  AttemptInv'
  <1> DEFINE j == JobOf(w)
  <1>1. worker[w].pc = "start" /\ UNCHANGED <<queue, tip, attempts>>
    BY DEF StartInitial, At, redisVars, repoVars
  <1>2. worker[w] \in WorkerStates /\ j \in Jobs /\ job[j] \in Row
    BY <1>1, WorkersJob DEF Inv
  <1>3. /\ worker' = [worker EXCEPT ![w] = worker'[w]]
        /\ worker'[w].pc = "graph"
        /\ worker'[w].task = worker[w].task
    <2>1. worker \in [Workers -> WorkerStates]
      BY DEF Inv, TypeOK
    <2> QED BY <1>2, <2>1 DEF StartInitial, WorkerStates
  <1>4. WorkerHasBranch(w)'
    BY <1>1, <1>3 DEF AttemptInv, WorkerHasBranch, AfterCI, OnBranch, JobOf
  <1>5. BranchesStay
    BY <1>1, UnchangedStay
  <1>6. TrackedHaveBranch'
    <2>1. /\ job' = [job EXCEPT ![j] = [job[j] EXCEPT !.status = "repairing"]]
          /\ job \in [Jobs -> Row \union {None}]
      BY DEF StartInitial, Inv, TypeOK
    <2>2. \A k \in Jobs : Exists(k)' /\ job'[k].tracked =>
            Exists(k) /\ job[k].tracked
      BY <1>2, <2>1, NoneIsNoRow DEF Exists, Row
    <2> QED BY <1>1, <2>2 DEF AttemptInv, TrackedHaveBranch, OnBranch
  <1> QED BY <1>1, <1>3, <1>4, <1>5, <1>6, WorkerStepsAttempt

\* A completion is looked at, or its logs are there.
LEMMA StartsAttempt ==
  ASSUME Inv, AttemptInv, NEW w \in Workers,
         StartRed(w) \/ StartGreen(w) \/ StampRed(w)
  PROVE  AttemptInv'
  <1>1. /\ worker[w].pc \in {"start", "red"}
        /\ worker[w].pc = "start" => worker[w].task.fn = "completion"
        /\ UNCHANGED <<queue, job, tip>>
    BY DEF StartRed, StartGreen, StampRed, Completes, At, dbVars, redisVars,
           repoVars
  <1>2. worker[w].task.fn = "completion"
    BY <1>1 DEF AttemptInv, WorkerHasBranch, AfterCI
  <1>3. PICK pc \in {"red", "bump", "green"} :
          /\ worker' = [worker EXCEPT ![w] = worker'[w]]
          /\ worker'[w].pc = pc
          /\ worker'[w].task = worker[w].task
    <2>1. worker \in [Workers -> WorkerStates]
      BY DEF Inv, TypeOK
    <2>2. CASE StartRed(w) \/ StartGreen(w)
      BY <2>1, <2>2 DEF StartRed, StartGreen, WorkerStates
    <2>3. CASE StampRed(w)
      BY <2>1, <2>3 DEF StampRed, Goto, WorkerStates
    <2> QED BY <2>2, <2>3
  <1>4. BranchesStay
    <2>1. attempts \in [Jobs -> Seq(Attempt)]
      BY DEF Inv, TypeOK
    <2>2. CASE UNCHANGED attempts
      BY <1>1, <2>2, UnchangedStay
    <2>3. CASE \E i \in LatestAttempts(attempts[JobOf(w)]), s \in BOOLEAN :
                 attempts' = [attempts EXCEPT ![JobOf(w)] =
                   StampLatest(attempts[JobOf(w)], i, worker[w].task.run, s)]
      <3>1. JobOf(w) \in Jobs
        BY <1>1, WorkersJob DEF Inv
      <3>2. PICK i \in LatestAttempts(attempts[JobOf(w)]), s \in BOOLEAN :
              attempts' = [attempts EXCEPT ![JobOf(w)] =
                StampLatest(attempts[JobOf(w)], i, worker[w].task.run, s)]
        BY <2>3
      <3>3. i \in DOMAIN attempts[JobOf(w)]
        BY <3>2 DEF LatestAttempts
      <3>4. i \in DOMAIN attempts'[JobOf(w)]
        BY <2>1, <3>1, <3>2, <3>3 DEF StampLatest
      <3>5. attempts'[JobOf(w)] # <<>>
        BY <3>4
      <3> QED BY <1>1, <2>1, <3>1, <3>2, <3>5 DEF BranchesStay
    <2> QED BY <2>2, <2>3 DEF StartRed, StartGreen, StampRed, Stamps, dbVars
  <1>5. WorkerHasBranch(w)'
    <2>1. OnBranch(JobOf(w)) /\ JobOf(w) \in Jobs
      BY <1>1, <1>2, WorkersJob DEF AttemptInv, WorkerHasBranch, Inv
    <2>2. OnBranch(JobOf(w))'
      BY <1>3, <1>4, <2>1 DEF OnBranch, BranchesStay, JobOf
    <2> QED BY <1>2, <1>3, <2>2 DEF WorkerHasBranch, AfterCI
  <1> QED BY <1>1, <1>3, <1>4, <1>5, TableStays, WorkerStepsAttempt

\* A job for which there are no retries left.
LEMMA StartExhaustedAttempt ==
  ASSUME Inv, AttemptInv, NEW w \in Workers, StartExhausted(w)
  PROVE  AttemptInv'
  <1>1. /\ worker[w].pc = "start" /\ worker[w].task.fn = "completion"
        /\ UNCHANGED <<queue, tip, attempts>>
    BY DEF StartExhausted, Completes, At, redisVars, repoVars
  <1>2. worker[w] \in WorkerStates /\ JobOf(w) \in Jobs /\ job[JobOf(w)] \in Row
    BY <1>1, WorkersJob DEF Inv
  <1>3. /\ worker' = [worker EXCEPT ![w] = worker'[w]]
        /\ worker'[w].pc = "escalate"
        /\ worker'[w].task = worker[w].task
    <2>1. worker \in [Workers -> WorkerStates]
      BY DEF Inv, TypeOK
    <2> QED BY <1>2, <2>1 DEF StartExhausted, Goto, WorkerStates
  <1>4. WorkerHasBranch(w)'
    BY <1>1, <1>3 DEF AttemptInv, WorkerHasBranch, AfterCI, OnBranch, JobOf
  <1>5. BranchesStay
    BY <1>1, UnchangedStay
  <1>6. TrackedHaveBranch'
    <2>1. /\ job' = [job EXCEPT ![JobOf(w)] =
                       [job[JobOf(w)] EXCEPT !.status = "failed"]]
          /\ job \in [Jobs -> Row \union {None}]
      BY DEF StartExhausted, Inv, TypeOK
    <2>2. \A k \in Jobs : Exists(k)' /\ job'[k].tracked =>
            Exists(k) /\ job[k].tracked
      BY <1>2, <2>1, NoneIsNoRow DEF Exists, Row
    <2> QED BY <1>1, <2>2 DEF AttemptInv, TrackedHaveBranch, OnBranch
  <1> QED BY <1>1, <1>3, <1>4, <1>5, <1>6, WorkerStepsAttempt

LEMMA BumpRetryAttempt ==
  ASSUME Inv, AttemptInv, NEW w \in Workers, BumpRetry(w)
  PROVE  AttemptInv'
  <1>1. /\ worker[w].pc = "count"
        /\ worker' = [worker EXCEPT ![w] = worker'[w]]
        /\ worker'[w].pc = "graph" /\ worker'[w].task = worker[w].task
        /\ UNCHANGED <<queue, tip, attempts>>
    BY BumpRetryShape DEF redisVars, repoVars
  <1>2. WorkerHasBranch(w)'
    BY <1>1 DEF AttemptInv, WorkerHasBranch, AfterCI, OnBranch, JobOf
  <1>3. BranchesStay
    BY <1>1, UnchangedStay
  <1>4. \A k \in Jobs : Exists(k)' /\ job'[k].tracked =>
          Exists(k) /\ job[k].tracked
    BY BumpRetryShape DEF Exists
  <1>5. TrackedHaveBranch'
    BY <1>1, <1>4 DEF AttemptInv, TrackedHaveBranch, OnBranch
  <1> QED BY <1>1, <1>2, <1>3, <1>5, WorkerStepsAttempt

LEMMA ReadRetriesAttempt ==
  ASSUME Inv, AttemptInv, NEW w \in Workers, ReadRetries(w)
  PROVE  AttemptInv'
  <1>1. /\ worker[w].pc = "bump"
        /\ worker' = [worker EXCEPT ![w] = worker'[w]]
        /\ worker'[w].pc = "count" /\ worker'[w].task = worker[w].task
        /\ UNCHANGED <<queue, tip, attempts, job>>
    BY ReadRetriesShape DEF redisVars, repoVars, dbVars
  <1>2. WorkerHasBranch(w)'
    BY <1>1 DEF AttemptInv, WorkerHasBranch, AfterCI, OnBranch, JobOf
  <1>3. BranchesStay
    BY <1>1, UnchangedStay
  <1> QED BY <1>1, <1>2, <1>3, TableStays, WorkerStepsAttempt

\* A step that ends the task, with or without a commit.
LEMMA DoneAttempt ==
  ASSUME Inv, AttemptInv, NEW w \in Workers, Done(w), TrackedHaveBranch',
         BranchesStay, UNCHANGED queue
  PROVE  AttemptInv'
  BY DoneMoves, IdleHasBranch, WorkerStepsAttempt

\* The agents gave up, the pull request is open, or something was raised: the
\* commit leaves the branch as it was.
LEMMA CommitAndDoneAttempt ==
  ASSUME Inv, AttemptInv, NEW w \in Workers, worker[w].pc # "idle",
         NEW new \in Row, new.tracked = JobRow(w).tracked,
         Commits(w, new), Done(w), BranchesStay, UNCHANGED queue
  PROVE  AttemptInv'
  BY CommitTracks, DoneAttempt

LEMMA DropOutAttempt ==
  ASSUME Inv, AttemptInv, NEW w \in Workers, NEW ft \in FailureTypes,
         DropOut(w, ft)
  PROVE  AttemptInv'
  <1>1. /\ worker[w].pc # "idle" /\ Done(w)
        /\ UNCHANGED <<queue, tip, attempts>>
    BY DEF DropOut, At, redisVars, repoVars
  <1>2. PICK status \in {"undiagnosable", "needs-human-review"} :
          Commits(w, [JobRow(w) EXCEPT !.status = status, !.failure = ft])
    BY DEF DropOut
  <1> DEFINE new == [JobRow(w) EXCEPT !.status = status, !.failure = ft]
  <1>3. new \in Row /\ new.tracked = JobRow(w).tracked
    <2>1. JobRow(w) \in Row
      BY <1>1, WorkersJob DEF Inv
    <2> QED BY <2>1 DEF Row, Statuses
  <1> HIDE DEF new
  <1> QED BY <1>1, <1>2, <1>3, UnchangedStay, CommitAndDoneAttempt DEF new

LEMMA RaiseAttempt ==
  ASSUME Inv, AttemptInv, NEW w \in Workers, Raise(w)
  PROVE  AttemptInv'
  <1> DEFINE new == [JobRow(w) EXCEPT !.status = "failed"]
  <1>1. /\ worker[w].pc # "idle" /\ Done(w) /\ Commits(w, new)
        /\ UNCHANGED <<queue, tip, attempts>>
    BY DEF Raise, At, CallPoints, TryPoints, redisVars, repoVars
  <1>2. new \in Row /\ new.tracked = JobRow(w).tracked
    <2>1. JobRow(w) \in Row
      BY <1>1, WorkersJob DEF Inv
    <2> QED BY <2>1 DEF Row, Statuses
  <1> HIDE DEF new
  <1> QED BY <1>1, <1>2, UnchangedStay, CommitAndDoneAttempt

LEMMA CommitPRAttempt ==
  ASSUME Inv, AttemptInv, NEW w \in Workers, CommitPR(w)
  PROVE  AttemptInv'
  <1> DEFINE new == [JobRow(w) EXCEPT !.status = "pr_opened",
                                      !.pr = CleanType(w)]
  <1>1. /\ worker[w].pc # "idle" /\ Done(w) /\ Commits(w, new)
        /\ UNCHANGED <<queue, tip, attempts>>
    BY DEF CommitPR, At, redisVars, repoVars
  <1>2. new \in Row /\ new.tracked = JobRow(w).tracked
    <2>1. JobRow(w) \in Row /\ CleanType(w) \in FailureTypes
      BY <1>1, WorkersJob, CleanTypeIsType DEF Inv
    <2> QED BY <2>1 DEF Row, Statuses
  <1> HIDE DEF new
  <1> QED BY <1>1, <1>2, UnchangedStay, CommitAndDoneAttempt

\* Nothing but the worker's end.
LEMMA EndsAttempt ==
  ASSUME Inv, AttemptInv, NEW w \in Workers, Escalate(w) \/ WorkerCrashes(w)
  PROVE  AttemptInv'
  <1>1. Done(w) /\ UNCHANGED <<queue, job, tip, attempts>>
    BY DEF Escalate, WorkerCrashes, dbVars, redisVars, repoVars
  <1> QED BY <1>1, UnchangedStay, TableStays, DoneAttempt

\* A row is appended to the attempts of one job.
LEMMA AppendStays ==
  ASSUME Inv, NEW j \in Jobs, NEW a,
         attempts' = [attempts EXCEPT ![j] = Append(@, a)], UNCHANGED tip
  PROVE  BranchesStay /\ attempts'[j] # <<>>
  <1>1. attempts \in [Jobs -> Seq(Attempt)]
    BY DEF Inv, TypeOK
  <1>2. Append(attempts[j], a) # <<>>
    BY <1>1
  <1> QED BY <1>1, <1>2 DEF BranchesStay

LEMMA RejectPatchAttempt ==
  ASSUME Inv, AttemptInv, NEW w \in Workers, NEW ft \in FailureTypes,
         RejectPatch(w, ft)
  PROVE  AttemptInv'
  <1> DEFINE new == [JobRow(w) EXCEPT !.status = "needs-human-review",
                                      !.failure = ft]
  <1>1. /\ worker[w].pc # "idle" /\ Done(w) /\ Commits(w, new)
        /\ UNCHANGED <<queue, tip>>
    BY DEF RejectPatch, At, redisVars
  <1>2. JobOf(w) \in Jobs /\ JobRow(w) \in Row
    BY <1>1, WorkersJob DEF Inv
  <1>3. new \in Row /\ new.tracked = JobRow(w).tracked
    BY <1>2 DEF Row, Statuses
  <1>4. BranchesStay
    BY <1>1, <1>2, AppendStays DEF RejectPatch
  <1> HIDE DEF new
  <1> QED BY <1>1, <1>3, <1>4, CommitAndDoneAttempt

\* The push puts the branch on GitHub ...
LEMMA PushPatchAttempt ==
  ASSUME Inv, AttemptInv, NEW w \in Workers, NEW ft \in FailureTypes,
         PushPatch(w, ft)
  PROVE  AttemptInv'
  <1> DEFINE j == JobOf(w)
  <1>1. worker[w].pc = "graph" /\ UNCHANGED <<queue, job, attempts>>
    BY DEF PushPatch, At, dbVars, redisVars
  <1>2. worker[w] \in WorkerStates /\ j \in Jobs
    BY <1>1, WorkersJob DEF Inv
  <1>3. tip' = [tip EXCEPT ![j] = patches[j] + 1] /\ patches[j] + 1 # 0
        /\ tip'[j] # 0
    BY <1>2 DEF PushPatch, Inv, TypeOK
  <1>4. /\ worker' = [worker EXCEPT ![w] = worker'[w]]
        /\ worker'[w].pc = "pushed"
        /\ worker'[w].task = worker[w].task
    <2>1. worker \in [Workers -> WorkerStates]
      BY DEF Inv, TypeOK
    <2> QED BY <1>2, <2>1 DEF PushPatch, WorkerStates
  <1>5. BranchesStay
    BY <1>1, <1>2, <1>3 DEF BranchesStay, Inv, TypeOK
  <1>6. WorkerHasBranch(w)'
    BY <1>1, <1>3, <1>4 DEF AttemptInv, WorkerHasBranch, AfterCI, OnBranch,
                            JobOf
  <1>7. TrackedHaveBranch'
    BY <1>1, <1>5, TableStays
  <1> QED BY <1>1, <1>4, <1>5, <1>6, <1>7, WorkerStepsAttempt

\* ... and the commit tracks it together with the attempt on it.
LEMMA RecordAttemptAttempt ==
  ASSUME Inv, AttemptInv, NEW w \in Workers, RecordAttempt(w)
  PROVE  AttemptInv'
  <1> DEFINE new == Dispatched(JobRow(w), worker[w].ft)
  <1>1. /\ worker[w].pc = "pushed" /\ Done(w) /\ Commits(w, new)
        /\ UNCHANGED <<queue, tip>>
    BY DEF RecordAttempt, At, redisVars, repoVars
  <1>2. worker[w] \in WorkerStates /\ JobOf(w) \in Jobs /\ JobRow(w) \in Row
    BY <1>1, WorkersJob DEF Inv
  <1>3. new \in Row
    BY <1>2 DEF Dispatched, Row, Statuses, WorkerStates
  <1>4. BranchesStay /\ attempts'[JobOf(w)] # <<>>
    BY <1>1, <1>2, AppendStays DEF RecordAttempt
  <1>5. tip'[JobOf(w)] # 0
    BY <1>1 DEF AttemptInv, WorkerHasBranch
  <1> HIDE DEF new
  <1>6. TrackedHaveBranch'
    BY <1>1, <1>3, <1>4, <1>5, CommitTracks
  <1> QED BY <1>1, <1>4, <1>6, DoneAttempt

\* The tree that is fetched is one that was pushed.
LEMMA FetchInternalAttempt ==
  ASSUME Inv, AttemptInv, NEW w \in Workers, FetchInternal(w)
  PROVE  AttemptInv'
  <1>1. worker[w].pc = "green" /\ UNCHANGED <<queue, job, tip, attempts>>
    BY DEF FetchInternal, At, dbVars, redisVars, repoVars
  <1>2. /\ worker[w] \in WorkerStates
        /\ worker[w].task.fn = "completion"
        /\ OnBranch(JobOf(w))
    BY <1>1, WorkersJob DEF Inv, AttemptInv, WorkerHasBranch, AfterCI
  <1>3. /\ worker' = [worker EXCEPT ![w] = worker'[w]]
        /\ worker'[w].pc = "fetched"
        /\ worker'[w].patch = tip[JobOf(w)]
        /\ worker'[w].task = worker[w].task
    <2>1. worker \in [Workers -> WorkerStates]
      BY DEF Inv, TypeOK
    <2> QED BY <1>2, <2>1 DEF FetchInternal, WorkerStates
  <1>4. BranchesStay
    BY <1>1, UnchangedStay
  <1>5. WorkerHasBranch(w)'
    BY <1>1, <1>2, <1>3 DEF WorkerHasBranch, AfterCI, OnBranch, JobOf
  <1>6. TrackedHaveBranch'
    BY <1>1, <1>4, TableStays
  <1> QED BY <1>1, <1>3, <1>4, <1>5, <1>6, WorkerStepsAttempt

\* The clean branch and the pull request.
LEMMA CleanStepsAttempt ==
  ASSUME Inv, AttemptInv, NEW w \in Workers, PushClean(w) \/ OpenPR(w)
  PROVE  AttemptInv'
  <1>1. worker[w].pc # "idle" /\ UNCHANGED <<queue, job, tip, attempts>>
    BY DEF PushClean, OpenPR, At, dbVars, redisVars
  <1>2. /\ worker' = [worker EXCEPT ![w] = worker'[w]]
        /\ worker'[w].pc \in {"cleaned", "opened"}
        /\ worker'[w].task = worker[w].task
    <2>1. worker \in [Workers -> WorkerStates] /\ worker[w] \in WorkerStates
      BY DEF Inv, TypeOK
    <2> QED BY <2>1 DEF PushClean, OpenPR, Goto, WorkerStates
  <1>3. BranchesStay
    BY <1>1, UnchangedStay
  <1>4. WorkerHasBranch(w)'
    BY <1>1, <1>2 DEF AttemptInv, WorkerHasBranch, AfterCI, OnBranch, JobOf
  <1>5. TrackedHaveBranch'
    BY <1>1, <1>3, TableStays
  <1> QED BY <1>1, <1>2, <1>3, <1>4, <1>5, WorkerStepsAttempt

LEMMA WorkerStepAttempt ==
  ASSUME Inv, AttemptInv, WorkerStep
  PROVE  AttemptInv'
  <1> PICK w \in Workers : WorkerAdvances(w) \/ Raise(w) \/ WorkerCrashes(w)
    BY DEF WorkerStep
  <1>1. CASE WorkerAdvances(w)
    BY <1>1, TakeTaskAttempt, StartInitialAttempt, StartsAttempt,
       StartExhaustedAttempt, ReadRetriesAttempt, BumpRetryAttempt,
       DropOutAttempt, PushPatchAttempt, RecordAttemptAttempt,
       RejectPatchAttempt,
       FetchInternalAttempt, CleanStepsAttempt, CommitPRAttempt, EndsAttempt
    DEF WorkerAdvances
  <1>2. CASE Raise(w) \/ WorkerCrashes(w)
    BY <1>2, RaiseAttempt, EndsAttempt
  <1> QED BY <1>1, <1>2

-----------------------------------------------------------------------------
(* The other processes *)

\* The workers stand still, and branches and attempts stay.
LEMMA WorkersStand ==
  ASSUME Inv, AttemptInv, UNCHANGED <<worker, tip, attempts>>
  PROVE  \A w \in Workers : WorkerHasBranch(w)'
  BY DEF AttemptInv, WorkerHasBranch, OnBranch, JobOf

\* A task that has its branch is appended.
LEMMA EnqueuedAttempt ==
  ASSUME Inv, AttemptInv, NEW t \in Tasks,
         t.fn = "completion" => OnBranch(t.job),
         queue' = Append(queue, t), UNCHANGED <<job, worker, tip, attempts>>
  PROVE  AttemptInv'
  <1>1. QueuedHaveBranch'
    <2>1. queue \in Seq(Tasks)
      BY DEF Inv, TypeOK
    <2>2. \A i \in DOMAIN queue' :
            queue'[i] = t \/ (i \in DOMAIN queue /\ queue'[i] = queue[i])
      BY <2>1
    <2> QED BY <2>2 DEF AttemptInv, QueuedHaveBranch, OnBranch
  <1>2. TrackedHaveBranch'
    BY UnchangedStay, TableStays
  <1> QED BY <1>1, <1>2, WorkersStand DEF AttemptInv

\* Nothing of what AttemptInv speaks of changes.
LEMMA AttemptStutter ==
  ASSUME Inv, AttemptInv, UNCHANGED <<job, queue, worker, tip, attempts>>
  PROVE  AttemptInv'
  <1>1. TrackedHaveBranch'
    BY UnchangedStay, TableStays
  <1>2. QueuedHaveBranch'
    BY DEF AttemptInv, QueuedHaveBranch, OnBranch
  <1> QED BY <1>1, <1>2, WorkersStand DEF AttemptInv

\* A row is written that is not tracked unless it was.
LEMMA RowWritten ==
  ASSUME Inv, AttemptInv, NEW j \in Jobs, NEW row \in Row,
         job' = [job EXCEPT ![j] = row],
         row.tracked => Exists(j) /\ job[j].tracked,
         UNCHANGED <<queue, worker, tip, attempts>>
  PROVE  AttemptInv'
  <1>1. TrackedHaveBranch'
    <2>1. \A k \in Jobs : Exists(k)' /\ job'[k].tracked =>
            Exists(k) /\ job[k].tracked
      BY DEF Inv, TypeOK, Exists
    <2> QED BY <2>1 DEF AttemptInv, TrackedHaveBranch, OnBranch
  <1>2. QueuedHaveBranch'
    BY DEF AttemptInv, QueuedHaveBranch, OnBranch
  <1> QED BY <1>1, <1>2, WorkersStand DEF AttemptInv

LEMMA GitHubStepAttempt ==
  ASSUME Inv, AttemptInv, GitHubStep
  PROVE  AttemptInv'
  <1>1. UNCHANGED <<job, queue, worker, tip, attempts>>
    BY DEF GitHubStep, DevRunFails, RunEnds, Redeliver, LoseHook, dbVars,
           redisVars, repoVars
  <1> QED BY <1>1, AttemptStutter

\* The insert of a job whose branch nobody tracks.
LEMMA InsertJobAttempt ==
  ASSUME Inv, AttemptInv, NEW h \in Handlers, InsertJob(h)
  PROVE  AttemptInv'
  <1>1. UNCHANGED <<queue, worker, tip, attempts>>
    BY DEF InsertJob, redisVars, repoVars
  <1>2. CASE \E j \in Jobs : job' = [job EXCEPT ![j] = NewRow(router[h].run)]
    <2>1. PICK j \in Jobs : job' = [job EXCEPT ![j] = NewRow(router[h].run)]
      BY <1>2
    <2>2. router[h].run \in DevRuns
      BY DEF InsertJob, HandlerAt, Inv, NothingDangles, HandlersHaveJobs
    <2>3. NewRow(router[h].run) \in Row /\ ~NewRow(router[h].run).tracked
      BY <2>2, NewRowIsRow DEF NewRow
    <2> QED BY <1>1, <2>1, <2>3, RowWritten
  <1>3. CASE UNCHANGED job
    BY <1>1, <1>3, AttemptStutter
  <1> QED BY <1>2, <1>3 DEF InsertJob

\* A completion is enqueued for a job that tracks the branch.
LEMMA ReceiveCompletionAttempt ==
  ASSUME Inv, AttemptInv, NEW r \in RunIds, ReceiveCompletion(r)
  PROVE  AttemptInv'
  <1>1. UNCHANGED <<job, worker, tip, attempts>>
    BY DEF ReceiveCompletion, dbVars, repoVars
  <1>2. CASE UNCHANGED queue
    BY <1>1, <1>2, AttemptStutter
  <1>3. CASE /\ KnownBranch(r)
             /\ queue' = Append(queue, CompletionTask(r.job, r, Conclusion(r)))
    <2>1. r.job \in Jobs /\ Conclusion(r) \in Conclusions
      BY DEF RunIds, Conclusion, Conclusions
    <2>2. OnBranch(r.job)
      BY <1>3, <2>1 DEF KnownBranch, AttemptInv, TrackedHaveBranch, Exists
    <2> QED BY <1>1, <1>3, <2>1, <2>2, CompletionTaskIsTask, EnqueuedAttempt
  <1> QED BY <1>2, <1>3 DEF ReceiveCompletion, redisVars

LEMMA RouterStepAttempt ==
  ASSUME Inv, AttemptInv, RouterStep
  PROVE  AttemptInv'
  <1>1. ASSUME NEW h \in Handlers, NEW d \in hooks \intersect devFailed,
               ReceiveFailure(h, d)
        PROVE  AttemptInv'
    BY <1>1, AttemptStutter DEF ReceiveFailure, dbVars, repoVars
  <1>2. ASSUME NEW h \in Handlers,
               SelectExisting(h) \/ IntakeRaises(h) \/ HandlerCrashes(h)
        PROVE  AttemptInv'
    <2>1. UNCHANGED <<job, queue, worker, tip, attempts>>
      BY <1>2 DEF SelectExisting, IntakeRaises, HandlerCrashes, dbVars,
                  redisVars, repoVars
    <2> QED BY <2>1, AttemptStutter
  <1>3. ASSUME NEW h \in Handlers, InsertJob(h) PROVE AttemptInv'
    BY <1>3, InsertJobAttempt
  <1>4. ASSUME NEW h \in Handlers, EnqueueInitial(h) PROVE AttemptInv'
    <2>1. router[h].job \in Jobs
      BY <1>4 DEF EnqueueInitial, HandlerAt, Inv, NothingDangles,
                  HandlersHaveJobs
    <2>2. /\ queue' = Append(queue, InitialTask(router[h].job))
          /\ UNCHANGED <<job, worker, tip, attempts>>
      BY <1>4 DEF EnqueueInitial, dbVars, repoVars
    <2> QED BY <2>1, <2>2, InitialTaskIsTask, EnqueuedAttempt
  <1>5. ASSUME DeliverCompletion PROVE AttemptInv'
    BY <1>5, ReceiveCompletionAttempt DEF DeliverCompletion, Ended, Inv, TypeOK
  <1>6. ASSUME NEW r \in locks, LockExpires(r) PROVE AttemptInv'
    BY <1>6, AttemptStutter DEF LockExpires, dbVars, repoVars
  <1> QED BY <1>1, <1>2, <1>3, <1>4, <1>5, <1>6 DEF RouterStep

\* A retry stops the tracking, or leaves it as another commit has set it.
LEMMA RetryCommitsAttempt ==
  ASSUME Inv, AttemptInv, NEW c \in Clients, RetryCommits(c)
  PROVE  AttemptInv'
  <1> DEFINE j == client[c].job
             loaded == client[c].loaded
             row == Flush(job[j], loaded, Requeued(loaded))
  <1>1. /\ client[c].pc = "read" /\ job' = [job EXCEPT ![j] = row]
        /\ UNCHANGED <<queue, worker, tip, attempts>>
    BY DEF RetryCommits, redisVars, repoVars
  <1>2. j \in Jobs /\ Exists(j) /\ job[j] \in Row /\ loaded \in Row
    BY <1>1 DEF Inv, TypeOK, NothingDangles, ClientsHaveJobs, Exists
  <1>3. Requeued(loaded) \in Row /\ ~Requeued(loaded).tracked
    BY <1>2 DEF Requeued, Row, Statuses
  <1>4. row \in Row
    BY <1>2, <1>3, FlushIsRow
  <1>5. row.tracked => job[j].tracked
    BY <1>3 DEF Flush
  <1> HIDE DEF row
  <1> QED BY <1>1, <1>2, <1>4, <1>5, RowWritten

LEMMA ApiStepAttempt ==
  ASSUME Inv, AttemptInv, ApiStep
  PROVE  AttemptInv'
  <1> PICK c \in Clients : \/ \E j \in Jobs : RetryReads(c, j)
                           \/ RetryCommits(c)
                           \/ RetryEnqueues(c)
                           \/ RetryFails(c)
    BY DEF ApiStep
  <1>1. CASE (\E j \in Jobs : RetryReads(c, j)) \/ RetryFails(c)
    <2>1. UNCHANGED <<job, queue, worker, tip, attempts>>
      BY <1>1 DEF RetryReads, RetryFails, dbVars, redisVars, repoVars
    <2> QED BY <2>1, AttemptStutter
  <1>2. CASE RetryCommits(c)
    BY <1>2, RetryCommitsAttempt
  <1>3. CASE RetryEnqueues(c)
    <2>1. client[c].job \in Jobs
      BY <1>3 DEF RetryEnqueues, Inv, NothingDangles, ClientsHaveJobs
    <2>2. /\ queue' = Append(queue, InitialTask(client[c].job))
          /\ UNCHANGED <<job, worker, tip, attempts>>
      BY <1>3 DEF RetryEnqueues, dbVars, repoVars
    <2> QED BY <2>1, <2>2, InitialTaskIsTask, EnqueuedAttempt
  <1> QED BY <1>1, <1>2, <1>3

-----------------------------------------------------------------------------
(* The theorem *)

LEMMA InitAttempt ==
  ASSUME Init
  PROVE  AttemptInv
  BY DEF Init, AttemptInv, TrackedHaveBranch, QueuedHaveBranch,
         WorkerHasBranch, AfterCI, IdleWorker, Exists

LEMMA NextAttempt ==
  ASSUME Inv, AttemptInv, [Next]_vars
  PROVE  AttemptInv'
  <1>1. CASE Next
    BY <1>1, GitHubStepAttempt, RouterStepAttempt, ApiStepAttempt,
       WorkerStepAttempt DEF Next
  <1>2. CASE UNCHANGED vars
    BY <1>2, AttemptStutter DEF vars, dbVars, redisVars, repoVars
  <1> QED BY <1>1, <1>2

LEMMA AttemptInvImplies ==
  ASSUME Inv, AttemptInv
  PROVE  CompletionHasAttempt
  <1>1. \A w \in Workers : worker[w].pc \in {"red", "bump", "count", "green"} =>
          attempts[JobOf(w)] # <<>>
    BY DEF AttemptInv, WorkerHasBranch, AfterCI, OnBranch
  <1> QED BY <1>1 DEF CompletionHasAttempt, AttemptInv, TrackedHaveBranch,
                      QueuedHaveBranch, OnBranch

\* AttemptInv holds in every reachable state, as every action keeps it.
THEOREM AttemptInvHolds == Spec => []AttemptInv
  <1>1. Init => AttemptInv
    BY InitAttempt
  <1>2. Inv /\ AttemptInv /\ [Next]_vars => AttemptInv'
    BY NextAttempt
  <1> QED BY <1>1, <1>2, InvHolds, PTL DEF Spec

\* orchestrator.py:159-169, a completion always finds the attempt it is
\* about, for any number of workers and requests and under every fault.
THEOREM CompletionsFindAttempt == Spec => []CompletionHasAttempt
  <1>1. Inv /\ AttemptInv => CompletionHasAttempt
    BY AttemptInvImplies
  <1> QED BY <1>1, InvHolds, AttemptInvHolds, PTL
=============================================================================
