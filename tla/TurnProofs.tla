----------------------------- MODULE TurnProofs -----------------------------
(***************************************************************************)
(* Proofs about the protocol README.md draws: one workflow, nothing lost   *)
(* and nothing late, but any number of jobs, workers, webhook handlers,    *)
(* redeliveries and calls that fail.  A job is then in one pair of hands   *)
(* at a time, and what these hands hold is what the tables say.            *)
(***************************************************************************)
EXTENDS LoopProofs, Reporting

\* A call may fail, but no process dies, no call runs out of time, nothing is
\* lost, no lock expires; CI has one workflow, one user asks for retries.
Orderly ==
  /\ Faults \subseteq {"error"}
  /\ \E f : Workflows = {f}
  /\ \A b, c \in Clients : b = c

Waiting(j) == Exists(j) /\ job[j].status = "queued"
InRepair(j) == Exists(j) /\ job[j].status \in Underway

\* A completion task whose run is of the patch on the branch, and has ended as
\* the task says.
Answered(t) ==
  /\ t.fn = "completion"
  /\ InRepair(t.job) /\ job[t.job].tracked
  /\ t.run.job = t.job /\ t.run.patch = tip[t.job]
  /\ t.concl = "success" => t.run \in green
  /\ t.concl = "failure" => t.run \in red

TaskInTurn(t) == (t = InitialTask(t.job) /\ Waiting(t.job)) \/ Answered(t)

AfterRedRun == {"red", "bump", "count"}
AfterGreenRun == {"green", "fetched", "cleaned", "opened"}

\* A worker holds the row as it is, or what it has read of its counter, and is
\* about the patch on the branch.
WorkerInTurn(w) ==
  LET s == worker[w]
      j == JobOf(w) IN
  /\ s.pc = "start" => TaskInTurn(s.task)
  /\ s.pc \in {"graph", "pushed"} => InRepair(j)
  /\ s.pc \in AfterRedRun \union AfterGreenRun => Answered(s.task)
  /\ s.pc \in AfterRedRun =>
       s.task.concl = "failure" /\ job[j].retries < MaxRetries
  /\ s.pc \in AfterGreenRun => s.task.concl = "success"
  /\ s.pc \in TryPoints \ {"bump", "count"} => s.loaded = job[j]
  /\ s.pc = "count" => s.loaded.retries = job[j].retries
  /\ s.pc \in {"pushed", "fetched"} => s.patch = tip[j]
  /\ s.pc \in {"cleaned", "opened"} => clean[j][CleanType(w)] = tip[j]
  /\ s.pc = "opened" => HeadBranch(w) \in prs

\* The run that j waits for, and the report of one.
RunInTurn(r) ==
  /\ InRepair(r.job) /\ r.patch = tip[r.job]
  /\ \/ job[r.job].tracked
     \/ \E w \in Workers : worker[w].pc = "pushed" /\ JobOf(w) = r.job

ReportInTurn(r) ==
  InRepair(r.job) /\ job[r.job].tracked /\ r.patch = tip[r.job]

OneHand(j) == \A x, y \in Drivers(j) : x = y

OnePush(j) ==
  \A v, w \in Workers :
    /\ worker[v].pc = "pushed" /\ JobOf(v) = j
    /\ worker[w].pc = "pushed" /\ JobOf(w) = j
    => v = w

\* What is asked for, waits for j in the queue or works on it.
AskedInTurn(j) ==
  /\ \A h \in Handlers : Asks(h, j) => Waiting(j)
  /\ \A c \in Clients : Requests(c, j) => Waiting(j)
  /\ \A i \in DOMAIN queue : queue[i].job = j => TaskInTurn(queue[i])

WorkersInTurn(j) ==
  \A w \in Workers : worker[w].pc # "idle" /\ JobOf(w) = j => WorkerInTurn(w)

RunsInTurn(j) ==
  /\ \A r \in running : Tests(r, j) => RunInTurn(r)
  /\ \A r \in hooks : Reports(r, j) => ReportInTurn(r)

Reads(c, j) == client[c].pc = "read" /\ client[c].job = j

ReadersInTurn(j) ==
  \A c \in Clients : Reads(c, j) =>
    client[c].loaded = job[j] /\ job[j].status \in Retryable

\* A pull request offers what CI has passed, and the job says so or is about
\* to.
Verified(j, ft) ==
  \A f \in Workflows : [job |-> j, patch |-> clean[j][ft], wf |-> f] \in green

PRsInTurn(j) ==
  \A ft \in FailureTypes : <<j, ft>> \in prs =>
    /\ Verified(j, ft)
    /\ \/ Exists(j) /\ job[j].status = "pr_opened"
       \/ \E w \in Workers : worker[w].pc = "opened" /\ JobOf(w) = j

InTurn(j) ==
  /\ OneHand(j) /\ OnePush(j)
  /\ AskedInTurn(j) /\ WorkersInTurn(j) /\ RunsInTurn(j) /\ ReadersInTurn(j)
  /\ Waiting(j) => job[j].retries = 0
  /\ PRsInTurn(j)

\* A run has one conclusion, and is on its way until it is locked.
VerdictsKept ==
  /\ green \intersect red = {}
  /\ \A r \in Ended : r \in hooks \/ r \in locks

\* The inductive invariant, relative to the others.
TurnInv == VerdictsKept /\ \A j \in Jobs : InTurn(j)

TurnFacts == Facts /\ RestartInv /\ TurnInv

-----------------------------------------------------------------------------
(* The hands a job can be in *)

Holds(w, j) == worker[w].pc \notin {"idle", "pushed", "escalate"} /\ JobOf(w) = j

LEMMA DriversAre ==
  ASSUME NEW j
  PROVE  \A x : x \in Drivers(j) <=>
           \/ \E h \in Handlers : x = <<"handler", h>> /\ Asks(h, j)
           \/ \E c \in Clients : x = <<"client", c>> /\ Requests(c, j)
           \/ \E i \in DOMAIN queue : x = <<"task", i>> /\ queue[i].job = j
           \/ \E w \in Workers : x = <<"worker", w>> /\ Holds(w, j)
           \/ \E r \in running : x = <<"run", r>> /\ Tests(r, j)
           \/ \E r \in hooks : x = <<"hook", r>> /\ Reports(r, j)
  BY DEF Drivers, Asks, Requests, Holds, Tests, Reports

\* Whoever has the job is the only one.
LEMMA NothingElse ==
  ASSUME NEW j, OneHand(j), NEW x \in Drivers(j)
  PROVE  /\ \A h \in Handlers : Asks(h, j) => x = <<"handler", h>>
         /\ \A c \in Clients : Requests(c, j) => x = <<"client", c>>
         /\ \A i \in DOMAIN queue : queue[i].job = j => x = <<"task", i>>
         /\ \A w \in Workers : Holds(w, j) => x = <<"worker", w>>
         /\ \A r \in running : Tests(r, j) => x = <<"run", r>>
         /\ \A r \in hooks : Reports(r, j) => x = <<"hook", r>>
  BY DriversAre DEF OneHand

\* A worker that has the job is not disturbed: nobody else has it, waits for a
\* run of it, or is about to record one.
LEMMA WorkerAlone ==
  ASSUME TurnFacts, NEW j \in Jobs, NEW w \in Workers, Holds(w, j)
  PROVE  /\ \A h \in Handlers : ~Asks(h, j)
         /\ \A c \in Clients : ~Requests(c, j)
         /\ \A i \in DOMAIN queue : queue[i].job # j
         /\ \A v \in Workers : Holds(v, j) => v = w
         /\ \A r \in running : ~Tests(r, j)
         /\ \A r \in hooks : ~Reports(r, j)
         /\ \A v \in Workers : worker[v].pc = "pushed" => JobOf(v) # j
  <1>1. <<"worker", w>> \in Drivers(j) /\ OneHand(j)
    BY DriversAre DEF TurnFacts, TurnInv, InTurn
  <1>2. /\ \A h \in Handlers : ~Asks(h, j)
        /\ \A c \in Clients : ~Requests(c, j)
        /\ \A i \in DOMAIN queue : queue[i].job # j
        /\ \A v \in Workers : Holds(v, j) => v = w
        /\ \A r \in running : ~Tests(r, j)
        /\ \A r \in hooks : ~Reports(r, j)
    BY <1>1, NothingElse
  <1>3. ASSUME NEW v \in Workers, worker[v].pc = "pushed", JobOf(v) = j
        PROVE  FALSE
    <2>1. PICK f \in Workflows : TRUE
      BY WorkflowsAssumption
    <2> PICK r : r = [job |-> j, patch |-> worker[v].patch, wf |-> f]
      OBVIOUS
    <2>2. r \in running /\ Tests(r, j)
      BY <1>3, <2>1 DEF TurnFacts, RestartInv, PushedRun, Tests
    <2> QED BY <1>2, <2>2
  <1> QED BY <1>2, <1>3

\* The job that is in somebody's hands is not settled.
LEMMA TaskMoves ==
  ASSUME NEW t, TaskInTurn(t)
  PROVE  Exists(t.job) /\ job[t.job].status \in {"queued"} \union Underway
  BY DEF TaskInTurn, Answered, Waiting, InRepair

LEMMA WorkerMovesIt ==
  ASSUME TurnFacts, NEW j \in Jobs, NEW w \in Workers, Holds(w, j)
  PROVE  /\ WorkerInTurn(w)
         /\ Exists(j) /\ job[j].status \in {"queued"} \union Underway
         /\ \A c \in Clients : ~Reads(c, j)
         /\ worker[w].pc # "opened" =>
              \A ft \in FailureTypes : <<j, ft>> \notin prs
  <1>1. WorkerInTurn(w) /\ ReadersInTurn(j) /\ PRsInTurn(j)
    BY DEF Holds, TurnFacts, TurnInv, InTurn, WorkersInTurn
  <1>2. worker[w].pc \in WorkerPCs /\ worker[w].pc \notin {"idle", "pushed", "escalate"}
    BY DEF Holds, TurnFacts, Facts, Inv, TypeOK, WorkerStates
  <1>3. Exists(j) /\ job[j].status \in {"queued"} \union Underway
    <2>1. CASE worker[w].pc = "start"
      BY <1>1, <2>1, TaskMoves DEF WorkerInTurn, Holds, JobOf
    <2>2. CASE worker[w].pc = "graph"
      BY <1>1, <2>2 DEF WorkerInTurn, Holds, InRepair
    <2>3. CASE worker[w].pc \in AfterRedRun \union AfterGreenRun
      BY <1>1, <2>3 DEF WorkerInTurn, Answered, Holds, JobOf, InRepair
    <2> QED BY <1>2, <2>1, <2>2, <2>3
            DEF WorkerPCs, AfterRedRun, AfterGreenRun
  <1>4. \A c \in Clients : ~Reads(c, j)
    BY <1>1, <1>3 DEF ReadersInTurn, Retryable, Underway
  <1>5. ASSUME worker[w].pc # "opened", NEW ft \in FailureTypes, <<j, ft>> \in prs
        PROVE  FALSE
    <2>1. PICK v \in Workers : worker[v].pc = "opened" /\ JobOf(v) = j
      BY <1>1, <1>3, <1>5 DEF PRsInTurn, Underway
    <2>2. Holds(v, j)
      BY <2>1 DEF Holds
    <2> QED BY <1>5, <2>1, <2>2, WorkerAlone
  <1> QED BY <1>1, <1>3, <1>4, <1>5

-----------------------------------------------------------------------------
(* A step that does not concern a job *)

\* Neither before nor after the step a worker that is about k changes.
Engaged(w, k) == worker[w].pc \notin {"idle", "escalate"} /\ JobOf(w) = k

\* Nothing new is about k, but that a user may read it; its row, its branches
\* and its verdicts stay.
Untouched(k) ==
  /\ job'[k] = job[k] /\ tip'[k] = tip[k] /\ clean'[k] = clean[k]
  /\ green \subseteq green' /\ red \subseteq red'
  /\ \A ft \in FailureTypes : <<k, ft>> \in prs' <=> <<k, ft>> \in prs
  /\ \A h \in Handlers : Asks(h, k)' => Asks(h, k)
  /\ \A c \in Clients : Requests(c, k)' => Requests(c, k)
  /\ \A c \in Clients : Reads(c, k)' =>
       \/ Reads(c, k) /\ client'[c].loaded = client[c].loaded
       \/ client'[c].loaded = job[k] /\ job[k].status \in Retryable
  /\ \A w \in Workers : Engaged(w, k) \/ Engaged(w, k)' => worker'[w] = worker[w]
  /\ \A r \in running' : Tests(r, k)' => r \in running
  /\ \A r \in hooks' : Reports(r, k)' => r \in hooks /\ Reports(r, k)

\* The tasks about k stay, or move up by one.
TasksKept(k) ==
  \E s \in {0, 1} :
    \A i \in DOMAIN queue' : queue'[i].job = k =>
      i \in Nat /\ i + s \in DOMAIN queue /\ queue'[i] = queue[i + s]

LEMMA UntouchedHand ==
  ASSUME NEW k \in Jobs, InTurn(k), Untouched(k), TasksKept(k)
  PROVE  OneHand(k)'
  <1> PICK s \in {0, 1} :
        \A i \in DOMAIN queue' : queue'[i].job = k =>
          i \in Nat /\ i + s \in DOMAIN queue /\ queue'[i] = queue[i + s]
    BY DEF TasksKept
  <1> DEFINE Was(x) == IF x[1] = "task" THEN <<"task", x[2] + s>> ELSE x
  <1>1. \A w \in Workers : Holds(w, k)' => Holds(w, k)
    BY DEF Untouched, Engaged, Holds, JobOf
  <1>2. \A r \in running' : Tests(r, k)' => r \in running /\ Tests(r, k)
    BY DEF Untouched, Tests
  <1>3. \A x : x \in Drivers(k)' <=>
           \/ \E h \in Handlers : x = <<"handler", h>> /\ Asks(h, k)'
           \/ \E c \in Clients : x = <<"client", c>> /\ Requests(c, k)'
           \/ \E i \in DOMAIN queue' : x = <<"task", i>> /\ queue'[i].job = k
           \/ \E w \in Workers : x = <<"worker", w>> /\ Holds(w, k)'
           \/ \E r \in running' : x = <<"run", r>> /\ Tests(r, k)'
           \/ \E r \in hooks' : x = <<"hook", r>> /\ Reports(r, k)'
    BY DEF Drivers, Asks, Requests, Holds, Tests, Reports
  <1>4. ASSUME NEW x \in Drivers(k)'
        PROVE  Was(x) \in Drivers(k) /\ (x[1] = "task" => x = <<"task", x[2]>> /\ x[2] \in Nat)
    <2>1. CASE \E i \in DOMAIN queue' : x = <<"task", i>> /\ queue'[i].job = k
      <3>1. PICK i \in DOMAIN queue' : x = <<"task", i>> /\ queue'[i].job = k
        BY <2>1
      <3>2. i \in Nat /\ i + s \in DOMAIN queue /\ queue[i + s].job = k
        BY <3>1
      <3>3. <<"task", i + s>> \in Drivers(k)
        BY <3>2, DriversAre
      <3> QED BY <3>1, <3>2, <3>3
    <2>2. CASE ~\E i \in DOMAIN queue' : x = <<"task", i>> /\ queue'[i].job = k
      <3>1. x[1] # "task" /\ x \in Drivers(k)
        BY <1>1, <1>2, <1>3, <2>2, DriversAre DEF Untouched
      <3> QED BY <3>1
    <2> QED BY <2>1, <2>2
  <1>5. ASSUME NEW x \in Drivers(k)', NEW y \in Drivers(k)'
        PROVE  x = y
    <2>1. Was(x) = Was(y)
      BY <1>4 DEF InTurn, OneHand
    <2>2. CASE x[1] = "task" /\ y[1] = "task"
      <3>1. PICK m \in Nat, n \in Nat : x = <<"task", m>> /\ y = <<"task", n>>
        BY <1>4, <2>2
      <3>2. <<"task", m + s>> = <<"task", n + s>>
        BY <2>1, <3>1
      <3>3. m + s = n + s
        BY <3>2
      <3> QED BY <3>1, <3>3
    <2>3. CASE x[1] = "task" /\ y[1] # "task"
      BY <1>4, <2>1, <2>3
    <2>4. CASE x[1] # "task" /\ y[1] = "task"
      BY <1>4, <2>1, <2>4
    <2>5. CASE x[1] # "task" /\ y[1] # "task"
      BY <2>1, <2>5
    <2> QED BY <2>2, <2>3, <2>4, <2>5
  <1> QED BY <1>5 DEF OneHand

\* What a worker that is about k says of it remains true.
LEMMA UntouchedWorker ==
  ASSUME NEW k \in Jobs, Untouched(k), NEW w \in Workers, worker[w].pc # "idle",
         worker'[w] = worker[w], JobOf(w) = k, WorkerInTurn(w), Inv
  PROVE  WorkerInTurn(w)'
  <1>1. JobOf(w)' = k /\ worker[w].task.job = k
    BY DEF JobOf
  <1>2. /\ job'[k] = job[k] /\ tip'[k] = tip[k] /\ clean'[k] = clean[k]
    BY DEF Untouched
  <1>3. TaskInTurn(worker[w].task) => TaskInTurn(worker[w].task)'
    BY <1>1 DEF TaskInTurn, Answered, Waiting, InRepair, Exists, Untouched
  <1>4. Answered(worker[w].task) => Answered(worker[w].task)'
    BY <1>1 DEF Answered, InRepair, Exists, Untouched
  <1>5. InRepair(k) => InRepair(k)'
    BY <1>2 DEF InRepair, Exists
  <1>6. CleanType(w)' = CleanType(w) /\ CleanType(w) \in FailureTypes
    <2>1. JobRow(w)' = JobRow(w)
      BY <1>1, <1>2 DEF JobRow
    <2> QED BY <2>1, CleanTypeIsType DEF CleanType
  <1>7. HeadBranch(w) \in prs => HeadBranch(w)' \in prs'
    BY <1>1, <1>6 DEF HeadBranch, Untouched
  <1> QED BY <1>1, <1>2, <1>3, <1>4, <1>5, <1>6, <1>7 DEF WorkerInTurn

\* What is said of k carries over to the next state.
LEMMA UntouchedTurn ==
  ASSUME Inv, NEW k \in Jobs, InTurn(k), Untouched(k), TasksKept(k)
  PROVE  InTurn(k)'
  <1>1. OneHand(k)'
    BY UntouchedHand
  <1>2. \A w \in Workers : Engaged(w, k)' => Engaged(w, k) /\ worker'[w] = worker[w]
    BY DEF Untouched, Engaged, JobOf
  <1>3. OnePush(k)'
    <2>1. \A w \in Workers : worker'[w].pc = "pushed" /\ JobOf(w)' = k =>
            worker[w].pc = "pushed" /\ JobOf(w) = k
      BY <1>2 DEF Engaged
    <2> QED BY <2>1 DEF InTurn, OnePush
  <1>4. AskedInTurn(k)'
    <2>1. \A h \in Handlers : Asks(h, k)' => Waiting(k)'
      BY DEF InTurn, AskedInTurn, Untouched, Waiting, Exists
    <2>2. \A c \in Clients : Requests(c, k)' => Waiting(k)'
      BY DEF InTurn, AskedInTurn, Untouched, Waiting, Exists
    <2>3. ASSUME NEW i \in DOMAIN queue', queue'[i].job = k
          PROVE  TaskInTurn(queue[i])'
      <3>1. PICK s \in {0, 1} : i + s \in DOMAIN queue /\ queue'[i] = queue[i + s]
        BY <2>3 DEF TasksKept
      <3>2. TaskInTurn(queue[i + s])
        BY <2>3, <3>1 DEF InTurn, AskedInTurn
      <3> PICK t : t = queue[i + s]
        OBVIOUS
      <3>3. t.job = k /\ TaskInTurn(t) /\ queue'[i] = t
        BY <2>3, <3>1, <3>2
      <3> QED BY <3>3
              DEF TaskInTurn, Answered, Waiting, InRepair, Exists, Untouched
    <2> QED BY <2>1, <2>2, <2>3 DEF AskedInTurn
  <1>5. WorkersInTurn(k)'
    <2> SUFFICES ASSUME NEW w \in Workers, worker'[w].pc # "idle", JobOf(w)' = k
                 PROVE  WorkerInTurn(w)'
      BY DEF WorkersInTurn
    <2>1. CASE worker'[w].pc = "escalate"
      BY <2>1 DEF WorkerInTurn, AfterRedRun, AfterGreenRun, TryPoints
    <2>2. CASE worker'[w].pc # "escalate"
      <3>1. Engaged(w, k) /\ worker'[w] = worker[w]
        BY <1>2, <2>2 DEF Engaged
      <3>2. WorkerInTurn(w) /\ worker[w].pc # "idle" /\ JobOf(w) = k
        BY <3>1 DEF Engaged, InTurn, WorkersInTurn
      <3> QED BY <3>1, <3>2, UntouchedWorker
    <2> QED BY <2>1, <2>2
  <1>6. RunsInTurn(k)'
    <2>1. InRepair(k) => InRepair(k)'
      BY DEF InRepair, Exists, Untouched
    <2>2. ASSUME NEW r \in running', Tests(r, k)'
          PROVE  RunInTurn(r)'
      <3>1. r \in running /\ r.job = k /\ RunInTurn(r)
        BY <2>2 DEF InTurn, RunsInTurn, Untouched, Tests
      <3>2. ASSUME NEW w \in Workers, worker[w].pc = "pushed", JobOf(w) = k
            PROVE  worker'[w].pc = "pushed" /\ JobOf(w)' = k
        BY <3>2 DEF Untouched, Engaged, JobOf
      <3> QED BY <2>1, <3>1, <3>2 DEF RunInTurn, Untouched
    <2>3. ASSUME NEW r \in hooks', Reports(r, k)'
          PROVE  ReportInTurn(r)'
      <3>1. r \in hooks /\ r.job = k /\ ReportInTurn(r)
        BY <2>3 DEF InTurn, RunsInTurn, Untouched, Reports
      <3> QED BY <2>1, <3>1 DEF ReportInTurn, Untouched
    <2> QED BY <2>2, <2>3 DEF RunsInTurn
  <1>7. ReadersInTurn(k)' /\ (Waiting(k) => job[k].retries = 0)'
    BY DEF InTurn, ReadersInTurn, Waiting, Exists, Untouched
  <1>8. PRsInTurn(k)'
    <2> SUFFICES ASSUME NEW ft \in FailureTypes, <<k, ft>> \in prs'
                 PROVE  /\ Verified(k, ft)'
                        /\ \/ Exists(k)' /\ job'[k].status = "pr_opened"
                           \/ \E w \in Workers :
                                worker'[w].pc = "opened" /\ JobOf(w)' = k
      BY DEF PRsInTurn
    <2>1. <<k, ft>> \in prs /\ PRsInTurn(k)
      BY DEF InTurn, Untouched
    <2>2. Verified(k, ft)'
      BY <2>1 DEF PRsInTurn, Verified, Untouched
    <2>3. ASSUME NEW w \in Workers, worker[w].pc = "opened", JobOf(w) = k
          PROVE  worker'[w].pc = "opened" /\ JobOf(w)' = k
      BY <2>3 DEF Untouched, Engaged, JobOf
    <2> QED BY <2>1, <2>2, <2>3 DEF PRsInTurn, Exists, Untouched
  <1> QED BY <1>1, <1>3, <1>4, <1>5, <1>6, <1>7, <1>8 DEF InTurn

-----------------------------------------------------------------------------
(* The steps of the workers *)

\* What only one step, or none, of a worker changes.
LEMMA WorkerLeaves ==
  ASSUME NEW w \in Workers, AnyStep(w)
  PROVE  /\ UNCHANGED <<locks, green, red, hooks, router, client>>
         /\ TakeTask(w) \/ UNCHANGED queue
         /\ (\E ft \in FailureTypes : PushPatch(w, ft)) \/ UNCHANGED <<tip, running>>
         /\ PushClean(w) \/ UNCHANGED clean
         /\ OpenPR(w) \/ UNCHANGED prs
  BY DEF AnyStep, WorkerAdvances, TakeTask, StartInitial, StartGreen,
         StartExhausted, StartRed, StampRed, ReadRetries, BumpRetry, DropOut,
         PushPatch,
         RecordAttempt, RejectPatch, FetchInternal, PushClean, OpenPR, CommitPR,
         Escalate, Raise, WorkerCrashes, redisVars, repoVars, ciVars, apiVars

\* A worker's step on one job leaves the attempts of the others alone.
LEMMA AttemptsOfOthers ==
  ASSUME Inv, NEW w \in Workers, AnyStep(w), NEW k \in Jobs,
         worker[w].pc # "idle" => JobOf(w) # k
  PROVE  attempts'[k] = attempts[k]
  <1>1. CASE StartGreen(w) \/ StampRed(w)
    BY <1>1 DEF StartGreen, Completes, StampRed, Stamps, At, Inv, TypeOK
  <1>2. CASE RecordAttempt(w)
    BY <1>2 DEF RecordAttempt, At, Inv, TypeOK
  <1>3. ASSUME NEW ft \in FailureTypes, RejectPatch(w, ft)
        PROVE  attempts'[k] = attempts[k]
    BY <1>3 DEF RejectPatch, At, Inv, TypeOK
  <1>4. CASE UNCHANGED attempts
    BY <1>4
  <1> QED BY <1>1, <1>2, <1>3, <1>4
          DEF AnyStep, WorkerAdvances, TakeTask, StartInitial, StartExhausted,
              StartRed, ReadRetries, BumpRetry, DropOut, PushPatch,
              FetchInternal, PushClean,
              OpenPR, CommitPR, Escalate, Raise, WorkerCrashes, dbVars

\* A worker that is about another job leaves k alone.
LEMMA WorkerStepUntouched ==
  ASSUME Facts, NEW w \in Workers, AnyStep(w), NEW k \in Jobs,
         worker[w].pc # "idle" => JobOf(w) # k,
         TakeTask(w) => queue[1].job # k
  PROVE  Untouched(k) /\ TasksKept(k)
  <1>0. Inv /\ TypeOK
    BY DEF Facts, Inv
  <1>1. /\ UNCHANGED <<locks, green, red, hooks, router, client>>
        /\ TakeTask(w) \/ UNCHANGED queue
        /\ (\E ft \in FailureTypes : PushPatch(w, ft)) \/ UNCHANGED <<tip, running>>
        /\ PushClean(w) \/ UNCHANGED clean
        /\ OpenPR(w) \/ UNCHANGED prs
    BY WorkerLeaves
  <1>2. /\ \A v \in Workers : v # w => worker'[v] = worker[v]
        /\ TakeTask(w) \/ GoesOn(w) \/ (Done(w) /\ worker[w].pc # "idle")
    BY <1>0, StepShape
  <1>3. job'[k] = job[k]
    <2>1. CASE TakeTask(w)
      BY <2>1 DEF TakeTask, dbVars
    <2>2. CASE ~TakeTask(w)
      <3>1. worker[w].pc # "idle"
        BY <1>0, <1>2, <2>2, GoesOnShape
      <3> QED BY <3>1, WorkerStatus
    <2> QED BY <2>1, <2>2
  <1>4. tip'[k] = tip[k] /\ \A r \in running' : Tests(r, k)' => r \in running
    <2>1. ASSUME NEW ft \in FailureTypes, PushPatch(w, ft)
          PROVE  tip'[k] = tip[k] /\ \A r \in running' : Tests(r, k)' => r \in running
      BY <1>0, <2>1 DEF PushPatch, At, Tests, TypeOK
    <2> QED BY <1>1, <2>1
  <1>5. clean'[k] = clean[k]
    <2>1. ASSUME PushClean(w)
          PROVE  clean'[k] = clean[k]
      BY <1>0, <2>1 DEF PushClean, At, TypeOK
    <2> QED BY <1>1, <2>1
  <1>6. \A ft \in FailureTypes : <<k, ft>> \in prs' <=> <<k, ft>> \in prs
    <2>1. ASSUME OpenPR(w)
          PROVE  \A ft \in FailureTypes : <<k, ft>> \in prs' <=> <<k, ft>> \in prs
      BY <2>1 DEF OpenPR, At, HeadBranch
    <2> QED BY <1>1, <2>1
  <1>7. \A v \in Workers : Engaged(v, k) \/ Engaged(v, k)' => worker'[v] = worker[v]
    <2>1. ~Engaged(w, k)
      BY DEF Engaged
    <2>2. ~Engaged(w, k)'
      <3>1. CASE TakeTask(w)
        BY <1>0, <3>1, TakenTask DEF Engaged, JobOf
      <3>2. CASE GoesOn(w)
        BY <1>0, <3>2, GoesOnShape DEF Engaged, JobOf
      <3>3. CASE Done(w)
        BY <1>0, <3>3, DoneMoves DEF Engaged
      <3> QED BY <1>2, <3>1, <3>2, <3>3
    <2> QED BY <1>2, <2>1, <2>2
  <1>8. TasksKept(k)
    <2>1. CASE TakeTask(w)
      <3>1. \A i \in DOMAIN queue' :
              i \in Nat /\ i + 1 \in DOMAIN queue /\ queue'[i] = queue[i + 1]
        BY <1>0, <2>1, TakenTask
      <3> QED BY <3>1 DEF TasksKept
    <2>2. CASE UNCHANGED queue
      <3>1. \A i \in DOMAIN queue : i \in Nat /\ i + 0 = i
        BY <1>0 DEF TypeOK
      <3> QED BY <2>2, <3>1 DEF TasksKept
    <2> QED BY <1>1, <2>1, <2>2
  <1>9. /\ \A h \in Handlers : Asks(h, k)' => Asks(h, k)
        /\ \A c \in Clients : Requests(c, k)' => Requests(c, k)
        /\ \A c \in Clients :
             Reads(c, k)' => Reads(c, k) /\ client'[c].loaded = client[c].loaded
        /\ \A r \in hooks' : Reports(r, k)' => r \in hooks /\ Reports(r, k)
        /\ green \subseteq green' /\ red \subseteq red'
    BY <1>1 DEF Asks, Requests, Reads, Reports, Ended
  <1> QED BY <1>3, <1>4, <1>5, <1>6, <1>7, <1>8, <1>9 DEF Untouched

\* After a step of the worker that has j, all that is left to show is about
\* this worker and the pull requests of j.
LEMMA WorkerKeepsTurn ==
  ASSUME TurnFacts, NEW w \in Workers, AnyStep(w), NEW j \in Jobs, Holds(w, j),
         ~(\E ft \in FailureTypes : PushPatch(w, ft)),
         worker'[w].pc \notin {"idle", "escalate"} => WorkerInTurn(w)',
         Waiting(j)' => job'[j].retries = 0,
         PRsInTurn(j)'
  PROVE  InTurn(j)'
  <1>0. Facts /\ Inv
    BY DEF TurnFacts, Facts
  <1>1. /\ UNCHANGED <<locks, green, red, hooks, router, client>>
        /\ TakeTask(w) \/ UNCHANGED queue
        /\ UNCHANGED <<tip, running>>
    BY WorkerLeaves
  <1>2. /\ \A v \in Workers : v # w => worker'[v] = worker[v]
        /\ TakeTask(w) \/ GoesOn(w) \/ Done(w)
    BY <1>0, StepShape
  <1>3. ~TakeTask(w)
    BY DEF Holds, TakeTask, At
  <1>4. /\ \A h \in Handlers : ~Asks(h, j)
        /\ \A c \in Clients : ~Requests(c, j)
        /\ \A i \in DOMAIN queue : queue[i].job # j
        /\ \A v \in Workers : Holds(v, j) => v = w
        /\ \A r \in running : ~Tests(r, j)
        /\ \A r \in hooks : ~Reports(r, j)
        /\ \A v \in Workers : worker[v].pc = "pushed" => JobOf(v) # j
    BY WorkerAlone
  <1>5. worker'[w].pc # "pushed"
    BY <1>0, <1>2, <1>3, PushedByPush, DoneMoves
  <1>6. /\ \A h \in Handlers : ~Asks(h, j)'
        /\ \A c \in Clients : ~Requests(c, j)'
        /\ \A i \in DOMAIN queue' : queue'[i].job # j
        /\ \A v \in Workers : Holds(v, j)' => v = w
        /\ \A r \in running' : ~Tests(r, j)'
        /\ \A r \in hooks' : ~Reports(r, j)'
        /\ \A v \in Workers : worker'[v].pc = "pushed" => JobOf(v)' # j
    BY <1>1, <1>2, <1>3, <1>4, <1>5
       DEF Asks, Requests, Tests, Reports, Ended, Holds, JobOf
  <1>7. OneHand(j)'
    <2>1. \A x : x \in Drivers(j)' => x = <<"worker", w>>
      BY <1>6 DEF Drivers, Asks, Requests, Holds, Tests, Reports
    <2> QED BY <2>1 DEF OneHand
  <1>8. OnePush(j)' /\ AskedInTurn(j)' /\ RunsInTurn(j)'
    BY <1>6 DEF OnePush, AskedInTurn, RunsInTurn
  <1>9. WorkersInTurn(j)'
    <2> SUFFICES ASSUME NEW v \in Workers, worker'[v].pc # "idle", JobOf(v)' = j
                 PROVE  WorkerInTurn(v)'
      BY DEF WorkersInTurn
    <2>1. CASE worker'[v].pc = "escalate"
      BY <2>1 DEF WorkerInTurn, AfterRedRun, AfterGreenRun, TryPoints
    <2>2. CASE worker'[v].pc # "escalate"
      <3>1. Holds(v, j)'
        BY <1>6, <2>2 DEF Holds
      <3> QED BY <1>6, <2>2, <3>1
    <2> QED BY <2>1, <2>2
  <1>10. ReadersInTurn(j)'
    <2>1. \A c \in Clients : ~Reads(c, j)'
      BY <1>1, WorkerMovesIt DEF Reads
    <2> QED BY <2>1 DEF ReadersInTurn
  <1> QED BY <1>7, <1>8, <1>9, <1>10 DEF InTurn

\* A job in hand has no pull request before the worker opens one.
LEMMA NoPRYet ==
  ASSUME TurnFacts, NEW w \in Workers, AnyStep(w), NEW j \in Jobs, Holds(w, j),
         worker[w].pc # "opened", ~OpenPR(w)
  PROVE  PRsInTurn(j)'
  BY WorkerMovesIt, WorkerLeaves DEF PRsInTurn

\* What the session of a worker that has j has read is not settled.
LEMMA HandIsFresh ==
  ASSUME TurnFacts, NEW j \in Jobs, NEW w \in Workers, Holds(w, j)
  PROVE  ~Stale(w)
  <1>1. /\ WorkerInTurn(w) /\ SessionFits(w) /\ JobOf(w) = j
        /\ job[j].status \in {"queued"} \union Underway
        /\ worker[w].pc \in WorkerPCs /\ worker[w].pc # "idle"
    BY WorkerMovesIt
       DEF Holds, TurnFacts, Facts, Inv, TypeOK, WorkerStates, SessionInv
  <1>2. CASE worker[w].pc \in {"start", "bump"}
    BY <1>1, <1>2 DEF SessionFits, Stale
  <1>3. CASE worker[w].pc \in TryPoints \ {"bump", "count"}
    BY <1>1, <1>3 DEF WorkerInTurn, Stale, Underway, Terminal
  <1>4. CASE worker[w].pc = "count"
    BY <1>1, <1>4 DEF SessionFits, Stale, Underway, Terminal
  <1> QED BY <1>1, <1>2, <1>3, <1>4 DEF Holds, TryPoints

\* A worker that has j writes the row it has read.
LEMMA HandCommits ==
  ASSUME TurnFacts, NEW w \in Workers, NEW j \in Jobs, Holds(w, j),
         NEW new \in Row, new.status \in Terminal, Commits(w, new)
  PROVE  job'[j] # None /\ job'[j].status = new.status
  <1>1. /\ Facts /\ Inv /\ JobOf(w) = j /\ worker[w].pc # "idle"
        /\ job[j].status \in {"queued"} \union Underway /\ ~Stale(w)
    BY WorkerMovesIt, HandIsFresh DEF TurnFacts, Facts, Holds
  <1>2. /\ job[j] \in Row /\ JobRow(w) \in Row /\ job'[j] # None
        /\ job'[j] = Flush(job[j], JobRow(w), new)
    BY <1>1, CommitOfRow
  <1>3. JobRow(w).status \notin Terminal
    BY <1>1 DEF JobRow, Stale, Terminal, Underway
  <1> QED BY <1>2, <1>3, StatusOfFlush

\* A worker that settles the job lets go of it.
LEMMA WorkerSettles ==
  ASSUME TurnFacts, NEW w \in Workers, Settles(w) \/ StartExhausted(w),
         NEW j \in Jobs, Holds(w, j), PRsInTurn(j)'
  PROVE  InTurn(j)' /\ job'[j].status \in Terminal
  <1>0. Facts /\ Inv /\ JobOf(w) = j
    BY DEF TurnFacts, Facts, Holds
  <1>1. worker'[w].pc \in {"idle", "escalate"}
    <2>1. CASE Settles(w)
      <3>1. Done(w)
        BY <2>1 DEF Settles, DropOut, RejectPatch, CommitPR, Raise
      <3> QED BY <1>0, <3>1, DoneMoves
    <2>2. CASE StartExhausted(w)
      BY <1>0, <2>2 DEF StartExhausted, Goto, Inv, TypeOK, WorkerStates
    <2> QED BY <2>1, <2>2
  <1>2. AnyStep(w) /\ ~(\E ft \in FailureTypes : PushPatch(w, ft))
    <2>1. AnyStep(w)
      BY DEF Settles, AnyStep, WorkerAdvances
    <2>2. ASSUME NEW ft \in FailureTypes, PushPatch(w, ft)
          PROVE  FALSE
      BY <1>0, <1>1, <2>2 DEF PushPatch, Inv, TypeOK, WorkerStates
    <2> QED BY <2>1, <2>2
  <1>3. job'[j].status \in Terminal
    <2>1. CASE Settles(w)
      BY <1>0, <2>1, SettlingCommits, CommitSettles, HandIsFresh
         DEF SettlesWith
    <2>2. CASE StartExhausted(w)
      <3>1. job[j] \in Row /\ job' = [job EXCEPT ![j].status = "failed"]
        BY <1>0, <2>2, WorkersJob DEF StartExhausted, Completes, At, Inv
      <3> QED BY <1>0, <3>1 DEF Inv, TypeOK, Row, Terminal
    <2> QED BY <2>1, <2>2
  <1>4. ~Waiting(j)'
    BY <1>3 DEF Waiting, Terminal
  <1> QED BY <1>1, <1>2, <1>3, <1>4, WorkerKeepsTurn

-----------------------------------------------------------------------------
(* A task begins *)

LEMMA StartInitialTurn ==
  ASSUME TurnFacts, NEW w \in Workers, StartInitial(w), NEW j \in Jobs, Holds(w, j)
  PROVE  InTurn(j)'
  <1>0. JobOf(w) = j /\ Facts /\ Inv /\ TypeOK
    BY DEF Holds, TurnFacts, Facts, Inv
  <1> USE <1>0
  <1>1. /\ worker[w].pc = "start" /\ worker[w] \in WorkerStates
        /\ job[j] \in Row /\ AnyStep(w) /\ ~OpenPR(w)
        /\ ~(\E ft \in FailureTypes : PushPatch(w, ft))
    BY WorkersJob
       DEF StartInitial, At, AnyStep, WorkerAdvances, OpenPR, PushPatch, Inv
  <1>2. PICK row \in Row : /\ row.status = "repairing"
                           /\ job'[j] = row
                           /\ worker'[w].pc = "graph" /\ worker'[w].loaded = row
    <2>1. [job[j] EXCEPT !.status = "repairing"] \in Row
      BY <1>1 DEF Row, Statuses
    <2> QED BY <1>1, <2>1 DEF StartInitial, TypeOK, WorkerStates, Row
  <1>3. JobOf(w)' = j
    BY GoesOnShape DEF GoesOn, JobOf
  <1>4. InRepair(j)' /\ ~Waiting(j)'
    BY <1>2, NoneIsNoRow DEF InRepair, Waiting, Exists, Underway
  <1>5. WorkerInTurn(w)'
    BY <1>2, <1>3, <1>4 DEF WorkerInTurn, AfterRedRun, AfterGreenRun
  <1>6. PRsInTurn(j)'
    BY <1>1, NoPRYet
  <1> QED BY <1>1, <1>4, <1>5, <1>6, WorkerKeepsTurn

LEMMA StartCompletionTurn ==
  ASSUME TurnFacts, NEW w \in Workers, StartGreen(w) \/ StartRed(w),
         NEW j \in Jobs, Holds(w, j)
  PROVE  InTurn(j)'
  <1>0. JobOf(w) = j /\ Facts /\ Inv /\ TypeOK
    BY DEF Holds, TurnFacts, Facts, Inv
  <1> USE <1>0
  <1>1. /\ worker[w].pc = "start" /\ worker[w] \in WorkerStates
        /\ job[j] \in Row /\ AnyStep(w) /\ ~OpenPR(w)
        /\ ~(\E ft \in FailureTypes : PushPatch(w, ft))
    BY WorkersJob
       DEF StartGreen, StartRed, Completes, At, AnyStep, WorkerAdvances, OpenPR,
           PushPatch, Inv
  <1>2. /\ UNCHANGED <<job, tip, green, red>>
        /\ worker'[w].loaded = job[j]
        /\ \/ worker'[w].pc = "green" /\ worker[w].task.concl = "success"
           \/ /\ worker'[w].pc = "red" /\ worker[w].task.concl = "failure"
              /\ ~RetriesExhausted(job[j])
        /\ worker[w].task.fn = "completion"
    BY <1>1 DEF StartGreen, StartRed, Completes, TypeOK, WorkerStates, repoVars,
                ciVars, dbVars
  <1>3. JobOf(w)' = j /\ worker'[w].task = worker[w].task
    BY GoesOnShape DEF GoesOn, JobOf
  <1>4. Answered(worker[w].task) /\ ~Waiting(j)
    <2>1. TaskInTurn(worker[w].task)
      BY <1>1, WorkerMovesIt DEF WorkerInTurn
    <2>2. worker[w].task # InitialTask(worker[w].task.job)
      BY <1>2 DEF InitialTask
    <2> QED BY <2>1, <2>2
            DEF TaskInTurn, Answered, InRepair, Waiting, Underway, JobOf
  <1> PICK t : t = worker[w].task
    OBVIOUS
  <1>5. Answered(t)' /\ ~Waiting(j)' /\ worker'[w].task = t
    BY <1>2, <1>3, <1>4 DEF Answered, InRepair, Waiting, Exists
  <1>6. job[j].retries < MaxRetries \/ RetriesExhausted(job[j])
    BY <1>1, RetriesAssumption DEF RetriesExhausted, Row
  <1>7. WorkerInTurn(w)'
    BY <1>2, <1>3, <1>5, <1>6 DEF WorkerInTurn, AfterRedRun, AfterGreenRun
  <1>8. PRsInTurn(j)'
    BY <1>1, NoPRYet
  <1> QED BY <1>1, <1>5, <1>7, <1>8, WorkerKeepsTurn

-----------------------------------------------------------------------------
(* A red run *)

LEMMA StampRedTurn ==
  ASSUME TurnFacts, NEW w \in Workers, StampRed(w), NEW j \in Jobs, Holds(w, j)
  PROVE  InTurn(j)'
  <1>0. JobOf(w) = j /\ Facts /\ Inv /\ TypeOK
    BY DEF Holds, TurnFacts, Facts, Inv
  <1> USE <1>0
  <1>1. /\ worker[w].pc = "red" /\ AnyStep(w) /\ ~OpenPR(w)
        /\ ~(\E ft \in FailureTypes : PushPatch(w, ft))
    BY DEF StampRed, At, AnyStep, WorkerAdvances, OpenPR, PushPatch
  <1>2. /\ UNCHANGED <<job, tip, green, red>>
        /\ worker'[w].pc = "bump"
    <2>1. UNCHANGED <<job, tip, green, red>>
      BY DEF StampRed, repoVars, ciVars
    <2>2. CASE Goto(w, "bump")
      BY <2>1, <2>2 DEF Goto, TypeOK, WorkerStates
    <2>3. CASE \E p : worker' = [worker EXCEPT ![w].pc = "bump", ![w].loaded = None,
                                               ![w].prev = p]
      BY <2>1, <2>3 DEF TypeOK, WorkerStates
    <2> QED BY <2>2, <2>3 DEF StampRed
  <1>3. JobOf(w)' = j /\ worker'[w].task = worker[w].task
    BY GoesOnShape DEF GoesOn, JobOf
  <1>4. /\ Answered(worker[w].task) /\ worker[w].task.concl = "failure"
        /\ job[j].retries < MaxRetries
    BY <1>1, WorkerMovesIt DEF WorkerInTurn, AfterRedRun, AfterGreenRun
  <1> PICK t : t = worker[w].task
    OBVIOUS
  <1>5. Answered(t)' /\ ~Waiting(j)' /\ worker'[w].task = t /\ t.concl = "failure"
    BY <1>2, <1>3, <1>4
       DEF Answered, InRepair, Waiting, Exists, Underway, JobOf
  <1>6. WorkerInTurn(w)'
    BY <1>2, <1>3, <1>4, <1>5
       DEF WorkerInTurn, AfterRedRun, AfterGreenRun, TryPoints
  <1>7. PRsInTurn(j)'
    BY <1>1, NoPRYet
  <1> QED BY <1>1, <1>5, <1>6, <1>7, WorkerKeepsTurn

LEMMA ReadRetriesTurn ==
  ASSUME TurnFacts, NEW w \in Workers, ReadRetries(w), NEW j \in Jobs,
         Holds(w, j)
  PROVE  InTurn(j)'
  <1>0. JobOf(w) = j /\ Facts /\ Inv /\ TypeOK
    BY DEF Holds, TurnFacts, Facts, Inv
  <1> USE <1>0
  <1>1. /\ worker[w].pc = "bump" /\ AnyStep(w) /\ ~OpenPR(w)
        /\ ~(\E ft \in FailureTypes : PushPatch(w, ft))
    BY DEF ReadRetries, At, AnyStep, WorkerAdvances, OpenPR, PushPatch
  <1>2. /\ UNCHANGED <<job, tip, green, red>>
        /\ worker'[w].pc = "count" /\ worker'[w].task = worker[w].task
        /\ worker'[w].loaded.retries = JobRow(w).retries
    BY ReadRetriesShape DEF dbVars, repoVars, ciVars
  <1>3. JobOf(w)' = j /\ JobRow(w) = job[j]
    <2>1. worker[w].loaded = None
      BY <1>1 DEF Facts, SessionInv, SessionFits
    <2> QED BY <1>2, <2>1 DEF JobOf, JobRow
  <1>4. /\ Answered(worker[w].task) /\ worker[w].task.concl = "failure"
        /\ job[j].retries < MaxRetries
    BY <1>1, WorkerMovesIt DEF WorkerInTurn, AfterRedRun, AfterGreenRun
  <1> PICK t : t = worker[w].task
    OBVIOUS
  <1>5. Answered(t)' /\ ~Waiting(j)' /\ worker'[w].task = t /\ t.concl = "failure"
    BY <1>2, <1>3, <1>4
       DEF Answered, InRepair, Waiting, Exists, Underway, JobOf
  <1>6. WorkerInTurn(w)'
    BY <1>2, <1>3, <1>4, <1>5
       DEF WorkerInTurn, AfterRedRun, AfterGreenRun, TryPoints
  <1>7. PRsInTurn(j)'
    BY <1>1, NoPRYet
  <1> QED BY <1>1, <1>5, <1>6, <1>7, WorkerKeepsTurn

LEMMA BumpRetryTurn ==
  ASSUME TurnFacts, NEW w \in Workers, BumpRetry(w), NEW j \in Jobs, Holds(w, j)
  PROVE  InTurn(j)'
  <1>0. JobOf(w) = j /\ Facts /\ Inv /\ TypeOK
    BY DEF Holds, TurnFacts, Facts, Inv
  <1> USE <1>0
  <1>1. /\ worker[w].pc = "count" /\ worker[w] \in WorkerStates
        /\ AnyStep(w) /\ ~OpenPR(w)
        /\ ~(\E ft \in FailureTypes : PushPatch(w, ft))
    BY WorkersJob
       DEF BumpRetry, At, AnyStep, WorkerAdvances, OpenPR, PushPatch, Inv
  <1>2. job'[j] # None /\ job'[j].status = "retrying"
    BY BumpIsUnderway
  <1> PICK row : row = job'[j]
    OBVIOUS
  <1>3. worker'[w].pc = "graph" /\ worker'[w].loaded = row
    BY <1>1 DEF BumpRetry, TypeOK, WorkerStates
  <1>4. JobOf(w)' = j
    BY GoesOnShape DEF GoesOn, JobOf
  <1>5. InRepair(j)' /\ ~Waiting(j)'
    BY <1>2 DEF InRepair, Waiting, Exists, Underway
  <1>6. WorkerInTurn(w)'
    BY <1>3, <1>4, <1>5 DEF WorkerInTurn, AfterRedRun, AfterGreenRun
  <1>7. PRsInTurn(j)'
    BY <1>1, NoPRYet
  <1> QED BY <1>1, <1>5, <1>6, <1>7, WorkerKeepsTurn

-----------------------------------------------------------------------------
(* A green run *)

\* On the way to a pull request the worker holds what the tables say.
LEMMA GreenGoesOn ==
  ASSUME TurnFacts, NEW w \in Workers,
         FetchInternal(w) \/ PushClean(w) \/ OpenPR(w),
         NEW j \in Jobs, Holds(w, j)
  PROVE  /\ AnyStep(w) /\ ~(\E ft \in FailureTypes : PushPatch(w, ft))
         /\ WorkerInTurn(w) /\ worker[w].pc \in AfterGreenRun
         /\ \/ /\ FetchInternal(w) /\ worker'[w].pc = "fetched"
               /\ worker'[w].patch = tip[j]
            \/ PushClean(w) /\ worker'[w].pc = "cleaned"
            \/ OpenPR(w) /\ worker'[w].pc = "opened"
         /\ Answered(worker[w].task)' /\ worker'[w].task.concl = "success"
         /\ worker'[w].loaded = job'[j]
         /\ UNCHANGED <<job, tip>>
         /\ JobOf(w)' = j /\ CleanType(w)' = CleanType(w)
         /\ ~Waiting(j)'
  <1>0. JobOf(w) = j /\ Facts /\ Inv /\ TypeOK
    BY DEF Holds, TurnFacts, Facts, Inv
  <1> USE <1>0
  <1>1. /\ AnyStep(w) /\ WorkerInTurn(w)
        /\ worker[w].pc \in {"green", "fetched", "cleaned"}
        /\ ~(\E ft \in FailureTypes : PushPatch(w, ft))
    BY WorkerMovesIt
       DEF FetchInternal, PushClean, OpenPR, At, AnyStep, WorkerAdvances, PushPatch
  <1>2. UNCHANGED <<job, tip, green, red>> /\ worker'[w].loaded = worker[w].loaded
    BY DEF FetchInternal, PushClean, OpenPR, Goto, TypeOK, WorkerStates,
           repoVars, ciVars, dbVars
  <1>3. JobOf(w)' = j /\ worker'[w].task = worker[w].task
    BY GoesOnShape DEF GoesOn, JobOf
  <1>4. /\ Answered(worker[w].task) /\ worker[w].task.concl = "success"
        /\ worker[w].loaded = job[j]
    BY <1>1 DEF WorkerInTurn, AfterRedRun, AfterGreenRun, TryPoints, WorkerPCs
  <1>5. \/ /\ FetchInternal(w) /\ worker'[w].pc = "fetched"
           /\ worker'[w].patch = tip[j]
        \/ PushClean(w) /\ worker'[w].pc = "cleaned"
        \/ OpenPR(w) /\ worker'[w].pc = "opened"
    <2>1. CASE FetchInternal(w)
      BY <2>1 DEF FetchInternal, TypeOK, WorkerStates
    <2>2. CASE PushClean(w)
      BY <2>2 DEF PushClean, Goto, TypeOK, WorkerStates
    <2>3. CASE OpenPR(w)
      BY <2>3 DEF OpenPR, Goto, TypeOK, WorkerStates
    <2> QED BY <2>1, <2>2, <2>3
  <1>6. CleanType(w)' = CleanType(w)
    BY <1>2, <1>3 DEF CleanType, JobRow
  <1> PICK t : t = worker[w].task
    OBVIOUS
  <1>7. Answered(t)' /\ ~Waiting(j)' /\ worker'[w].task = t
    BY <1>2, <1>3, <1>4 DEF Answered, InRepair, Waiting, Exists, Underway, JobOf
  <1> QED BY <1>1, <1>2, <1>3, <1>4, <1>5, <1>6, <1>7 DEF AfterGreenRun

LEMMA FetchInternalTurn ==
  ASSUME TurnFacts, NEW w \in Workers, FetchInternal(w),
         NEW j \in Jobs, Holds(w, j)
  PROVE  InTurn(j)'
  <1>1. /\ AnyStep(w) /\ ~(\E ft \in FailureTypes : PushPatch(w, ft))
        /\ worker'[w].pc = "fetched" /\ worker'[w].patch = tip[j]
        /\ Answered(worker[w].task)' /\ worker'[w].task.concl = "success"
        /\ worker'[w].loaded = job'[j] /\ UNCHANGED <<job, tip>>
        /\ JobOf(w)' = j /\ ~Waiting(j)'
        /\ worker[w].pc = "green" /\ ~OpenPR(w)
    BY GreenGoesOn DEF FetchInternal, PushClean, OpenPR, At
  <1>2. WorkerInTurn(w)'
    BY <1>1 DEF WorkerInTurn, AfterRedRun, AfterGreenRun
  <1>3. PRsInTurn(j)'
    BY <1>1, NoPRYet
  <1> QED BY <1>1, <1>2, <1>3, WorkerKeepsTurn

LEMMA PushCleanTurn ==
  ASSUME TurnFacts, NEW w \in Workers, PushClean(w), NEW j \in Jobs, Holds(w, j)
  PROVE  InTurn(j)'
  <1>1. /\ AnyStep(w) /\ ~(\E ft \in FailureTypes : PushPatch(w, ft))
        /\ WorkerInTurn(w) /\ worker'[w].pc = "cleaned"
        /\ Answered(worker[w].task)' /\ worker'[w].task.concl = "success"
        /\ worker'[w].loaded = job'[j] /\ UNCHANGED <<job, tip>>
        /\ JobOf(w)' = j /\ CleanType(w)' = CleanType(w) /\ ~Waiting(j)'
        /\ worker[w].pc = "fetched" /\ ~OpenPR(w)
    BY GreenGoesOn DEF FetchInternal, PushClean, OpenPR, At
  <1>2. JobOf(w) = j /\ worker[w].patch = tip[j]
    BY <1>1 DEF Holds, WorkerInTurn
  <1>3. CleanType(w) \in FailureTypes
    BY <1>1, CleanTypeIsType DEF TurnFacts, Facts
  <1>4. clean'[j][CleanType(w)] = tip[j]
    BY <1>2, <1>3 DEF PushClean, TurnFacts, Facts, Inv, TypeOK
  <1>5. WorkerInTurn(w)'
    BY <1>1, <1>4 DEF WorkerInTurn, AfterRedRun, AfterGreenRun
  <1>6. PRsInTurn(j)'
    BY <1>1, NoPRYet
  <1> QED BY <1>1, <1>5, <1>6, WorkerKeepsTurn

\* The only pull request of the job offers the patch whose run was green.
LEMMA OpenPRTurn ==
  ASSUME TurnFacts, Orderly, NEW w \in Workers, OpenPR(w),
         NEW j \in Jobs, Holds(w, j)
  PROVE  InTurn(j)'
  <1>1. /\ AnyStep(w) /\ ~(\E ft \in FailureTypes : PushPatch(w, ft))
        /\ WorkerInTurn(w) /\ worker'[w].pc = "opened"
        /\ Answered(worker[w].task)' /\ worker'[w].task.concl = "success"
        /\ worker'[w].loaded = job'[j] /\ UNCHANGED <<job, tip>>
        /\ JobOf(w)' = j /\ CleanType(w)' = CleanType(w) /\ ~Waiting(j)'
        /\ worker[w].pc = "cleaned"
    BY GreenGoesOn DEF FetchInternal, PushClean, OpenPR, At
  <1>2. /\ JobOf(w) = j /\ clean[j][CleanType(w)] = tip[j]
        /\ Answered(worker[w].task) /\ worker[w].task.concl = "success"
    BY <1>1 DEF Holds, WorkerInTurn, AfterRedRun, AfterGreenRun
  <1>3. prs' = prs \union {<<j, CleanType(w)>>}
    BY <1>2 DEF OpenPR, HeadBranch
  <1>4. UNCHANGED <<clean, green>>
    BY <1>1, WorkerLeaves DEF PushClean, At
  <1>5. Verified(j, CleanType(w))
    <2>1. PICK f : Workflows = {f}
      BY DEF Orderly
    <2>2. worker[w].task \in Tasks /\ worker[w].task.fn = "completion"
      BY <1>1, <1>2, WorkersJob DEF TurnFacts, Facts, Inv, Answered
    <2>3. /\ worker[w].task.run \in green /\ worker[w].task.run \in RunIds
          /\ worker[w].task.run.job = j /\ worker[w].task.run.patch = tip[j]
      BY <1>2, <2>2, TaskFields DEF Answered, JobOf
    <2>4. worker[w].task.run = [job |-> j, patch |-> tip[j], wf |-> f]
      BY <2>1, <2>3 DEF RunIds
    <2> QED BY <1>2, <2>1, <2>3, <2>4 DEF Verified
  <1>6. WorkerInTurn(w)'
    <2>1. HeadBranch(w)' \in prs'
      BY <1>1, <1>3 DEF HeadBranch
    <2>2. clean'[j][CleanType(w)'] = tip'[j]
      BY <1>1, <1>2, <1>4
    <2> QED BY <1>1, <2>1, <2>2 DEF WorkerInTurn, AfterRedRun, AfterGreenRun
  <1>7. PRsInTurn(j)'
    <2> SUFFICES ASSUME NEW ft \in FailureTypes, <<j, ft>> \in prs'
                 PROVE  Verified(j, ft)'
      BY <1>1 DEF PRsInTurn
    <2>1. ft = CleanType(w)
      BY <1>1, <1>3, WorkerMovesIt
    <2> QED BY <1>4, <1>5, <2>1 DEF Verified
  <1> QED BY <1>1, <1>6, <1>7, WorkerKeepsTurn

\* The job says that the pull request is there.
LEMMA CommitPRTurn ==
  ASSUME TurnFacts, NEW w \in Workers, CommitPR(w), NEW j \in Jobs, Holds(w, j)
  PROVE  InTurn(j)'
  <1>0. JobOf(w) = j /\ Facts /\ Inv /\ AnyStep(w) /\ Settles(w)
    BY DEF Holds, TurnFacts, Facts, AnyStep, WorkerAdvances, Settles
  <1>1. /\ worker[w].pc = "opened" /\ WorkerInTurn(w)
        /\ job[j].status \in {"queued"} \union Underway
    BY <1>0, WorkerMovesIt DEF CommitPR, At
  <1>2. worker[w].loaded = job[j] /\ JobRow(w) = job[j] /\ job[j] \in Row
    <2>1. worker[w].loaded = job[j]
      BY <1>0, <1>1 DEF WorkerInTurn, TryPoints, WorkerPCs
    <2> QED BY <1>0, <1>1, <2>1, WorkersJob DEF JobRow, Inv
  <1>3. PICK new \in Row : new.status = "pr_opened" /\ Commits(w, new)
    <2> PICK row \in Row : row = JobRow(w)
      BY <1>2
    <2>1. PICK new : new = [row EXCEPT !.status = "pr_opened", !.pr = CleanType(w)]
      OBVIOUS
    <2>2. CleanType(w) \in FailureTypes
      BY <1>0, <1>1, CleanTypeIsType
    <2>3. new \in Row /\ new.status = "pr_opened"
      BY <2>1, <2>2 DEF Row, Statuses
    <2> QED BY <2>1, <2>3 DEF CommitPR
  <1>4. /\ job'[j] = Flush(job[j], job[j], new) /\ job'[j] # None
    BY <1>0, <1>1, <1>2, <1>3, CommitOfRow
  <1>5. job'[j].status = "pr_opened"
    <2>1. job[j].status # "pr_opened"
      BY <1>1 DEF Underway
    <2> QED BY <1>2, <1>3, <1>4, <2>1, StatusOfFlush
  <1>6. PRsInTurn(j)'
    <2>1. UNCHANGED <<prs, clean, green>> /\ PRsInTurn(j)
      BY <1>0, <1>1, WorkerLeaves
         DEF OpenPR, PushClean, At, TurnFacts, TurnInv, InTurn
    <2> QED BY <1>4, <1>5, <2>1 DEF PRsInTurn, Verified, Exists
  <1> QED BY <1>0, <1>6, WorkerSettles

\* A worker that gives up has opened no pull request: after that no call is
\* left that could fail.
LEMMA GivesUpTurn ==
  ASSUME TurnFacts, Orderly, NEW w \in Workers, Settles(w) \/ StartExhausted(w),
         ~CommitPR(w), NEW j \in Jobs, Holds(w, j)
  PROVE  InTurn(j)' /\ job'[j].status \in Terminal
  <1>1. AnyStep(w) /\ worker[w].pc # "opened" /\ ~OpenPR(w)
    <2>1. AnyStep(w)
      BY DEF Settles, AnyStep, WorkerAdvances
    <2>2. worker[w].pc # "opened"
      BY DEF Settles, DropOut, RejectPatch, Raise, StartExhausted, Completes, At,
             Orderly, CallPoints
    <2>3. UNCHANGED prs
      BY DEF Settles, DropOut, RejectPatch, CommitPR, Raise, StartExhausted,
             repoVars
    <2>4. OpenPR(w) => <<j, CleanType(w)>> \in prs' /\ <<j, CleanType(w)>> \notin prs
      BY DEF OpenPR, HeadBranch, Holds
    <2> QED BY <2>1, <2>2, <2>3, <2>4
  <1>2. PRsInTurn(j)'
    BY <1>1, NoPRYet
  <1> QED BY <1>2, WorkerSettles

-----------------------------------------------------------------------------
(* A worker gets a job and hands it to CI *)

\* A worker that has posted the comment is about no job any more.
LEMMA EscalateTurn ==
  ASSUME TurnFacts, NEW w \in Workers, Escalate(w), NEW j \in Jobs
  PROVE  InTurn(j)'
  <1>0. Inv /\ InTurn(j) /\ AnyStep(w)
    BY DEF TurnFacts, Facts, TurnInv, AnyStep, WorkerAdvances
  <1>1. /\ UNCHANGED <<locks, green, red, hooks, router, client, job, queue, tip,
                       clean, prs, running>>
        /\ worker[w].pc = "escalate" /\ Done(w)
    BY DEF Escalate, At, dbVars, redisVars, ciVars, apiVars
  <1>2. worker'[w].pc = "idle" /\ \A v \in Workers : v # w => worker'[v] = worker[v]
    BY <1>0, <1>1, DoneMoves, StepShape
  <1>3. \A v \in Workers : Engaged(v, j) \/ Engaged(v, j)' => worker'[v] = worker[v]
    BY <1>1, <1>2 DEF Engaged
  <1>4. Untouched(j)
    BY <1>1, <1>3 DEF Untouched, Asks, Requests, Reads, Tests, Reports, Ended
  <1>5. TasksKept(j)
    <2>1. \A i \in DOMAIN queue : i \in Nat /\ i + 0 = i
      BY <1>0 DEF Inv, TypeOK
    <2> QED BY <1>1, <2>1 DEF TasksKept
  <1> QED BY <1>0, <1>4, <1>5, UntouchedTurn

\* Whatever has a job, the job is not settled, and nobody restarts it.
LEMMA DriversMoveIt ==
  ASSUME TurnFacts, NEW j \in Jobs, NEW x \in Drivers(j)
  PROVE  /\ Exists(j) /\ job[j].status \in {"queued"} \union Underway
         /\ \A c \in Clients : ~Reads(c, j)
  <1>0. AskedInTurn(j) /\ RunsInTurn(j) /\ ReadersInTurn(j)
    BY DEF TurnFacts, TurnInv, InTurn
  <1>1. Exists(j) /\ job[j].status \in {"queued"} \union Underway
    <2>1. CASE \E h \in Handlers : Asks(h, j)
      BY <1>0, <2>1 DEF AskedInTurn, Waiting
    <2>2. CASE \E c \in Clients : Requests(c, j)
      BY <1>0, <2>2 DEF AskedInTurn, Waiting
    <2>3. CASE \E i \in DOMAIN queue : queue[i].job = j
      BY <1>0, <2>3, TaskMoves DEF AskedInTurn
    <2>4. CASE \E w \in Workers : Holds(w, j)
      BY <2>4, WorkerMovesIt
    <2>5. CASE \E r \in running : Tests(r, j)
      BY <1>0, <2>5 DEF RunsInTurn, RunInTurn, Tests, InRepair
    <2>6. CASE \E r \in hooks : Reports(r, j)
      BY <1>0, <2>6 DEF RunsInTurn, ReportInTurn, Reports, InRepair
    <2> QED BY <2>1, <2>2, <2>3, <2>4, <2>5, <2>6, DriversAre
  <1>2. \A c \in Clients : ~Reads(c, j)
    BY <1>0, <1>1 DEF ReadersInTurn, Retryable, Underway
  <1> QED BY <1>1, <1>2

\* While a push is not recorded, its run has the job.
LEMMA PushWaits ==
  ASSUME TurnFacts, NEW w \in Workers, worker[w].pc = "pushed",
         NEW j \in Jobs, JobOf(w) = j
  PROVE  \E r \in running : Tests(r, j) /\ <<"run", r>> \in Drivers(j)
  <1>1. PICK f \in Workflows : TRUE
    BY WorkflowsAssumption
  <1> PICK r : r = [job |-> j, patch |-> worker[w].patch, wf |-> f]
    OBVIOUS
  <1>2. r \in running /\ Tests(r, j)
    BY <1>1 DEF TurnFacts, RestartInv, PushedRun, Tests
  <1> QED BY <1>2, DriversAre

LEMMA TakeTaskTurn ==
  ASSUME TurnFacts, NEW w \in Workers, TakeTask(w), NEW j \in Jobs,
         queue[1].job = j
  PROVE  InTurn(j)'
  <1>0. Inv /\ InTurn(j) /\ AnyStep(w)
    BY DEF TurnFacts, Facts, TurnInv, AnyStep, WorkerAdvances
  <1>1. /\ worker[w].pc = "idle" /\ 1 \in DOMAIN queue
        /\ worker'[w].pc = "start" /\ worker'[w].task = queue[1]
        /\ \A i \in DOMAIN queue' : /\ i + 1 \in DOMAIN queue /\ i + 1 # 1
                                    /\ queue'[i] = queue[i + 1]
        /\ \A v \in Workers : v # w => worker'[v] = worker[v]
    BY <1>0, TakenTask, StepShape
  <1>2. UNCHANGED <<locks, green, red, hooks, router, client, job, tip, clean,
                    prs, running>>
    BY DEF TakeTask, dbVars, repoVars, ciVars, apiVars
  <1>3. <<"task", 1>> \in Drivers(j)
    BY <1>1, DriversAre
  <1>4. /\ \A h \in Handlers : ~Asks(h, j)
        /\ \A c \in Clients : ~Requests(c, j)
        /\ \A i \in DOMAIN queue : queue[i].job = j => i = 1
        /\ \A v \in Workers : ~Holds(v, j)
        /\ \A r \in running : ~Tests(r, j)
        /\ \A r \in hooks : ~Reports(r, j)
    BY <1>0, <1>3, NothingElse DEF InTurn
  <1>5. \A v \in Workers : worker[v].pc = "pushed" => JobOf(v) # j
    BY <1>4, PushWaits
  <1>6. /\ \A h \in Handlers : ~Asks(h, j)'
        /\ \A c \in Clients : ~Requests(c, j)'
        /\ \A i \in DOMAIN queue' : queue'[i].job # j
        /\ \A v \in Workers : Holds(v, j)' => v = w
        /\ \A r \in running' : ~Tests(r, j)'
        /\ \A r \in hooks' : ~Reports(r, j)'
        /\ \A v \in Workers : worker'[v].pc = "pushed" => JobOf(v)' # j
    BY <1>1, <1>2, <1>4, <1>5
       DEF Asks, Requests, Tests, Reports, Ended, Holds, JobOf
  <1>7. OneHand(j)'
    <2>1. \A x : x \in Drivers(j)' => x = <<"worker", w>>
      BY <1>6 DEF Drivers, Asks, Requests, Holds, Tests, Reports
    <2> QED BY <2>1 DEF OneHand
  <1>8. OnePush(j)' /\ AskedInTurn(j)' /\ RunsInTurn(j)'
    BY <1>6 DEF OnePush, AskedInTurn, RunsInTurn
  <1>9. TaskInTurn(worker[w].task)'
    <2>1. TaskInTurn(queue[1])
      BY <1>0, <1>1 DEF InTurn, AskedInTurn
    <2> PICK t : t = queue[1]
      OBVIOUS
    <2>2. TaskInTurn(t) /\ worker'[w].task = t
      BY <1>1, <2>1
    <2> QED BY <1>2, <2>2 DEF TaskInTurn, Answered, Waiting, InRepair, Exists
  <1>10. WorkersInTurn(j)'
    <2> SUFFICES ASSUME NEW v \in Workers, worker'[v].pc # "idle", JobOf(v)' = j
                 PROVE  WorkerInTurn(v)'
      BY DEF WorkersInTurn
    <2>1. CASE worker'[v].pc = "escalate"
      BY <2>1 DEF WorkerInTurn, AfterRedRun, AfterGreenRun, TryPoints
    <2>2. CASE worker'[v].pc # "escalate"
      <3>1. v = w
        BY <1>6, <2>2 DEF Holds
      <3> QED BY <1>1, <1>9, <3>1
              DEF WorkerInTurn, AfterRedRun, AfterGreenRun, TryPoints
    <2> QED BY <2>1, <2>2
  <1>11. ReadersInTurn(j)'
    <2>1. \A c \in Clients : ~Reads(c, j)'
      BY <1>2, <1>3, DriversMoveIt DEF Reads
    <2> QED BY <2>1 DEF ReadersInTurn
  <1>12. PRsInTurn(j)' /\ (Waiting(j)' => job'[j].retries = 0)
    <2>1. \A v \in Workers : worker[v].pc = "opened" => worker'[v] = worker[v]
      BY <1>1
    <2> QED BY <1>0, <1>2, <2>1
            DEF InTurn, PRsInTurn, Verified, Waiting, Exists, JobOf
  <1> QED BY <1>7, <1>8, <1>10, <1>11, <1>12 DEF InTurn

\* The push hands the job over to the one run it starts.
LEMMA PushPatchTurn ==
  ASSUME TurnFacts, Orderly, NEW w \in Workers, NEW ft \in FailureTypes,
         PushPatch(w, ft), NEW j \in Jobs, Holds(w, j)
  PROVE  InTurn(j)'
  <1>0. Inv /\ TypeOK /\ AnyStep(w) /\ JobOf(w) = j /\ worker[w].pc = "graph"
    BY DEF TurnFacts, Facts, Inv, AnyStep, WorkerAdvances, Holds, PushPatch, At
  <1> PICK p : p = patches[j] + 1
    OBVIOUS
  <1>1. PICK f : Workflows = {f}
    BY DEF Orderly
  <1> PICK r : r = [job |-> j, patch |-> p, wf |-> f]
    OBVIOUS
  <1>2. /\ tip'[j] = p
        /\ running' = running \union {r}
        /\ worker'[w].pc = "pushed" /\ worker'[w].patch = p
        /\ worker'[w].loaded = worker[w].loaded
        /\ worker'[w].task = worker[w].task
    <2>1. /\ tip' = [tip EXCEPT ![j] = p]
          /\ worker' = [worker EXCEPT ![w].pc = "pushed", ![w].patch = p,
                                      ![w].ft = ft]
      BY <1>0 DEF PushPatch
    <2>2. running' = running \union {r}
      BY <1>0, <1>1 DEF PushPatch
    <2> QED BY <1>0, <2>1, <2>2 DEF TypeOK, WorkerStates
  <1>3. UNCHANGED <<locks, green, red, hooks, router, client, job, queue, prs>>
    BY DEF PushPatch, dbVars, redisVars, apiVars
  <1>4. \A v \in Workers : v # w => worker'[v] = worker[v]
    BY <1>0, StepShape
  <1>5. /\ \A h \in Handlers : ~Asks(h, j)
        /\ \A c \in Clients : ~Requests(c, j)
        /\ \A i \in DOMAIN queue : queue[i].job # j
        /\ \A v \in Workers : Holds(v, j) => v = w
        /\ \A q \in running : ~Tests(q, j)
        /\ \A q \in hooks : ~Reports(q, j)
        /\ \A v \in Workers : worker[v].pc = "pushed" => JobOf(v) # j
    BY WorkerAlone
  <1>6. /\ \A h \in Handlers : ~Asks(h, j)'
        /\ \A c \in Clients : ~Requests(c, j)'
        /\ \A i \in DOMAIN queue' : queue'[i].job # j
        /\ \A v \in Workers : ~Holds(v, j)'
        /\ \A q \in running' : Tests(q, j)' => q = r
        /\ \A q \in hooks' : ~Reports(q, j)'
        /\ \A v \in Workers : worker'[v].pc = "pushed" /\ JobOf(v)' = j => v = w
    BY <1>2, <1>3, <1>4, <1>5
       DEF Asks, Requests, Tests, Reports, Ended, Holds, JobOf
  <1>7. OneHand(j)'
    <2>1. \A x : x \in Drivers(j)' => x = <<"run", r>>
      BY <1>6 DEF Drivers, Asks, Requests, Holds, Tests, Reports
    <2> QED BY <2>1 DEF OneHand
  <1>8. OnePush(j)' /\ AskedInTurn(j)'
    BY <1>6 DEF OnePush, AskedInTurn
  <1>9. /\ InRepair(j) /\ worker[w].loaded = job[j]
        /\ \A c \in Clients : ~Reads(c, j)
        /\ \A t \in FailureTypes : <<j, t>> \notin prs
    BY <1>0, WorkerMovesIt DEF WorkerInTurn, TryPoints, WorkerPCs
  <1>10. InRepair(j)' /\ ~Waiting(j)'
    BY <1>3, <1>9 DEF InRepair, Waiting, Exists, Underway
  <1>11. RunsInTurn(j)'
    <2>1. JobOf(w)' = j /\ r.job = j /\ r.patch = p
      BY <1>0, <1>2 DEF JobOf
    <2>2. RunInTurn(r)'
      BY <1>2, <1>10, <2>1 DEF RunInTurn
    <2> QED BY <1>6, <2>2 DEF RunsInTurn
  <1>12. WorkersInTurn(j)'
    <2> SUFFICES ASSUME NEW v \in Workers, worker'[v].pc # "idle", JobOf(v)' = j
                 PROVE  WorkerInTurn(v)'
      BY DEF WorkersInTurn
    <2>1. CASE worker'[v].pc = "escalate"
      BY <2>1 DEF WorkerInTurn, AfterRedRun, AfterGreenRun, TryPoints
    <2>2. CASE worker'[v].pc # "escalate"
      <3>1. v = w
        BY <1>6, <2>2 DEF Holds
      <3>2. worker'[w].loaded = job'[j]
        BY <1>2, <1>3, <1>9
      <3> QED BY <1>2, <1>10, <2>2, <3>1, <3>2
              DEF WorkerInTurn, AfterRedRun, AfterGreenRun
    <2> QED BY <2>1, <2>2
  <1>13. ReadersInTurn(j)' /\ PRsInTurn(j)'
    BY <1>3, <1>9 DEF ReadersInTurn, Reads, PRsInTurn
  <1> QED BY <1>7, <1>8, <1>10, <1>11, <1>12, <1>13 DEF InTurn

\* The record of the push lets the run's webhook be understood.
LEMMA RecordAttemptTurn ==
  ASSUME TurnFacts, NEW w \in Workers, RecordAttempt(w), NEW j \in Jobs,
         JobOf(w) = j
  PROVE  InTurn(j)'
  <1>0. /\ Facts /\ Inv /\ InTurn(j) /\ AnyStep(w) /\ worker[w].pc = "pushed"
        /\ Done(w)
    BY DEF TurnFacts, Facts, TurnInv, AnyStep, WorkerAdvances, RecordAttempt, At
  <1>1. UNCHANGED <<locks, green, red, hooks, router, client, queue, tip, clean,
                    prs, running>>
    BY DEF RecordAttempt, redisVars, repoVars, ciVars, apiVars
  <1>2. worker'[w].pc = "idle" /\ \A v \in Workers : v # w => worker'[v] = worker[v]
    BY <1>0, DoneMoves, StepShape
  <1>3. PICK r \in running : Tests(r, j) /\ <<"run", r>> \in Drivers(j)
    BY <1>0, PushWaits
  <1>4. /\ \A h \in Handlers : ~Asks(h, j)
        /\ \A c \in Clients : ~Requests(c, j)
        /\ \A i \in DOMAIN queue : queue[i].job # j
        /\ \A v \in Workers : ~Holds(v, j)
        /\ \A q \in running : Tests(q, j) => <<"run", q>> = <<"run", r>>
        /\ \A q \in hooks : ~Reports(q, j)
    BY <1>0, <1>3, NothingElse DEF InTurn
  <1>5. /\ \A h \in Handlers : ~Asks(h, j)'
        /\ \A c \in Clients : ~Requests(c, j)'
        /\ \A i \in DOMAIN queue' : queue'[i].job # j
        /\ \A v \in Workers : ~Holds(v, j)'
        /\ \A q \in running' : Tests(q, j)' => q = r
        /\ \A q \in hooks' : ~Reports(q, j)'
    BY <1>1, <1>2, <1>4 DEF Asks, Requests, Tests, Reports, Ended, Holds, JobOf
  <1>6. \A v \in Workers : ~(worker'[v].pc = "pushed" /\ JobOf(v)' = j)
    BY <1>0, <1>2 DEF InTurn, OnePush, JobOf
  <1>7. OneHand(j)'
    <2>1. \A x : x \in Drivers(j)' => x = <<"run", r>>
      BY <1>5 DEF Drivers, Asks, Requests, Holds, Tests, Reports
    <2> QED BY <2>1 DEF OneHand
  <1>8. OnePush(j)' /\ AskedInTurn(j)'
    BY <1>5, <1>6 DEF OnePush, AskedInTurn
  <1>9. /\ InRepair(j) /\ worker[w].loaded = job[j]
        /\ \A c \in Clients : ~Reads(c, j)
        /\ r.job = j /\ RunInTurn(r)
    <2>1. WorkerInTurn(w) /\ RunInTurn(r) /\ r.job = j
      BY <1>0, <1>3 DEF InTurn, WorkersInTurn, RunsInTurn, Tests
    <2> QED BY <1>0, <1>3, <2>1, DriversMoveIt DEF WorkerInTurn, TryPoints, WorkerPCs
  <1>10. InRepair(j)' /\ ~Waiting(j)' /\ job'[j].tracked
    <2>1. job'[j].status = job[j].status
      BY <1>0, RecordKeepsStatus
    <2>2. job'[j] # None
      BY <1>0, <1>9, WorkerColumns DEF RunsStay, InRepair
    <2>3. job[j].tracked => job'[j].tracked
      BY <1>0, <1>9, WorkersKeepTrack DEF InRepair
    <2>4. ~job[j].tracked => job'[j].tracked
      BY <1>0, <1>9, RecordTracks
    <2> QED BY <1>9, <2>1, <2>2, <2>3, <2>4
            DEF InRepair, Waiting, Exists, Underway
  <1>11. RunsInTurn(j)'
    <2>1. RunInTurn(r)'
      BY <1>1, <1>9, <1>10 DEF RunInTurn
    <2> QED BY <1>5, <2>1 DEF RunsInTurn
  <1>12. WorkersInTurn(j)'
    <2> SUFFICES ASSUME NEW v \in Workers, worker'[v].pc # "idle", JobOf(v)' = j
                 PROVE  WorkerInTurn(v)'
      BY DEF WorkersInTurn
    <2>1. worker'[v].pc = "escalate"
      BY <1>5, <1>6 DEF Holds
    <2> QED BY <2>1 DEF WorkerInTurn, AfterRedRun, AfterGreenRun, TryPoints
  <1>13. ReadersInTurn(j)'
    BY <1>1, <1>9 DEF ReadersInTurn, Reads
  <1>14. PRsInTurn(j)'
    <2>1. \A ft \in FailureTypes : <<j, ft>> \notin prs
      <3>1. \A v \in Workers : ~(worker[v].pc = "opened" /\ JobOf(v) = j)
        BY <1>4 DEF Holds
      <3> QED BY <1>0, <1>9, <3>1 DEF InTurn, PRsInTurn, InRepair, Underway
    <2> QED BY <1>1, <2>1 DEF PRsInTurn
  <1> QED BY <1>7, <1>8, <1>10, <1>11, <1>12, <1>13, <1>14 DEF InTurn

\* Whatever the worker that has j does.
LEMMA HolderStepTurn ==
  ASSUME TurnFacts, Orderly, NEW w \in Workers, AnyStep(w), NEW j \in Jobs,
         Holds(w, j)
  PROVE  InTurn(j)'
  <1>1. ~TakeTask(w) /\ ~RecordAttempt(w) /\ ~Escalate(w) /\ ~WorkerCrashes(w)
    BY DEF Holds, TakeTask, RecordAttempt, Escalate, At, WorkerCrashes, Orderly
  <1>2. \/ Settles(w) \/ StartExhausted(w)
        \/ StartInitial(w) \/ StartGreen(w) \/ StartRed(w)
        \/ StampRed(w) \/ ReadRetries(w) \/ BumpRetry(w)
        \/ FetchInternal(w) \/ PushClean(w) \/ OpenPR(w)
        \/ \E ft \in FailureTypes : PushPatch(w, ft)
    BY <1>1 DEF AnyStep, WorkerAdvances, Settles
  <1>3. CASE Settles(w) \/ StartExhausted(w)
    BY <1>3, CommitPRTurn, GivesUpTurn
  <1>4. CASE StartInitial(w) \/ StartGreen(w) \/ StartRed(w)
    BY <1>4, StartInitialTurn, StartCompletionTurn
  <1>5. CASE StampRed(w) \/ ReadRetries(w) \/ BumpRetry(w)
    BY <1>5, StampRedTurn, ReadRetriesTurn, BumpRetryTurn
  <1>6. CASE FetchInternal(w) \/ PushClean(w) \/ OpenPR(w)
    BY <1>6, FetchInternalTurn, PushCleanTurn, OpenPRTurn
  <1>7. CASE \E ft \in FailureTypes : PushPatch(w, ft)
    BY <1>7, PushPatchTurn
  <1> QED BY <1>2, <1>3, <1>4, <1>5, <1>6, <1>7

LEMMA WorkerStepTurn ==
  ASSUME TurnFacts, Orderly, NEW w \in Workers, AnyStep(w), NEW j \in Jobs
  PROVE  InTurn(j)'
  <1>0. Facts /\ Inv /\ InTurn(j)
    BY DEF TurnFacts, Facts, TurnInv
  <1>1. CASE TakeTask(w)
    <2>1. worker[w].pc = "idle"
      BY <1>1 DEF TakeTask, At
    <2>2. CASE queue[1].job = j
      BY <1>1, <2>2, TakeTaskTurn
    <2>3. CASE queue[1].job # j
      BY <1>0, <2>1, <2>3, WorkerStepUntouched, UntouchedTurn
    <2> QED BY <2>2, <2>3
  <1>2. CASE ~TakeTask(w)
    <2>1. worker[w].pc # "idle"
      BY <1>0, <1>2, StepShape, GoesOnShape
    <2>2. CASE JobOf(w) # j
      BY <1>0, <1>2, <2>2, WorkerStepUntouched, UntouchedTurn
    <2>3. CASE JobOf(w) = j
      <3>1. CASE worker[w].pc = "pushed"
        <4>1. RecordAttempt(w)
          BY <3>1 DEF AnyStep, WorkerAdvances, TakeTask, StartInitial, StartGreen,
             StartExhausted, StartRed, Completes, StampRed, ReadRetries,
             BumpRetry, DropOut,
             PushPatch, RejectPatch, FetchInternal, PushClean, OpenPR, CommitPR,
             Escalate, Raise, WorkerCrashes, At, Orderly, CallPoints
        <4> QED BY <2>3, <4>1, RecordAttemptTurn
      <3>2. CASE worker[w].pc = "escalate"
        <4>1. Escalate(w)
          BY <3>2 DEF AnyStep, WorkerAdvances, TakeTask, StartInitial, StartGreen,
             StartExhausted, StartRed, Completes, StampRed, ReadRetries,
             BumpRetry, DropOut,
             PushPatch, RejectPatch, FetchInternal, PushClean, OpenPR, CommitPR,
             RecordAttempt, Raise, WorkerCrashes, At, Orderly, CallPoints
        <4> QED BY <4>1, EscalateTurn
      <3>3. CASE worker[w].pc \notin {"pushed", "escalate"}
        BY <2>1, <2>3, <3>3, HolderStepTurn DEF Holds
      <3> QED BY <3>1, <3>2, <3>3
    <2> QED BY <2>2, <2>3
  <1> QED BY <1>1, <1>2

-----------------------------------------------------------------------------
(* The steps of the others *)

\* What the others never touch, and what is as good as not touched: the
\* faults that Orderly excludes.
LEMMA OthersLeave ==
  ASSUME Inv, Orderly, GitHubStep \/ RouterStep \/ ApiStep
  PROVE  /\ UNCHANGED <<worker, tip, clean, prs>>
         /\ ~(\E e \in hooks : LoseHook(e)) /\ ~(\E r \in locks : LockExpires(r))
         /\ ~(\E h \in Handlers : IntakeRaises(h) \/ HandlerCrashes(h))
         /\ ~(\E c \in Clients : RetryFails(c))
  <1>1. UNCHANGED <<worker, tip, clean, prs>>
    BY OtherSteps
  <1> QED BY <1>1 DEF Orderly, LoseHook, LockExpires, IntakeRaises, HandlerCrashes,
                      RetryFails

\* Such a step leaves alone a job of which it changes neither the row nor what
\* is asked for, run or reported.
LEMMA OthersUntouched ==
  ASSUME Inv, NEW k \in Jobs, UNCHANGED <<worker, tip, clean, prs>>,
         job'[k] = job[k], green \subseteq green', red \subseteq red',
         \A h \in Handlers : Asks(h, k)' => Asks(h, k),
         \A c \in Clients : Requests(c, k)' => Requests(c, k),
         \A c \in Clients : Reads(c, k)' =>
           \/ Reads(c, k) /\ client'[c].loaded = client[c].loaded
           \/ client'[c].loaded = job[k] /\ job[k].status \in Retryable,
         \A r \in running' : Tests(r, k)' => r \in running,
         \A r \in hooks' : Reports(r, k)' => r \in hooks /\ Reports(r, k),
         \A i \in DOMAIN queue' : queue'[i].job = k =>
           i \in DOMAIN queue /\ queue'[i] = queue[i],
         InTurn(k)
  PROVE  InTurn(k)'
  <1>1. Untouched(k)
    BY DEF Untouched
  <1>2. TasksKept(k)
    <2>1. \A i \in DOMAIN queue : i \in Nat /\ i + 0 = i
      BY DEF Inv, TypeOK
    <2> QED BY <2>1 DEF TasksKept
  <1> QED BY <1>1, <1>2, UntouchedTurn

\* A job that no worker has and that is not being tested.
LEMMA NoWorkerHasIt ==
  ASSUME TurnFacts, NEW j \in Jobs, \A w \in Workers : ~Holds(w, j),
         \A r \in running : ~Tests(r, j)
  PROVE  \A w \in Workers :
           worker[w].pc # "idle" /\ JobOf(w) = j => worker[w].pc = "escalate"
  BY PushWaits DEF Holds

LEMMA HandsFreeTurn ==
  ASSUME NEW j \in Jobs, UNCHANGED worker,
         \A w \in Workers :
           worker[w].pc # "idle" /\ JobOf(w) = j => worker[w].pc = "escalate",
         OneHand(j)', AskedInTurn(j)', RunsInTurn(j)', ReadersInTurn(j)',
         Waiting(j)' => job'[j].retries = 0, PRsInTurn(j)'
  PROVE  InTurn(j)'
  <1>1. OnePush(j)'
    BY DEF OnePush, JobOf
  <1>2. WorkersInTurn(j)'
    BY DEF WorkersInTurn, WorkerInTurn, AfterRedRun, AfterGreenRun, TryPoints, JobOf
  <1> QED BY <1>1, <1>2 DEF InTurn

\* A request or a report becomes a task.
LEMMA EnqueuedTurn ==
  ASSUME TurnFacts, NEW j \in Jobs, NEW t \in Tasks, t.job = j, TaskInTurn(t),
         queue' = Append(queue, t),
         UNCHANGED <<job, worker, tip, clean, prs, running, green, red>>,
         NEW x \in Drivers(j), x[1] \in {"handler", "client", "hook"},
         \A h \in Handlers : ~Asks(h, j)',
         \A c \in Clients : ~Requests(c, j)' /\ (Reads(c, j)' => Reads(c, j)),
         \A r \in hooks' : ~Reports(r, j)'
  PROVE  InTurn(j)'
  <1>0. Inv /\ InTurn(j)
    BY DEF TurnFacts, Facts, TurnInv
  <1>1. /\ \A i \in DOMAIN queue : queue[i].job # j
        /\ \A w \in Workers : ~Holds(w, j)
        /\ \A r \in running : ~Tests(r, j)
    BY <1>0, NothingElse DEF InTurn
  <1> PICK n : n = Len(queue) + 1
    OBVIOUS
  <1>2. /\ \A i \in DOMAIN queue' : queue'[i].job = j => i = n
        /\ n \in DOMAIN queue' => queue'[n] = t
    BY <1>0, <1>1, AppendedTask
  <1>3. OneHand(j)'
    <2>1. \A w \in Workers : ~Holds(w, j)'
      BY <1>1 DEF Holds, JobOf
    <2>2. \A r \in running' : ~Tests(r, j)'
      BY <1>1 DEF Tests
    <2>3. \A y : y \in Drivers(j)' => y = <<"task", n>>
      BY <1>2, <2>1, <2>2 DEF Drivers, Asks, Requests, Holds, Tests, Reports
    <2> QED BY <2>3 DEF OneHand
  <1>4. AskedInTurn(j)'
    <2>1. \A i \in DOMAIN queue' : queue'[i].job = j => queue'[i] = t
      BY <1>2
    <2>2. ASSUME NEW i \in DOMAIN queue', queue'[i].job = j
          PROVE  TaskInTurn(queue[i])'
      BY <2>1, <2>2 DEF TaskInTurn, Answered, Waiting, InRepair, Exists
    <2> QED BY <2>2 DEF AskedInTurn
  <1>5. RunsInTurn(j)'
    BY <1>1 DEF RunsInTurn, Tests
  <1>6. ReadersInTurn(j)'
    BY DriversMoveIt DEF ReadersInTurn
  <1>7. PRsInTurn(j)' /\ (Waiting(j)' => job'[j].retries = 0)
    BY <1>0 DEF InTurn, PRsInTurn, Verified, Waiting, Exists, JobOf
  <1> QED BY <1>1, <1>3, <1>4, <1>5, <1>6, <1>7, NoWorkerHasIt, HandsFreeTurn

\* A run that ends hands the job to its webhook.
LEMMA RunEndsTurn ==
  ASSUME TurnFacts, Orderly, NEW r \in running, RunEnds(r), NEW j \in Jobs,
         r.job = j
  PROVE  InTurn(j)'
  <1>0. Facts /\ Inv /\ TypeOK /\ InTurn(j) /\ r \in RunIds
    BY DEF TurnFacts, Facts, Inv, TypeOK, TurnInv
  <1>1. /\ UNCHANGED <<job, queue, locks, worker, router, client, tip, clean, prs>>
        /\ running' = running \ {r} /\ hooks' = hooks \union {r}
        /\ green \subseteq green' /\ Ended' = Ended \union {r}
    BY DEF RunEnds, dbVars, redisVars, repoVars, apiVars, Ended
  <1>2. <<"run", r>> \in Drivers(j)
    BY DriversAre DEF Tests
  <1>3. /\ \A h \in Handlers : ~Asks(h, j)
        /\ \A c \in Clients : ~Requests(c, j)
        /\ \A i \in DOMAIN queue : queue[i].job # j
        /\ \A w \in Workers : ~Holds(w, j)
        /\ \A q \in running : Tests(q, j) => q = r
        /\ \A q \in hooks : ~Reports(q, j)
    <2>1. OneHand(j)
      BY <1>0 DEF InTurn
    <2>2. \A q \in running : Tests(q, j) => <<"run", q>> = <<"run", r>>
      BY <1>2, <2>1, NothingElse
    <2> QED BY <1>2, <2>1, <2>2, NothingElse
  <1>4. RunInTurn(r)
    BY <1>0 DEF InTurn, RunsInTurn, Tests
  <1>5. \A w \in Workers : ~(worker[w].pc = "pushed" /\ JobOf(w) = j)
    <2> SUFFICES ASSUME NEW w \in Workers, worker[w].pc = "pushed", JobOf(w) = j
                 PROVE  FALSE
      OBVIOUS
    <2>1. worker[w].patch = r.patch
      BY <1>0, <1>4 DEF InTurn, WorkersInTurn, WorkerInTurn, RunInTurn
    <2> QED BY <2>1 DEF RunEnds, OutlastsCommit, Orderly, JobOf
  <1>6. ReportInTurn(r)'
    BY <1>1, <1>4, <1>5 DEF RunInTurn, ReportInTurn, InRepair, Exists
  <1>7. /\ \A q \in running' : ~Tests(q, j)'
        /\ \A q \in hooks' : Reports(q, j)' => q = r
    BY <1>1, <1>3 DEF Tests, Reports
  <1>8. OneHand(j)'
    <2>1. \A x : x \in Drivers(j)' => x = <<"hook", r>>
      BY <1>1, <1>3, <1>7 DEF Drivers, Asks, Requests, Holds, Tests, Reports, JobOf
    <2> QED BY <2>1 DEF OneHand
  <1>9. AskedInTurn(j)'
    BY <1>1, <1>3 DEF AskedInTurn, Asks, Requests
  <1>10. RunsInTurn(j)'
    BY <1>6, <1>7 DEF RunsInTurn
  <1>11. ReadersInTurn(j)' /\ (Waiting(j)' => job'[j].retries = 0) /\ PRsInTurn(j)'
    BY <1>0, <1>1
       DEF InTurn, ReadersInTurn, Reads, Waiting, Exists, PRsInTurn, Verified, JobOf
  <1>12. \A w \in Workers :
           worker[w].pc # "idle" /\ JobOf(w) = j => worker[w].pc = "escalate"
    BY <1>3, <1>5 DEF Holds
  <1> QED BY <1>1, <1>8, <1>9, <1>10, <1>11, <1>12, HandsFreeTurn

LEMMA GitHubStepTurn ==
  ASSUME TurnFacts, Orderly, GitHubStep, NEW j \in Jobs
  PROVE  InTurn(j)'
  <1>0. Facts /\ Inv /\ TypeOK /\ InTurn(j) /\ VerdictsKept
    BY DEF TurnFacts, Facts, Inv, TurnInv
  <1>1. UNCHANGED <<job, queue, locks, worker, router, client, tip, clean, prs>>
    BY DEF GitHubStep, DevRunFails, RunEnds, Redeliver, LoseHook, dbVars, redisVars,
           repoVars, apiVars
  <1>2. ASSUME green \subseteq green', red \subseteq red', running' \subseteq running,
               \A r \in hooks' : Reports(r, j)' => r \in hooks /\ Reports(r, j)
        PROVE  InTurn(j)'
    BY <1>0, <1>1, <1>2, OthersUntouched DEF Asks, Requests, Reads
  <1>3. ASSUME NEW d \in DevRuns, DevRunFails(d)
        PROVE  InTurn(j)'
    <2>1. d \notin Ended
      BY <1>0, RunsApart DEF TypeOK, Ended
    <2> QED BY <1>1, <1>2, <1>3, <2>1 DEF DevRunFails, Reports, Ended
  <1>4. ASSUME NEW r \in running, RunEnds(r)
        PROVE  InTurn(j)'
    <2>1. CASE r.job = j
      BY <1>4, <2>1, RunEndsTurn
    <2>2. CASE r.job # j
      BY <1>1, <1>2, <1>4, <2>2 DEF RunEnds, Reports, Ended
    <2> QED BY <2>1, <2>2
  <1>5. ASSUME NEW e \in devFailed \union Ended, Redeliver(e)
        PROVE  InTurn(j)'
    <2>1. e \in Ended => e \in locks
      BY <1>0, <1>5 DEF VerdictsKept, Redeliver
    <2> QED BY <1>1, <1>2, <1>5, <2>1 DEF Redeliver, Reports, Ended
  <1>6. ~(\E e \in hooks : LoseHook(e))
    BY <1>0, OthersLeave
  <1> QED BY <1>3, <1>4, <1>5, <1>6 DEF GitHubStep

-----------------------------------------------------------------------------
(* The webhook handlers *)

\* A handler that gives back the lock of a developer run, or takes it, is
\* about no job yet.
LEMMA IntakeTurn ==
  ASSUME TurnFacts, NEW h \in Handlers,
         (\E d \in hooks \intersect devFailed : ReceiveFailure(h, d))
           \/ SelectExisting(h),
         NEW j \in Jobs
  PROVE  InTurn(j)'
  <1>0. Inv /\ TypeOK /\ InTurn(j)
    BY DEF TurnFacts, Facts, Inv, TurnInv
  <1>1. /\ UNCHANGED <<job, queue, worker, client, tip, clean, prs, running,
                       green, red>>
        /\ hooks' \subseteq hooks
    BY DEF ReceiveFailure, SelectExisting, dbVars, repoVars, ciVars, apiVars
  <1>2. \A g \in Handlers : Asks(g, j)' => Asks(g, j)
    <2>1. CASE \E d : router' = [router EXCEPT ![h] =
                                  [pc |-> "select", run |-> d, job |-> None]]
      BY <1>0, <2>1 DEF Asks, TypeOK
    <2>2. CASE router[h].pc = "select"
               /\ router' = [router EXCEPT ![h].pc = "insert"]
      BY <1>0, <2>2 DEF Asks, TypeOK, HandlerStates
    <2>3. CASE HandlerEnds(h)
      BY <1>0, <2>3 DEF HandlerEnds, IdleHandler, Asks, TypeOK
    <2>4. CASE UNCHANGED router
      BY <2>4 DEF Asks
    <2> QED BY <2>1, <2>2, <2>3, <2>4 DEF ReceiveFailure, SelectExisting, HandlerAt
  <1>3. \A r \in hooks' : Reports(r, j)' => r \in hooks /\ Reports(r, j)
    <2>1. \A r \in RunIds : r \in locks => r \in locks'
      <3>1. CASE \E d \in hooks \intersect devFailed : ReceiveFailure(h, d)
        BY <3>1 DEF ReceiveFailure
      <3>2. CASE SelectExisting(h)
        <4>1. router[h].run \in DevRuns
          BY <1>0, <3>2 DEF SelectExisting, HandlerAt, Inv, NothingDangles,
                            HandlersHaveJobs
        <4> QED BY <3>2, <4>1, RunsApart DEF SelectExisting
      <3> QED BY <3>1, <3>2
    <2>2. Ended \subseteq RunIds
      BY <1>0 DEF TypeOK, Ended
    <2> QED BY <1>1, <2>1, <2>2 DEF Reports, Ended
  <1> QED BY <1>0, <1>1, <1>2, <1>3, OthersUntouched DEF Requests, Reads, Tests

\* A new job is the handler's.
LEMMA InsertedTurn ==
  ASSUME TurnFacts, NEW h \in Handlers, NEW d \in DevRuns, NEW j \in Jobs,
         job[j] = None, job'[j] = NewRow(d), job'[j] \in Row,
         router' = [router EXCEPT ![h].pc = "enqueue", ![h].job = j],
         UNCHANGED <<queue, locks, worker, client, tip, clean, prs, running,
                     green, red, hooks>>
  PROVE  InTurn(j)'
  <1>0. Inv /\ TypeOK /\ InTurn(j)
    BY DEF TurnFacts, Facts, Inv, TurnInv
  <1>1. \A x : x \notin Drivers(j)
    BY DriversMoveIt DEF Exists
  <1>2. /\ \A g \in Handlers : ~Asks(g, j)
        /\ \A c \in Clients : ~Requests(c, j)
        /\ \A i \in DOMAIN queue : queue[i].job # j
        /\ \A w \in Workers : ~Holds(w, j)
        /\ \A r \in running : ~Tests(r, j)
        /\ \A r \in hooks : ~Reports(r, j)
    BY <1>1, DriversAre
  <1>3. Waiting(j)' /\ job'[j].retries = 0
    <2>1. NewRow(d).status = "queued" /\ NewRow(d).retries = 0
      BY DEF NewRow
    <2>2. job'[j].status = "queued" /\ job'[j].retries = 0
      BY <2>1
    <2>3. job'[j] # None
      BY NoneIsNoRow
    <2> QED BY <2>2, <2>3 DEF Waiting, Exists
  <1>4. \A g \in Handlers : Asks(g, j)' => g = h
    BY <1>0, <1>2 DEF Asks, TypeOK, HandlerStates
  <1>5. OneHand(j)'
    <2>1. \A x : x \in Drivers(j)' => x = <<"handler", h>>
      BY <1>2, <1>4 DEF Drivers, Asks, Requests, Holds, Tests, Reports, JobOf, Ended
    <2> QED BY <2>1 DEF OneHand
  <1>6. AskedInTurn(j)' /\ RunsInTurn(j)'
    BY <1>2, <1>3 DEF AskedInTurn, RunsInTurn, Requests, Tests, Reports, Ended
  <1>7. \A w \in Workers : worker[w].pc # "idle" => JobOf(w) # j
    BY <1>0 DEF Inv, NothingDangles, WorkersHaveJobs, JobOf, Exists
  <1>8. ReadersInTurn(j)'
    BY <1>0 DEF ReadersInTurn, Reads, Inv, NothingDangles, ClientsHaveJobs, Exists
  <1>9. PRsInTurn(j)'
    <2>1. \A ft \in FailureTypes : <<j, ft>> \notin prs
      BY <1>0, <1>7 DEF InTurn, PRsInTurn, Exists
    <2> QED BY <2>1 DEF PRsInTurn
  <1> QED BY <1>3, <1>5, <1>6, <1>7, <1>8, <1>9, HandsFreeTurn

LEMMA InsertJobTurn ==
  ASSUME TurnFacts, NEW h \in Handlers, InsertJob(h), NEW j \in Jobs
  PROVE  InTurn(j)'
  <1>0. Inv /\ TypeOK /\ InTurn(j) /\ router[h].run \in DevRuns
    BY DEF TurnFacts, Facts, Inv, TurnInv, InsertJob, HandlerAt, NothingDangles,
           HandlersHaveJobs
  <1>1. UNCHANGED <<queue, worker, client, tip, clean, prs, running, green, red,
                    hooks>>
    BY DEF InsertJob, repoVars, ciVars, apiVars
  <1>2. Ended \subseteq RunIds
    BY <1>0 DEF TypeOK, Ended
  <1>3. CASE RunIsNew(router[h].run)
    <2>1. UNCHANGED locks
      BY <1>3 DEF InsertJob
    <2>2. PICK i \in Jobs :
            /\ job[i] = None /\ job' = [job EXCEPT ![i] = NewRow(router[h].run)]
            /\ router' = [router EXCEPT ![h].pc = "enqueue", ![h].job = i]
      BY <1>3 DEF InsertJob
    <2>3. CASE i = j
      <3>1. job'[j] = NewRow(router[h].run) /\ job'[j] \in Row
        BY <1>0, <2>2, <2>3, NewRowIsRow DEF TypeOK
      <3> QED BY <1>0, <1>1, <2>1, <2>2, <2>3, <3>1, InsertedTurn
    <2>4. CASE i # j
      <3>1. job'[j] = job[j]
        BY <1>0, <2>2, <2>4 DEF TypeOK
      <3>2. \A g \in Handlers : Asks(g, j)' => Asks(g, j)
        BY <1>0, <2>2, <2>4 DEF Asks, TypeOK, HandlerStates
      <3> QED BY <1>0, <1>1, <2>1, <3>1, <3>2, OthersUntouched
              DEF Requests, Reads, Tests, Reports, Ended
    <2> QED BY <2>3, <2>4
  <1>4. CASE ~RunIsNew(router[h].run)
    <2>1. job' = job /\ locks' = locks \ {router[h].run} /\ HandlerEnds(h)
      BY <1>4 DEF InsertJob
    <2>2. \A g \in Handlers : Asks(g, j)' => Asks(g, j)
      BY <1>0, <2>1 DEF HandlerEnds, Asks, IdleHandler, TypeOK, HandlerStates
    <2>3. \A r \in hooks' : Reports(r, j)' => r \in hooks /\ Reports(r, j)
      BY <1>0, <1>1, <1>2, <2>1, RunsApart DEF Reports, Ended
    <2> QED BY <1>0, <1>1, <2>1, <2>2, <2>3, OthersUntouched
            DEF Requests, Reads, Tests
  <1> QED BY <1>3, <1>4

LEMMA EnqueueInitialTurn ==
  ASSUME TurnFacts, NEW h \in Handlers, EnqueueInitial(h), NEW j \in Jobs
  PROVE  InTurn(j)'
  <1>0. Inv /\ TypeOK /\ InTurn(j) /\ router[h].job \in Jobs
    BY DEF TurnFacts, Facts, Inv, TurnInv, EnqueueInitial, HandlerAt,
           NothingDangles, HandlersHaveJobs
  <1>1. /\ UNCHANGED <<job, locks, worker, client, tip, clean, prs, running,
                       green, red, hooks>>
        /\ queue' = Append(queue, InitialTask(router[h].job))
        /\ router[h].pc = "enqueue" /\ router'[h].pc = "idle"
        /\ \A g \in Handlers : g # h => router'[g] = router[g]
    BY <1>0 DEF EnqueueInitial, HandlerAt, HandlerEnds, IdleHandler, dbVars,
                repoVars, ciVars, apiVars, TypeOK
  <1>2. \A g \in Handlers : Asks(g, j)' => g # h /\ Asks(g, j)
    BY <1>1 DEF Asks
  <1>3. CASE router[h].job = j
    <2>1. Asks(h, j) /\ <<"handler", h>> \in Drivers(j)
      BY <1>1, <1>3, DriversAre DEF Asks
    <2>2. /\ \A g \in Handlers : Asks(g, j) => <<"handler", g>> = <<"handler", h>>
          /\ \A c \in Clients : ~Requests(c, j)
          /\ \A r \in hooks : ~Reports(r, j)
      BY <1>0, <2>1, NothingElse DEF InTurn
    <2>3. \A g \in Handlers : ~Asks(g, j)'
      BY <1>2, <2>2
    <2>4. TaskInTurn(InitialTask(j))
      BY <1>0, <2>1, InitialTaskIsTask DEF InTurn, AskedInTurn, TaskInTurn
    <2>5. \A r \in hooks' : ~Reports(r, j)'
      BY <1>1, <2>2 DEF Reports, Ended
    <2> PICK x : x = <<"handler", h>>
      OBVIOUS
    <2>6. x \in Drivers(j) /\ x[1] = "handler"
      BY <2>1
    <2> QED BY <1>1, <1>3, <2>2, <2>3, <2>4, <2>5, <2>6, InitialTaskIsTask,
               EnqueuedTurn DEF Requests, Reads
  <1>4. CASE router[h].job # j
    <2>1. InitialTask(router[h].job) \in Tasks
          /\ InitialTask(router[h].job).job # j
      BY <1>0, <1>4, InitialTaskIsTask
    <2>2. \A i \in DOMAIN queue' : queue'[i].job = j =>
            i \in DOMAIN queue /\ queue'[i] = queue[i]
      BY <1>0, <1>1, <2>1, AppendedTask
    <2> QED BY <1>0, <1>1, <1>2, <2>2, OthersUntouched
            DEF Requests, Reads, Tests, Reports, Ended
  <1> QED BY <1>3, <1>4

\* A report is about a job that knows its branch.
LEMMA ReportIsKnown ==
  ASSUME TurnFacts, NEW r \in hooks \intersect Ended, r \notin locks
  PROVE  /\ r \in RunIds /\ r.job \in Jobs /\ Reports(r, r.job)
         /\ ReportInTurn(r) /\ KnownBranch(r)
  <1>1. r \in RunIds /\ r.job \in Jobs
    BY DEF TurnFacts, Facts, Inv, TypeOK, Ended, RunIds
  <1>2. Reports(r, r.job)
    BY DEF Reports
  <1>3. ReportInTurn(r)
    BY <1>1, <1>2 DEF TurnFacts, TurnInv, InTurn, RunsInTurn
  <1> QED BY <1>1, <1>2, <1>3 DEF ReportInTurn, KnownBranch, InRepair, Exists

\* The report of a run becomes the task that answers it.
LEMMA ReceiveCompletionTurn ==
  ASSUME TurnFacts, Orderly, NEW r \in hooks \intersect Ended,
         ReceiveCompletion(r), NEW j \in Jobs
  PROVE  InTurn(j)'
  <1>0. Inv /\ TypeOK /\ InTurn(j)
    BY DEF TurnFacts, Facts, Inv, TurnInv
  <1>1. /\ UNCHANGED <<job, worker, router, client, tip, clean, prs, running,
                       green, red>>
        /\ hooks' = hooks \ {r}
    BY DEF ReceiveCompletion, dbVars, repoVars, apiVars
  <1>2. CASE r \in locks
    <2>1. UNCHANGED <<queue, locks>>
      BY <1>2 DEF ReceiveCompletion, LockIsFree, redisVars
    <2> QED BY <1>0, <1>1, <2>1, OthersUntouched
            DEF Asks, Requests, Reads, Tests, Reports, Ended
  <1>3. CASE r \notin locks
    <2> PICK t : t = CompletionTask(r.job, r, Conclusion(r))
      OBVIOUS
    <2>1. /\ r \in RunIds /\ r.job \in Jobs /\ Reports(r, r.job)
          /\ ReportInTurn(r) /\ KnownBranch(r)
      BY <1>3, ReportIsKnown
    <2>2. locks' = locks \union {r} /\ queue' = Append(queue, t)
      BY <1>3, <2>1 DEF ReceiveCompletion, LockIsFree, Orderly
    <2>3. t \in Tasks /\ t.job = r.job
      BY <2>1, CompletionTaskIsTask DEF Conclusion, Conclusions
    <2>4. CASE r.job # j
      <3>1. \A i \in DOMAIN queue' : queue'[i].job = j =>
              i \in DOMAIN queue /\ queue'[i] = queue[i]
        BY <1>0, <2>2, <2>3, <2>4, AppendedTask
      <3> QED BY <1>0, <1>1, <2>2, <3>1, OthersUntouched
              DEF Asks, Requests, Reads, Tests, Reports, Ended
    <2>5. CASE r.job = j
      <3>1. TaskInTurn(t)
        <4>1. /\ t.fn = "completion" /\ t.run = r /\ t.concl = Conclusion(r)
              /\ t.job = r.job
          BY DEF CompletionTask
        <4>2. Conclusion(r) = "success" => r \in green
          BY DEF Conclusion
        <4>3. Conclusion(r) = "failure" => r \in red
          BY DEF Conclusion, Ended
        <4> QED BY <2>1, <4>1, <4>2, <4>3 DEF TaskInTurn, Answered, ReportInTurn
      <3>2. <<"hook", r>> \in Drivers(j)
        BY <2>1, <2>5, DriversAre
      <3>3. /\ \A h \in Handlers : ~Asks(h, j)
            /\ \A c \in Clients : ~Requests(c, j)
            /\ \A q \in hooks : Reports(q, j) => q = r
        <4>1. \A q \in hooks : Reports(q, j) => <<"hook", q>> = <<"hook", r>>
          BY <1>0, <3>2, NothingElse DEF InTurn
        <4> QED BY <1>0, <3>2, <4>1, NothingElse DEF InTurn
      <3>4. /\ \A h \in Handlers : ~Asks(h, j)'
            /\ \A c \in Clients : ~Requests(c, j)' /\ (Reads(c, j)' => Reads(c, j))
            /\ \A q \in hooks' : ~Reports(q, j)'
        BY <1>1, <2>2, <3>3 DEF Asks, Requests, Reads, Reports, Ended
      <3> PICK x : x = <<"hook", r>>
        OBVIOUS
      <3>5. x \in Drivers(j) /\ x[1] = "hook"
        BY <3>2
      <3> QED BY <1>1, <2>2, <2>3, <2>5, <3>1, <3>4, <3>5, EnqueuedTurn
    <2> QED BY <2>4, <2>5
  <1> QED BY <1>2, <1>3

LEMMA RouterStepTurn ==
  ASSUME TurnFacts, Orderly, RouterStep, NEW j \in Jobs
  PROVE  InTurn(j)'
  <1>1. /\ ~(\E h \in Handlers : IntakeRaises(h) \/ HandlerCrashes(h))
        /\ ~(\E r \in locks : LockExpires(r))
    BY OthersLeave DEF TurnFacts, Facts
  <1>2. ASSUME NEW h \in Handlers,
               \/ \E d \in hooks \intersect devFailed : ReceiveFailure(h, d)
               \/ SelectExisting(h) \/ InsertJob(h) \/ EnqueueInitial(h)
        PROVE  InTurn(j)'
    BY <1>2, IntakeTurn, InsertJobTurn, EnqueueInitialTurn
  <1>3. CASE DeliverCompletion
    BY <1>3, ReceiveCompletionTurn DEF DeliverCompletion
  <1> QED BY <1>1, <1>2, <1>3 DEF RouterStep

-----------------------------------------------------------------------------
(* The retry endpoint *)

LEMMA RetryReadsTurn ==
  ASSUME TurnFacts, NEW c \in Clients, NEW i \in Jobs, RetryReads(c, i),
         NEW j \in Jobs
  PROVE  InTurn(j)'
  <1>0. Inv /\ TypeOK /\ InTurn(j)
    BY DEF TurnFacts, Facts, Inv, TurnInv
  <1>1. /\ UNCHANGED <<job, queue, locks, worker, router, tip, clean, prs, running,
                       green, red, hooks>>
        /\ client' = [client EXCEPT ![c] =
                        [pc |-> "read", job |-> i, loaded |-> job[i]]]
        /\ job[i].status \in Retryable
    BY DEF RetryReads, CanRetry, dbVars, redisVars, repoVars, ciVars
  <1>2. \A b \in Clients : Requests(b, j)' => Requests(b, j)
    BY <1>0, <1>1 DEF Requests, TypeOK
  <1>3. \A b \in Clients : Reads(b, j)' =>
          \/ Reads(b, j) /\ client'[b].loaded = client[b].loaded
          \/ client'[b].loaded = job[j] /\ job[j].status \in Retryable
    BY <1>0, <1>1 DEF Reads, TypeOK
  <1> QED BY <1>0, <1>1, <1>2, <1>3, OthersUntouched
          DEF Asks, Tests, Reports, Ended

\* Whoever has read the job finds it as he has read it, and has it from now on.
LEMMA RestartedTurn ==
  ASSUME TurnFacts, Orderly, NEW c \in Clients, RetryCommits(c),
         NEW j \in Jobs, client[c].job = j
  PROVE  InTurn(j)'
  <1>0. Inv /\ TypeOK /\ InTurn(j) /\ Reads(c, j) /\ client[c].pc = "read"
    BY DEF TurnFacts, Facts, Inv, TurnInv, RetryCommits, Reads
  <1>1. /\ UNCHANGED <<queue, locks, worker, router, tip, clean, prs, running,
                       green, red, hooks>>
        /\ client'[c].pc = "enqueue"
        /\ \A b \in Clients : b = c
    BY <1>0 DEF RetryCommits, redisVars, repoVars, ciVars, Orderly, TypeOK,
                ClientStates
  <1>2. client[c].loaded = job[j] /\ job[j].status \in Retryable
    BY <1>0 DEF InTurn, ReadersInTurn
  <1>3. \A x : x \notin Drivers(j)
    BY <1>0, DriversMoveIt
  <1>4. /\ \A h \in Handlers : ~Asks(h, j)
        /\ \A i \in DOMAIN queue : queue[i].job # j
        /\ \A w \in Workers : ~Holds(w, j)
        /\ \A r \in running : ~Tests(r, j)
        /\ \A r \in hooks : ~Reports(r, j)
    BY <1>3, DriversAre
  <1>5. Waiting(j)' /\ job'[j].retries = 0
    <2>1. job[j] \in Row /\ job'[j] \in Row
      BY <1>0, RetryRow
    <2> PICK row \in Row : row = job[j]
      BY <2>1
    <2>2. job'[j] = Flush(row, row, Requeued(row))
      BY <1>0, <1>2 DEF RetryCommits, TypeOK
    <2>3. /\ Requeued(row) \in Row
          /\ Requeued(row).status = "queued" /\ Requeued(row).retries = 0
      BY DEF Requeued, Row, Statuses
    <2>4. job'[j].status = "queued"
      BY <1>2, <2>2, <2>3, StatusOfFlush
    <2>5. job'[j].retries = 0
      BY <1>2, <2>2, <2>3, ColumnsOfFlush
    <2> QED BY <2>1, <2>4, <2>5, NoneIsNoRow DEF Waiting, Exists
  <1>6. OneHand(j)'
    <2>1. \A x : x \in Drivers(j)' => x = <<"client", c>>
      BY <1>1, <1>4 DEF Drivers, Asks, Requests, Holds, Tests, Reports, JobOf, Ended
    <2> QED BY <2>1 DEF OneHand
  <1>7. AskedInTurn(j)' /\ RunsInTurn(j)' /\ ReadersInTurn(j)'
    BY <1>1, <1>4, <1>5
       DEF AskedInTurn, RunsInTurn, ReadersInTurn, Asks, Reads, Tests, Reports, Ended
  <1>8. \A w \in Workers :
          worker[w].pc # "idle" /\ JobOf(w) = j => worker[w].pc = "escalate"
    BY <1>4, NoWorkerHasIt
  <1>9. PRsInTurn(j)'
    <2>1. \A ft \in FailureTypes : <<j, ft>> \notin prs
      BY <1>0, <1>2, <1>8 DEF InTurn, PRsInTurn, Retryable
    <2> QED BY <1>1, <2>1 DEF PRsInTurn
  <1> QED BY <1>1, <1>5, <1>6, <1>7, <1>8, <1>9, HandsFreeTurn

LEMMA RetryCommitsTurn ==
  ASSUME TurnFacts, Orderly, NEW c \in Clients, RetryCommits(c), NEW j \in Jobs
  PROVE  InTurn(j)'
  <1>0. Inv /\ TypeOK /\ InTurn(j)
    BY DEF TurnFacts, Facts, Inv, TurnInv
  <1>1. CASE client[c].job = j
    BY <1>1, RestartedTurn
  <1>2. CASE client[c].job # j
    <2>1. /\ UNCHANGED <<queue, locks, worker, router, tip, clean, prs, running,
                         green, red, hooks>>
          /\ job'[j] = job[j]
      BY <1>0, <1>2, RetryRow DEF RetryCommits, redisVars, repoVars, ciVars
    <2>2. \A b \in Clients : ~Requests(b, j)' /\ ~Reads(b, j)'
      <3>1. \A b \in Clients : b = c
        BY DEF Orderly
      <3>2. client'[c].job = client[c].job
        BY <1>0 DEF RetryCommits, TypeOK, ClientStates
      <3> QED BY <1>2, <3>1, <3>2 DEF Requests, Reads
    <2> QED BY <1>0, <2>1, <2>2, OthersUntouched DEF Asks, Tests, Reports, Ended
  <1> QED BY <1>1, <1>2

LEMMA RetryEnqueuesTurn ==
  ASSUME TurnFacts, NEW c \in Clients, RetryEnqueues(c), NEW j \in Jobs
  PROVE  InTurn(j)'
  <1>0. Inv /\ TypeOK /\ InTurn(j) /\ client[c].job \in Jobs
    BY DEF TurnFacts, Facts, Inv, TurnInv, RetryEnqueues, NothingDangles,
           ClientsHaveJobs
  <1>1. /\ UNCHANGED <<job, locks, worker, router, tip, clean, prs, running,
                       green, red, hooks>>
        /\ queue' = Append(queue, InitialTask(client[c].job))
        /\ client[c].pc = "enqueue" /\ client'[c].pc = "idle"
        /\ \A b \in Clients : b # c => client'[b] = client[b]
    BY <1>0 DEF RetryEnqueues, ClientEnds, IdleClient, dbVars, repoVars, ciVars,
                TypeOK
  <1>2. \A b \in Clients :
          /\ Requests(b, j)' => b # c /\ Requests(b, j)
          /\ Reads(b, j)' => Reads(b, j) /\ client'[b].loaded = client[b].loaded
    BY <1>1 DEF Requests, Reads
  <1>3. CASE client[c].job = j
    <2>1. Requests(c, j) /\ <<"client", c>> \in Drivers(j)
      BY <1>1, <1>3, DriversAre DEF Requests
    <2>2. /\ \A b \in Clients : Requests(b, j) => <<"client", b>> = <<"client", c>>
          /\ \A h \in Handlers : ~Asks(h, j)
          /\ \A r \in hooks : ~Reports(r, j)
      BY <1>0, <2>1, NothingElse DEF InTurn
    <2>3. \A b \in Clients : ~Requests(b, j)'
      BY <1>2, <2>2
    <2>4. TaskInTurn(InitialTask(j))
      BY <1>0, <2>1, InitialTaskIsTask DEF InTurn, AskedInTurn, TaskInTurn
    <2>5. /\ \A h \in Handlers : ~Asks(h, j)'
          /\ \A r \in hooks' : ~Reports(r, j)'
      BY <1>1, <2>2 DEF Asks, Reports, Ended
    <2> PICK x : x = <<"client", c>>
      OBVIOUS
    <2>6. x \in Drivers(j) /\ x[1] = "client"
      BY <2>1
    <2> QED BY <1>1, <1>2, <1>3, <2>3, <2>4, <2>5, <2>6, InitialTaskIsTask,
               EnqueuedTurn
  <1>4. CASE client[c].job # j
    <2>1. InitialTask(client[c].job) \in Tasks
          /\ InitialTask(client[c].job).job # j
      BY <1>0, <1>4, InitialTaskIsTask
    <2>2. \A i \in DOMAIN queue' : queue'[i].job = j =>
            i \in DOMAIN queue /\ queue'[i] = queue[i]
      BY <1>0, <1>1, <2>1, AppendedTask
    <2> QED BY <1>0, <1>1, <1>2, <2>2, OthersUntouched
            DEF Asks, Tests, Reports, Ended
  <1> QED BY <1>3, <1>4

LEMMA ApiStepTurn ==
  ASSUME TurnFacts, Orderly, ApiStep, NEW j \in Jobs
  PROVE  InTurn(j)'
  <1>1. ~(\E c \in Clients : RetryFails(c))
    BY OthersLeave DEF TurnFacts, Facts
  <1> QED BY <1>1, RetryReadsTurn, RetryCommitsTurn, RetryEnqueuesTurn DEF ApiStep

-----------------------------------------------------------------------------
(* The invariant *)

LEMMA NextVerdicts ==
  ASSUME TurnFacts, Orderly, [Next]_vars
  PROVE  VerdictsKept'
  <1>0. Inv /\ TypeOK /\ VerdictsKept /\ RunsInv /\ Ended \subseteq RunIds
    BY DEF TurnFacts, Facts, Inv, TurnInv, TypeOK, Ended
  <1>1. ASSUME UNCHANGED <<green, red>>,
               \A r \in Ended : r \in hooks /\ r \notin hooks' => r \in locks',
               \A r \in Ended : r \in locks => r \in locks'
        PROVE  VerdictsKept'
    BY <1>0, <1>1 DEF VerdictsKept, Ended
  <1>2. CASE GitHubStep
    <2>1. ASSUME NEW r \in running, RunEnds(r)
          PROVE  VerdictsKept'
      BY <1>0, <2>1 DEF RunEnds, VerdictsKept, RunsInv, Ended, redisVars
    <2>2. ~(\E e \in hooks : LoseHook(e))
      BY <1>0, <1>2, OthersLeave
    <2> QED BY <1>1, <1>2, <2>1, <2>2
            DEF GitHubStep, DevRunFails, Redeliver, redisVars
  <1>3. CASE RouterStep
    <2>1. UNCHANGED <<green, red>>
      BY <1>3 DEF RouterStep, DeliverCompletion, ReceiveFailure, SelectExisting,
         InsertJob, EnqueueInitial, IntakeRaises, HandlerCrashes, ReceiveCompletion,
         LockExpires, ciVars
    <2>2. /\ ~(\E h \in Handlers : IntakeRaises(h) \/ HandlerCrashes(h))
          /\ ~(\E r \in locks : LockExpires(r))
      BY <1>0, <1>3, OthersLeave
    <2>3. ASSUME NEW h \in Handlers, SelectExisting(h) \/ InsertJob(h)
          PROVE  VerdictsKept'
      <3>1. router[h].run \in DevRuns
        BY <1>0, <2>3 DEF SelectExisting, InsertJob, HandlerAt, Inv, NothingDangles,
                          HandlersHaveJobs
      <3> QED BY <1>0, <1>1, <2>1, <2>3, <3>1, RunsApart
              DEF SelectExisting, InsertJob, ciVars
    <2>4. ASSUME NEW h \in Handlers, NEW d \in hooks \intersect devFailed,
                 ReceiveFailure(h, d)
          PROVE  VerdictsKept'
      <3>1. d \notin Ended
        BY <1>0, RunsApart DEF TypeOK
      <3> QED BY <1>1, <2>1, <2>4, <3>1 DEF ReceiveFailure
    <2>5. ASSUME NEW h \in Handlers, EnqueueInitial(h)
          PROVE  VerdictsKept'
      BY <1>1, <2>1, <2>5 DEF EnqueueInitial, ciVars
    <2>6. ASSUME NEW r \in hooks \intersect Ended, ReceiveCompletion(r)
          PROVE  VerdictsKept'
      <3>1. r \in locks'
        BY <2>6, ReportIsKnown DEF ReceiveCompletion, LockIsFree, redisVars
      <3>2. locks \subseteq locks'
        BY <2>6 DEF ReceiveCompletion, redisVars
      <3>3. hooks' = hooks \ {r}
        BY <2>6 DEF ReceiveCompletion
      <3> QED BY <1>1, <2>1, <3>1, <3>2, <3>3
    <2> QED BY <1>3, <2>2, <2>3, <2>4, <2>5, <2>6 DEF RouterStep, DeliverCompletion
  <1>4. CASE ApiStep
    BY <1>1, <1>4 DEF ApiStep, RetryReads, RetryCommits, RetryEnqueues, RetryFails,
                      ciVars, redisVars
  <1>5. CASE WorkerStep
    <2>1. PICK w \in Workers : AnyStep(w)
      BY <1>5 DEF WorkerStep, AnyStep
    <2> QED BY <1>1, <2>1, WorkerLeaves
  <1>6. CASE UNCHANGED vars
    BY <1>1, <1>6 DEF vars, ciVars, redisVars
  <1> QED BY <1>2, <1>3, <1>4, <1>5, <1>6 DEF Next

LEMMA NextTurn ==
  ASSUME TurnFacts, Orderly, [Next]_vars
  PROVE  TurnInv'
  <1> SUFFICES ASSUME NEW j \in Jobs
               PROVE  InTurn(j)'
    BY NextVerdicts DEF TurnInv
  <1>1. CASE GitHubStep
    BY <1>1, GitHubStepTurn
  <1>2. CASE RouterStep
    BY <1>2, RouterStepTurn
  <1>3. CASE ApiStep
    BY <1>3, ApiStepTurn
  <1>4. CASE WorkerStep
    BY <1>4, WorkerStepTurn DEF WorkerStep, AnyStep
  <1>5. CASE UNCHANGED vars
    <2>1. UNCHANGED <<job, queue, locks, worker, router, client, tip, clean, prs,
                      running, green, red, hooks>>
      BY <1>5 DEF vars, dbVars, redisVars, repoVars, ciVars, apiVars
    <2> QED BY <2>1, OthersUntouched
            DEF TurnFacts, Facts, TurnInv, Asks, Requests, Reads, Tests, Reports, Ended
  <1> QED BY <1>1, <1>2, <1>3, <1>4, <1>5 DEF Next

LEMMA InitTurn ==
  ASSUME Init
  PROVE  TurnInv
  <1>1. /\ queue = <<>> /\ running = {} /\ green = {} /\ red = {} /\ hooks = {}
        /\ prs = {}
    BY DEF Init
  <1>2. \A j \in Jobs : ~Exists(j)
    BY DEF Init, Exists
  <1>3. \A w \in Workers : worker[w].pc = "idle"
    BY DEF Init, IdleWorker
  <1>4. \A h \in Handlers : router[h].pc = "idle"
    BY DEF Init, IdleHandler
  <1>5. \A c \in Clients : client[c].pc = "idle"
    BY DEF Init, IdleClient
  <1>6. ASSUME NEW j \in Jobs
        PROVE  InTurn(j)
    <2>1. OneHand(j)
      BY <1>1, <1>3, <1>4, <1>5, DriversAre DEF OneHand, Asks, Requests, Holds
    <2> QED BY <1>1, <1>2, <1>3, <1>4, <1>5, <2>1
            DEF InTurn, OnePush, AskedInTurn, WorkersInTurn, RunsInTurn,
                ReadersInTurn, PRsInTurn, Waiting, Asks, Requests, Reads
  <1> QED BY <1>1, <1>6 DEF TurnInv, VerdictsKept, Ended

LEMMA OrderlyLosesNothing ==
  ASSUME Orderly
  PROVE  NothingLost
  BY DEF Orderly, NothingLost

\* A task, a worker, a run or a webhook of a job is the only one; what a worker
\* holds is what the tables say; what a pull request offers has passed CI.
THEOREM TurnFactsHold ==
  ASSUME Orderly
  PROVE  Spec => []TurnFacts
  <1>1. Init => RestartInv /\ TurnInv
    BY InitRestart, InitTurn
  <1>2. Facts /\ RestartInv /\ TurnInv /\ [Next]_vars => RestartInv' /\ TurnInv'
    BY OrderlyLosesNothing, NextRestart, NextTurn DEF TurnFacts
  <1> QED BY <1>1, <1>2, FactsHold, PTL DEF Spec, TurnFacts

-----------------------------------------------------------------------------
(* What follows from it *)

\* orchestrator.py, webhook/router.py and jobs.py together: a job is in the
\* hands of one request, task, worker, run or webhook, and of none when it is
\* settled.
THEOREM OneDriverHolds ==
  ASSUME Orderly
  PROVE  Spec => []OneDriver
  <1>1. TurnFacts => OneDriver
    <2> SUFFICES ASSUME TurnFacts, NEW j \in Jobs, Exists(j)
                 PROVE  Cardinality(Drivers(j)) <= (IF Settled(j) THEN 0 ELSE 1)
      BY DEF OneDriver
    <2>1. CASE Drivers(j) = {}
      <3>1. Cardinality(Drivers(j)) = 0
        BY <2>1, FS_EmptySet
      <3> QED BY <3>1
    <2>2. CASE Drivers(j) # {}
      <3> PICK x \in Drivers(j) : TRUE
        BY <2>2
      <3>1. ~Settled(j)
        BY DriversMoveIt DEF Settled, Terminal, Underway
      <3>2. Drivers(j) = {x}
        BY DEF TurnFacts, TurnInv, InTurn, OneHand
      <3>3. Cardinality({x}) = 1
        BY FS_Singleton
      <3> QED BY <3>1, <3>2, <3>3
    <2> QED BY <2>1, <2>2
  <1> QED BY <1>1, TurnFactsHold, PTL

\* orchestrator.py:336-371, the tree that a pull request offers is one that all
\* of CI has passed.
THEOREM PRsAreVerified ==
  ASSUME Orderly
  PROVE  Spec => []VerifiedPR
  <1>1. TurnFacts => VerifiedPR
    <2> SUFFICES ASSUME TurnFacts, NEW pr \in prs
                 PROVE  \A f \in Workflows :
                   [job |-> pr[1], patch |-> clean[pr[1]][pr[2]], wf |-> f] \in green
      BY DEF VerifiedPR
    <2>1. pr[1] \in Jobs /\ pr[2] \in FailureTypes /\ pr = <<pr[1], pr[2]>>
      BY DEF TurnFacts, Facts, Inv, TypeOK
    <2> QED BY <2>1 DEF TurnFacts, TurnInv, InTurn, PRsInTurn, Verified
  <1> QED BY <1>1, TurnFactsHold, PTL

\* A settled job that nobody starts again keeps its row and its attempts.
LEMMA SettledStays ==
  ASSUME TurnFacts, Orderly, [Next]_vars, NEW j \in Jobs, Settled(j),
         \A c \in Clients : ~Reads(c, j)
  PROVE  job'[j] = job[j] /\ attempts'[j] = attempts[j]
  <1>0. Facts /\ Inv /\ Exists(j)
    BY DEF TurnFacts, Facts, Settled
  <1>1. CASE GitHubStep \/ RouterStep \/ ApiStep
    <2>1. ASSUME NEW h \in Handlers, InsertJob(h)
          PROVE  job'[j] = job[j]
      BY <1>0, <2>1, InsertedRow DEF Exists
    <2>2. ASSUME NEW c \in Clients, RetryCommits(c)
          PROVE  job'[j] = job[j]
      BY <1>0, <2>2, RetryRow DEF RetryCommits, Reads
    <2> QED BY <1>0, <1>1, <2>1, <2>2, OtherSteps
  <1>2. ASSUME NEW w \in Workers, AnyStep(w)
        PROVE  job'[j] = job[j] /\ attempts'[j] = attempts[j]
    <2>1. CASE TakeTask(w)
      BY <2>1 DEF TakeTask, dbVars
    <2>2. CASE ~TakeTask(w) /\ JobOf(w) # j
      BY <1>0, <1>2, <2>2, WorkerStatus, AttemptsOfOthers
    <2>3. CASE ~TakeTask(w) /\ JobOf(w) = j
      <3>1. worker[w].pc # "idle"
        BY <1>0, <1>2, <2>3, StepShape, GoesOnShape
      <3>2. ~Holds(w, j)
        BY DriversAre, DriversMoveIt DEF Settled, Terminal, Underway
      <3>3. worker[w].pc # "pushed"
        <4>1. WorkersInTurn(j)
          BY DEF TurnFacts, TurnInv, InTurn
        <4> QED BY <2>3, <3>1, <4>1
                DEF WorkersInTurn, WorkerInTurn, InRepair, Settled, Terminal, Underway
      <3>4. worker[w].pc = "escalate"
        BY <2>3, <3>1, <3>2, <3>3 DEF Holds
      <3>5. Escalate(w)
        BY <1>2, <3>4 DEF AnyStep, WorkerAdvances, TakeTask, StartInitial,
           StartGreen, StartExhausted, StartRed, Completes, StampRed,
           ReadRetries, BumpRetry,
           DropOut, PushPatch, RecordAttempt, RejectPatch, FetchInternal, PushClean,
           OpenPR, CommitPR, Raise, WorkerCrashes, At, Orderly, CallPoints
      <3> QED BY <3>5 DEF Escalate, dbVars
    <2> QED BY <2>1, <2>2, <2>3
  <1>3. CASE UNCHANGED vars
    BY <1>3 DEF vars, dbVars
  <1> QED BY <1>1, <1>2, <1>3 DEF Next, WorkerStep, AnyStep

\* db.py:60, nothing but a user's retry moves a settled job.
THEOREM SettledIsFinal ==
  ASSUME Orderly
  PROVE  Spec => TerminalIsFinal
  <1>1. TurnFacts /\ [Next]_vars =>
          [\A j \in Jobs :
             Settled(j) /\ job'[j].status # job[j].status =>
               \E c \in Clients : client[c].pc = "read" /\ client[c].job = j]_vars
    BY SettledStays DEF Reads
  <1> QED BY <1>1, TurnFactsHold, PTL DEF Spec, TerminalIsFinal

-----------------------------------------------------------------------------
(* The lifecycle *)

Writes(j) == \E w \in Workers : At(w, "graph") /\ JobOf(w) = j

Stays(k) == PhaseOf(k)' = PhaseOf(k) /\ RoundOf(k)' = RoundOf(k)

LifecycleStep ==
  \/ Lifecycle!LifecycleNext
  \/ UNCHANGED <<[j \in Jobs |-> PhaseOf(j)], [j \in Jobs |-> RoundOf(j)]>>

LEMMA PhaseIs ==
  ASSUME NEW j, Exists(j)
  PROVE  /\ job[j].status \notin Underway =>
              PhaseOf(j) = job[j].status /\ RoundOf(j) = 0
         /\ job[j].status \in Underway =>
              /\ RoundOf(j) = job[j].retries + 1
              /\ Writes(j) => PhaseOf(j) = "writing"
              /\ ~Writes(j) /\ Verdicts(j, green) => PhaseOf(j) = "green"
              /\ ~Writes(j) /\ ~Verdicts(j, green) /\ Verdicts(j, red) =>
                   PhaseOf(j) = "red"
              /\ ~Writes(j) /\ ~Verdicts(j, green) /\ ~Verdicts(j, red) =>
                   PhaseOf(j) = "testing"
  BY DEF PhaseOf, RoundOf, Writes, Underway

\* The phase of a job depends on its row, its branch, its verdicts and on
\* whether a worker is writing.
LEMMA PhaseStays ==
  ASSUME NEW k, Exists(k)' <=> Exists(k),
         Exists(k) => /\ job'[k].status = job[k].status
                      /\ job'[k].retries = job[k].retries,
         Writes(k)' <=> Writes(k),
         Verdicts(k, green)' <=> Verdicts(k, green),
         Verdicts(k, red)' <=> Verdicts(k, red)
  PROVE  Stays(k)
  BY DEF Stays, PhaseOf, RoundOf, Writes

LEMMA OneMoves ==
  ASSUME NEW j \in Jobs, \A k \in Jobs : k # j => Stays(k), NEW from, NEW to, NEW n,
         PhaseOf(j) \in from, PhaseOf(j)' = to, RoundOf(j)' = n
  PROVE  Lifecycle!Moves(j, from, to, n)
  BY DEF Lifecycle!Moves, Stays

LEMMA NoneMoves ==
  ASSUME \A k \in Jobs : Stays(k)
  PROVE  LifecycleStep
  BY DEF LifecycleStep, Stays

\* With one workflow a patch is tested once.
LEMMA OneRunPerPatch ==
  ASSUME Orderly, NEW q \in RunIds, NEW r \in RunIds,
         q.job = r.job, q.patch = r.patch
  PROVE  q = r
  <1>1. PICK f : Workflows = {f}
    BY DEF Orderly
  <1>2. q.wf = r.wf
    BY <1>1 DEF RunIds
  <1>3. /\ q = [job |-> q.job, patch |-> q.patch, wf |-> q.wf]
        /\ r = [job |-> r.job, patch |-> r.patch, wf |-> r.wf]
    BY DEF RunIds
  <1> QED BY <1>2, <1>3

\* What a worker that has j is about is the phase of j.
LEMMA HandPhase ==
  ASSUME TurnFacts, Orderly, NEW j \in Jobs, NEW w \in Workers, Holds(w, j)
  PROVE  /\ Exists(j) /\ (Writes(j) <=> worker[w].pc = "graph")
         /\ worker[w].pc = "start" /\ worker[w].task.fn = "initial" =>
              PhaseOf(j) = "queued" /\ job[j].retries = 0
         /\ worker[w].pc = "graph" =>
              PhaseOf(j) = "writing" /\ RoundOf(j) = job[j].retries + 1
         /\ worker[w].pc # "graph" /\ Answered(worker[w].task) =>
              /\ job[j].status \in Underway /\ RoundOf(j) = job[j].retries + 1
              /\ worker[w].task.concl = "success" => PhaseOf(j) = "green"
              /\ worker[w].task.concl = "failure" => PhaseOf(j) = "red"
  <1>0. JobOf(w) = j /\ worker[w].task.job = j /\ worker[w].pc # "idle"
    BY DEF Holds, JobOf
  <1>1. Exists(j) /\ WorkerInTurn(w) /\ InTurn(j)
    BY WorkerMovesIt DEF TurnFacts, TurnInv
  <1>2. Writes(j) <=> worker[w].pc = "graph"
    BY <1>0, WorkerAlone DEF Writes, At, Holds
  <1>3. ASSUME worker[w].pc = "start", worker[w].task.fn = "initial"
        PROVE  PhaseOf(j) = "queued" /\ job[j].retries = 0
    <2>1. Waiting(j)
      BY <1>0, <1>1, <1>3 DEF WorkerInTurn, TaskInTurn, Answered
    <2> QED BY <1>1, <2>1, PhaseIs DEF Waiting, Underway, InTurn
  <1>4. ASSUME worker[w].pc = "graph"
        PROVE  PhaseOf(j) = "writing" /\ RoundOf(j) = job[j].retries + 1
    <2>1. job[j].status \in Underway
      BY <1>0, <1>1, <1>4 DEF WorkerInTurn, InRepair
    <2> QED BY <1>1, <1>2, <1>4, <2>1, PhaseIs
  <1>5. ASSUME worker[w].pc # "graph", Answered(worker[w].task)
        PROVE  /\ job[j].status \in Underway /\ RoundOf(j) = job[j].retries + 1
               /\ worker[w].task.concl = "success" => PhaseOf(j) = "green"
               /\ worker[w].task.concl = "failure" => PhaseOf(j) = "red"
    <2>1. job[j].status \in Underway
      BY <1>0, <1>5 DEF Answered, InRepair
    <2> PICK r : r = worker[w].task.run
      OBVIOUS
    <2>2. r \in RunIds /\ r.job = j /\ r.patch = tip[j]
      <3>1. worker[w].task \in Tasks
        BY <1>0, WorkersJob DEF TurnFacts, Facts, Inv
      <3> QED BY <1>0, <1>5, <3>1, TaskFields DEF Answered
    <2>3. worker[w].task.concl = "success" => Verdicts(j, green)
      BY <1>5, <2>2 DEF Answered, Verdicts
    <2>4. worker[w].task.concl = "failure" =>
            Verdicts(j, red) /\ ~Verdicts(j, green)
      <3> SUFFICES ASSUME worker[w].task.concl = "failure"
                   PROVE  Verdicts(j, red) /\ ~Verdicts(j, green)
        OBVIOUS
      <3>1. r \in red
        BY <1>5 DEF Answered
      <3>2. ASSUME NEW q \in green, q.job = j, q.patch = tip[j]
            PROVE  FALSE
        <4>1. q \in RunIds
          BY DEF TurnFacts, Facts, Inv, TypeOK
        <4>2. q = r
          BY <2>2, <3>2, <4>1, OneRunPerPatch
        <4> QED BY <3>1, <4>2 DEF TurnFacts, TurnInv, VerdictsKept
      <3> QED BY <2>2, <3>1, <3>2 DEF Verdicts
    <2> QED BY <1>1, <1>2, <1>5, <2>1, <2>3, <2>4, PhaseIs
  <1> QED BY <1>1, <1>2, <1>3, <1>4, <1>5

\* The other jobs do not notice what a worker does with its own.
LEMMA WorkerMovesOne ==
  ASSUME TurnFacts, NEW w \in Workers, AnyStep(w), worker[w].pc # "idle",
         NEW k \in Jobs, k # JobOf(w)
  PROVE  Stays(k)
  <1>0. Facts /\ Inv
    BY DEF TurnFacts, Facts
  <1>1. Untouched(k)
    <2>1. ~TakeTask(w)
      BY DEF TakeTask, At
    <2> QED BY <1>0, <2>1, WorkerStepUntouched
  <1>2. UNCHANGED <<green, red>>
    BY WorkerLeaves
  <1>3. Writes(k)' <=> Writes(k)
    BY <1>1 DEF Writes, At, Untouched, Engaged, JobOf
  <1> QED BY <1>1, <1>2, <1>3, PhaseStays DEF Untouched, Exists, Verdicts

\* A worker that writes no patch before or after a step that leaves the row's
\* status and counter does not move its job either.
LEMMA WorkerStays ==
  ASSUME TurnFacts, NEW w \in Workers, AnyStep(w), worker[w].pc # "graph",
         worker'[w].pc # "graph",
         ~(\E ft \in FailureTypes : PushPatch(w, ft)), NEW j \in Jobs,
         Exists(j)' <=> Exists(j),
         Exists(j) => /\ job'[j].status = job[j].status
                      /\ job'[j].retries = job[j].retries
  PROVE  Stays(j)
  <1>1. \A v \in Workers : v # w => worker'[v] = worker[v]
    BY StepShape DEF TurnFacts, Facts
  <1>2. Writes(j)' <=> Writes(j)
    BY <1>1 DEF Writes, At, JobOf
  <1>3. UNCHANGED <<tip, green, red>>
    BY WorkerLeaves
  <1> QED BY <1>2, <1>3, PhaseStays DEF Verdicts

\* The steps between two phases.
LEMMA QuietSteps ==
  ASSUME TurnFacts, NEW w \in Workers,
         \/ TakeTask(w) \/ StartGreen(w) \/ StartRed(w) \/ StampRed(w)
         \/ ReadRetries(w) \/ FetchInternal(w) \/ PushClean(w) \/ OpenPR(w)
         \/ RecordAttempt(w) \/ Escalate(w)
  PROVE  LifecycleStep
  <1>0. Facts /\ Inv /\ AnyStep(w)
    BY DEF TurnFacts, Facts, AnyStep, WorkerAdvances
  <1>1. worker[w].pc # "graph" /\ ~(\E ft \in FailureTypes : PushPatch(w, ft))
    BY DEF TakeTask, StartGreen, StartRed, Completes, StampRed, ReadRetries,
           FetchInternal, PushClean, OpenPR, RecordAttempt, Escalate, At,
           PushPatch
  <1>2. worker'[w].pc # "graph"
    <2>1. CASE TakeTask(w)
      BY <1>0, <2>1, TakenTask
    <2>2. CASE RecordAttempt(w) \/ Escalate(w)
      BY <1>0, <2>2, DoneMoves DEF RecordAttempt, Escalate
    <2>3. CASE \/ StartGreen(w) \/ StartRed(w) \/ StampRed(w)
               \/ ReadRetries(w) \/ FetchInternal(w) \/ PushClean(w) \/ OpenPR(w)
      <3>1. GoesOn(w) /\ ~StartInitial(w) /\ ~BumpRetry(w)
        BY <2>3 DEF GoesOn, StartGreen, StartRed, Completes, StampRed,
           ReadRetries, FetchInternal, PushClean, OpenPR, At, StartInitial,
           BumpRetry
      <3> QED BY <1>0, <3>1, GoesOnShape DEF LeadsTo
    <2> QED BY <2>1, <2>2, <2>3
  <1>3. ASSUME NEW j \in Jobs
        PROVE  /\ Exists(j)' <=> Exists(j)
               /\ Exists(j) => /\ job'[j].status = job[j].status
                               /\ job'[j].retries = job[j].retries
    <2>1. CASE RecordAttempt(w)
      <3>1. job'[j].status = job[j].status
        BY <1>0, <2>1, RecordKeepsStatus
      <3>2. ~BumpRetry(w)
        BY <2>1 DEF RecordAttempt, BumpRetry, At
      <3> QED BY <1>0, <3>1, <3>2, WorkerColumns
              DEF RunsStay, RetriesStay, NoneInserted, Exists
    <2>2. CASE ~RecordAttempt(w)
      BY <2>2 DEF TakeTask, StartGreen, StartRed, StampRed, ReadRetries,
         FetchInternal, PushClean, OpenPR, Escalate, dbVars, Exists
    <2> QED BY <2>1, <2>2
  <1>4. \A j \in Jobs : Stays(j)
    BY <1>0, <1>1, <1>2, <1>3, WorkerStays
  <1> QED BY <1>4, NoneMoves

LEMMA BeginStep ==
  ASSUME TurnFacts, Orderly, NEW w \in Workers, StartInitial(w) \/ BumpRetry(w),
         NEW j \in Jobs, Holds(w, j)
  PROVE  LifecycleStep
  <1>0. /\ Facts /\ Inv /\ TypeOK /\ JobOf(w) = j /\ AnyStep(w) /\ GoesOn(w)
        /\ worker[w].pc # "idle"
    BY DEF TurnFacts, Facts, Inv, Holds, AnyStep, WorkerAdvances, GoesOn
  <1>1. \A k \in Jobs : k # j => Stays(k)
    BY <1>0, WorkerMovesOne
  <1>2. JobOf(w)' = j /\ worker'[w].pc = "graph"
    <2>1. JobOf(w)' = j
      BY <1>0, GoesOnShape DEF JobOf
    <2> QED BY <1>0, <2>1 DEF StartInitial, BumpRetry, TypeOK, WorkerStates
  <1>3. Writes(j)'
    BY <1>2 DEF Writes, At
  <1>4. job[j] \in Row /\ WorkerInTurn(w)
    BY <1>0, WorkersJob, WorkerMovesIt DEF Inv
  <1>5. CASE StartInitial(w)
    <2>1. PhaseOf(j) = "queued" /\ job[j].retries = 0
      BY <1>5, HandPhase DEF StartInitial, At
    <2>2. PICK row \in Row : /\ row = [job[j] EXCEPT !.status = "repairing"]
                             /\ job'[j] = row
      <3>1. [job[j] EXCEPT !.status = "repairing"] \in Row
        BY <1>4 DEF Row, Statuses
      <3> QED BY <1>0, <1>5, <3>1 DEF StartInitial, TypeOK
    <2>3. row.status = "repairing" /\ row.retries = 0 /\ row # None
      BY <1>4, <2>1, <2>2, NoneIsNoRow DEF Row
    <2>4. PhaseOf(j)' = "writing" /\ RoundOf(j)' = 1
      BY <1>3, <2>2, <2>3 DEF PhaseOf, RoundOf, Writes, Exists
    <2>5. Lifecycle!Begin(j)
      BY <1>1, <2>1, <2>4, OneMoves DEF Lifecycle!Begin
    <2> QED BY <2>5 DEF LifecycleStep, Lifecycle!LifecycleNext
  <1>6. CASE BumpRetry(w)
    <2>1. /\ PhaseOf(j) = "red" /\ RoundOf(j) = job[j].retries + 1
          /\ job[j].retries < MaxRetries
      <3>1. /\ worker[w].pc = "count" /\ Answered(worker[w].task)
            /\ worker[w].task.concl = "failure" /\ job[j].retries < MaxRetries
        BY <1>0, <1>4, <1>6
           DEF BumpRetry, At, WorkerInTurn, AfterRedRun, AfterGreenRun
      <3> QED BY <3>1, HandPhase
    <2>2. job'[j] # None /\ job'[j].status = "retrying"
      BY <1>0, <1>6, BumpIsUnderway
    <2>3. job'[j].retries = job[j].retries + 1
      <3>1. worker[w].pc = "count" /\ worker[w].loaded # None
        BY <1>0, <1>6 DEF BumpRetry, At, Facts, SessionInv, SessionFits
      <3>2. JobRow(w) = worker[w].loaded
        BY <3>1 DEF JobRow
      <3>3. JobRow(w).retries = job[j].retries
        BY <1>0, <1>4, <3>1, <3>2 DEF WorkerInTurn
      <3> QED BY <1>0, <1>6, <3>3, BumpRetryShape
    <2>4. PhaseOf(j)' = "writing" /\ RoundOf(j)' = job[j].retries + 2
      <3>1. job'[j].retries + 1 = job[j].retries + 2
        BY <1>4, <2>3 DEF Row
      <3>2. PhaseOf(j)' = "writing" /\ RoundOf(j)' = job'[j].retries + 1
        BY <1>3, <2>2 DEF PhaseOf, RoundOf, Writes, Exists
      <3> QED BY <3>1, <3>2
    <2>5. RoundOf(j) <= MaxRetries /\ RoundOf(j) + 1 = job[j].retries + 2
      BY <1>4, <2>1, RetriesAssumption DEF Row
    <2>6. Lifecycle!Moves(j, {"red"}, "writing", RoundOf(j) + 1)
      BY <1>1, <2>1, <2>4, <2>5, OneMoves
    <2>7. Lifecycle!Again(j)
      BY <2>5, <2>6 DEF Lifecycle!Again
    <2> QED BY <2>7 DEF LifecycleStep, Lifecycle!LifecycleNext
  <1> QED BY <1>5, <1>6

\* The one step that starts a test.
LEMMA PushStep ==
  ASSUME TurnFacts, Orderly, NEW w \in Workers, NEW ft \in FailureTypes,
         PushPatch(w, ft), NEW j \in Jobs, Holds(w, j)
  PROVE  LifecycleStep
  <1>0. /\ Facts /\ Inv /\ TypeOK /\ JobOf(w) = j /\ AnyStep(w)
        /\ worker[w].pc = "graph"
    BY DEF TurnFacts, Facts, Inv, Holds, AnyStep, WorkerAdvances, PushPatch, At
  <1>1. \A k \in Jobs : k # j => Stays(k)
    BY <1>0, WorkerMovesOne
  <1>2. PhaseOf(j) = "writing" /\ RoundOf(j) = job[j].retries + 1
    BY <1>0, HandPhase
  <1>3. Exists(j) /\ job[j].status \in Underway
    BY <1>0, WorkerMovesIt DEF WorkerInTurn, InRepair
  <1>4. ~Writes(j)'
    <2>1. worker'[w].pc = "pushed" /\ \A v \in Workers : v # w => worker'[v] = worker[v]
      <3>1. \A v \in Workers : v # w => worker'[v] = worker[v]
        BY <1>0, StepShape
      <3> QED BY <1>0, <3>1 DEF PushPatch, TypeOK, WorkerStates
    <2>2. ASSUME NEW v \in Workers, worker'[v].pc = "graph", JobOf(v)' = j
          PROVE  FALSE
      <3>1. v # w /\ Holds(v, j)
        BY <2>1, <2>2 DEF Holds, JobOf
      <3> QED BY <3>1, WorkerAlone
    <2> QED BY <2>2 DEF Writes, At
  <1>5. tip'[j] = patches[j] + 1 /\ UNCHANGED <<job, green, red>>
    BY <1>0 DEF PushPatch, TypeOK, dbVars
  <1>6. ~Verdicts(j, green)' /\ ~Verdicts(j, red)'
    <2> SUFFICES ASSUME NEW r \in Ended, r.job = j, r.patch = patches[j] + 1
                 PROVE  FALSE
      BY <1>5 DEF Verdicts, Ended
    <2>1. r.patch <= patches[j] /\ patches[j] \in Nat
      BY <1>0 DEF Facts, RunsInv, TypeOK
    <2> QED BY <2>1
  <1>7. PhaseOf(j)' = "testing" /\ RoundOf(j)' = RoundOf(j)
    BY <1>2, <1>3, <1>4, <1>5, <1>6 DEF PhaseOf, RoundOf, Writes, Exists, Underway
  <1>8. Lifecycle!Push(j)
    <2>1. Lifecycle!Moves(j, {"writing"}, "testing", RoundOf(j))
      BY <1>1, <1>2, <1>7, OneMoves
    <2> QED BY <2>1 DEF Lifecycle!Push
  <1> QED BY <1>8 DEF LifecycleStep, Lifecycle!LifecycleNext

\* The status that a worker in turn means to give is the one the job gets.
LEMMA SettledAs ==
  ASSUME TurnFacts, NEW w \in Workers, NEW j \in Jobs, Holds(w, j),
         NEW new \in Row, new.status \in Terminal, Commits(w, new)
  PROVE  PhaseOf(j)' = new.status /\ RoundOf(j)' = 0
  <1>1. job'[j] # None /\ job'[j].status = new.status
    BY HandCommits
  <1> QED BY <1>1 DEF PhaseOf, RoundOf, Exists, Terminal

LEMMA GiveUpStep ==
  ASSUME TurnFacts, Orderly, NEW w \in Workers, NEW ft \in FailureTypes,
         DropOut(w, ft) \/ RejectPatch(w, ft), NEW j \in Jobs, Holds(w, j)
  PROVE  LifecycleStep
  <1>0. /\ Facts /\ Inv /\ JobOf(w) = j /\ AnyStep(w) /\ worker[w].pc = "graph"
    BY DEF TurnFacts, Facts, Holds, AnyStep, WorkerAdvances, DropOut, RejectPatch, At
  <1>1. \A k \in Jobs : k # j => Stays(k)
    BY <1>0, WorkerMovesOne
  <1>2. PhaseOf(j) = "writing" /\ JobRow(w) \in Row
    BY <1>0, HandPhase, WorkersJob DEF Inv
  <1>3. PICK status \in {"undiagnosable", "needs-human-review"} :
          Commits(w, [JobRow(w) EXCEPT !.status = status, !.failure = ft])
    BY DEF DropOut, RejectPatch
  <1> PICK new : new = [JobRow(w) EXCEPT !.status = status, !.failure = ft]
    OBVIOUS
  <1>4. new \in Row /\ new.status = status /\ Commits(w, new)
    BY <1>2, <1>3 DEF Row, Statuses
  <1>5. PhaseOf(j)' = status /\ RoundOf(j)' = 0
    BY <1>4, SettledAs DEF Terminal
  <1>6. Lifecycle!Moves(j, {"writing"}, status, 0)
    BY <1>1, <1>2, <1>5, OneMoves
  <1>7. Lifecycle!GiveUp(j)
    BY <1>6 DEF Lifecycle!GiveUp
  <1> QED BY <1>7 DEF LifecycleStep, Lifecycle!LifecycleNext

\* Under Orderly a call fails before it has an effect, and the branch of a
\* green run is there.
LEMMA BreakStep ==
  ASSUME TurnFacts, Orderly, NEW w \in Workers, Raise(w), NEW j \in Jobs, Holds(w, j)
  PROVE  LifecycleStep
  <1>0. /\ Facts /\ Inv /\ JobOf(w) = j /\ AnyStep(w) /\ worker[w].pc # "idle"
    BY DEF TurnFacts, Facts, Holds, AnyStep
  <1>1. \A k \in Jobs : k # j => Stays(k)
    BY <1>0, WorkerMovesOne
  <1>2. worker[w].pc \in {"graph", "green", "fetched", "cleaned"}
    BY DEF Raise, Orderly, At, CallPoints
  <1>3. PhaseOf(j) \in {"writing", "green"}
    <2>1. worker[w].pc # "graph" =>
            Answered(worker[w].task) /\ worker[w].task.concl = "success"
      BY <1>2, WorkerMovesIt DEF WorkerInTurn, AfterRedRun, AfterGreenRun
    <2> QED BY <2>1, HandPhase
  <1> PICK new : new = [JobRow(w) EXCEPT !.status = "failed"]
    OBVIOUS
  <1>4. new \in Row /\ new.status = "failed" /\ Commits(w, new)
    <2>1. JobRow(w) \in Row
      BY <1>0, WorkersJob DEF Inv
    <2> QED BY <2>1 DEF Raise, Row, Statuses
  <1>5. PhaseOf(j)' = "failed" /\ RoundOf(j)' = 0
    BY <1>4, SettledAs DEF Terminal
  <1>6. Lifecycle!Break(j)
    BY <1>1, <1>3, <1>5, OneMoves DEF Lifecycle!Break
  <1> QED BY <1>6 DEF LifecycleStep, Lifecycle!LifecycleNext

LEMMA DeliverStep ==
  ASSUME TurnFacts, Orderly, NEW w \in Workers, CommitPR(w), NEW j \in Jobs,
         Holds(w, j)
  PROVE  LifecycleStep
  <1>0. /\ Facts /\ Inv /\ JobOf(w) = j /\ AnyStep(w) /\ worker[w].pc = "opened"
    BY DEF TurnFacts, Facts, Holds, AnyStep, WorkerAdvances, CommitPR, At
  <1>1. \A k \in Jobs : k # j => Stays(k)
    BY <1>0, WorkerMovesOne
  <1>2. PhaseOf(j) = "green"
    BY <1>0, WorkerMovesIt, HandPhase DEF WorkerInTurn, AfterRedRun, AfterGreenRun
  <1> PICK new :
        new = [JobRow(w) EXCEPT !.status = "pr_opened", !.pr = CleanType(w)]
    OBVIOUS
  <1>3. new \in Row /\ new.status = "pr_opened" /\ Commits(w, new)
    <2>1. JobRow(w) \in Row /\ CleanType(w) \in FailureTypes
      BY <1>0, WorkersJob, CleanTypeIsType DEF Inv
    <2> QED BY <2>1 DEF CommitPR, Row, Statuses
  <1>4. PhaseOf(j)' = "pr_opened" /\ RoundOf(j)' = 0
    BY <1>3, SettledAs DEF Terminal
  <1>5. Lifecycle!Deliver(j)
    BY <1>1, <1>2, <1>4, OneMoves DEF Lifecycle!Deliver
  <1> QED BY <1>5 DEF LifecycleStep, Lifecycle!LifecycleNext

LEMMA ExhaustStep ==
  ASSUME TurnFacts, Orderly, NEW w \in Workers, StartExhausted(w), NEW j \in Jobs,
         Holds(w, j)
  PROVE  LifecycleStep
  <1>0. /\ Facts /\ Inv /\ TypeOK /\ JobOf(w) = j /\ AnyStep(w)
        /\ worker[w].pc = "start" /\ worker[w].task.fn = "completion"
        /\ worker[w].task.concl = "failure"
    BY DEF TurnFacts, Facts, Inv, Holds, AnyStep, WorkerAdvances, StartExhausted,
           Completes, At
  <1>1. \A k \in Jobs : k # j => Stays(k)
    BY <1>0, WorkerMovesOne
  <1>2. Answered(worker[w].task)
    <2>1. TaskInTurn(worker[w].task)
      BY <1>0, WorkerMovesIt DEF WorkerInTurn
    <2>2. worker[w].task # InitialTask(worker[w].task.job)
      BY <1>0 DEF InitialTask
    <2> QED BY <2>1, <2>2 DEF TaskInTurn
  <1>3. PhaseOf(j) = "red" /\ RoundOf(j) = job[j].retries + 1 /\ job[j] \in Row
    BY <1>0, <1>2, HandPhase, WorkersJob DEF Inv
  <1>4. RoundOf(j) > MaxRetries
    BY <1>0, <1>3, RetriesAssumption DEF StartExhausted, RetriesExhausted, Row
  <1>5. job'[j] # None /\ job'[j].status = "failed"
    <2>1. [job[j] EXCEPT !.status = "failed"] \in Row
          /\ [job[j] EXCEPT !.status = "failed"].status = "failed"
      BY <1>3 DEF Row, Statuses
    <2>2. job'[j] = [job[j] EXCEPT !.status = "failed"]
      BY <1>0 DEF StartExhausted, TypeOK
    <2> QED BY <2>1, <2>2, NoneIsNoRow
  <1>6. PhaseOf(j)' = "failed" /\ RoundOf(j)' = 0
    BY <1>5 DEF PhaseOf, RoundOf, Exists
  <1>7. Lifecycle!Exhaust(j)
    BY <1>1, <1>3, <1>4, <1>6, OneMoves DEF Lifecycle!Exhaust
  <1> QED BY <1>7 DEF LifecycleStep, Lifecycle!LifecycleNext

LEMMA WorkerLifecycle ==
  ASSUME TurnFacts, Orderly, NEW w \in Workers, AnyStep(w)
  PROVE  LifecycleStep
  <1>1. CASE \/ TakeTask(w) \/ StartGreen(w) \/ StartRed(w) \/ StampRed(w)
             \/ ReadRetries(w) \/ FetchInternal(w) \/ PushClean(w) \/ OpenPR(w) \/ RecordAttempt(w)
             \/ Escalate(w)
    BY <1>1, QuietSteps
  <1>2. CASE \/ StartInitial(w) \/ BumpRetry(w) \/ StartExhausted(w)
             \/ \E ft \in FailureTypes :
                  PushPatch(w, ft) \/ DropOut(w, ft) \/ RejectPatch(w, ft)
             \/ CommitPR(w) \/ Raise(w)
    <2> PICK j : j = JobOf(w)
      OBVIOUS
    <2>1. worker[w].pc \notin {"idle", "pushed", "escalate"}
      BY <1>2 DEF StartInitial, BumpRetry, StartExhausted, Completes, PushPatch,
         DropOut, RejectPatch, CommitPR, Raise, At, Orderly, CallPoints
    <2>2. j \in Jobs /\ Holds(w, j)
      BY <2>1, WorkersJob DEF Holds, TurnFacts, Facts, Inv
    <2> QED BY <1>2, <2>2, BeginStep, PushStep, GiveUpStep, BreakStep, DeliverStep,
               ExhaustStep
  <1>3. ~WorkerCrashes(w)
    BY DEF WorkerCrashes, Orderly
  <1> QED BY <1>1, <1>2, <1>3 DEF AnyStep, WorkerAdvances

\* A step that leaves the row alone, the workers, the branch and the verdicts.
LEMMA OthersStay ==
  ASSUME UNCHANGED <<worker, tip>>, NEW k, job'[k] = job[k],
         \A r : r.job = k => (r \in green' <=> r \in green),
         \A r : r.job = k => (r \in red' <=> r \in red)
  PROVE  Stays(k)
  <1>1. Writes(k)' <=> Writes(k)
    BY DEF Writes, At, JobOf
  <1> QED BY <1>1, PhaseStays DEF Exists, Verdicts

LEMMA VerdictStep ==
  ASSUME TurnFacts, Orderly, NEW r \in running, RunEnds(r)
  PROVE  LifecycleStep
  <1> PICK j : j = r.job
    OBVIOUS
  <1>0. /\ Facts /\ Inv /\ TypeOK /\ r \in RunIds /\ j \in Jobs /\ Tests(r, j)
        /\ running \intersect Ended = {}
    BY DEF TurnFacts, Facts, Inv, TypeOK, RunIds, RunsInv, Tests
  <1>1. /\ UNCHANGED <<worker, tip, job>>
        /\ \/ green' = green \union {r} /\ red' = red
           \/ red' = red \union {r} /\ green' = green
    BY DEF RunEnds, dbVars, repoVars
  <1>2. \A k \in Jobs : k # j => Stays(k)
    BY <1>1, OthersStay
  <1>3. RunInTurn(r) /\ InTurn(j)
    BY <1>0 DEF TurnFacts, TurnInv, InTurn, RunsInTurn
  <1>4. ~Writes(j)
    <2>1. ASSUME NEW w \in Workers, worker[w].pc = "graph", JobOf(w) = j
          PROVE  FALSE
      <3>1. Holds(w, j)
        BY <2>1 DEF Holds
      <3> QED BY <1>0, <3>1, WorkerAlone
    <2> QED BY <2>1 DEF Writes, At
  <1>5. ASSUME NEW q \in Ended, q.job = j, q.patch = tip[j]
        PROVE  FALSE
    <2>1. q \in RunIds
      BY <1>0 DEF TypeOK, Ended
    <2>2. q = r
      BY <1>0, <1>3, <1>5, <2>1, OneRunPerPatch DEF RunInTurn
    <2> QED BY <1>0, <2>2
  <1>6. /\ Exists(j) /\ job[j].status \in Underway
        /\ ~Verdicts(j, green) /\ ~Verdicts(j, red)
    BY <1>3, <1>5 DEF RunInTurn, InRepair, Verdicts, Ended
  <1>7. PhaseOf(j) = "testing" /\ RoundOf(j) = job[j].retries + 1
    BY <1>4, <1>6, PhaseIs
  <1>8. ~Writes(j)' /\ Exists(j)' /\ UNCHANGED <<job, tip>>
    BY <1>1, <1>4, <1>6 DEF Writes, At, JobOf, Exists
  <1>9. CASE green' = green \union {r} /\ red' = red
    <2>1. Verdicts(j, green)'
      BY <1>3, <1>8, <1>9 DEF Verdicts, RunInTurn
    <2>2. PhaseOf(j)' = "green" /\ RoundOf(j)' = RoundOf(j)
      BY <1>6, <1>7, <1>8, <2>1 DEF PhaseOf, RoundOf, Writes, Exists, Underway
    <2>3. Lifecycle!Moves(j, {"testing"}, "green", RoundOf(j))
      BY <1>0, <1>2, <1>7, <2>2, OneMoves
    <2>4. Lifecycle!Verdict(j)
      BY <1>0, <2>3 DEF Lifecycle!Verdict
    <2> QED BY <1>0, <2>4 DEF LifecycleStep, Lifecycle!LifecycleNext
  <1>10. CASE red' = red \union {r} /\ green' = green
    <2>1. Verdicts(j, red)' /\ ~Verdicts(j, green)'
      BY <1>3, <1>6, <1>8, <1>10 DEF Verdicts, RunInTurn
    <2>2. PhaseOf(j)' = "red" /\ RoundOf(j)' = RoundOf(j)
      BY <1>6, <1>7, <1>8, <2>1 DEF PhaseOf, RoundOf, Writes, Exists, Underway
    <2>3. Lifecycle!Moves(j, {"testing"}, "red", RoundOf(j))
      BY <1>0, <1>2, <1>7, <2>2, OneMoves
    <2>4. Lifecycle!Verdict(j)
      BY <1>0, <2>3 DEF Lifecycle!Verdict
    <2> QED BY <1>0, <2>4 DEF LifecycleStep, Lifecycle!LifecycleNext
  <1> QED BY <1>1, <1>9, <1>10

LEMMA ReportStep ==
  ASSUME Inv, NEW h \in Handlers, InsertJob(h)
  PROVE  LifecycleStep
  <1>1. UNCHANGED <<worker, tip, green, red>>
    BY DEF InsertJob, repoVars, ciVars
  <1>2. CASE UNCHANGED job
    BY <1>1, <1>2, OthersStay, NoneMoves
  <1>3. CASE \E j \in Jobs :
               /\ job[j] = None /\ job'[j] = NewRow(router[h].run)
               /\ job'[j] \in Row /\ \A k \in Jobs : k # j => job'[k] = job[k]
    <2> PICK j \in Jobs :
               /\ job[j] = None /\ job'[j] = NewRow(router[h].run)
               /\ job'[j] \in Row /\ \A k \in Jobs : k # j => job'[k] = job[k]
      BY <1>3
    <2>1. \A k \in Jobs : k # j => Stays(k)
      BY <1>1, OthersStay
    <2>2. PhaseOf(j) = "none"
      BY DEF PhaseOf, Exists
    <2>3. job'[j].status = "queued" /\ job'[j] # None
      <3>1. NewRow(router[h].run).status = "queued"
        BY DEF NewRow
      <3> QED BY <3>1, NoneIsNoRow
    <2>4. PhaseOf(j)' = "queued" /\ RoundOf(j)' = 0
      BY <2>3 DEF PhaseOf, RoundOf, Exists
    <2>5. Lifecycle!Report(j)
      BY <2>1, <2>2, <2>4, OneMoves DEF Lifecycle!Report
    <2> QED BY <2>5 DEF LifecycleStep, Lifecycle!LifecycleNext
  <1> QED BY <1>2, <1>3, InsertedRow

LEMMA ReopenStep ==
  ASSUME TurnFacts, Orderly, NEW c \in Clients, RetryCommits(c)
  PROVE  LifecycleStep
  <1> PICK j : j = client[c].job
    OBVIOUS
  <1>0. Inv /\ j \in Jobs /\ Exists(j) /\ job'[j] \in Row
        /\ \A k \in Jobs : k # j => job'[k] = job[k]
    BY RetryRow DEF TurnFacts, Facts
  <1>1. UNCHANGED <<worker, tip, green, red>>
    BY DEF RetryCommits, repoVars, ciVars
  <1>2. \A k \in Jobs : k # j => Stays(k)
    BY <1>0, <1>1, OthersStay
  <1>3. job[j].status \in Retryable
    <2>1. Reads(c, j) /\ ReadersInTurn(j)
      BY <1>0 DEF Reads, RetryCommits, TurnFacts, TurnInv, InTurn
    <2> QED BY <2>1 DEF ReadersInTurn
  <1>4. PhaseOf(j) \in Retryable
    BY <1>0, <1>3, PhaseIs DEF Retryable, Underway
  <1>5. job'[j].status = "queued"
    <2>1. InTurn(j)'
      BY <1>0, RestartedTurn
    <2>2. Requests(c, j)'
      BY <1>0 DEF RetryCommits, Requests, Inv, TypeOK, ClientStates
    <2> QED BY <2>1, <2>2 DEF InTurn, AskedInTurn, Waiting
  <1>6. PhaseOf(j)' = "queued" /\ RoundOf(j)' = 0
    BY <1>0, <1>5, NoneIsNoRow DEF PhaseOf, RoundOf, Exists
  <1>7. Lifecycle!Reopen(j)
    BY <1>0, <1>2, <1>4, <1>6, OneMoves DEF Lifecycle!Reopen, Retryable
  <1> QED BY <1>0, <1>7 DEF LifecycleStep, Lifecycle!LifecycleNext

LEMMA NextLifecycle ==
  ASSUME TurnFacts, Orderly, [Next]_vars
  PROVE  LifecycleStep
  <1>0. Inv
    BY DEF TurnFacts, Facts
  <1>1. ASSUME UNCHANGED <<job, worker, tip, green, red>>
        PROVE  LifecycleStep
    BY <1>1, OthersStay, NoneMoves
  <1>2. CASE GitHubStep
    <2>1. ASSUME ~(\E r \in running : RunEnds(r))
          PROVE  UNCHANGED <<job, worker, tip, green, red>>
      BY <1>2, <2>1 DEF GitHubStep, DevRunFails, Redeliver, LoseHook, dbVars, repoVars
    <2> QED BY <1>1, <2>1, VerdictStep
  <1>3. CASE RouterStep
    <2>1. ASSUME ~(\E h \in Handlers : InsertJob(h))
          PROVE  UNCHANGED <<job, worker, tip, green, red>>
      BY <1>3, <2>1 DEF RouterStep, DeliverCompletion, ReceiveFailure,
         SelectExisting, EnqueueInitial, IntakeRaises, HandlerCrashes,
         ReceiveCompletion, LockExpires, dbVars, repoVars, ciVars
    <2> QED BY <1>0, <1>1, <2>1, ReportStep
  <1>4. CASE ApiStep
    <2>1. ASSUME ~(\E c \in Clients : RetryCommits(c))
          PROVE  UNCHANGED <<job, worker, tip, green, red>>
      BY <1>4, <2>1 DEF ApiStep, RetryReads, RetryEnqueues, RetryFails, dbVars,
         repoVars, ciVars
    <2> QED BY <1>1, <2>1, ReopenStep
  <1>5. CASE WorkerStep
    BY <1>5, WorkerLifecycle DEF WorkerStep, AnyStep
  <1>6. CASE UNCHANGED vars
    BY <1>1, <1>6 DEF vars, dbVars, repoVars, ciVars
  <1> QED BY <1>2, <1>3, <1>4, <1>5, <1>6 DEF Next

\* README.md:36-82 and db.py:60, the rounds and ends of RepairLifecycle are
\* what the handlers, the endpoint, the workers and CI bring about together.
THEOREM LifecycleImplemented ==
  ASSUME Orderly
  PROVE  Spec => ImplementsLifecycle
  <1>1. Init => Lifecycle!LifecycleInit
    BY DEF Init, Lifecycle!LifecycleInit, PhaseOf, RoundOf, Exists
  <1>2. TurnFacts /\ [Next]_vars =>
          [Lifecycle!LifecycleNext]_<<[j \in Jobs |-> PhaseOf(j)],
                                      [j \in Jobs |-> RoundOf(j)]>>
    BY NextLifecycle DEF LifecycleStep
  <1> QED BY <1>1, <1>2, TurnFactsHold, PTL
          DEF Spec, ImplementsLifecycle, Lifecycle!LifecycleSpec

-----------------------------------------------------------------------------
(* The attempts of a job *)

\* Nobody starts a job again: retry_job numbers the attempts from 1 once more.
Unretried == Clients = {}

\* A stamp is of a run of the attempt's patch, and says what that run came to.
Stamped(a) ==
  /\ a.ciRun # None => a.ciRun.patch = a.patch /\ a.ciRun \in Ended
  /\ a.success <=> a.ciRun # None /\ a.ciRun \in green

Numbered(j) ==
  \A i \in DOMAIN attempts[j] : attempts[j][i].num = i /\ Stamped(attempts[j][i])

\* A worker that makes a patch for j, and one that holds the one before it.
Makes(w, j) == worker[w].pc \in {"graph", "pushed"} /\ JobOf(w) = j
Holder(w, j) == worker[w].pc \in {"bump", "count", "graph", "pushed"} /\ JobOf(w) = j

\* There is an attempt for each retry, and one more unless it is being made;
\* then the latest is the patch on the branch.
LatestInTurn(j) ==
  IF \E w \in Workers : Makes(w, j)
  THEN Len(attempts[j]) = job[j].retries
  ELSE LET n == job[j].retries + 1 IN
       Len(attempts[j]) = n /\ attempts[j][n].patch = tip[j]

\* The number and the previous patch that a worker holds.
HolderInTurn(w) ==
  /\ worker[w].pc \notin {"bump", "count"} =>
       worker[w].num = job[JobOf(w)].retries + 1
  /\ worker[w].pc # "pushed" /\ worker[w].task.fn = "completion" =>
       worker[w].prev = worker[w].task.run.patch

RowsInTurn(j) ==
  /\ Numbered(j)
  /\ ~Exists(j) \/ Waiting(j) => attempts[j] = <<>>
  /\ InRepair(j) => LatestInTurn(j)
  /\ \A w \in Workers : Holder(w, j) => HolderInTurn(w)

RowsInv == \A j \in Jobs : RowsInTurn(j)

\* All runs that have ended keep their verdict.
LEMMA VerdictsGrow ==
  ASSUME [Next]_vars
  PROVE  green \subseteq green' /\ red \subseteq red'
  <1>1. CASE GitHubStep
    BY <1>1 DEF GitHubStep, DevRunFails, RunEnds, Redeliver, LoseHook
  <1>2. CASE RouterStep
    BY <1>2 DEF RouterStep, DeliverCompletion, ReceiveFailure, SelectExisting,
       InsertJob, EnqueueInitial, IntakeRaises, HandlerCrashes, ReceiveCompletion,
       LockExpires, ciVars
  <1>3. CASE ApiStep
    BY <1>3 DEF ApiStep, RetryReads, RetryCommits, RetryEnqueues, RetryFails, ciVars
  <1>4. CASE WorkerStep
    BY <1>4, WorkerLeaves DEF WorkerStep, AnyStep
  <1>5. CASE UNCHANGED vars
    BY <1>5 DEF vars, ciVars
  <1> QED BY <1>1, <1>2, <1>3, <1>4, <1>5 DEF Next

LEMMA StampedStays ==
  ASSUME NEW a, Stamped(a), VerdictsKept', green \subseteq green', red \subseteq red'
  PROVE  Stamped(a)'
  BY DEF Stamped, VerdictsKept, Ended

\* What is said of j carries over if its rows, its branch and those who hold a
\* patch of it stay.
LEMMA RowsStay ==
  ASSUME NEW j \in Jobs, RowsInTurn(j), VerdictsKept',
         green \subseteq green', red \subseteq red',
         attempts'[j] = attempts[j], job'[j] = job[j], tip'[j] = tip[j],
         \A w \in Workers : Holder(w, j) \/ Holder(w, j)' => worker'[w] = worker[w]
  PROVE  RowsInTurn(j)'
  <1>1. Numbered(j)'
    BY StampedStays DEF RowsInTurn, Numbered
  <1>2. \A w \in Workers : Holder(w, j)' =>
          Holder(w, j) /\ worker'[w] = worker[w] /\ JobOf(w) = j
    BY DEF Holder, JobOf
  <1>3. \A w \in Workers : Makes(w, j)' <=> Makes(w, j)
    BY DEF Holder, Makes, JobOf
  <1>4. LatestInTurn(j)' <=> LatestInTurn(j)
    BY <1>3 DEF LatestInTurn
  <1>5. (Exists(j)' <=> Exists(j)) /\ (Waiting(j)' <=> Waiting(j))
        /\ (InRepair(j)' <=> InRepair(j))
    BY DEF Exists, Waiting, InRepair
  <1>6. ASSUME NEW w \in Workers, Holder(w, j)'
        PROVE  HolderInTurn(w)'
    <2>1. HolderInTurn(w) /\ worker'[w] = worker[w] /\ JobOf(w)' = j /\ JobOf(w) = j
      BY <1>2, <1>6 DEF RowsInTurn, JobOf
    <2> QED BY <2>1 DEF HolderInTurn
  <1> QED BY <1>1, <1>4, <1>5, <1>6 DEF RowsInTurn

\* With the rows numbered, the latest attempt is the last row.
LEMMA LatestIsLast ==
  ASSUME Inv, NEW j \in Jobs, Numbered(j), NEW i \in LatestAttempts(attempts[j])
  PROVE  i = Len(attempts[j]) /\ i \in DOMAIN attempts[j]
  <1>1. attempts[j] \in Seq(Attempt) /\ i \in DOMAIN attempts[j]
    BY DEF LatestAttempts, Inv, TypeOK
  <1> DEFINE n == Len(attempts[j])
  <1>2. n \in DOMAIN attempts[j] /\ i \in 1 .. n
    BY <1>1
  <1>3. attempts[j][n].num <= attempts[j][i].num
    BY <1>2 DEF LatestAttempts
  <1>4. n <= i
    BY <1>1, <1>2, <1>3 DEF Numbered
  <1> QED BY <1>2, <1>4

\* A stamp of the latest attempt with the run that tested it.
LEMMA StampKeepsRows ==
  ASSUME Inv, VerdictsKept', green \subseteq green', red \subseteq red',
         NEW j \in Jobs, Numbered(j), NEW i \in LatestAttempts(attempts[j]),
         NEW r \in Ended, r # None, r.patch = attempts[j][i].patch,
         NEW success \in BOOLEAN, success <=> r \in green,
         attempts'[j] = StampLatest(attempts[j], i, r, success)
  PROVE  /\ Numbered(j)'
         /\ Len(attempts'[j]) = Len(attempts[j])
         /\ \A k \in DOMAIN attempts[j] : attempts'[j][k].patch = attempts[j][k].patch
  <1> DEFINE rows == attempts[j]
  <1>1. rows \in Seq(Attempt) /\ i \in DOMAIN rows
    BY LatestIsLast DEF Inv, TypeOK
  <1>2. rows[i] \in Attempt
    BY <1>1
  <1> PICK a : a = StampLatest(rows, i, r, success)[i]
    OBVIOUS
  <1>3. a.num = rows[i].num /\ a.patch = rows[i].patch /\ a.ciRun = r
        /\ a.success = success
    BY <1>1, <1>2 DEF Attempt, StampLatest
  <1>4. /\ DOMAIN attempts'[j] = DOMAIN rows
        /\ attempts'[j][i] = a
        /\ \A k \in DOMAIN rows : k # i => attempts'[j][k] = rows[k]
    BY <1>1 DEF StampLatest
  <1>5. /\ DOMAIN attempts'[j] = DOMAIN rows /\ Len(attempts'[j]) = Len(rows)
        /\ attempts'[j][i] = a
        /\ \A k \in DOMAIN rows : k # i => attempts'[j][k] = rows[k]
    BY <1>1, <1>4
  <1>6. Stamped(a)
    BY <1>3 DEF Stamped
  <1>7. \A k \in DOMAIN rows : attempts'[j][k].num = k /\ Stamped(attempts'[j][k])
    BY <1>3, <1>5, <1>6 DEF Numbered
  <1>8. ASSUME NEW k \in DOMAIN rows
        PROVE  Stamped(attempts[j][k])'
    <2> PICK b : b = attempts'[j][k]
      OBVIOUS
    <2>1. Stamped(b)'
      BY <1>7, StampedStays
    <2> QED BY <2>1
  <1>9. Numbered(j)'
    BY <1>5, <1>7, <1>8 DEF Numbered
  <1> QED BY <1>3, <1>5, <1>9

\* Whoever has j in hand is alone with it, before and after its step.
LEMMA OnlyHolder ==
  ASSUME TurnFacts, NEW w \in Workers, AnyStep(w), NEW j \in Jobs, Holds(w, j)
  PROVE  /\ \A v \in Workers : Holder(v, j) \/ Holder(v, j)' => v = w
         /\ worker'[w].pc # "idle" =>
              JobOf(w)' = j /\ worker'[w].task = worker[w].task
  <1>1. Inv
    BY DEF TurnFacts, Facts
  <1>2. /\ \A v \in Workers : v # w => worker'[v] = worker[v]
        /\ worker'[w].pc # "idle" => worker'[w].task = worker[w].task
    BY <1>1, StepShape, GoesOnShape, DoneMoves DEF TakeTask, At, Holds
  <1>3. \A v \in Workers : Holder(v, j) => v = w
    BY WorkerAlone DEF Holder, Holds
  <1> QED BY <1>2, <1>3 DEF Holder, Holds, JobOf

LEMMA HandRows ==
  ASSUME TurnFacts, NEW w \in Workers, AnyStep(w), NEW j \in Jobs, Holds(w, j),
         Numbered(j)', Exists(j)', ~Waiting(j)',
         InRepair(j)' =>
           IF worker'[w].pc \in {"graph", "pushed"}
           THEN Len(attempts'[j]) = job'[j].retries
           ELSE LET n == job'[j].retries + 1 IN
                Len(attempts'[j]) = n /\ attempts'[j][n].patch = tip'[j],
         worker'[w].pc \in {"bump", "count", "graph", "pushed"} => HolderInTurn(w)'
  PROVE  RowsInTurn(j)'
  <1>1. \A v \in Workers : Holder(v, j)' => v = w
    BY OnlyHolder
  <1>2. (\E v \in Workers : Makes(v, j)') <=> worker'[w].pc \in {"graph", "pushed"}
    BY <1>1, OnlyHolder DEF Holder, Makes
  <1>3. InRepair(j)' => LatestInTurn(j)'
    BY <1>2 DEF LatestInTurn
  <1>4. \A v \in Workers : Holder(v, j)' => HolderInTurn(v)'
    BY <1>1 DEF Holder
  <1> QED BY <1>3, <1>4 DEF RowsInTurn

\* The first repair: no attempt yet.
LEMMA StartInitialRows ==
  ASSUME TurnFacts, VerdictsKept', NEW w \in Workers, StartInitial(w),
         NEW j \in Jobs, Holds(w, j), RowsInTurn(j)
  PROVE  RowsInTurn(j)'
  <1>0. JobOf(w) = j /\ Facts /\ Inv /\ TypeOK /\ AnyStep(w)
    BY DEF Holds, TurnFacts, Facts, Inv, AnyStep, WorkerAdvances
  <1> USE <1>0
  <1>1. /\ worker[w].pc = "start" /\ worker[w].task.fn = "initial"
        /\ worker[w] \in WorkerStates /\ job[j] \in Row
    BY WorkersJob DEF StartInitial, At, Inv
  <1>2. Waiting(j)
    BY <1>1, WorkerMovesIt DEF WorkerInTurn, TaskInTurn, Answered, JobOf
  <1>3. attempts[j] = <<>> /\ job[j].retries = 0
    BY <1>2 DEF RowsInTurn, TurnFacts, TurnInv, InTurn
  <1>4. attempts'[j] = <<>> /\ Numbered(j)'
    BY <1>3 DEF StartInitial, Numbered
  <1>5. /\ job'[j] = [job[j] EXCEPT !.status = "repairing"]
        /\ worker'[w].pc = "graph" /\ worker'[w].num = 1
        /\ worker'[w].task.fn = "initial"
    BY <1>1 DEF StartInitial, TypeOK, WorkerStates
  <1> PICK row : row = job'[j]
    OBVIOUS
  <1>6. row.status = "repairing" /\ row.retries = 0 /\ row # None
    BY <1>1, <1>3, <1>5, NoneIsNoRow DEF Row, Statuses
  <1>7. Exists(j)' /\ ~Waiting(j)' /\ job'[j].retries = 0
    BY <1>6 DEF Exists, Waiting
  <1>8. HolderInTurn(w)'
    <2>1. JobOf(w)' = j
      BY <1>5, OnlyHolder
    <2>2. /\ worker'[w].pc = "graph" /\ worker'[w].num = 1
          /\ worker'[w].task.fn = "initial" /\ job'[JobOf(w)'].retries = 0
      BY <1>5, <1>7, <2>1
    <2> HIDE <1>0
    <2> QED BY <2>2 DEF HolderInTurn
  <1> QED BY <1>4, <1>5, <1>7, <1>8, HandRows


\* A verdict is on the latest attempt.
LEMMA VerdictOnLatest ==
  ASSUME TurnFacts, NEW w \in Workers, NEW j \in Jobs, Holds(w, j), RowsInTurn(j),
         Answered(worker[w].task), worker[w].pc # "graph"
  PROVE  /\ Inv /\ VerdictsKept /\ InRepair(j) /\ Numbered(j) /\ JobOf(w) = j
         /\ worker[w].task.run \in RunIds /\ worker[w].task.run # None
         /\ attempts[j] # <<>>
         /\ Len(attempts[j]) = job[j].retries + 1
         /\ Len(attempts[j]) \in DOMAIN attempts[j]
         /\ worker[w].task.run.patch = tip[j]
         /\ \A i \in LatestAttempts(attempts[j]) :
              /\ i = Len(attempts[j])
              /\ attempts[j][i].patch = worker[w].task.run.patch
  <1>1. /\ Inv /\ VerdictsKept /\ JobOf(w) = j /\ InRepair(j) /\ Numbered(j)
        /\ worker[w].task.run.patch = tip[j]
    BY DEF TurnFacts, Facts, TurnInv, Holds, Answered, JobOf, RowsInTurn
  <1>2. worker[w].task.run \in RunIds /\ worker[w].task.run # None
    <2>1. worker[w].task \in Tasks
      BY <1>1, WorkersJob DEF Holds, Inv
    <2> QED BY <2>1, TaskFields, NoneIsNoRun DEF Answered
  <1>3. ~(\E v \in Workers : Makes(v, j))
    BY WorkerAlone DEF Makes, Holds
  <1>4. /\ Len(attempts[j]) = job[j].retries + 1
        /\ attempts[j][job[j].retries + 1].patch = tip[j]
    BY <1>1, <1>3 DEF RowsInTurn, LatestInTurn
  <1>5. attempts[j] \in Seq(Attempt) /\ job[j].retries \in Nat
    BY <1>1 DEF Inv, TypeOK, InRepair, Exists, Row
  <1>6. attempts[j] # <<>> /\ Len(attempts[j]) \in DOMAIN attempts[j]
    BY <1>4, <1>5
  <1> QED BY <1>1, <1>2, <1>4, <1>6, LatestIsLast

\* What a verdict stamps is the patch it is on.
LEMMA StampsLatest ==
  ASSUME TurnFacts, VerdictsKept', NEW w \in Workers, NEW j \in Jobs, Holds(w, j),
         RowsInTurn(j), Answered(worker[w].task), worker[w].pc # "graph",
         NEW i \in LatestAttempts(attempts[j]), NEW success \in BOOLEAN,
         success <=> worker[w].task.concl = "success",
         worker[w].task.concl \in Conclusions,
         attempts' = [attempts EXCEPT ![j] =
                        StampLatest(@, i, worker[w].task.run, success)],
         UNCHANGED <<job, tip, green, red>>
  PROVE  /\ Numbered(j)' /\ Exists(j)' /\ ~Waiting(j)'
         /\ Len(attempts'[j]) = job'[j].retries + 1
         /\ attempts'[j][job'[j].retries + 1].patch = tip'[j]
         /\ attempts[j][i].patch = worker[w].task.run.patch
  <1> PICK r : r = worker[w].task.run
    OBVIOUS
  <1>1. /\ Inv /\ VerdictsKept /\ InRepair(j) /\ Numbered(j)
        /\ r # None /\ r.patch = tip[j] /\ r.patch = attempts[j][i].patch
        /\ Len(attempts[j]) = job[j].retries + 1
        /\ Len(attempts[j]) \in DOMAIN attempts[j]
        /\ attempts[j][Len(attempts[j])].patch = tip[j]
    BY VerdictOnLatest
  <1>2. r \in Ended /\ (success <=> r \in green)
    BY <1>1 DEF Answered, VerdictsKept, Ended, Conclusions
  <1>3. attempts'[j] = StampLatest(attempts[j], i, r, success)
    BY <1>1 DEF Inv, TypeOK
  <1>4. /\ Numbered(j)'
        /\ Len(attempts'[j]) = Len(attempts[j])
        /\ \A k \in DOMAIN attempts[j] : attempts'[j][k].patch = attempts[j][k].patch
    BY <1>1, <1>2, <1>3, StampKeepsRows
  <1>5. Exists(j)' /\ ~Waiting(j)'
    BY <1>1 DEF InRepair, Exists, Waiting, Underway
  <1> QED BY <1>1, <1>4, <1>5

LEMMA StartGreenRows ==
  ASSUME TurnFacts, VerdictsKept', NEW w \in Workers, StartGreen(w),
         NEW j \in Jobs, Holds(w, j), RowsInTurn(j)
  PROVE  RowsInTurn(j)'
  <1>1. /\ JobOf(w) = j /\ Inv /\ TypeOK /\ AnyStep(w)
        /\ worker[w].pc = "start" /\ worker[w].task.fn = "completion"
        /\ worker[w].task.concl = "success"
    BY DEF Holds, TurnFacts, Facts, Inv, AnyStep, WorkerAdvances, StartGreen,
           Completes, At
  <1>2. Answered(worker[w].task)
    <2>1. TaskInTurn(worker[w].task)
      BY <1>1, WorkerMovesIt DEF WorkerInTurn
    <2>2. worker[w].task # InitialTask(j)
      BY <1>1, InitialTaskIsTask
    <2> QED BY <1>1, <2>1, <2>2 DEF TaskInTurn, JobOf
  <1>3. attempts[j] # <<>>
    BY <1>1, <1>2, VerdictOnLatest
  <1>4. PICK i \in LatestAttempts(attempts[j]) :
          attempts' = [attempts EXCEPT ![j] =
                         StampLatest(@, i, worker[w].task.run, TRUE)]
    BY <1>1, <1>3 DEF StartGreen, Stamps
  <1>5. UNCHANGED <<job, tip, green, red>> /\ worker'[w].pc = "green"
    BY <1>1 DEF StartGreen, repoVars, ciVars, TypeOK, WorkerStates
  <1>6. /\ Numbered(j)' /\ Exists(j)' /\ ~Waiting(j)'
        /\ Len(attempts'[j]) = job'[j].retries + 1
        /\ attempts'[j][job'[j].retries + 1].patch = tip'[j]
    BY <1>1, <1>2, <1>4, <1>5, StampsLatest DEF Conclusions
  <1> QED BY <1>1, <1>5, <1>6, HandRows

LEMMA StampRedRows ==
  ASSUME TurnFacts, VerdictsKept', NEW w \in Workers, StampRed(w),
         NEW j \in Jobs, Holds(w, j), RowsInTurn(j)
  PROVE  RowsInTurn(j)'
  <1>1. /\ JobOf(w) = j /\ Inv /\ TypeOK /\ AnyStep(w) /\ worker[w].pc = "red"
    BY DEF Holds, TurnFacts, Facts, Inv, AnyStep, WorkerAdvances, StampRed, At
  <1>2. Answered(worker[w].task) /\ worker[w].task.concl = "failure"
    BY <1>1, WorkerMovesIt DEF WorkerInTurn, AfterRedRun
  <1>3. attempts[j] # <<>>
    BY <1>1, <1>2, VerdictOnLatest
  <1>4. PICK i \in LatestAttempts(attempts[j]) :
          /\ attempts' = [attempts EXCEPT ![j] =
                            StampLatest(@, i, worker[w].task.run, FALSE)]
          /\ worker' = [worker EXCEPT ![w].pc = "bump", ![w].loaded = None,
                                      ![w].prev = attempts[j][i].patch]
    BY <1>1, <1>3 DEF StampRed
  <1>5. UNCHANGED <<job, tip, green, red>>
    BY DEF StampRed, repoVars, ciVars
  <1>6. /\ worker'[w].pc = "bump" /\ worker'[w].prev = attempts[j][i].patch
        /\ worker'[w].task = worker[w].task
    BY <1>1, <1>4 DEF TypeOK, WorkerStates
  <1>7. /\ Numbered(j)' /\ Exists(j)' /\ ~Waiting(j)'
        /\ Len(attempts'[j]) = job'[j].retries + 1
        /\ attempts'[j][job'[j].retries + 1].patch = tip'[j]
        /\ attempts[j][i].patch = worker[w].task.run.patch
    BY <1>1, <1>2, <1>4, <1>5, StampsLatest DEF Conclusions
  <1>8. HolderInTurn(w)'
    BY <1>6, <1>7 DEF HolderInTurn
  <1> QED BY <1>1, <1>6, <1>7, <1>8, HandRows

LEMMA ReadRetriesRows ==
  ASSUME TurnFacts, VerdictsKept', NEW w \in Workers, ReadRetries(w),
         NEW j \in Jobs, Holds(w, j), RowsInTurn(j)
  PROVE  RowsInTurn(j)'
  <1>1. /\ JobOf(w) = j /\ Inv /\ TypeOK /\ AnyStep(w) /\ worker[w].pc = "bump"
        /\ UNCHANGED <<job, attempts, tip, green, red>>
    BY DEF Holds, TurnFacts, Facts, Inv, AnyStep, WorkerAdvances, ReadRetries, At,
           dbVars, repoVars, ciVars
  <1>2. Answered(worker[w].task)
    BY <1>1, WorkerMovesIt DEF WorkerInTurn, AfterRedRun
  <1>3. /\ InRepair(j) /\ Numbered(j) /\ attempts[j] # <<>>
        /\ Len(attempts[j]) = job[j].retries + 1
        /\ attempts[j][job[j].retries + 1].patch = tip[j]
    <2>1. ~(\E v \in Workers : Makes(v, j))
      BY <1>1, WorkerAlone DEF Makes, Holds
    <2> QED BY <1>1, <1>2, <2>1, VerdictOnLatest DEF RowsInTurn, LatestInTurn
  <1>4. /\ worker'[w].pc = "count" /\ worker'[w].task = worker[w].task
        /\ worker'[w].prev = worker[w].prev
    BY <1>1, ReadRetriesShape DEF WorkerStates
  <1>5. HolderInTurn(w)'
    <2>1. worker[w].task.fn = "completion" => worker[w].prev = worker[w].task.run.patch
      BY <1>1 DEF RowsInTurn, Holder, HolderInTurn
    <2> QED BY <1>4, <2>1 DEF HolderInTurn
  <1>6. Numbered(j)' /\ Exists(j)' /\ ~Waiting(j)'
    BY <1>1, <1>3
       DEF Numbered, Stamped, Ended, Exists, Waiting, InRepair, Underway
  <1> QED BY <1>1, <1>3, <1>4, <1>5, <1>6, HandRows

LEMMA BumpRetryRows ==
  ASSUME TurnFacts, VerdictsKept', NEW w \in Workers, BumpRetry(w),
         NEW j \in Jobs, Holds(w, j), RowsInTurn(j)
  PROVE  RowsInTurn(j)'
  <1>1. /\ JobOf(w) = j /\ Facts /\ Inv /\ TypeOK /\ AnyStep(w)
        /\ worker[w].pc = "count" /\ worker[w] \in WorkerStates /\ job[j] \in Row
        /\ UNCHANGED <<attempts, tip, green, red>>
    <2>1. worker[w] \in WorkerStates /\ job[j] \in Row
      BY WorkersJob DEF Holds, TurnFacts, Facts, Inv
    <2> QED BY <2>1 DEF Holds, TurnFacts, Facts, Inv, AnyStep, WorkerAdvances,
               BumpRetry, At, repoVars, ciVars
  <1>2. /\ Answered(worker[w].task)
        /\ worker[w].loaded.retries = job[j].retries
    BY <1>1, WorkerMovesIt DEF WorkerInTurn, AfterRedRun
  <1>3. Len(attempts[j]) = job[j].retries + 1 /\ Numbered(j)
    BY <1>1, <1>2, VerdictOnLatest
  <1>4. JobRow(w) = worker[w].loaded
    BY <1>1 DEF JobRow, Facts, SessionInv, SessionFits
  <1> PICK row : row = job'[j]
    OBVIOUS
  <1>5. row # None /\ row.status = "retrying"
    BY <1>1, BumpIsUnderway
  <1>6. row.retries = job[j].retries + 1
    <2>1. job'[j].retries = JobRow(w).retries + 1
      BY <1>1, BumpRetryShape
    <2>2. JobRow(w).retries = job[j].retries
      BY <1>2, <1>4
    <2> QED BY <2>1, <2>2
  <1>7. /\ worker'[w].pc = "graph" /\ worker'[w].num = row.retries + 1
        /\ worker'[w].prev = worker[w].prev
    BY <1>1 DEF BumpRetry, TypeOK, WorkerStates
  <1>8. JobOf(w)' = j /\ worker'[w].task = worker[w].task
    BY <1>1, <1>7, OnlyHolder
  <1>9. Exists(j)' /\ ~Waiting(j)'
    BY <1>5 DEF Exists, Waiting
  <1>10. HolderInTurn(w)'
    <2>1. worker[w].prev = worker[w].task.run.patch
      BY <1>1, <1>2 DEF RowsInTurn, Holder, HolderInTurn, Answered
    <2>2. /\ worker'[w].prev = worker'[w].task.run.patch
          /\ worker'[w].num = job'[JobOf(w)'].retries + 1
      BY <1>7, <1>8, <2>1
    <2> QED BY <2>2 DEF HolderInTurn
  <1>11. Numbered(j)'
    BY <1>1, <1>3 DEF Numbered, Stamped, Ended
  <1> QED BY <1>1, <1>3, <1>6, <1>7, <1>9, <1>10, <1>11, HandRows


\* Steps that leave the rows, the branch, and what the holder of a patch has.
LEMMA QuietRows ==
  ASSUME TurnFacts, VerdictsKept', NEW w \in Workers,
         \/ TakeTask(w) \/ StartRed(w) \/ FetchInternal(w) \/ PushClean(w)
         \/ OpenPR(w) \/ Escalate(w),
         NEW j \in Jobs, RowsInTurn(j)
  PROVE  RowsInTurn(j)'
  <1>1. AnyStep(w) /\ Inv /\ TypeOK
    BY DEF TurnFacts, Facts, Inv, AnyStep, WorkerAdvances
  <1>2. UNCHANGED <<attempts, job, tip, green, red>>
    BY DEF TakeTask, StartRed, FetchInternal, PushClean, OpenPR, Escalate, dbVars,
           repoVars, ciVars
  <1>3. \A v \in Workers : v # w => worker'[v] = worker[v]
    BY <1>1, StepShape
  <1>4. /\ worker[w].pc \notin {"bump", "count", "graph", "pushed"}
        /\ worker'[w].pc \notin {"bump", "count", "graph", "pushed"}
    BY <1>1 DEF TakeTask, StartRed, FetchInternal, PushClean, OpenPR, Escalate,
       Completes, At, Goto, Done, IdleWorker, TypeOK, WorkerStates
  <1>5. \A v \in Workers : Holder(v, j) \/ Holder(v, j)' => worker'[v] = worker[v]
    BY <1>3, <1>4 DEF Holder
  <1> QED BY <1>2, <1>5, RowsStay

LEMMA PushPatchRows ==
  ASSUME TurnFacts, VerdictsKept', NEW w \in Workers, NEW ft \in FailureTypes,
         PushPatch(w, ft), NEW j \in Jobs, Holds(w, j), RowsInTurn(j)
  PROVE  RowsInTurn(j)'
  <1>1. /\ JobOf(w) = j /\ Inv /\ TypeOK /\ AnyStep(w) /\ worker[w].pc = "graph"
        /\ UNCHANGED <<job, attempts, green, red>>
    BY DEF Holds, TurnFacts, Facts, Inv, AnyStep, WorkerAdvances, PushPatch, At,
           dbVars
  <1>2. InRepair(j)
    BY <1>1, WorkerMovesIt DEF WorkerInTurn
  <1>3. Len(attempts[j]) = job[j].retries /\ Numbered(j)
    BY <1>1, <1>2 DEF RowsInTurn, LatestInTurn, Makes
  <1>4. worker'[w].pc = "pushed" /\ worker'[w].num = worker[w].num
    BY <1>1 DEF PushPatch, TypeOK, WorkerStates
  <1>5. JobOf(w)' = j
    BY <1>1, <1>4, OnlyHolder
  <1>6. HolderInTurn(w)'
    <2>1. worker[w].num = job[j].retries + 1
      BY <1>1 DEF RowsInTurn, Holder, HolderInTurn
    <2>2. worker'[w].num = job'[JobOf(w)'].retries + 1
      BY <1>1, <1>4, <1>5, <2>1
    <2> QED BY <1>4, <2>2 DEF HolderInTurn
  <1>7. Numbered(j)' /\ Exists(j)' /\ ~Waiting(j)'
    BY <1>1, <1>2, <1>3
       DEF Numbered, Stamped, Ended, Exists, Waiting, InRepair, Underway
  <1> QED BY <1>1, <1>3, <1>4, <1>6, <1>7, HandRows

\* A row that is added gets the next number and no stamp.
LEMMA NextNumber ==
  ASSUME Inv, VerdictsKept', green \subseteq green', red \subseteq red',
         NEW j \in Jobs, Numbered(j), NEW a, a.num = Len(attempts[j]) + 1,
         a.ciRun = None, a.success = FALSE,
         attempts' = [attempts EXCEPT ![j] = Append(@, a)]
  PROVE  /\ Numbered(j)'
         /\ Len(attempts'[j]) = Len(attempts[j]) + 1
         /\ attempts'[j][Len(attempts[j]) + 1] = a
  <1> PICK rows : rows = attempts[j]
    OBVIOUS
  <1> PICK n : n = Len(rows) + 1
    OBVIOUS
  <1>1. rows \in Seq(Attempt) /\ attempts'[j] = Append(rows, a)
    BY DEF Inv, TypeOK
  <1>2. /\ DOMAIN attempts'[j] = DOMAIN rows \union {n}
        /\ Len(attempts'[j]) = n /\ attempts'[j][n] = a
        /\ \A k \in DOMAIN rows : attempts'[j][k] = rows[k]
    BY <1>1
  <1>3. Stamped(a)'
    BY DEF Stamped
  <1>4. \A k \in DOMAIN rows : rows[k].num = k /\ Stamped(rows[k])
    BY DEF Numbered
  <1>5. ASSUME NEW k \in DOMAIN rows
        PROVE  attempts'[j][k].num = k /\ Stamped(attempts[j][k])'
    <2> PICK b : b = rows[k]
      OBVIOUS
    <2>1. b.num = k /\ Stamped(b)'
      BY <1>4, StampedStays
    <2> QED BY <1>2, <2>1
  <1>6. attempts'[j][n].num = n /\ Stamped(attempts[j][n])'
    BY <1>2, <1>3
  <1>7. Numbered(j)'
    BY <1>2, <1>5, <1>6 DEF Numbered
  <1> QED BY <1>2, <1>7

LEMMA SettledRows ==
  ASSUME TurnFacts, TurnInv', NEW w \in Workers, Settles(w) \/ StartExhausted(w),
         NEW j \in Jobs, Holds(w, j), RowsInTurn(j)
  PROVE  RowsInTurn(j)'
  <1>1. /\ JobOf(w) = j /\ Inv /\ TypeOK /\ AnyStep(w) /\ Exists(j)
        /\ VerdictsKept' /\ PRsInTurn(j)' /\ Numbered(j)
    <2>1. AnyStep(w)
      BY DEF Settles, AnyStep, WorkerAdvances
    <2> QED BY <2>1, WorkerMovesIt
            DEF Holds, TurnFacts, Facts, Inv, TurnInv, InTurn, RowsInTurn
  <1>2. job'[j].status \in Terminal
    BY <1>1, WorkerSettles
  <1>3. Exists(j)' /\ ~Waiting(j)' /\ ~InRepair(j)'
    BY <1>1, <1>2, WorkerColumns
       DEF RunsStay, Exists, Waiting, InRepair, Terminal, Underway
  <1>4. worker'[w].pc \in {"idle", "escalate"}
    <2>1. CASE Settles(w)
      <3>1. Done(w)
        BY <2>1 DEF Settles, DropOut, RejectPatch, CommitPR, Raise
      <3> QED BY <1>1, <3>1, DoneMoves
    <2>2. CASE StartExhausted(w)
      BY <1>1, <2>2 DEF StartExhausted, Goto, TypeOK, WorkerStates
    <2> QED BY <2>1, <2>2
  <1>5. UNCHANGED <<green, red>>
    BY DEF Settles, DropOut, RejectPatch, CommitPR, Raise, StartExhausted, ciVars
  <1>6. Numbered(j)'
    <2>1. ASSUME NEW ft \in FailureTypes, RejectPatch(w, ft)
          PROVE  Numbered(j)'
      <3> PICK a : a = [num |-> worker[w].num, patch |-> patches[j] + 1,
                        pushed |-> FALSE, success |-> FALSE, ciRun |-> None,
                        output |-> TRUE]
        OBVIOUS
      <3>1. worker[w].pc = "graph" /\ attempts' = [attempts EXCEPT ![j] = Append(@, a)]
        BY <1>1, <2>1 DEF RejectPatch, At
      <3>2. InRepair(j)
        BY <1>1, <3>1, WorkerMovesIt DEF WorkerInTurn
      <3>3. Len(attempts[j]) = job[j].retries /\ worker[w].num = job[j].retries + 1
        BY <1>1, <3>1, <3>2
           DEF RowsInTurn, LatestInTurn, Makes, Holder, HolderInTurn
      <3>4. a.num = worker[w].num /\ a.ciRun = None /\ a.success = FALSE
        OBVIOUS
      <3>5. a.num = Len(attempts[j]) + 1
        BY <3>3, <3>4
      <3>6. green \subseteq green' /\ red \subseteq red'
        BY <1>5
      <3> QED BY <1>1, <3>1, <3>4, <3>5, <3>6, NextNumber
    <2>2. CASE UNCHANGED attempts
      BY <1>1, <1>5, <2>2 DEF Numbered, Stamped, Ended
    <2> QED BY <2>1, <2>2
            DEF Settles, DropOut, CommitPR, Raise, StartExhausted
  <1> QED BY <1>1, <1>3, <1>4, <1>6, HandRows

\* Between the push and the commit nobody else works on the job.
LEMMA PushedAlone ==
  ASSUME TurnFacts, NEW j \in Jobs, NEW w \in Workers, worker[w].pc = "pushed",
         JobOf(w) = j
  PROVE  \A v \in Workers : /\ ~Holds(v, j)
                            /\ worker[v].pc = "pushed" /\ JobOf(v) = j => v = w
  <1>1. Facts /\ InTurn(j)
    BY DEF TurnFacts, TurnInv
  <1>2. PICK x \in Drivers(j) : x[1] = "run"
    <2>1. PICK r \in running : <<"run", r>> \in Drivers(j)
      BY <1>1, PushWaits
    <2> QED BY <2>1
  <1>3. \A v \in Workers : ~Holds(v, j)
    BY <1>1, <1>2, NothingElse DEF InTurn
  <1> QED BY <1>1, <1>3 DEF InTurn, OnePush

LEMMA PushedLeaves ==
  ASSUME TurnFacts, NEW j \in Jobs, NEW w \in Workers, AnyStep(w), Done(w),
         worker[w].pc = "pushed", JobOf(w) = j
  PROVE  \A v \in Workers : worker'[v].pc \in {"idle", "escalate"} \/ JobOf(v)' # j
  <1> SUFFICES ASSUME NEW v \in Workers, worker'[v].pc # "idle", JobOf(v)' = j
               PROVE  worker'[v].pc = "escalate"
    OBVIOUS
  <1>1. /\ worker'[w].pc = "idle"
        /\ \A u \in Workers : u # w => worker'[u] = worker[u]
    BY DoneMoves, StepShape DEF TurnFacts, Facts
  <1>2. v # w /\ worker'[v] = worker[v]
    BY <1>1
  <1>3. JobOf(v) = j
    BY <1>2 DEF JobOf
  <1>4. ~Holds(v, j) /\ worker[v].pc # "pushed"
    BY <1>2, <1>3, PushedAlone
  <1> QED BY <1>2, <1>3, <1>4 DEF Holds

\* The attempt of a patch is recorded after all the others.
LEMMA RecordAttemptRows ==
  ASSUME TurnFacts, VerdictsKept', NEW w \in Workers, RecordAttempt(w),
         NEW j \in Jobs, JobOf(w) = j, RowsInTurn(j)
  PROVE  RowsInTurn(j)'
  <1>1. /\ Facts /\ Inv /\ TypeOK /\ InTurn(j) /\ AnyStep(w) /\ Numbered(j)
        /\ worker[w].pc = "pushed" /\ Done(w) /\ UNCHANGED <<tip, green, red>>
    BY DEF TurnFacts, Facts, Inv, TurnInv, RowsInTurn, AnyStep, WorkerAdvances,
           RecordAttempt, At, repoVars, ciVars
  <1>2. InRepair(j) /\ worker[w].patch = tip[j]
    BY <1>1 DEF InTurn, WorkersInTurn, WorkerInTurn
  <1>3. Len(attempts[j]) = job[j].retries /\ worker[w].num = job[j].retries + 1
    BY <1>1, <1>2 DEF RowsInTurn, LatestInTurn, Makes, Holder, HolderInTurn
  <1> PICK a : a = PushedAttempt(w)
    OBVIOUS
  <1>4. /\ a.num = worker[w].num /\ a.patch = worker[w].patch
        /\ a.ciRun = None /\ a.success = FALSE
        /\ attempts' = [attempts EXCEPT ![j] = Append(@, a)]
    BY DEF PushedAttempt, RecordAttempt
  <1>5. /\ Numbered(j)'
        /\ Len(attempts'[j]) = job[j].retries + 1
        /\ attempts'[j][job[j].retries + 1] = a
    BY <1>1, <1>3, <1>4, NextNumber
  <1>6. \A v \in Workers : ~Holder(v, j)'
    BY <1>1, PushedLeaves DEF Holder
  <1>7. Exists(j)' /\ ~Waiting(j)'
    <2>1. job'[j].status = job[j].status
      BY <1>1, RecordKeepsStatus
    <2> QED BY <1>1, <1>2, <2>1, WorkerColumns
            DEF RunsStay, InRepair, Exists, Waiting, Underway
  <1>8. job'[j].retries = job[j].retries
    <2>1. ~BumpRetry(w)
      BY <1>1 DEF BumpRetry, At
    <2> QED BY <1>1, <1>2, <2>1, WorkerColumns DEF RetriesStay, InRepair
  <1>9. LatestInTurn(j)'
    BY <1>1, <1>2, <1>4, <1>5, <1>6, <1>8 DEF LatestInTurn, Makes, Holder
  <1> QED BY <1>5, <1>6, <1>7, <1>9 DEF RowsInTurn

LEMMA WorkerStepRows ==
  ASSUME TurnFacts, TurnInv', Orderly, NEW w \in Workers, AnyStep(w), NEW j \in Jobs,
         RowsInTurn(j)
  PROVE  RowsInTurn(j)'
  <1>0. Facts /\ Inv /\ VerdictsKept' /\ ~WorkerCrashes(w)
    BY DEF TurnFacts, Facts, TurnInv, Orderly, WorkerCrashes
  <1>1. CASE \/ TakeTask(w) \/ StartRed(w) \/ FetchInternal(w) \/ PushClean(w)
             \/ OpenPR(w) \/ Escalate(w)
    BY <1>0, <1>1, QuietRows
  <1>2. CASE ~TakeTask(w) /\ JobOf(w) # j
    <2>1. Untouched(j)
      BY <1>0, <1>2, WorkerStepUntouched
    <2>2. attempts'[j] = attempts[j]
      BY <1>0, <1>2, AttemptsOfOthers
    <2>3. \A v \in Workers : Holder(v, j) \/ Holder(v, j)' => worker'[v] = worker[v]
      BY <2>1 DEF Untouched, Engaged, Holder, JobOf
    <2> QED BY <1>0, <2>1, <2>2, <2>3, RowsStay DEF Untouched
  <1>3. CASE RecordAttempt(w) /\ JobOf(w) = j
    BY <1>0, <1>3, RecordAttemptRows
  <1>4. ASSUME JobOf(w) = j,
               \/ Settles(w) \/ StartExhausted(w)
               \/ StartInitial(w) \/ StartGreen(w) \/ StampRed(w) \/ ReadRetries(w)
               \/ BumpRetry(w)
               \/ \E ft \in FailureTypes : PushPatch(w, ft)
        PROVE  RowsInTurn(j)'
    <2>1. Holds(w, j)
      BY <1>4 DEF Settles, DropOut, RejectPatch, CommitPR, Raise, StartExhausted,
         StartInitial, StartGreen, Completes, StampRed, ReadRetries, BumpRetry,
         PushPatch, At,
         Holds, Orderly, CallPoints
    <2> QED BY <1>0, <1>4, <2>1, SettledRows, StartInitialRows, StartGreenRows,
               StampRedRows, ReadRetriesRows, BumpRetryRows,
               PushPatchRows
  <1> QED BY <1>0, <1>1, <1>2, <1>3, <1>4 DEF AnyStep, WorkerAdvances, Settles

\* A job that is inserted has no attempts yet.
LEMMA InsertJobRows ==
  ASSUME TurnFacts, VerdictsKept', NEW h \in Handlers, InsertJob(h), NEW j \in Jobs,
         RowsInTurn(j)
  PROVE  RowsInTurn(j)'
  <1>1. /\ Inv
        /\ UNCHANGED <<worker, attempts, tip, green, red>>
    BY DEF TurnFacts, Facts, InsertJob, dbVars, repoVars, ciVars
  <1>2. CASE job'[j] = job[j]
    BY <1>1, <1>2, RowsStay
  <1>3. CASE job'[j] # job[j]
    <2>1. PICK d \in DevRuns : job[j] = None /\ job'[j] = NewRow(d)
      BY <1>1, <1>3, InsertedRow
    <2>2. attempts'[j] = <<>>
      BY <1>1, <2>1 DEF RowsInTurn, Exists
    <2>3. \A w \in Workers : ~Holder(w, j)'
      BY <1>1, <2>1 DEF Holder, Inv, NothingDangles, WorkersHaveJobs, Exists, JobOf
    <2>4. ~InRepair(j)'
      BY <2>1 DEF InRepair, Underway, NewRow
    <2> QED BY <2>2, <2>3, <2>4 DEF RowsInTurn, Numbered
  <1> QED BY <1>2, <1>3

LEMMA NextRows ==
  ASSUME TurnFacts, TurnInv', Orderly, Unretried, [Next]_vars, RowsInv
  PROVE  RowsInv'
  <1> SUFFICES ASSUME NEW j \in Jobs
               PROVE  RowsInTurn(j)'
    BY DEF RowsInv
  <1>0. Inv /\ RowsInTurn(j) /\ VerdictsKept'
    BY DEF TurnFacts, Facts, TurnInv, RowsInv
  <1>1. CASE UNCHANGED <<worker, attempts, tip, job>>
    BY <1>0, <1>1, VerdictsGrow, RowsStay
  <1>2. CASE GitHubStep \/ RouterStep \/ ApiStep
    BY <1>0, <1>1, <1>2, OtherSteps, InsertJobRows DEF Unretried
  <1>3. CASE WorkerStep
    BY <1>0, <1>3, WorkerStepRows DEF WorkerStep, AnyStep
  <1>4. CASE UNCHANGED vars
    BY <1>1, <1>4 DEF vars, dbVars, repoVars
  <1> QED BY <1>2, <1>3, <1>4 DEF Next

LEMMA InitRows ==
  ASSUME Init
  PROVE  RowsInv
  <1>1. \A w \in Workers : worker[w].pc = "idle"
    BY DEF Init, IdleWorker
  <1> QED BY <1>1
          DEF Init, RowsInv, RowsInTurn, Numbered, InRepair, Exists, Holder

\* The rows of patch_attempts say, at any time, which patch is on the branch
\* and how many there have been.
THEOREM RowsInvHolds ==
  ASSUME Orderly, Unretried
  PROVE  Spec => [](TurnInv /\ RowsInv)
  <1>1. Init => RowsInv
    BY InitRows
  <1>2. TurnFacts /\ TurnFacts' /\ RowsInv /\ [Next]_vars => RowsInv'
    BY NextRows DEF TurnFacts
  <1>3. TurnFacts => TurnInv
    BY DEF TurnFacts
  <1> QED BY <1>1, <1>2, <1>3, TurnFactsHold, PTL DEF Spec

\* README.md:282, the attempts of a job are numbered 1, 2, 3 without gaps,
\* whoever writes them.
THEOREM AttemptsAreNumbered ==
  ASSUME Orderly, Unretried
  PROVE  Spec => []AttemptsNumbered
  <1>1. RowsInv => AttemptsNumbered
    BY DEF RowsInv, RowsInTurn, Numbered, AttemptsNumbered
  <1> QED BY <1>1, RowsInvHolds, PTL

\* orchestrator.py:159-174 and 354-363, a verdict is stamped on the attempt
\* whose patch was tested.
THEOREM StampsTrue ==
  ASSUME Orderly, Unretried
  PROVE  Spec => []StampsAreTrue
  <1>1. RowsInv => StampsAreTrue
    BY DEF RowsInv, RowsInTurn, Numbered, Stamped, StampsAreTrue
  <1> QED BY <1>1, RowsInvHolds, PTL

\* README.md:108, the patch that a retry is shown is the one that failed.
THEOREM RetriesPrimed ==
  ASSUME Orderly, Unretried
  PROVE  Spec => []PrimedWithFailedPatch
  <1>1. Inv /\ RowsInv => PrimedWithFailedPatch
    <2> SUFFICES ASSUME Inv, RowsInv, NEW w \in Workers, At(w, "graph"),
                        worker[w].task.fn = "completion"
                 PROVE  worker[w].prev = worker[w].task.run.patch
      BY DEF PrimedWithFailedPatch
    <2>1. JobOf(w) \in Jobs /\ Holder(w, JobOf(w))
      BY WorkersJob DEF Inv, At, Holder
    <2> QED BY <2>1 DEF RowsInv, RowsInTurn, HolderInTurn, At
  <1> QED BY <1>1, InvHolds, RowsInvHolds, PTL

-----------------------------------------------------------------------------
(* What the statistics count *)

\* A settled job has an attempt per retry, and one more unless its last repair
\* has ended without one.
RowsCounted(j) ==
  Settled(j) =>
    LET retries == job[j].retries
        rows == Len(attempts[j]) IN
    /\ rows \in {retries, retries + 1}
    /\ job[j].status = "pr_opened" => rows = retries + 1
    /\ job[j].status = "undiagnosable" => rows = retries

CountInv == \A j \in Jobs : RowsCounted(j)

\* The step that settles a job is one of the worker that has it.
LEMMA OnlyHandSettles ==
  ASSUME TurnFacts, Orderly, [Next]_vars, NEW j \in Jobs, ~Settled(j), Settled(j)'
  PROVE  \E w \in Workers : Holds(w, j) /\ (Settles(w) \/ StartExhausted(w))
  <1>0. Facts /\ Inv
    BY DEF TurnFacts, Facts
  <1>1. job'[j] # job[j]
    BY DEF Settled, Exists
  <1>2. CASE GitHubStep \/ RouterStep \/ ApiStep
    <2>1. ASSUME NEW h \in Handlers, InsertJob(h)
          PROVE  FALSE
      <3>1. PICK d \in DevRuns : job'[j] = NewRow(d)
        BY <1>0, <1>1, <2>1, InsertedRow
      <3>2. job'[j].status = "queued"
        BY <3>1 DEF NewRow
      <3> QED BY <3>2 DEF Settled, Terminal
    <2>2. ASSUME NEW c \in Clients, RetryCommits(c)
          PROVE  FALSE
      BY <1>0, <1>1, <2>2, RetryRow DEF Settled, Terminal
    <2> QED BY <1>0, <1>1, <1>2, <2>1, <2>2, OtherSteps
  <1>3. ASSUME NEW w \in Workers, AnyStep(w)
        PROVE  Holds(w, j) /\ (Settles(w) \/ StartExhausted(w))
    <2>1. JobOf(w) = j /\ ~UNCHANGED job
      BY <1>0, <1>1, <1>3, WorkerStatus
    <2>2. Exists(j) /\ job[j].status \notin Terminal
      BY <1>0, <1>3, WorkerColumns DEF NoneInserted, Settled, Exists
    <2>3. ~StartInitial(w) /\ ~BumpRetry(w) /\ ~RecordAttempt(w)
      <3>1. ASSUME StartInitial(w)
            PROVE  job'[j].status \notin Terminal
        <4>1. worker[w].pc # "idle"
          BY <3>1 DEF StartInitial, At
        <4>2. job[j] \in Row /\ job \in [Jobs -> Row \union {None}]
          BY <1>0, <2>1, <4>1, WorkersJob DEF Inv, TypeOK
        <4>3. job'[j] = [job[j] EXCEPT !.status = "repairing"]
          BY <2>1, <3>1, <4>2 DEF StartInitial
        <4> QED BY <4>2, <4>3 DEF Row, Terminal
      <3> QED BY <1>0, <2>1, <2>2, <3>1, BumpIsUnderway, RecordKeepsStatus
              DEF Settled, Terminal
    <2>4. Settles(w) \/ StartExhausted(w)
      BY <1>3, <2>1, <2>3
         DEF AnyStep, WorkerAdvances, Settles, TakeTask, StartGreen, StartRed,
             StampRed, ReadRetries, PushPatch, FetchInternal, PushClean, OpenPR,
             Escalate, WorkerCrashes, dbVars
    <2>5. worker[w].pc \notin {"idle", "pushed", "escalate"}
      BY <2>4 DEF Settles, DropOut, RejectPatch, CommitPR, Raise, StartExhausted,
         Completes, At, Orderly, CallPoints
    <2> QED BY <2>1, <2>4, <2>5 DEF Holds
  <1>4. CASE UNCHANGED vars
    BY <1>1, <1>4 DEF vars, dbVars
  <1> QED BY <1>2, <1>3, <1>4 DEF Next, WorkerStep, AnyStep

\* What settles a job leaves its counter, and adds an attempt if git has
\* rejected the patch.
LEMMA SettlingCounted ==
  ASSUME TurnFacts, Orderly, NEW w \in Workers, Settles(w) \/ StartExhausted(w),
         NEW j \in Jobs, Holds(w, j), RowsInTurn(j)
  PROVE  RowsCounted(j)'
  <1>0. /\ Facts /\ Inv /\ TypeOK /\ JobOf(w) = j /\ AnyStep(w) /\ Exists(j)
        /\ job[j].retries \in Nat /\ attempts[j] \in Seq(Attempt)
    <2>1. AnyStep(w)
      BY DEF Settles, AnyStep, WorkerAdvances
    <2> QED BY <2>1, WorkerMovesIt
            DEF Holds, TurnFacts, Facts, Inv, TypeOK, Exists, Row
  <1>1. job'[j].retries = job[j].retries
    <2>1. ~BumpRetry(w)
      BY DEF Settles, DropOut, RejectPatch, CommitPR, Raise, StartExhausted,
         Completes, BumpRetry, At, Orderly, CallPoints
    <2> QED BY <1>0, <2>1, WorkerColumns DEF RetriesStay
  <1>2. worker[w].pc = "graph" => Len(attempts[j]) = job[j].retries
    <2>1. worker[w].pc = "graph" => InRepair(j)
      BY <1>0, WorkerMovesIt DEF WorkerInTurn
    <2> QED BY <1>0, <2>1 DEF RowsInTurn, LatestInTurn, Makes
  <1>3. worker[w].pc # "graph" => Len(attempts[j]) = job[j].retries + 1
    <2>1. ASSUME worker[w].pc # "graph"
          PROVE  Answered(worker[w].task)
      <3>1. CASE StartExhausted(w)
        <4>1. /\ worker[w].pc = "start" /\ worker[w].task.fn = "completion"
          BY <3>1 DEF StartExhausted, Completes, At
        <4>2. TaskInTurn(worker[w].task)
          BY <1>0, <4>1, WorkerMovesIt DEF WorkerInTurn
        <4>3. worker[w].task # InitialTask(worker[w].task.job)
          BY <4>1 DEF InitialTask
        <4> QED BY <4>2, <4>3 DEF TaskInTurn
      <3>2. CASE Settles(w)
        <4>1. worker[w].pc \in AfterGreenRun
          BY <2>1, <3>2 DEF Settles, DropOut, RejectPatch, CommitPR, Raise, At,
             Orderly, CallPoints, AfterGreenRun
        <4> QED BY <4>1, WorkerMovesIt DEF WorkerInTurn
      <3> QED BY <3>1, <3>2
    <2> QED BY <2>1, VerdictOnLatest
  <1>4. ASSUME NEW ft \in FailureTypes, DropOut(w, ft)
        PROVE  RowsCounted(j)'
    <2>1. worker[w].pc = "graph" /\ attempts'[j] = attempts[j]
      BY <1>4 DEF DropOut, At
    <2>2. job'[j].status # "pr_opened"
      <3>1. ~CommitPR(w) /\ job[j].status # "pr_opened"
        BY <2>1, WorkerMovesIt DEF CommitPR, At, Underway
      <3> QED BY <1>0, <3>1, WorkerColumns DEF PRsStay
    <2> QED BY <1>0, <1>1, <1>2, <2>1, <2>2 DEF RowsCounted
  <1>5. ASSUME NEW status \in Terminal \ {"undiagnosable"}, job'[j].status = status,
               \/ UNCHANGED attempts /\ (status = "pr_opened" => worker[w].pc # "graph")
               \/ /\ worker[w].pc = "graph" /\ status # "pr_opened"
                  /\ \E a : attempts'[j] = Append(attempts[j], a)
        PROVE  RowsCounted(j)'
    <2>1. Len(attempts'[j]) \in {job[j].retries, job[j].retries + 1}
      BY <1>0, <1>2, <1>3, <1>5
    <2>2. status = "pr_opened" => Len(attempts'[j]) = job[j].retries + 1
      BY <1>3, <1>5
    <2> QED BY <1>1, <1>5, <2>1, <2>2 DEF RowsCounted
  <1>6. JobRow(w) \in Row
    BY <1>0, WorkersJob DEF Holds, Inv
  <1>7. ASSUME NEW ft \in FailureTypes, RejectPatch(w, ft)
        PROVE  RowsCounted(j)'
    <2> PICK new :
          new = [JobRow(w) EXCEPT !.status = "needs-human-review", !.failure = ft]
      OBVIOUS
    <2>1. new \in Row /\ new.status = "needs-human-review" /\ Commits(w, new)
      BY <1>6, <1>7 DEF RejectPatch, Row, Statuses
    <2>2. job'[j].status = "needs-human-review"
      BY <2>1, HandCommits DEF Terminal
    <2>3. worker[w].pc = "graph" /\ \E a : attempts'[j] = Append(attempts[j], a)
      BY <1>0, <1>7 DEF RejectPatch, At, TypeOK
    <2> QED BY <1>5, <2>2, <2>3 DEF Terminal
  <1>8. CASE Raise(w)
    <2> PICK new : new = [JobRow(w) EXCEPT !.status = "failed"]
      OBVIOUS
    <2>1. new \in Row /\ new.status = "failed" /\ Commits(w, new)
      BY <1>6, <1>8 DEF Raise, Row, Statuses
    <2>2. job'[j].status = "failed" /\ UNCHANGED attempts
      BY <1>8, <2>1, HandCommits DEF Terminal, Raise
    <2> QED BY <1>5, <2>2 DEF Terminal
  <1>9. CASE CommitPR(w)
    <2> PICK new :
          new = [JobRow(w) EXCEPT !.status = "pr_opened", !.pr = CleanType(w)]
      OBVIOUS
    <2>1. CleanType(w) \in FailureTypes
      BY <1>0, CleanTypeIsType DEF Holds
    <2>2. new \in Row /\ new.status = "pr_opened" /\ Commits(w, new)
      BY <1>6, <1>9, <2>1 DEF CommitPR, Row, Statuses
    <2>3. job'[j].status = "pr_opened" /\ UNCHANGED attempts /\ worker[w].pc # "graph"
      BY <1>9, <2>2, HandCommits DEF Terminal, CommitPR, At
    <2> QED BY <1>5, <2>3 DEF Terminal
  <1>10. CASE StartExhausted(w)
    <2>1. worker[w].pc # "graph" /\ UNCHANGED attempts
          /\ job' = [job EXCEPT ![j].status = "failed"]
      BY <1>0, <1>10 DEF StartExhausted, Completes, At
    <2>2. job[j] \in Row
      BY <1>0 DEF TypeOK, Exists
    <2>3. job'[j].status = "failed"
      BY <1>0, <2>1, <2>2 DEF TypeOK, Row
    <2> QED BY <1>5, <2>1, <2>3 DEF Terminal
  <1> QED BY <1>4, <1>7, <1>8, <1>9, <1>10 DEF Settles

LEMMA NextCount ==
  ASSUME TurnFacts, Orderly, Unretried, [Next]_vars, RowsInv, CountInv
  PROVE  CountInv'
  <1> SUFFICES ASSUME NEW j \in Jobs, Settled(j)'
               PROVE  RowsCounted(j)'
    BY DEF CountInv, RowsCounted
  <1>1. CASE Settled(j)
    <2>1. job'[j] = job[j] /\ attempts'[j] = attempts[j]
      BY <1>1, SettledStays DEF Unretried
    <2> QED BY <1>1, <2>1 DEF CountInv, RowsCounted
  <1>2. CASE ~Settled(j)
    BY <1>2, OnlyHandSettles, SettlingCounted DEF RowsInv
  <1> QED BY <1>1, <1>2

\* stats.py:51 and dash.js:86: the attempts counted for a job with a pull request
\* are its rows in patch_attempts; for another settled job they are its rows, or one
\* more, for a repair that ended before it left a row.
THEOREM AttemptsAreCounted ==
  ASSUME Orderly, Unretried
  PROVE  Spec => []AttemptsCounted
  <1>1. Init => CountInv
    BY DEF Init, CountInv, RowsCounted, Settled, Exists
  <1>2. TurnFacts /\ RowsInv /\ CountInv /\ [Next]_vars => CountInv'
    BY NextCount
  <1>3. Inv /\ CountInv => AttemptsCounted
    <2> SUFFICES ASSUME Inv, CountInv, NEW j \in Jobs, Settled(j)
                 PROVE  LET rows == Len(attempts[j]) IN
                        /\ job[j].status = "pr_opened" => AttemptsToPR(j) = rows
                        /\ AttemptsShown(j) \in {rows, rows + 1}
      BY DEF AttemptsCounted
    <2>1. job[j].retries \in Nat /\ job[j].status \in Terminal /\ RowsCounted(j)
      BY DEF Inv, TypeOK, Settled, Exists, Row, CountInv
    <2> QED BY <2>1 DEF RowsCounted, AttemptsToPR, AttemptsShown, Terminal
  <1> QED BY <1>1, <1>2, <1>3, InvHolds, TurnFactsHold, RowsInvHolds, PTL DEF Spec

-----------------------------------------------------------------------------
(* An answer of the statistics *)

LEMMA NextStats ==
  ASSUME TurnFacts, Orderly, [ReportingNext]_reportingVars, StatsAgree
  PROVE  StatsAgree'
  <1>1. CASE ReadJobs
    <2>1. seen' = [job |-> job, attempts |-> attempts] /\ UNCHANGED job
      BY <1>1 DEF ReadJobs, vars, dbVars
    <2>2. Succeeded' \subseteq Averaged'
      BY <2>1 DEF Succeeded, Averaged, Exists
    <2> QED BY <2>2 DEF StatsAgree
  <1>2. CASE Respond
    BY <1>2 DEF Respond, StatsAgree
  <1>3. CASE [Next]_vars /\ UNCHANGED seen
    <2> SUFFICES ASSUME seen # None, NEW j \in Averaged
                 PROVE  job'[j] = job[j]
      BY <1>3 DEF StatsAgree, Succeeded, Averaged, Exists
    <2>1. j \in Jobs /\ Settled(j) /\ ReadersInTurn(j)
      BY DEF Averaged, Settled, Terminal, TurnFacts, TurnInv, InTurn
    <2>2. \A c \in Clients : ~Reads(c, j)
      BY <2>1 DEF Averaged, ReadersInTurn, Retryable
    <2> QED BY <1>3, <2>1, <2>2, SettledStays
  <1> QED BY <1>1, <1>2, <1>3 DEF ReportingNext, reportingVars

\* stats.py:39-71, a job that the first statement of an answer counts as a
\* success is one that the later statement averages over.
THEOREM StatisticsAgree ==
  ASSUME Orderly
  PROVE  ReportingSpec => []StatsAgree
  <1>1. ReportingInit => Init /\ StatsAgree
    BY DEF ReportingInit, StatsAgree
  <1>2. [ReportingNext]_reportingVars => [Next]_vars
    BY DEF ReportingNext, reportingVars, ReadJobs, Respond
  <1>3. TurnFacts /\ StatsAgree /\ [ReportingNext]_reportingVars => StatsAgree'
    BY NextStats
  <1>4. ReportingSpec => Spec
    BY <1>1, <1>2, PTL DEF ReportingSpec, Spec
  <1> QED BY <1>1, <1>3, <1>4, TurnFactsHold, PTL DEF ReportingSpec

-----------------------------------------------------------------------------
(* What CI has said of the attempts *)

StampedRed(a) == a.ciRun # None /\ ~a.success
StampedGreen(a) == a.ciRun # None /\ a.success

InRetry(j) == \E w \in Workers : Holder(w, j)
Delivers(w, j) == worker[w].pc \in AfterGreenRun /\ JobOf(w) = j
InDelivery(j) ==
  \/ \E w \in Workers : Delivers(w, j)
  \/ Exists(j) /\ job[j].status = "pr_opened"

\* Every attempt but the latest has failed in CI; the latest too if the next is
\* being made, and it has passed if it is on its way to a pull request.
StampsInTurn(j) ==
  LET rows == attempts[j]
      n == Len(rows) IN
  /\ \A i \in DOMAIN rows : i = n \/ StampedRed(rows[i])
  /\ InRetry(j) => \A i \in DOMAIN rows : StampedRed(rows[i])
  /\ InDelivery(j) => n # 0 /\ StampedGreen(rows[n])

StampsInv == \A j \in Jobs : StampsInTurn(j)

LEMMA StampsStay ==
  ASSUME NEW j \in Jobs, StampsInTurn(j), attempts'[j] = attempts[j],
         InRetry(j)' => InRetry(j), InDelivery(j)' => InDelivery(j)
  PROVE  StampsInTurn(j)'
  BY DEF StampsInTurn, StampedRed, StampedGreen

\* The stamp of the last row.
LEMMA LastStamped ==
  ASSUME Inv, NEW j \in Jobs, StampsInTurn(j), NEW i \in DOMAIN attempts[j],
         i = Len(attempts[j]), NEW r, r # None, NEW success \in BOOLEAN,
         attempts'[j] = StampLatest(attempts[j], i, r, success),
         InRetry(j)' => ~success, InDelivery(j)' => success
  PROVE  StampsInTurn(j)'
  <1> PICK rows : rows = attempts[j]
    OBVIOUS
  <1> PICK new : new = attempts'[j]
    OBVIOUS
  <1>1. rows \in Seq(Attempt) /\ i \in 1 .. Len(rows) /\ rows[i] \in Attempt
    BY DEF Inv, TypeOK
  <1>2. /\ DOMAIN new = DOMAIN rows /\ Len(new) = Len(rows)
        /\ new[i].ciRun = r /\ new[i].success = success
        /\ \A k \in DOMAIN rows : k # i => new[k] = rows[k]
    BY <1>1 DEF StampLatest, Attempt
  <1>3. \A k \in DOMAIN new : k = i \/ StampedRed(new[k])
    BY <1>2 DEF StampsInTurn
  <1>4. StampedRed(new[i]) \/ success
    BY <1>2 DEF StampedRed
  <1>5. success => StampedGreen(new[i])
    BY <1>2 DEF StampedGreen
  <1>6. /\ \A k \in DOMAIN new : k = Len(new) \/ StampedRed(new[k])
        /\ InRetry(j)' => \A k \in DOMAIN new : StampedRed(new[k])
        /\ InDelivery(j)' => Len(new) # 0 /\ StampedGreen(new[Len(new)])
    BY <1>1, <1>2, <1>3, <1>4, <1>5
  <1> QED BY <1>6 DEF StampsInTurn, StampedRed, StampedGreen

\* A new row, after rows that have all failed.
LEMMA RowAdded ==
  ASSUME Inv, NEW j \in Jobs, StampsInTurn(j), InRetry(j), NEW a,
         attempts'[j] = Append(attempts[j], a), ~InRetry(j)', ~InDelivery(j)'
  PROVE  StampsInTurn(j)'
  <1> PICK rows : rows = attempts[j]
    OBVIOUS
  <1> PICK new : new = attempts'[j]
    OBVIOUS
  <1>1. rows \in Seq(Attempt) /\ new = Append(rows, a)
    BY DEF Inv, TypeOK
  <1>2. /\ DOMAIN new = DOMAIN rows \union {Len(new)}
        /\ \A k \in DOMAIN rows : new[k] = rows[k]
    BY <1>1
  <1>3. \A k \in DOMAIN new : k = Len(new) \/ StampedRed(new[k])
    BY <1>2 DEF StampsInTurn
  <1> QED BY <1>3 DEF StampsInTurn, StampedRed

\* Whoever has j in hand is the only one to retry or to deliver it.
LEMMA HandRetries ==
  ASSUME TurnFacts, NEW w \in Workers, AnyStep(w), NEW j \in Jobs, Holds(w, j)
  PROVE  /\ InRetry(j)' <=> worker'[w].pc \in {"bump", "count", "graph", "pushed"}
         /\ InRetry(j) <=> worker[w].pc \in {"bump", "count", "graph", "pushed"}
         /\ (\E v \in Workers : Delivers(v, j)') <=> worker'[w].pc \in AfterGreenRun
         /\ (\E v \in Workers : Delivers(v, j)) <=> worker[w].pc \in AfterGreenRun
  <1>1. Inv /\ JobOf(w) = j
    BY DEF TurnFacts, Facts, Holds
  <1>2. \A v \in Workers : v # w => worker'[v] = worker[v]
    BY <1>1, StepShape
  <1>3. \A v \in Workers : Delivers(v, j) => v = w
    BY WorkerAlone DEF Delivers, AfterGreenRun, Holds
  <1>4. \A v \in Workers : Delivers(v, j)' => v = w
    BY <1>2, <1>3 DEF Delivers, JobOf
  <1> QED BY <1>1, <1>3, <1>4, OnlyHolder
          DEF InRetry, Holder, Delivers, AfterGreenRun

\* What the holder of a verdict stamps is the last row.
LEMMA VerdictStamped ==
  ASSUME TurnFacts, NEW w \in Workers, AnyStep(w), NEW j \in Jobs, Holds(w, j),
         RowsInTurn(j), StampsInTurn(j), Answered(worker[w].task),
         worker[w].pc # "graph", NEW success \in BOOLEAN,
         NEW i \in LatestAttempts(attempts[j]),
         attempts' = [attempts EXCEPT ![j] =
                        StampLatest(@, i, worker[w].task.run, success)],
         InRetry(j)' => ~success, InDelivery(j)' => success
  PROVE  StampsInTurn(j)'
  <1>1. /\ Inv /\ worker[w].task.run # None /\ i = Len(attempts[j])
        /\ i \in DOMAIN attempts[j]
    BY VerdictOnLatest
  <1>2. attempts'[j] = StampLatest(attempts[j], i, worker[w].task.run, success)
    BY <1>1 DEF Inv, TypeOK
  <1> QED BY <1>1, <1>2, LastStamped

LEMMA StampingStamps ==
  ASSUME TurnFacts, NEW w \in Workers, StartGreen(w) \/ StampRed(w),
         NEW j \in Jobs, Holds(w, j), RowsInTurn(j), StampsInTurn(j)
  PROVE  StampsInTurn(j)'
  <1>1. /\ JobOf(w) = j /\ Inv /\ TypeOK /\ AnyStep(w) /\ UNCHANGED job
        /\ worker[w] \in WorkerStates /\ worker[w].pc # "graph"
    BY DEF Holds, TurnFacts, Facts, Inv, TypeOK, AnyStep, WorkerAdvances, StartGreen,
           StampRed, Completes, At
  <1>2. /\ Answered(worker[w].task)
        /\ ~(Exists(j)' /\ job'[j].status = "pr_opened")
    <2>1. WorkerInTurn(w) /\ job[j].status # "pr_opened"
      BY WorkerMovesIt DEF Underway
    <2>2. worker[w].task.fn = "completion" => worker[w].task # InitialTask(j)
      BY <1>1, InitialTaskIsTask
    <2> QED BY <1>1, <2>1, <2>2
            DEF WorkerInTurn, TaskInTurn, JobOf, AfterRedRun, StartGreen, StampRed,
                Completes, At
  <1>3. attempts[j] # <<>>
    BY <1>1, <1>2, VerdictOnLatest
  <1>4. CASE StartGreen(w)
    <2>1. PICK i \in LatestAttempts(attempts[j]) :
            attempts' = [attempts EXCEPT ![j] =
                           StampLatest(@, i, worker[w].task.run, TRUE)]
      BY <1>1, <1>3, <1>4 DEF StartGreen, Stamps
    <2>2. worker'[w].pc = "green"
      BY <1>1, <1>4 DEF StartGreen, TypeOK
    <2>3. ~InRetry(j)'
      BY <1>1, <2>2, HandRetries
    <2> QED BY <1>1, <1>2, <2>1, <2>3, VerdictStamped
  <1>5. CASE StampRed(w)
    <2>1. PICK i \in LatestAttempts(attempts[j]) :
            /\ attempts' = [attempts EXCEPT ![j] =
                              StampLatest(@, i, worker[w].task.run, FALSE)]
            /\ worker' = [worker EXCEPT ![w].pc = "bump", ![w].loaded = None,
                                        ![w].prev = attempts[j][i].patch]
      BY <1>1, <1>3, <1>5 DEF StampRed
    <2>2. worker'[w].pc = "bump"
      BY <1>1, <2>1 DEF TypeOK, WorkerStates
    <2>3. ~InDelivery(j)'
      BY <1>1, <1>2, <2>2, HandRetries DEF InDelivery, AfterGreenRun
    <2> QED BY <1>1, <1>2, <2>1, <2>3, VerdictStamped
  <1> QED BY <1>4, <1>5

\* A row that is added is that of the patch that was being made.
LEMMA AddingStamps ==
  ASSUME TurnFacts, Orderly, NEW w \in Workers,
         RecordAttempt(w) \/ \E ft \in FailureTypes : RejectPatch(w, ft),
         NEW j \in Jobs, JobOf(w) = j, StampsInTurn(j)
  PROVE  StampsInTurn(j)'
  <1>1. /\ Facts /\ Inv /\ TypeOK /\ AnyStep(w) /\ Done(w) /\ Holder(w, j)
        /\ worker[w].pc \in {"graph", "pushed"} /\ ~CommitPR(w)
        /\ \E a : attempts' = [attempts EXCEPT ![j] = Append(@, a)]
    BY DEF TurnFacts, Facts, Inv, AnyStep, WorkerAdvances, Holder, RecordAttempt,
           RejectPatch, CommitPR, At
  <1>2. PICK a : attempts'[j] = Append(attempts[j], a)
    BY <1>1 DEF TypeOK
  <1>3. worker'[w].pc = "idle" /\ \A v \in Workers : v # w => worker'[v] = worker[v]
    BY <1>1, DoneMoves, StepShape
  <1>4. \A v \in Workers : ~Holder(v, j)' /\ ~Delivers(v, j)'
    <2>1. CASE worker[w].pc = "graph"
      <3>1. Holds(w, j)
        BY <2>1 DEF Holds
      <3>2. InRetry(j)' \/ (\E v \in Workers : Delivers(v, j)') =>
              worker'[w].pc # "idle"
        BY <1>1, <3>1, HandRetries DEF AfterGreenRun
      <3> QED BY <1>3, <3>2 DEF InRetry
    <2>2. CASE worker[w].pc = "pushed"
      BY <1>1, <2>2, PushedLeaves DEF Holder, Delivers, AfterGreenRun
    <2> QED BY <1>1, <2>1, <2>2
  <1>5. ~(Exists(j)' /\ job'[j].status = "pr_opened")
    <2>1. InRepair(j)
      BY <1>1 DEF TurnFacts, TurnInv, InTurn, WorkersInTurn, WorkerInTurn
    <2> QED BY <1>1, <2>1, WorkerColumns DEF PRsStay, InRepair, Underway
  <1>6. InRetry(j) /\ ~InRetry(j)' /\ ~InDelivery(j)'
    BY <1>1, <1>4, <1>5 DEF InRetry, InDelivery
  <1> QED BY <1>1, <1>2, <1>6, RowAdded

\* When a retry or a delivery of j goes on in the same hands.
LEMMA HandMoves ==
  ASSUME TurnFacts, NEW w \in Workers, AnyStep(w), NEW j \in Jobs, Holds(w, j),
         worker'[w].pc \in {"bump", "count", "graph", "pushed"} =>
           worker[w].pc \in {"bump", "count", "graph", "pushed"},
         worker'[w].pc \in AfterGreenRun \/ CommitPR(w) =>
           worker[w].pc \in AfterGreenRun
  PROVE  (InRetry(j)' => InRetry(j)) /\ (InDelivery(j)' => InDelivery(j))
  <1>1. Exists(j)' /\ job'[j].status = "pr_opened" => CommitPR(w)
    <2>1. Inv /\ Exists(j) /\ job[j].status # "pr_opened"
      BY WorkerMovesIt DEF TurnFacts, Facts, Underway
    <2> QED BY <2>1, WorkerColumns DEF PRsStay
  <1> QED BY <1>1, HandRetries DEF InDelivery

\* The other steps of whoever has j in hand leave its attempts.
LEMMA HandStamps ==
  ASSUME TurnFacts, Orderly, NEW w \in Workers, AnyStep(w), ~StartGreen(w),
         ~StampRed(w), \A ft \in FailureTypes : ~RejectPatch(w, ft),
         NEW j \in Jobs, Holds(w, j), RowsInTurn(j), StampsInTurn(j)
  PROVE  StampsInTurn(j)'
  <1>1. /\ JobOf(w) = j /\ Inv /\ TypeOK /\ worker[w] \in WorkerStates
        /\ ~TakeTask(w) /\ ~RecordAttempt(w) /\ ~WorkerCrashes(w) /\ ~Escalate(w)
    BY DEF Holds, TurnFacts, Facts, Inv, TypeOK, TakeTask, RecordAttempt,
           WorkerCrashes, Escalate, At, Orderly
  <1>2. attempts' = attempts
    BY <1>1 DEF AnyStep, WorkerAdvances, StartInitial, StartExhausted, StartRed,
       ReadRetries, BumpRetry, DropOut, PushPatch, FetchInternal, PushClean, OpenPR,
       CommitPR, Raise, dbVars
  <1>3. CASE StartInitial(w)
    <2>1. worker[w].pc = "start" /\ worker[w].task.fn = "initial"
      BY <1>3 DEF StartInitial, At
    <2>2. Waiting(j)
      BY <1>1, <2>1, WorkerMovesIt DEF WorkerInTurn, TaskInTurn, Answered, JobOf
    <2>3. attempts'[j] = <<>>
      BY <1>2, <2>2 DEF RowsInTurn
    <2>4. ~InDelivery(j)'
      <3>1. worker'[w].pc = "graph" /\ ~CommitPR(w)
        BY <1>1, <1>3 DEF StartInitial, TypeOK, CommitPR, At
      <3>2. ~(Exists(j)' /\ job'[j].status = "pr_opened")
        BY <1>1, <2>2, <3>1, WorkerColumns DEF PRsStay, Waiting
      <3> QED BY <3>1, <3>2, HandRetries DEF InDelivery, AfterGreenRun
    <2> QED BY <2>3, <2>4 DEF StampsInTurn
  <1>4. CASE ~StartInitial(w)
    <2>1. CASE Done(w) /\ ~CommitPR(w)
      <3>1. worker'[w].pc = "idle"
        BY <1>1, <2>1, DoneMoves
      <3> QED BY <1>2, <2>1, <3>1, HandMoves, StampsStay DEF AfterGreenRun
    <2>2. CASE StartExhausted(w) \/ StartRed(w)
      <3>1. worker'[w].pc \in {"escalate", "red"} /\ ~CommitPR(w)
        BY <1>1, <2>2
           DEF StartExhausted, StartRed, Completes, At, Goto, TypeOK, WorkerStates,
               CommitPR
      <3> QED BY <1>2, <3>1, HandMoves, StampsStay DEF AfterGreenRun
    <2>3. CASE \/ ReadRetries(w) \/ BumpRetry(w)
               \/ \E ft \in FailureTypes : PushPatch(w, ft)
      <3>1. /\ worker'[w].pc \in {"count", "graph", "pushed"} /\ ~CommitPR(w)
            /\ worker[w].pc \in {"bump", "count", "graph"}
        <4>1. CASE ReadRetries(w)
          BY <1>1, <4>1, ReadRetriesShape DEF CommitPR, At
        <4>2. CASE BumpRetry(w) \/ \E ft \in FailureTypes : PushPatch(w, ft)
          BY <1>1, <4>2 DEF BumpRetry, PushPatch, At, TypeOK, WorkerStates, CommitPR
        <4> QED BY <2>3, <4>1, <4>2
      <3> QED BY <1>2, <3>1, HandMoves, StampsStay DEF AfterGreenRun
    <2>4. CASE FetchInternal(w) \/ PushClean(w) \/ OpenPR(w) \/ CommitPR(w)
      <3>1. /\ worker'[w].pc \in AfterGreenRun \union {"idle"}
            /\ worker[w].pc \in AfterGreenRun
        <4>1. CASE CommitPR(w)
          BY <1>1, <4>1, DoneMoves DEF CommitPR, At, AfterGreenRun
        <4>2. CASE FetchInternal(w)
          BY <1>1, <4>2 DEF FetchInternal, At, TypeOK, WorkerStates, AfterGreenRun
        <4>3. CASE PushClean(w) \/ OpenPR(w)
          BY <1>1, <4>3
             DEF PushClean, OpenPR, At, Goto, TypeOK, WorkerStates, AfterGreenRun
        <4> QED BY <2>4, <4>1, <4>2, <4>3
      <3> QED BY <1>2, <3>1, HandMoves, StampsStay DEF AfterGreenRun
    <2> QED BY <1>1, <1>4, <2>1, <2>2, <2>3, <2>4
            DEF AnyStep, WorkerAdvances, DropOut, Raise
  <1> QED BY <1>3, <1>4

LEMMA NextStamps ==
  ASSUME TurnFacts, Orderly, Unretried, [Next]_vars, RowsInv, StampsInv
  PROVE  StampsInv'
  <1> SUFFICES ASSUME NEW j \in Jobs
               PROVE  StampsInTurn(j)'
    BY DEF StampsInv
  <1>0. Facts /\ Inv /\ RowsInTurn(j) /\ StampsInTurn(j)
    BY DEF TurnFacts, Facts, RowsInv, StampsInv
  <1>1. CASE /\ UNCHANGED <<worker, attempts>>
             /\ Exists(j)' /\ job'[j].status = "pr_opened" => job'[j] = job[j]
    <2>1. (InRetry(j)' => InRetry(j)) /\ (InDelivery(j)' => InDelivery(j))
      BY <1>1 DEF InRetry, Holder, InDelivery, Delivers, JobOf, Exists
    <2> QED BY <1>0, <1>1, <2>1, StampsStay
  <1>2. CASE GitHubStep \/ RouterStep \/ ApiStep
    <2>1. ASSUME NEW h \in Handlers, InsertJob(h), job'[j] # job[j]
          PROVE  job'[j].status # "pr_opened"
      <3>1. PICK d \in DevRuns : job'[j] = NewRow(d)
        BY <1>0, <2>1, InsertedRow
      <3> QED BY <3>1 DEF NewRow
    <2> QED BY <1>0, <1>1, <1>2, <2>1, OtherSteps DEF Unretried
  <1>3. ASSUME NEW w \in Workers, AnyStep(w)
        PROVE  StampsInTurn(j)'
    <2>1. CASE TakeTask(w) \/ Escalate(w)
      <3>1. UNCHANGED <<attempts, job>> /\ worker'[w].pc \in {"start", "idle"}
            /\ \A v \in Workers : v # w => worker'[v] = worker[v]
        <4>1. CASE TakeTask(w)
          BY <1>0, <4>1 DEF TakeTask, dbVars, Inv, TypeOK, WorkerStates
        <4>2. CASE Escalate(w)
          BY <1>0, <1>3, <4>2, DoneMoves, StepShape DEF Escalate, dbVars
        <4> QED BY <2>1, <4>1, <4>2
      <3>2. (InRetry(j)' => InRetry(j)) /\ (InDelivery(j)' => InDelivery(j))
        BY <3>1 DEF InRetry, Holder, InDelivery, Delivers, AfterGreenRun, JobOf, Exists
      <3> QED BY <1>0, <3>1, <3>2, StampsStay
    <2>2. CASE ~TakeTask(w) /\ JobOf(w) # j
      <3>1. Untouched(j)
        BY <1>0, <1>3, <2>2, WorkerStepUntouched
      <3>2. attempts'[j] = attempts[j]
        BY <1>0, <1>3, <2>2, AttemptsOfOthers
      <3>3. \A v \in Workers : /\ Holder(v, j)' => Holder(v, j)
                               /\ Delivers(v, j)' => Delivers(v, j)
        BY <3>1 DEF Untouched, Engaged, Holder, Delivers, AfterGreenRun, JobOf
      <3>4. (InRetry(j)' => InRetry(j)) /\ (InDelivery(j)' => InDelivery(j))
        BY <3>1, <3>3 DEF InRetry, InDelivery, Untouched, Exists
      <3> QED BY <1>0, <3>2, <3>4, StampsStay
    <2>3. CASE /\ JobOf(w) = j
               /\ RecordAttempt(w) \/ \E ft \in FailureTypes : RejectPatch(w, ft)
      BY <2>3, <1>0, AddingStamps
    <2>4. CASE /\ JobOf(w) = j /\ ~TakeTask(w) /\ ~Escalate(w)
               /\ ~RecordAttempt(w) /\ \A ft \in FailureTypes : ~RejectPatch(w, ft)
      <3>1. Holds(w, j)
        BY <1>3, <2>4
           DEF AnyStep, WorkerAdvances, StartInitial, StartGreen, StartExhausted,
               StartRed, Completes, StampRed, ReadRetries, BumpRetry, DropOut,
               PushPatch,
               FetchInternal, PushClean, OpenPR, CommitPR, Raise, CallPoints,
               WorkerCrashes, Orderly, At, Holds
      <3> QED BY <1>0, <1>3, <2>4, <3>1, StampingStamps, HandStamps
    <2> QED BY <2>1, <2>2, <2>3, <2>4
  <1>4. CASE UNCHANGED vars
    BY <1>1, <1>4 DEF vars, dbVars
  <1> QED BY <1>2, <1>3, <1>4 DEF Next, WorkerStep, AnyStep

LEMMA InitStamps ==
  ASSUME Init
  PROVE  StampsInv
  <1>1. \A w \in Workers : worker[w].pc = "idle"
    BY DEF Init, IdleWorker
  <1> QED BY <1>1
          DEF Init, StampsInv, StampsInTurn, InRetry, Holder, InDelivery, Delivers,
              AfterGreenRun, Exists

-----------------------------------------------------------------------------
(* An answer of the timeline *)

\* What was settled when a request read it is as it was.
SeenStays ==
  seen # None =>
    \A j \in Jobs : seen.job[j] # None /\ seen.job[j].status \in Terminal =>
      job[j] = seen.job[j] /\ attempts[j] = seen.attempts[j]

LEMMA NextSeen ==
  ASSUME TurnFacts, Orderly, Unretried, [ReportingNext]_reportingVars, SeenStays
  PROVE  SeenStays'
  <1>1. CASE ReadJobs
    <2>1. seen' = [job |-> job, attempts |-> attempts] /\ UNCHANGED <<job, attempts>>
      BY <1>1 DEF ReadJobs, vars, dbVars
    <2> QED BY <2>1 DEF SeenStays
  <1>2. CASE Respond
    BY <1>2 DEF Respond, SeenStays
  <1>3. CASE [Next]_vars /\ UNCHANGED seen
    <2> SUFFICES ASSUME seen # None, NEW j \in Jobs, Settled(j)
                 PROVE  job'[j] = job[j] /\ attempts'[j] = attempts[j]
      BY <1>3 DEF SeenStays, Settled, Exists
    <2> QED BY <1>3, SettledStays DEF Unretried
  <1> QED BY <1>1, <1>2, <1>3 DEF ReportingNext, reportingVars

\* The events of a job that was read are dated by its rows.
LEMMA EventDates ==
  ASSUME Inv, RowsInv, SeenStays, NEW j \in Asked, NEW e \in Timeline(j)
  PROVE  LET n == Len(attempts[j]) IN
         /\ j \in Jobs /\ n \in Nat /\ DOMAIN attempts[j] = 1 .. n
         /\ \/ e.kind = "job_created" /\ e.at = 0
            \/ /\ e.kind \in OfAttempts /\ e.at \in 1 .. n /\ e.num = e.at
               /\ e.ok = attempts[j][e.at].success
            \/ e.kind \in {"pr_opened", "terminal"} /\ e.at = n + 1
  <1> DEFINE rows == attempts[j]
             n == Len(rows)
  <1>1. /\ j \in Jobs /\ seen # None /\ seen.job[j] # None
        /\ n \in Nat /\ DOMAIN rows = 1 .. n
    BY DEF Asked, Inv, TypeOK
  <1>2. CASE e = [kind |-> "job_created", at |-> 0]
    BY <1>1, <1>2
  <1>3. ASSUME NEW i \in DOMAIN rows, e \in AttemptEvents(rows[i], i)
        PROVE  /\ e.kind \in OfAttempts /\ e.at \in 1 .. n /\ e.num = e.at
               /\ e.ok = rows[e.at].success
    <2>1. /\ e.kind \in OfAttempts /\ e.at = i /\ e.num = rows[i].num
          /\ e.ok = rows[i].success
      BY <1>3 DEF AttemptEvents, OfAttempts
    <2> QED BY <1>1, <2>1 DEF RowsInv, RowsInTurn, Numbered
  <1>4. CASE e \in EndEvents(seen.job[j], Len(seen.attempts[j]) + 1)
    <2>1. /\ e.kind \in {"pr_opened", "terminal"}
          /\ e.at = Len(seen.attempts[j]) + 1 /\ seen.job[j].status \in Terminal
      BY <1>4 DEF EndEvents, Terminal, Retryable
    <2>2. seen.attempts[j] = rows
      BY <1>1, <2>1 DEF SeenStays
    <2> QED BY <1>1, <2>1, <2>2
  <1>5. \/ e = [kind |-> "job_created", at |-> 0]
        \/ \E i \in DOMAIN rows : e \in AttemptEvents(rows[i], i)
        \/ e \in EndEvents(seen.job[j], Len(seen.attempts[j]) + 1)
    BY DEF Timeline, RowsRead
  <1> QED BY <1>1, <1>2, <1>3, <1>4, <1>5

\* Numbers and dates agree, so what is listed first is not later.
LEMMA ListedInOrder ==
  ASSUME Inv, RowsInv, SeenStays
  PROVE  TimelineChronological
  <1> SUFFICES ASSUME NEW j \in Asked, NEW e \in Timeline(j), NEW f \in Timeline(j),
                      Listed(e, f)
               PROVE  e.at <= f.at
    BY DEF TimelineChronological
  <1> QED BY EventDates DEF Listed, AttemptOrder, OfAttempts

\* A stamped row has a result, right after its push; that of the last row is
\* right before the end.
LEMMA ResultFollows ==
  ASSUME Inv, RowsInv, SeenStays, NEW j \in Asked, NEW i \in DOMAIN attempts[j],
         attempts[j][i].ciRun # None
  PROVE  \E r \in Timeline(j) :
           /\ r.kind = "ci_result" /\ r.ok = attempts[j][i].success
           /\ \A p \in Timeline(j) : p.kind = "attempt_pushed" /\ p.at = i =>
                Follows(Timeline(j), p, r)
           /\ \A end \in Timeline(j) : i = Len(attempts[j]) /\ end.kind = "pr_opened" =>
                Follows(Timeline(j), r, end)
  <1> DEFINE events == Timeline(j)
             a == attempts[j][i]
  <1> PICK r : r = [kind |-> "ci_result", at |-> i, ok |-> a.success, num |-> a.num]
    OBVIOUS
  <1>1. r \in events
    <2>1. r \in AttemptEvents(a, i)
      BY DEF AttemptEvents
    <2> QED BY <2>1 DEF Timeline, RowsRead
  <1>2. /\ i \in 1 .. Len(attempts[j]) /\ Len(attempts[j]) \in Nat /\ a.num = i
        /\ r.kind = "ci_result" /\ r.at = i /\ r.num = i /\ r.ok = a.success
    BY <1>1, EventDates DEF RowsInv, RowsInTurn, Numbered
  <1>3. ASSUME NEW p \in events, p.kind = "attempt_pushed", p.at = i
        PROVE  Follows(events, p, r)
    <2>1. Listed(p, r)
      BY <1>2, <1>3 DEF Listed, AttemptOrder, OfAttempts
    <2>2. ASSUME NEW g \in events, Listed(p, g), Listed(g, r)
          PROVE  FALSE
      <3>1. p.num = i
        BY <1>3, EventDates
      <3>2. g.kind \in OfAttempts
        BY <1>2, <1>3, <2>2 DEF Listed, OfAttempts
      <3>3. g.at \in Nat /\ g.num = g.at
        BY <3>2, EventDates DEF OfAttempts
      <3>4. AttemptOrder(p, g) /\ AttemptOrder(g, r)
        BY <1>2, <1>3, <2>2, <3>2 DEF Listed, OfAttempts
      <3> QED BY <1>2, <1>3, <3>1, <3>3, <3>4 DEF AttemptOrder
    <2> QED BY <2>1, <2>2 DEF Follows
  <1>4. ASSUME NEW end \in events, i = Len(attempts[j]), end.kind = "pr_opened"
        PROVE  Follows(events, r, end)
    <2>1. Listed(r, end)
      BY <1>2, <1>4 DEF Listed, OfAttempts
    <2>2. ASSUME NEW g \in events, Listed(r, g), Listed(g, end)
          PROVE  FALSE
      <3>1. CASE g.kind \in OfAttempts
        <4>1. g.at \in 1 .. i /\ g.num = g.at
          BY <1>4, <3>1, EventDates DEF OfAttempts
        <4>2. AttemptOrder(r, g)
          BY <1>2, <2>2, <3>1 DEF Listed, OfAttempts
        <4> QED BY <1>2, <4>1, <4>2 DEF AttemptOrder
      <3>2. CASE g.kind \notin OfAttempts
        <4>1. g.kind \in {"pr_opened", "terminal"} /\ g # end
          BY <1>2, <1>4, <2>2, <3>2 DEF Listed, OfAttempts
        <4>2. \A x \in events : x.kind \in {"pr_opened", "terminal"} =>
                x \in EndEvents(seen.job[j], Len(seen.attempts[j]) + 1)
          BY DEF Timeline, RowsRead, AttemptEvents
        <4> QED BY <1>4, <4>1, <4>2 DEF EndEvents
      <3> QED BY <3>1, <3>2
    <2> QED BY <2>1, <2>2 DEF Follows
  <1> QED BY <1>1, <1>2, <1>3, <1>4

LEMMA EndExplained ==
  ASSUME Inv, RowsInv, StampsInv, SeenStays
  PROVE  TimelineExplains
  <1> SUFFICES ASSUME NEW j \in Asked, NEW end \in Timeline(j), end.kind = "pr_opened"
               PROVE  LET events == Timeline(j)
                          results == {e \in events : e.kind = "ci_result"} IN
                      /\ \E r \in results : r.ok /\ Follows(events, r, end)
                      /\ \A p \in events : p.kind = "attempt_pushed" =>
                           \E r \in results :
                             Follows(events, p, r) /\ (r.ok => Follows(events, r, end))
    BY DEF TimelineExplains
  <1> DEFINE rows == attempts[j]
             n == Len(rows)
  <1>1. j \in Jobs /\ n \in Nat /\ DOMAIN rows = 1 .. n
    BY EventDates
  <1>2. Exists(j) /\ job[j].status = "pr_opened"
    <2>1. end \in EndEvents(seen.job[j], Len(seen.attempts[j]) + 1)
      BY DEF Timeline, RowsRead, AttemptEvents
    <2>2. seen.job[j].status = "pr_opened"
      BY <2>1 DEF EndEvents
    <2> QED BY <1>1, <2>2 DEF SeenStays, Asked, Terminal, Exists
  <1>3. /\ n \in DOMAIN rows /\ StampedGreen(rows[n])
        /\ \A i \in DOMAIN rows : i = n \/ StampedRed(rows[i])
    BY <1>1, <1>2 DEF StampsInv, StampsInTurn, InDelivery
  <1>4. \E r \in Timeline(j) :
          r.kind = "ci_result" /\ r.ok /\ Follows(Timeline(j), r, end)
    BY <1>3, ResultFollows DEF StampedGreen
  <1>5. ASSUME NEW p \in Timeline(j), p.kind = "attempt_pushed"
        PROVE  \E r \in Timeline(j) :
                 /\ r.kind = "ci_result" /\ Follows(Timeline(j), p, r)
                 /\ r.ok => Follows(Timeline(j), r, end)
    <2>1. p.at \in DOMAIN rows
      BY <1>1, <1>5, EventDates
    <2>2. rows[p.at].ciRun # None /\ (rows[p.at].success => p.at = n)
      BY <1>3, <2>1 DEF StampedRed, StampedGreen
    <2>3. PICK r \in Timeline(j) :
            /\ r.kind = "ci_result" /\ r.ok = rows[p.at].success
            /\ \A q \in Timeline(j) : q.kind = "attempt_pushed" /\ q.at = p.at =>
                 Follows(Timeline(j), q, r)
            /\ \A e \in Timeline(j) : p.at = n /\ e.kind = "pr_opened" =>
                 Follows(Timeline(j), r, e)
      BY <2>1, <2>2, ResultFollows
    <2> QED BY <1>5, <2>2, <2>3
  <1> QED BY <1>4, <1>5

LEMMA TimelineFactsHold ==
  ASSUME Orderly, Unretried
  PROVE  ReportingSpec => [](Inv /\ RowsInv /\ StampsInv /\ SeenStays)
  <1>1. ReportingInit => Init /\ StampsInv /\ SeenStays
    BY InitStamps DEF ReportingInit, SeenStays
  <1>2. [ReportingNext]_reportingVars => [Next]_vars
    BY DEF ReportingNext, reportingVars, ReadJobs, Respond
  <1>3. /\ TurnFacts /\ RowsInv /\ StampsInv /\ SeenStays
        /\ [ReportingNext]_reportingVars
        => StampsInv' /\ SeenStays'
    BY <1>2, NextStamps, NextSeen
  <1>4. ReportingSpec => Spec
    BY <1>1, <1>2, PTL DEF ReportingSpec, Spec
  <1> QED BY <1>1, <1>3, <1>4, InvHolds, TurnFactsHold, RowsInvHolds, PTL
          DEF ReportingSpec

\* README.md:330, the timeline is chronological although it is listed by the
\* numbers of the attempts and read in two statements.
THEOREM TimelinesChronological ==
  ASSUME Orderly, Unretried
  PROVE  ReportingSpec => []TimelineChronological
  <1> QED BY TimelineFactsHold, ListedInOrder, PTL

\* timeline.py:51-61, a pull request in the timeline comes right after the
\* result it rests on, and every attempt before it shows why it did not do.
THEOREM TimelinesExplain ==
  ASSUME Orderly, Unretried
  PROVE  ReportingSpec => []TimelineExplains
  <1> QED BY TimelineFactsHold, EndExplained, PTL
=============================================================================
