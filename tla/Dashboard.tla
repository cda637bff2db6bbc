----------------------------- MODULE Dashboard -----------------------------
(***************************************************************************)
(* The readers of the job table: list_jobs of app/api/jobs.py and the      *)
(* counts of app/api/stats.py, read by somebody who pages through the list *)
(* and by the browser page of app/static/dash.js, while the rows change.   *)
(*                                                                         *)
(* The readers share nothing but the table, so a behaviour has one of them *)
(* and chooses it at the beginning.                                        *)
(***************************************************************************)
EXTENDS Integers, FiniteSets

CONSTANTS
  NJobs,      \* bound: jobs, numbered as created_at orders them
  All,        \* no filter
  None,
  PerPage,    \* per_page of who pages through the list
  TableSize,  \* per_page of dash.js, 50
  Slots,      \* bound: requests of a page under way at once
  MaxCommits, \* bound: statuses change while there are fewer commits
  MaxEdits,   \* bound: changes of the filter
  MaxErrors   \* bound: requests that fail

ASSUME SizesAssumption == PerPage \in Nat \ {0} /\ TableSize \in Nat \ {0}
ASSUME NJobsAssumption == NJobs \in Nat

VARIABLES
  reader,    \* "consumer", "table" or "strip"
  status,    \* the status of every job, None before its row is committed
  changes,   \* commits so far
  consumer,  \* where the consumer of the list is, and what it has got
  filter,    \* what the filter inputs of the page hold
  edits,
  request,   \* the requests of the page, by slot
  shown,     \* what the page displays, and how many commits that has seen
  errors

readerVars == <<consumer, filter, edits, request, shown, errors>>
dashVars == <<reader, status, changes, readerVars>>

\* The statuses between which a job goes back and forth, one for all that
\* can be told apart by a filter.
Statuses == {"queued", "failed"}

ASSUME NoneIsNoStatus == None \notin Statuses

Ids == 1 .. NJobs
Visible == {j \in Ids : status[j] # None}

NoRequest == [pc |-> "none", filter |-> All, answer |-> None, seen |-> 0]

DashInit ==
  /\ reader \in {"consumer", "table", "strip"}
  /\ status = [j \in Ids |-> None]
  /\ changes = 0
  /\ consumer = [pc |-> "count", page |-> 1, total |-> 0, rows |-> 0,
                 begun |-> {}, got |-> {}]
  /\ filter = All /\ edits = 0
  /\ request = [s \in Slots |-> NoRequest]
  /\ shown = [answer |-> None, seen |-> 0]
  /\ errors = 0

-----------------------------------------------------------------------------
(* The table *)

\* A row is committed; created_at is the beginning of its transaction, so a
\* row can become visible before one that is older.
RowAppears(j) ==
  /\ status[j] = None
  /\ \A i \in Ids : i < j - 1 => status[i] # None
  /\ \E s \in Statuses : status' = [status EXCEPT ![j] = s]
  /\ changes' = changes + 1
  /\ UNCHANGED <<reader, readerVars>>

\* A worker or a retry commits another status.
StatusChanges(j) ==
  /\ status[j] # None
  /\ changes < MaxCommits
  /\ \E s \in Statuses \ {status[j]} : status' = [status EXCEPT ![j] = s]
  /\ changes' = changes + 1
  /\ UNCHANGED <<reader, readerVars>>

-----------------------------------------------------------------------------
(* What a statement reads *)

Matching(f) == {j \in Visible : f = All \/ status[j] = f}

\* Variant with a bug: the failed jobs come first.
PlaceFailedFirst(jobs, j) ==
  Cardinality({i \in jobs :
    IF status[i] = status[j] THEN i >= j ELSE status[i] = "failed"})

\* ORDER BY created_at DESC: where job j stands among these.
Place(jobs, j) == Cardinality({i \in jobs : i >= j})

\* The rows that OFFSET and LIMIT leave.
Slice(jobs, offset, limit) ==
  {j \in jobs : Place(jobs, j) \in offset + 1 .. offset + limit}

\* Variant with a bug: pages are counted from 0.
PageFromZero(f, page, size) == Slice(Matching(f), page * size, size)

\* list_jobs: the second statement.
PageOf(f, page, size) == Slice(Matching(f), (page - 1) * size, size)

\* Who pages through the list, without a filter, until a page is not full.
\* The total comes from a statement of its own, before the page.
ConsumerCounts ==
  /\ reader = "consumer"
  /\ consumer.pc = "count"
  /\ consumer' = [consumer EXCEPT !.pc = "page",
                    !.total = Cardinality(Matching(All)),
                    !.begun = IF consumer.page = 1 THEN Visible ELSE @]
  /\ UNCHANGED <<reader, status, changes, filter, edits, request,
                 shown, errors>>

ConsumerReads ==
  LET rows == PageOf(All, consumer.page, PerPage) IN
  /\ consumer.pc = "page"
  /\ consumer' = [consumer EXCEPT
                    !.pc = IF Cardinality(rows) < PerPage THEN "end" ELSE "count",
                    !.page = @ + 1, !.rows = Cardinality(rows),
                    !.got = @ \union rows]
  /\ UNCHANGED <<reader, status, changes, filter, edits, request,
                 shown, errors>>

-----------------------------------------------------------------------------
(* The page in the browser *)

\* What the server answers: the first page of the rows that match, which their
\* ids order, with the status each shows, or the number of jobs of each status.
TableRows(f) == [j \in PageOf(f, 1, TableSize) |-> status[j]]

Totals == [s \in Statuses |-> Cardinality(Matching(s))]

\* How new an answer is, as far as a property asks.
Version == IF reader = "strip" THEN changes ELSE 0

AnswerTo(f) == IF reader = "table" THEN TableRows(f) ELSE Totals

Sets(s, req) == request' = [request EXCEPT ![s] = req]

\* The value of a filter input changes; nothing is asked yet.
FilterEdited ==
  /\ reader = "table"
  /\ edits < MaxEdits
  /\ edits' = edits + 1
  /\ \E f \in (Statuses \union {All}) \ {filter} : filter' = f
  /\ UNCHANGED <<reader, status, changes, consumer, request, shown,
                 errors>>

\* Variants with a bug: the strip is polled by an interval; a poll that has
\* failed is not repeated.
PolledByInterval == TRUE
PolledAfterSuccess ==
  errors = 0 /\ \A s \in Slots : request[s].pc = "none"

\* setTimeout in the finally of pollStats: the last answer has come, or the
\* last request has failed.
PollIsDue == \A s \in Slots : request[s].pc = "none"

\* loadJobs by the interval or by a click, whatever is still under way, with
\* the filters as they are now; pollStats when it is due.
Ask(s) ==
  /\ reader # "consumer"
  /\ request[s].pc = "none"
  /\ reader = "strip" => PollIsDue
  /\ Sets(s, [NoRequest EXCEPT !.pc = "sent", !.filter = filter])
  /\ UNCHANGED <<reader, status, changes, consumer, filter, edits,
                 shown, errors>>

Serve(s) ==
  /\ request[s].pc = "sent"
  /\ Sets(s, [request[s] EXCEPT !.pc = "served", !.seen = Version,
                                !.answer = AnswerTo(request[s].filter)])
  /\ UNCHANGED <<reader, status, changes, consumer, filter, edits,
                 shown, errors>>

\* Variant with a bug: a list without rows leaves the table as it is.
DisplayedIfAny(s) ==
  IF DOMAIN request[s].answer = {} THEN shown
  ELSE [answer |-> request[s].answer, seen |-> request[s].seen]

\* The table or the strip after an answer; without rows, the table says so.
Displayed(s) == [answer |-> request[s].answer, seen |-> request[s].seen]

\* Answers come in any order.
Answer(s) ==
  /\ request[s].pc = "served"
  /\ shown' = Displayed(s)
  /\ Sets(s, NoRequest)
  /\ UNCHANGED <<reader, status, changes, consumer, filter, edits,
                 errors>>

\* A request or its answer is lost: the table shows the error, the strip
\* stays as it is.
Fails(s) ==
  /\ request[s].pc # "none"
  /\ errors < MaxErrors
  /\ errors' = errors + 1
  /\ shown' = IF reader = "table" THEN [shown EXCEPT !.answer = None] ELSE shown
  /\ Sets(s, NoRequest)
  /\ UNCHANGED <<reader, status, changes, consumer, filter, edits>>

DashNext ==
  \/ \E j \in Ids : RowAppears(j) \/ StatusChanges(j)
  \/ ConsumerCounts
  \/ ConsumerReads
  \/ FilterEdited
  \/ \E s \in Slots : Ask(s) \/ Serve(s) \/ Answer(s) \/ Fails(s)

\* The timers fire, the server answers, and the browser takes the answers;
\* a request that fails does so within the bound.
DashFairness ==
  /\ WF_dashVars(\E s \in Slots : Ask(s))
  /\ \A s \in Slots : WF_dashVars(Serve(s)) /\ WF_dashVars(Answer(s))

DashSpec == DashInit /\ [][DashNext]_dashVars /\ DashFairness

-----------------------------------------------------------------------------
(* Properties *)

\* README.md:327 and jobs.py:76-79, the pages of the list, read one after the
\* other while rows are added and change, miss no job that was there when the
\* reading began: new rows push the old ones to later pages only.
PagingSkipsNothing ==
  consumer.pc = "end" => consumer.begun \subseteq consumer.got

Upto(m, n) == IF m <= n THEN m ELSE n

\* jobs.py:73-79, the total is read before the page, so the page has all the
\* rows that the total it comes with promises.
TotalIsKept ==
  consumer.page > 1 /\ consumer.pc \in {"count", "end"} =>
    consumer.rows >=
      Upto(PerPage, consumer.total - (consumer.page - 2) * PerPage)

\* README.md:370 and dash.js:50-52, the strip never goes back to older
\* numbers: there is no second request until the first has ended.
StripNeverGoesBack ==
  [][reader = "strip" => shown'.seen >= shown.seen]_dashVars

\* README.md:370, whatever requests fail, the strip shows the numbers of the
\* table when the jobs have come to rest.
StripCatchesUp == <>[](reader = "strip" => shown.answer = Totals)

\* README.md:372, although answers overtake each other, requests fail and the
\* filters change under way, the table shows the rows that match the filters
\* when the jobs and the filters have come to rest.
TableCatchesUp ==
  <>[](reader = "table" => shown.answer = TableRows(filter))
=============================================================================
