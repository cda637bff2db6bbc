-------------------------- MODULE DashboardProofs --------------------------
(***************************************************************************)
(* The list of jobs and the strip of counts, for every number of jobs,     *)
(* every page size and any requests that overlap: paging misses no job, a  *)
(* page keeps what its total promises, the strip never goes back.          *)
(***************************************************************************)
EXTENDS Dashboard, FiniteSetTheorems, TLAPS

-----------------------------------------------------------------------------
(* Places in the list *)

\* The places of n jobs are 1 .. n.
LEMMA PlacesAre ==
  ASSUME NEW jobs \in SUBSET Int, IsFiniteSet(jobs)
  PROVE  /\ Cardinality(jobs) \in Nat
         /\ \A j \in jobs : Place(jobs, j) \in 1 .. Cardinality(jobs)
         /\ \A n \in 1 .. Cardinality(jobs) : \E j \in jobs : Place(jobs, j) = n
  <1> DEFINE n == Cardinality(jobs)
             from(j) == {i \in jobs : i >= j}
             place == [j \in jobs |-> Place(jobs, j)]
  <1>1. \A j \in jobs : /\ IsFiniteSet(from(j)) /\ Cardinality(from(j)) \in Nat
                        /\ Cardinality(from(j)) <= n
    BY FS_Subset, FS_CardinalityType
  <1>2. n \in Nat
    BY FS_CardinalityType
  <1>3. \A j \in jobs : Place(jobs, j) \in 1 .. n
    <2> SUFFICES ASSUME NEW j \in jobs
                 PROVE  Cardinality(from(j)) \in 1 .. n
      BY DEF Place
    <2>1. j \in from(j)
      OBVIOUS
    <2>2. Cardinality(from(j)) # 0
      BY <1>1, <2>1, FS_EmptySet
    <2> QED BY <1>1, <1>2, <2>2
  <1>4. ASSUME NEW i \in jobs, NEW j \in jobs, i < j
        PROVE  Place(jobs, i) # Place(jobs, j)
    <2>1. i \in Int /\ j \in Int /\ i < j /\ \A k \in jobs : k \in Int
      BY <1>4
    <2>2. from(j) \in SUBSET from(i)
      <3> SUFFICES ASSUME NEW k \in jobs, k >= j
                   PROVE  k >= i
        OBVIOUS
      <3> QED BY <2>1
    <2>3. i \in from(i) /\ i \notin from(j)
      BY <2>1
    <2>4. IsFiniteSet(from(i)) /\ from(j) # from(i)
      BY <1>1, <2>3
    <2> HIDE DEF from
    <2>5. Cardinality(from(i)) # Cardinality(from(j))
      BY <2>2, <2>4, FS_Subset
    <2> QED BY <2>5 DEF Place, from
  <1>5. \A i, j \in jobs : Place(jobs, i) = Place(jobs, j) => i = j
    BY <1>4
  <1>6. place \in Injection(jobs, 1 .. n)
    BY <1>3, <1>5 DEF Injection, IsInjective
  <1>7. IsFiniteSet(1 .. n) /\ Cardinality(1 .. n) = n
    BY <1>2, FS_Interval
  <1>8. place \in Surjection(jobs, 1 .. n)
    BY <1>6, <1>7, FS_Injection
  <1>9. \A m \in 1 .. n : \E j \in jobs : Place(jobs, j) = m
    BY <1>8 DEF Surjection
  <1> QED BY <1>2, <1>3, <1>9

\* A slice has as many rows as there are, up to the limit.
LEMMA SliceHas ==
  ASSUME NEW jobs \in SUBSET Int, IsFiniteSet(jobs), NEW offset \in Nat,
         NEW limit \in Nat
  PROVE  LET slice == Slice(jobs, offset, limit) IN
         /\ IsFiniteSet(slice) /\ Cardinality(slice) \in Nat
         /\ Cardinality(slice) >= Upto(limit, Cardinality(jobs) - offset)
  <1> DEFINE slice == Slice(jobs, offset, limit)
             n == Cardinality(jobs)
             last == Upto(offset + limit, n)
             place == [j \in slice |-> Place(jobs, j)]
  <1>1. n \in Nat /\ IsFiniteSet(slice) /\ Cardinality(slice) \in Nat
    BY FS_Subset, FS_CardinalityType DEF Slice
  <1>2. CASE n <= offset
    BY <1>1, <1>2 DEF Upto
  <1>3. CASE offset < n
    <2> DEFINE places == offset + 1 .. last
    <2>1. last \in Nat /\ offset <= last /\ last - offset = Upto(limit, n - offset)
          /\ last <= n /\ last <= offset + limit
      BY <1>1, <1>3 DEF Upto
    <2>2. Cardinality(places) = last - offset
      BY <2>1, FS_Interval
    <2>3. \A j \in slice : j \in jobs /\ Place(jobs, j) \in places
      BY <1>1, <2>1, PlacesAre DEF Slice, Upto
    <2>4. \A m \in places : \E j \in slice : Place(jobs, j) = m
      BY <1>1, <2>1, PlacesAre DEF Slice
    <2>5. place \in Surjection(slice, places)
      BY <2>3, <2>4 DEF Surjection
    <2>6. Cardinality(places) <= Cardinality(slice)
      BY <1>1, <2>5, FS_Surjection
    <2> QED BY <1>1, <2>1, <2>2, <2>6
  <1> QED BY <1>1, <1>2, <1>3

\* Jobs that are added move the others down the list.
LEMMA PlaceGrows ==
  ASSUME NEW jobs \in SUBSET Int, NEW more \in SUBSET Int, IsFiniteSet(more),
         jobs \subseteq more, NEW j \in jobs
  PROVE  Place(jobs, j) \in Nat /\ Place(more, j) \in Nat
         /\ Place(jobs, j) <= Place(more, j)
  <1>1. {i \in jobs : i >= j} \subseteq {i \in more : i >= j}
    OBVIOUS
  <1>2. IsFiniteSet({i \in more : i >= j})
    BY FS_Subset
  <1> QED BY <1>1, <1>2, FS_Subset, FS_CardinalityType DEF Place

-----------------------------------------------------------------------------
(* Types *)

Answers == {None} \union [Statuses -> Nat]
             \union UNION {[jobs -> Statuses] : jobs \in SUBSET Ids}

Requests == [pc : {"none", "sent", "served"}, answer : Answers,
             filter : Statuses \union {All}, seen : Nat]

DashTypes ==
  /\ status \in [Ids -> Statuses \union {None}]
  /\ changes \in Nat
  /\ consumer \in [pc : {"count", "page", "end"}, page : Nat \ {0}, total : Nat,
                   rows : Nat, begun : SUBSET Ids, got : SUBSET Ids]
  /\ filter \in Statuses \union {All}
  /\ request \in [Slots -> Requests]
  /\ shown \in [answer : Answers, seen : Nat]

LEMMA JobsFinite ==
  /\ Ids \in SUBSET Int /\ IsFiniteSet(Ids)
  /\ Visible \in SUBSET Ids /\ IsFiniteSet(Visible) /\ Visible \in SUBSET Int
  /\ \A f : Matching(f) \in SUBSET Int /\ IsFiniteSet(Matching(f))
  /\ Matching(All) = Visible
  <1>1. Ids \in SUBSET Int /\ IsFiniteSet(Ids)
    BY NJobsAssumption, FS_Interval DEF Ids
  <1>2. Visible \in SUBSET Ids /\ \A f : Matching(f) \in SUBSET Ids
    BY DEF Visible, Matching
  <1>3. Matching(All) = Visible
    BY DEF Matching
  <1> QED BY <1>1, <1>2, <1>3, FS_Subset

LEMMA PagesSliced ==
  ASSUME NEW page \in Nat \ {0}, NEW size \in Nat, NEW f
  PROVE  /\ (page - 1) * size \in Nat
         /\ page * size = (page - 1) * size + size
         /\ PageOf(f, page, size) \in SUBSET Matching(f)
         /\ IsFiniteSet(PageOf(f, page, size))
         /\ Cardinality(PageOf(f, page, size)) \in Nat
  <1>1. (page - 1) * size \in Nat /\ page * size = (page - 1) * size + size
    OBVIOUS
  <1>2. PageOf(f, page, size) \in SUBSET Matching(f)
    BY DEF PageOf, Slice
  <1> QED BY <1>1, <1>2, JobsFinite, FS_Subset, FS_CardinalityType

LEMMA AnswersTyped ==
  ASSUME DashTypes, NEW f
  PROVE  AnswerTo(f) \in Answers
  <1>1. Totals \in [Statuses -> Nat]
    BY JobsFinite, FS_CardinalityType DEF Totals
  <1>2. TableRows(f) \in Answers
    <2> DEFINE page == PageOf(f, 1, TableSize)
    <2>1. page \in SUBSET Visible
      BY SizesAssumption, PagesSliced DEF Matching
    <2>2. \A j \in page : j \in Ids /\ status[j] \in Statuses
      BY <2>1 DEF DashTypes, Visible
    <2>3. TableRows(f) \in [page -> Statuses] /\ page \in SUBSET Ids
      BY <2>2 DEF TableRows
    <2> QED BY <2>3 DEF Answers
  <1> QED BY <1>1, <1>2 DEF AnswerTo, Answers

LEMMA InitTypes ==
  ASSUME DashInit
  PROVE  DashTypes
  BY DEF DashInit, DashTypes, NoRequest, Requests, Answers

LEMMA NextTypes ==
  ASSUME DashTypes, [DashNext]_dashVars
  PROVE  DashTypes'
  <1>1. ASSUME NEW j \in Ids, RowAppears(j) \/ StatusChanges(j)
        PROVE  DashTypes'
    BY <1>1 DEF RowAppears, StatusChanges, readerVars, DashTypes
  <1>2. CASE ConsumerCounts
    <2>1. Cardinality(Matching(All)) \in Nat /\ Visible \in SUBSET Ids
      BY JobsFinite, FS_CardinalityType
    <2> QED BY <1>2, <2>1 DEF ConsumerCounts, DashTypes
  <1>3. CASE ConsumerReads
    <2> DEFINE rows == PageOf(All, consumer.page, PerPage)
    <2>1. Cardinality(rows) \in Nat /\ rows \in SUBSET Ids
      BY SizesAssumption, PagesSliced, JobsFinite DEF DashTypes
    <2>2. consumer' \in [pc : {"count", "page", "end"}, page : Nat \ {0}, total : Nat,
                         rows : Nat, begun : SUBSET Ids, got : SUBSET Ids]
      <3>1. consumer.page + 1 \in Nat \ {0} /\ consumer.got \union rows \in SUBSET Ids
        BY <2>1 DEF DashTypes
      <3> HIDE DEF rows
      <3>2. consumer' = [consumer EXCEPT
                           !.pc = IF Cardinality(rows) < PerPage THEN "end" ELSE "count",
                           !.page = consumer.page + 1, !.rows = Cardinality(rows),
                           !.got = consumer.got \union rows]
        BY <1>3 DEF ConsumerReads, rows
      <3> QED BY <2>1, <3>1, <3>2 DEF DashTypes
    <2> QED BY <1>3, <2>2 DEF ConsumerReads, DashTypes
  <1>4. CASE FilterEdited
    BY <1>4 DEF FilterEdited, DashTypes
  <1>5. ASSUME NEW s \in Slots, NEW req \in Requests, Sets(s, req),
               UNCHANGED <<status, changes, consumer, filter>>,
               shown' \in [answer : Answers, seen : Nat]
        PROVE  DashTypes'
    <2>1. request' = [request EXCEPT ![s] = req] /\ request \in [Slots -> Requests]
      BY <1>5 DEF Sets, DashTypes
    <2>2. request' \in [Slots -> Requests]
      BY <2>1
    <2> QED BY <1>5, <2>2 DEF DashTypes
  <1>6. NoRequest \in Requests /\ None \in Answers
    BY DEF NoRequest, Requests, Answers
  <1>7. ASSUME NEW s \in Slots, Ask(s)
        PROVE  DashTypes'
    <2>1. [NoRequest EXCEPT !.pc = "sent", !.filter = filter] \in Requests
      BY <1>6 DEF Requests, DashTypes
    <2> QED BY <1>5, <1>7, <2>1 DEF Ask, DashTypes
  <1>8. ASSUME NEW s \in Slots, Serve(s)
        PROVE  DashTypes'
    <2>1. AnswerTo(request[s].filter) \in Answers /\ Version \in Nat
      BY AnswersTyped DEF Version, DashTypes
    <2>2. [request[s] EXCEPT !.pc = "served", !.seen = Version,
                             !.answer = AnswerTo(request[s].filter)] \in Requests
      BY <2>1 DEF Requests, DashTypes
    <2> QED BY <1>5, <1>8, <2>2 DEF Serve, DashTypes
  <1>9. ASSUME NEW s \in Slots, Answer(s) \/ Fails(s)
        PROVE  DashTypes'
    <2>1. shown' \in [answer : Answers, seen : Nat]
      BY <1>6, <1>9 DEF Answer, Fails, Displayed, Requests, DashTypes
    <2> QED BY <1>5, <1>6, <1>9, <2>1 DEF Answer, Fails
  <1>10. CASE UNCHANGED dashVars
    BY <1>10 DEF dashVars, readerVars, DashTypes
  <1> QED BY <1>1, <1>2, <1>3, <1>4, <1>7, <1>8, <1>9, <1>10 DEF DashNext

-----------------------------------------------------------------------------
(* Paging *)

\* The inductive invariant: what was there when the reading began and has not
\* been read is on a later page, and the list is not shorter than its total.
Offset == (consumer.page - 1) * PerPage

PagingInv ==
  /\ consumer.begun \subseteq Visible
  /\ \A j \in consumer.begun \ consumer.got : Place(Visible, j) > Offset
  /\ consumer.pc = "page" => consumer.total <= Cardinality(Visible)
  /\ PagingSkipsNothing
  /\ TotalIsKept

LEMMA InitPaging ==
  ASSUME DashInit
  PROVE  PagingInv
  BY DEF DashInit, PagingInv, PagingSkipsNothing, TotalIsKept

\* No job disappears.
LEMMA VisibleGrows ==
  ASSUME DashTypes, [DashNext]_dashVars
  PROVE  /\ Visible \subseteq Visible'
         /\ Visible' \in SUBSET Int /\ IsFiniteSet(Visible')
         /\ Cardinality(Visible) <= Cardinality(Visible')
  <1>1. \A j \in Ids : status[j] # None => status'[j] # None
    <2>1. ASSUME NEW i \in Ids, RowAppears(i) \/ StatusChanges(i)
          PROVE  \A j \in Ids : status[j] # None => status'[j] # None
      BY <2>1, NoneIsNoStatus DEF RowAppears, StatusChanges, DashTypes
    <2>2. CASE UNCHANGED status
      BY <2>2
    <2> QED BY <2>1, <2>2 DEF DashNext, ConsumerCounts, ConsumerReads, FilterEdited,
               Ask, Serve, Answer, Fails, dashVars
  <1>2. Visible \subseteq Visible' /\ Visible' \in SUBSET Ids
    BY <1>1 DEF Visible
  <1> QED BY <1>2, JobsFinite, FS_Subset, FS_CardinalityType

\* The rows change under a consumer that waits.
LEMMA WaitingPages ==
  ASSUME DashTypes, [DashNext]_dashVars, UNCHANGED consumer, PagingInv
  PROVE  PagingInv'
  <1>1. \A j \in consumer.begun : Place(Visible, j) \in Nat /\ Place(Visible', j) \in Nat
                                  /\ Place(Visible, j) <= Place(Visible', j)
    BY JobsFinite, VisibleGrows, PlaceGrows DEF PagingInv
  <1>2. Offset \in Nat /\ Offset' = Offset
    BY SizesAssumption, PagesSliced DEF Offset, DashTypes
  <1>3. \A j \in consumer.begun \ consumer.got : Place(Visible', j) > Offset
    BY <1>1, <1>2 DEF PagingInv
  <1>4. consumer.pc = "page" => consumer.total <= Cardinality(Visible')
    <2>1. Cardinality(Visible) \in Nat /\ Cardinality(Visible') \in Nat
      BY JobsFinite, VisibleGrows, FS_CardinalityType
    <2> QED BY <2>1, VisibleGrows DEF PagingInv, DashTypes
  <1> QED BY <1>2, <1>3, <1>4, VisibleGrows DEF PagingInv, PagingSkipsNothing, TotalIsKept

LEMMA CountPages ==
  ASSUME DashTypes, ConsumerCounts, PagingInv
  PROVE  PagingInv'
  <1>1. UNCHANGED status /\ Visible' = Visible
    BY DEF ConsumerCounts, Visible
  <1>2. /\ consumer'.pc = "page" /\ consumer'.page = consumer.page
        /\ consumer'.total = Cardinality(Visible) /\ consumer'.got = consumer.got
        /\ consumer'.begun = IF consumer.page = 1 THEN Visible ELSE consumer.begun
    BY JobsFinite DEF ConsumerCounts, DashTypes
  <1>3. consumer'.begun \subseteq Visible
    BY <1>2 DEF PagingInv
  <1>4. \A j \in consumer'.begun \ consumer'.got : Place(Visible, j) > Offset
    <2>1. CASE consumer.page = 1
      <3>1. Offset = 0
        BY <2>1, SizesAssumption DEF Offset
      <3>2. \A j \in Visible : Place(Visible, j) \in 1 .. Cardinality(Visible)
        BY JobsFinite, PlacesAre
      <3> QED BY <1>3, <3>1, <3>2
    <2>2. CASE consumer.page # 1
      BY <1>2, <2>2 DEF PagingInv
    <2> QED BY <2>1, <2>2
  <1>5. Offset' = Offset
    BY <1>2 DEF Offset
  <1>6. Cardinality(Visible) \in Nat
    BY JobsFinite, FS_CardinalityType
  <1> QED BY <1>1, <1>2, <1>3, <1>4, <1>5, <1>6
          DEF PagingInv, PagingSkipsNothing, TotalIsKept

LEMMA ReadPages ==
  ASSUME DashTypes, ConsumerReads, PagingInv
  PROVE  PagingInv'
  <1> DEFINE rows == PageOf(All, consumer.page, PerPage)
             n == Cardinality(Visible)
  <1>1. UNCHANGED status /\ Visible' = Visible /\ n \in Nat
    BY JobsFinite, FS_CardinalityType DEF ConsumerReads, Visible
  <1>2. /\ consumer.pc = "page" /\ consumer'.page = consumer.page + 1
        /\ consumer'.pc = (IF Cardinality(rows) < PerPage THEN "end" ELSE "count")
        /\ consumer'.rows = Cardinality(rows) /\ consumer'.total = consumer.total
        /\ consumer'.begun = consumer.begun
        /\ consumer'.got = consumer.got \union rows
    BY DEF ConsumerReads, DashTypes
  <1>3. /\ consumer.page \in Nat \ {0} /\ PerPage \in Nat /\ consumer.total \in Nat
    BY SizesAssumption DEF DashTypes
  <1>4. Offset \in Nat /\ Offset' = Offset + PerPage
    BY <1>2, <1>3, PagesSliced DEF Offset
  <1>5. /\ rows = Slice(Visible, Offset, PerPage) /\ Cardinality(rows) \in Nat
        /\ Cardinality(rows) >= Upto(PerPage, n - Offset)
    BY <1>3, <1>4, JobsFinite, SliceHas DEF PageOf, Offset
  <1>6. \A j \in Visible : Place(Visible, j) \in 1 .. n
    BY JobsFinite, PlacesAre
  <1>7. ASSUME NEW j \in consumer'.begun \ consumer'.got
        PROVE  Place(Visible, j) > Offset + PerPage
    <2>1. j \in Visible /\ j \notin rows /\ Place(Visible, j) > Offset
      BY <1>2, <1>7 DEF PagingInv
    <2>2. Place(Visible, j) \notin Offset + 1 .. Offset + PerPage
      BY <1>5, <2>1 DEF Slice
    <2> QED BY <1>3, <1>4, <1>6, <2>1, <2>2
  <1>8. consumer'.pc = "end" => consumer'.begun \subseteq consumer'.got
    <2> SUFFICES ASSUME consumer'.pc = "end", NEW j \in consumer'.begun \ consumer'.got
                 PROVE  FALSE
      OBVIOUS
    <2>1. Place(Visible, j) > Offset + PerPage /\ Place(Visible, j) \in 1 .. n
      BY <1>2, <1>6, <1>7 DEF PagingInv
    <2>2. Cardinality(rows) < PerPage
      BY <1>2
    <2> QED BY <1>1, <1>3, <1>4, <1>5, <2>1, <2>2 DEF Upto
  <1>9. consumer'.rows >= Upto(PerPage, consumer'.total - (consumer'.page - 2) * PerPage)
    <2>1. (consumer'.page - 2) * PerPage = Offset
      BY <1>2, <1>3 DEF Offset
    <2>2. consumer.total <= n
      BY <1>2 DEF PagingInv
    <2> QED BY <1>1, <1>2, <1>3, <1>4, <1>5, <2>1, <2>2 DEF Upto
  <1> QED BY <1>1, <1>2, <1>4, <1>7, <1>8, <1>9
          DEF PagingInv, PagingSkipsNothing, TotalIsKept

LEMMA NextPaging ==
  ASSUME DashTypes, [DashNext]_dashVars, PagingInv
  PROVE  PagingInv'
  <1>1. CASE UNCHANGED consumer
    BY <1>1, WaitingPages
  <1>2. CASE ConsumerCounts \/ ConsumerReads
    BY <1>2, CountPages, ReadPages
  <1> QED BY <1>1, <1>2 DEF DashNext, RowAppears, StatusChanges, FilterEdited, Ask,
             Serve, Answer, Fails, dashVars, readerVars

\* The types of the readers' state.
THEOREM DashTypesHold == DashSpec => []DashTypes
  BY InitTypes, NextTypes, PTL DEF DashSpec

\* jobs.py:76-79, who pages through the list until a page is not full has got
\* every job that was there at the beginning, whatever is added meanwhile.
THEOREM PagingMissesNothing == DashSpec => []PagingSkipsNothing
  <1>1. PagingInv => PagingSkipsNothing
    BY DEF PagingInv
  <1> QED BY <1>1, InitPaging, NextPaging, DashTypesHold, PTL DEF DashSpec

\* jobs.py:73-79, a page has all the rows its total promises.
THEOREM PagesKeepTotal == DashSpec => []TotalIsKept
  <1>1. PagingInv => TotalIsKept
    BY DEF PagingInv
  <1> QED BY <1>1, InitPaging, NextPaging, DashTypesHold, PTL DEF DashSpec

-----------------------------------------------------------------------------
(* The strip *)

\* The inductive invariant: one request at a time, and its answer is no older
\* than what is shown.
StripInv ==
  reader = "strip" =>
    /\ \A s, t \in Slots : request[s].pc # "none" /\ request[t].pc # "none" => s = t
    /\ \A s \in Slots : request[s].pc = "served" => request[s].seen \in shown.seen .. changes
    /\ shown.seen <= changes

LEMMA InitStrip ==
  ASSUME DashInit
  PROVE  StripInv
  BY DEF DashInit, StripInv, NoRequest

LEMMA NextStrip ==
  ASSUME DashTypes, [DashNext]_dashVars, StripInv
  PROVE  StripInv' /\ (reader = "strip" => shown'.seen >= shown.seen)
  <1> SUFFICES ASSUME reader = "strip"
               PROVE  StripInv' /\ shown'.seen >= shown.seen
    BY DEF StripInv, DashNext, RowAppears, StatusChanges, ConsumerCounts, ConsumerReads,
           FilterEdited, Ask, Serve, Answer, Fails, dashVars
  <1>1. ASSUME NEW j \in Ids, RowAppears(j) \/ StatusChanges(j)
        PROVE  StripInv' /\ shown'.seen >= shown.seen
    BY <1>1 DEF RowAppears, StatusChanges, readerVars, StripInv, DashTypes
  <1>2. CASE UNCHANGED <<request, shown, changes>>
    BY <1>2 DEF StripInv, DashTypes
  <1>3. ASSUME NEW s \in Slots, Ask(s)
        PROVE  StripInv' /\ shown'.seen >= shown.seen
    BY <1>3 DEF Ask, Sets, PollIsDue, NoRequest, StripInv, DashTypes
  <1>4. ASSUME NEW s \in Slots, Serve(s)
        PROVE  StripInv' /\ shown'.seen >= shown.seen
    BY <1>4 DEF Serve, Sets, Version, StripInv, DashTypes, Requests
  <1>5. ASSUME NEW s \in Slots, Answer(s)
        PROVE  StripInv' /\ shown'.seen >= shown.seen
    BY <1>5 DEF Answer, Sets, Displayed, NoRequest, StripInv, DashTypes, Requests
  <1>6. ASSUME NEW s \in Slots, Fails(s)
        PROVE  StripInv' /\ shown'.seen >= shown.seen
    BY <1>6 DEF Fails, Sets, NoRequest, StripInv, DashTypes, Requests
  <1> QED BY <1>1, <1>2, <1>3, <1>4, <1>5, <1>6
          DEF DashNext, ConsumerCounts, ConsumerReads, FilterEdited, dashVars, readerVars

\* dash.js:50-52, the answers of the strip come in the order in which the
\* table had what they say.
THEOREM StripOnlyAdvances == DashSpec => StripNeverGoesBack
  <1>1. DashTypes /\ StripInv /\ [DashNext]_dashVars =>
          [reader = "strip" => shown'.seen >= shown.seen]_dashVars
    BY NextStrip
  <1> QED BY <1>1, InitStrip, NextStrip, DashTypesHold, PTL
          DEF DashSpec, StripNeverGoesBack
=============================================================================
