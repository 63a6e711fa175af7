----------------------------- MODULE UsageStats -----------------------------
(***************************************************************************)
(* What administrators are shown of the usage logs: the dashboard, the     *)
(* usage of a key or a channel, and the pages of the log                   *)
(* (repository/usage_log.go, service and handler stats.go, and             *)
(* src/pages/Logs.tsx of the frontend).  Logs arrive all the time, each    *)
(* stamped with the time before it is inserted, so the dashboard's queries *)
(* and the pages of a listing see different tables.                        *)
(***************************************************************************)
EXTENDS Naturals, Sequences, FiniteSets, Functions

CONSTANTS Viewers,   \* administrators, each with one request at a time
          Keys,      \* tenant keys
          Channels,  \* provider channels
          Workload,  \* the logs to come, in the order of their stamps
          NoFilter,  \* neither a key nor a channel is asked for
          NoView,    \* an administrator who is not waiting for a dashboard
          PageSize   \* logs on a page

Logs == DOMAIN Workload

ASSUME StatsAssumption ==
  /\ Workload \in Seq([key : Keys, input : Nat, output : Nat, cost : Nat])
  /\ Keys \cap Channels = {}
  /\ IsFiniteSet(Keys) /\ IsFiniteSet(Channels)
  /\ PageSize \in Nat \ {0}

VARIABLES day,     \* of the server's clock, in UTC
          stamps,  \* the day each log was stamped, newest last
          written, \* the logs that are in the table, each named by its place in stamps
          active,  \* the keys and channels that are active
          edits,   \* how many times one of them is still to be switched
          load,    \* how many logs are still to be stamped
          view,    \* the dashboard each administrator waits for
          listing, \* how far each administrator has turned the pages of the log
          shown    \* history: the highest number of requests an answer has counted

statsVars == <<day, stamps, written, active, edits, load, view, listing, shown>>

\* What GetDashboardStats does, in its order.
Steps == <<"total_requests", "total_tokens", "total_cost", "active_keys", "active_channels",
           "today", "today_requests", "today_cost">>

Figures == {Steps[i] : i \in DOMAIN Steps} \ {"today"}

Dashboards == [next : 1..Len(Steps) + 1, today : Nat, figure : [Figures -> Nat],
               since : Nat, base : SUBSET Logs, on : SUBSET SUBSET (Keys \cup Channels),
               least : Nat, whole : BOOLEAN]

StatsInit(switches, traffic) ==
  /\ day = 0
  /\ stamps = <<>>
  /\ written = {}
  /\ active = Keys \cup Channels
  /\ edits = switches
  /\ load = traffic
  /\ view = [v \in Viewers |-> NoView]
  /\ listing = [v \in Viewers |-> [pages |-> 0, seen |-> {}, base |-> {}]]
  /\ shown = 0

-----------------------------------------------------------------------------
(* The logs arrive.                                                        *)

\* Mutant of Stamp: the date of a clock ahead of UTC.
StampLocal ==
  /\ load > 0
  /\ Len(stamps) < Len(Workload)
  /\ stamps' = Append(stamps, day + 1)
  /\ load' = load - 1
  /\ UNCHANGED <<day, written, active, edits, view, listing, shown>>

\* gorm sets created_at ...
Stamp ==
  /\ load > 0
  /\ Len(stamps) < Len(Workload)
  /\ stamps' = Append(stamps, day)
  /\ load' = load - 1
  /\ UNCHANGED <<day, written, active, edits, view, listing, shown>>

\* ... before the INSERT, which may come late, overtaken by others, or never.
Write(i) ==
  /\ i \in DOMAIN stamps \ written
  /\ written' = written \cup {i}
  /\ UNCHANGED <<day, stamps, active, edits, load, view, listing, shown>>

\* An administrator switches a key or a channel on or off.
Switch(x) ==
  /\ edits > 0
  /\ edits' = edits - 1
  /\ active' = IF x \in active THEN active \ {x} ELSE active \cup {x}
  /\ view' = [v \in Viewers |->
       IF view[v] = NoView THEN NoView ELSE [view[v] EXCEPT !.on = @ \cup {active'}]]
  /\ UNCHANGED <<day, stamps, written, load, listing, shown>>

Midnight ==
  /\ day' = day + 1
  /\ UNCHANGED <<stamps, written, active, edits, load, view, listing, shown>>

-----------------------------------------------------------------------------
(* The dashboard.                                                          *)

TokenSum(rows) == SumFunctionOnSet([i \in Logs |-> Workload[i].input + Workload[i].output], rows)

CostSum(rows) == SumFunctionOnSet([i \in Logs |-> Workload[i].cost], rows)

\* created_at >= today
Since(rows, today) == {i \in rows : stamps[i] >= today}

\* Mutant of Snapshot: the total takes the condition on the date, too.
SnapshotOfToday(rows, on, today) ==
  [total_requests |-> Cardinality(Since(rows, day)),
   total_tokens |-> TokenSum(rows),
   total_cost |-> CostSum(rows),
   active_keys |-> Cardinality(on \cap Keys),
   active_channels |-> Cardinality(on \cap Channels),
   today_requests |-> Cardinality(Since(rows, today)),
   today_cost |-> CostSum(Since(rows, today))]

\* The figures a dashboard would show of these logs, if all its queries saw them.
Snapshot(rows, on, today) ==
  [total_requests |-> Cardinality(rows),
   total_tokens |-> TokenSum(rows),
   total_cost |-> CostSum(rows),
   active_keys |-> Cardinality(on \cap Keys),
   active_channels |-> Cardinality(on \cap Channels),
   today_requests |-> Cardinality(Since(rows, today)),
   today_cost |-> CostSum(Since(rows, today))]

\* since, base, on, least and whole are history: the day and the logs at the
\* start, what was active since, shown at the start, and whether all queries worked.
OpenDashboard(v) ==
  /\ view[v] = NoView
  /\ view' = [view EXCEPT ![v] =
       [next |-> 1, today |-> 0, figure |-> [f \in Figures |-> 0],
        since |-> day, base |-> written, on |-> {active}, least |-> shown, whole |-> TRUE]]
  /\ UNCHANGED <<day, stamps, written, active, edits, load, listing, shown>>

Waiting(v, f) == view[v] # NoView /\ view[v].next \in DOMAIN Steps /\ Steps[view[v].next] = f

\* The date is taken once, between the queries.
TakeDate(v) ==
  /\ Waiting(v, "today")
  /\ view' = [view EXCEPT ![v].today = day, ![v].next = @ + 1]
  /\ UNCHANGED <<day, stamps, written, active, edits, load, listing, shown>>

\* Mutant of Query: each query takes the date itself.
QueryFromDay(v, f, ok) ==
  /\ Waiting(v, f)
  /\ view' = [view EXCEPT
       ![v].figure[f] = IF ok THEN Snapshot(written, active, day)[f] ELSE 0,
       ![v].whole = @ /\ ok,
       ![v].next = @ + 1]
  /\ UNCHANGED <<day, stamps, written, active, edits, load, listing, shown>>

\* One query; an error is dropped and leaves the figure at zero.
Query(v, f, ok) ==
  /\ Waiting(v, f)
  /\ view' = [view EXCEPT
       ![v].figure[f] = IF ok THEN Snapshot(written, active, view[v].today)[f] ELSE 0,
       ![v].whole = @ /\ ok,
       ![v].next = @ + 1]
  /\ UNCHANGED <<day, stamps, written, active, edits, load, listing, shown>>

Larger(m, n) == IF m > n THEN m ELSE n

AnswerDashboard(v) ==
  /\ view[v] # NoView
  /\ view[v].next > Len(Steps)
  /\ shown' = Larger(shown, view[v].figure.total_requests)
  /\ view' = [view EXCEPT ![v] = NoView]
  /\ UNCHANGED <<day, stamps, written, active, edits, load, listing>>

\* The request ends without an answer.
Abandon(gone) ==
  /\ view' = [v \in Viewers |-> IF v \in gone THEN NoView ELSE view[v]]
  /\ UNCHANGED <<day, stamps, written, active, edits, load, listing, shown>>

-----------------------------------------------------------------------------
(* Usage and logs: one query each.                                         *)

\* GetStats looks at the key only; without a filter the handler asks for key 0.
Matching(filter) ==
  {i \in written : CASE filter \in Keys -> Workload[i].key = filter
                     [] filter \in Channels -> TRUE
                     [] OTHER -> FALSE}

\* From the start of some day up to now.
Usage(v, filter, start) ==
  /\ view[v] = NoView
  /\ shown' = Larger(shown, Cardinality(Since(Matching(filter), start)))
  /\ UNCHANGED <<day, stamps, written, active, edits, load, view, listing>>

\* The place of a log in ORDER BY created_at DESC.
Place(i) == Cardinality({j \in written : j >= i})

List(limit, offset) == {i \in written : offset < Place(i) /\ Place(i) <= offset + limit}

\* Mutant of PageOf: the first page is number 0.
PageFromZero(page) == List(PageSize, page * PageSize)

PageOf(page) == List(PageSize, (page - 1) * PageSize)

\* Page 1 starts afresh; the others are reached from their neighbours.  base
\* holds the logs that were there when page 1 was read.
ReadPage(v, page) ==
  /\ view[v] = NoView
  /\ page \in 1..listing[v].pages + 1
  /\ PageOf(page) # {}
  /\ listing' = [listing EXCEPT ![v] =
       IF page = 1 THEN [pages |-> 1, seen |-> PageOf(1), base |-> written]
       ELSE [pages |-> Larger(@.pages, page), seen |-> @.seen \cup PageOf(page), base |-> @.base]]
  /\ UNCHANGED <<day, stamps, written, active, edits, load, view, shown>>

TrafficNext == Stamp \/ \E i \in Logs : Write(i)

DashboardNext(v) ==
  \/ OpenDashboard(v)
  \/ TakeDate(v)
  \/ \E f \in Figures, ok \in BOOLEAN : Query(v, f, ok)
  \/ AnswerDashboard(v)

StatsNext ==
  \/ TrafficNext
  \/ \E x \in Keys \cup Channels : Switch(x)
  \/ Midnight
  \/ \E v \in Viewers : DashboardNext(v) \/ Abandon({v})
  \/ \E v \in Viewers, filter \in Keys \cup Channels \cup {NoFilter}, start \in 0..day : Usage(v, filter, start)
  \/ \E v \in Viewers, page \in Nat : ReadPage(v, page)

StatsSpec == (\E switches, traffic \in Nat : StatsInit(switches, traffic)) /\ [][StatsNext]_statsVars

-----------------------------------------------------------------------------
(* Properties.                                                             *)

\* Besides the types: stamps are in order and never ahead of the clock, and
\* nobody has seen a log that is not in the table.
StatsTypeOK ==
  /\ day \in Nat
  /\ stamps \in Seq(0..day) /\ Len(stamps) <= Len(Workload)
  /\ \A i, j \in DOMAIN stamps : i < j => stamps[i] <= stamps[j]
  /\ written \subseteq DOMAIN stamps
  /\ active \subseteq Keys \cup Channels
  /\ edits \in Nat /\ load \in Nat
  /\ view \in [Viewers -> Dashboards \cup {NoView}]
  /\ listing \in [Viewers -> [pages : Nat, seen : SUBSET written, base : SUBSET written]]
  /\ shown \in 0..Cardinality(written)

\* A dashboard is put together from queries with requests logged, keys and
\* channels switched and possibly midnight passing in between.  Unless one of
\* its queries failed, each figure lies between what it was at the start and
\* what it is now, both figures of today for one and the same day; so with
\* nothing logged meanwhile it is exact, and today's requests exceed the total
\* by no more than arrived meanwhile (GetDashboardStats).
FiguresWithin ==
  \A v \in Viewers : view[v] # NoView /\ view[v].whole =>
    LET w == view[v]
        low == Snapshot(w.base, {}, w.today)
        high == Snapshot(written, {}, w.today)
    IN  /\ w.next > 6 => w.today \in w.since..day
        /\ \A f \in Figures : (\E i \in DOMAIN Steps : i < w.next /\ Steps[i] = f) =>
             IF f \in {"active_keys", "active_channels"}
               THEN \E on \in w.on : w.figure[f] = Snapshot({}, on, 0)[f]
               ELSE low[f] <= w.figure[f] /\ w.figure[f] <= high[f]

\* Answers do not contradict each other: a dashboard that was opened after some
\* answer had counted n requests, be it another dashboard or the usage of a key
\* or a channel, counts at least n, unless one of its queries failed
\* (GetDashboardStats and GetStats).
NeverFewer ==
  \A v \in Viewers : view[v] # NoView /\ view[v].whole /\ view[v].next > 1 =>
    view[v].figure.total_requests >= view[v].least

\* Turning the pages of the log one after the other shows every log that was
\* there when the first page was read, although new ones push the rest down
\* and late ones slip in between: what has not been seen is on a later page
\* (List, and src/pages/Logs.tsx).
NoLogSkipped ==
  \A v \in Viewers : \A i \in listing[v].base \ listing[v].seen : Place(i) > listing[v].pages * PageSize

=============================================================================
