----------------------------- MODULE StatsProofs -----------------------------
(***************************************************************************)
(* Proofs about UsageStats, for any logs, keys, viewers and page size,     *)
(* alone and as a part of Console: what a dashboard that is put together   *)
(* from eight queries may show, and that no log is lost between pages.     *)
(***************************************************************************)
EXTENDS Console, SumProofs

-----------------------------------------------------------------------------
(* The figures.                                                            *)

Totals == {"total_requests", "total_tokens", "total_cost"}
Actives == {"active_keys", "active_channels"}
Todays == {"today_requests", "today_cost"}

LEMMA StepsInOrder ==
  /\ Len(Steps) = 8 /\ DOMAIN Steps = 1..8
  /\ Steps[1] = "total_requests" /\ Steps[2] = "total_tokens" /\ Steps[3] = "total_cost"
  /\ Steps[4] = "active_keys" /\ Steps[5] = "active_channels" /\ Steps[6] = "today"
  /\ Steps[7] = "today_requests" /\ Steps[8] = "today_cost"
BY DEF Steps

LEMMA FiguresAre == Figures = Totals \cup Actives \cup Todays
<1>1. \A f : f \in Figures <=> (\E i \in 1..8 : Steps[i] = f) /\ f # "today"
  BY StepsInOrder DEF Figures
<1>2. \A i \in 1..8 : i = 1 \/ i = 2 \/ i = 3 \/ i = 4 \/ i = 5 \/ i = 6 \/ i = 7 \/ i = 8
  OBVIOUS
<1>3. \A f : f \in Figures => f \in Totals \cup Actives \cup Todays
  BY <1>1, <1>2, StepsInOrder DEF Totals, Actives, Todays
<1>4. \A f : f \in Totals \cup Actives \cup Todays => f \in Figures
  BY <1>1, StepsInOrder DEF Totals, Actives, Todays
<1> QED  BY <1>3, <1>4

\* The figures of today come after the date has been taken.
LEMMA TodaysLast ==
  \A i \in 1..8 : /\ Steps[i] \in Todays => i > 6
                  /\ Steps[i] = "today" => i = 6
<1>1. \A i \in 1..8 : i = 1 \/ i = 2 \/ i = 3 \/ i = 4 \/ i = 5 \/ i = 6 \/ i = 7 \/ i = 8
  OBVIOUS
<1> QED  BY <1>1, StepsInOrder DEF Todays

\* What a figure is of some rows with their stamps, and of what is active.
Measure(f, st, rows, today) ==
  CASE f = "total_requests" -> Cardinality(rows)
    [] f = "total_tokens" -> TokenSum(rows)
    [] f = "total_cost" -> CostSum(rows)
    [] f = "today_requests" -> Cardinality({i \in rows : st[i] >= today})
    [] f = "today_cost" -> CostSum({i \in rows : st[i] >= today})

ActiveOf(f, on) == Cardinality(on \cap IF f = "active_keys" THEN Keys ELSE Channels)

LEMMA SnapshotMeasures ==
  ASSUME NEW rows, NEW on, NEW today
  PROVE  /\ \A f \in Totals \cup Todays : Snapshot(rows, on, today)[f] = Measure(f, stamps, rows, today)
         /\ \A f \in Actives : Snapshot(rows, on, today)[f] = ActiveOf(f, on)
BY DEF Snapshot, Measure, ActiveOf, Totals, Todays, Actives, Since

LEMMA LogsFinite == IsFiniteSet(Logs) /\ Logs = 1..Len(Workload) /\ Len(Workload) \in Nat
<1>1. Logs = 1..Len(Workload) /\ Len(Workload) \in Nat
  BY StatsAssumption DEF Logs
<1> QED  BY <1>1, FS_Interval

LEMMA SumsGrow ==
  ASSUME NEW T \in SUBSET Logs, NEW S \in SUBSET T
  PROVE  /\ TokenSum(S) \in Nat /\ TokenSum(T) \in Nat /\ TokenSum(S) <= TokenSum(T)
         /\ CostSum(S) \in Nat /\ CostSum(T) \in Nat /\ CostSum(S) <= CostSum(T)
<1> DEFINE Log == [key : Keys, input : Nat, output : Nat, cost : Nat]
<1>1. \A i \in Logs : Workload[i] \in Log
  <2>1. Workload \in Seq(Log)
    BY StatsAssumption
  <2> HIDE DEF Log
  <2> QED  BY <2>1 DEF Logs
<1>2. /\ [i \in Logs |-> Workload[i].input + Workload[i].output] \in [Logs -> Nat]
      /\ [i \in Logs |-> Workload[i].cost] \in [Logs -> Nat]
  BY <1>1
<1>3. S \in SUBSET Logs
  OBVIOUS
<1>4. TokenSum(S) \in Nat /\ TokenSum(T) \in Nat /\ TokenSum(S) <= TokenSum(T)
  BY <1>2, <1>3, LogsFinite, SumLaws, SumMonotone DEF TokenSum
<1>5. CostSum(S) \in Nat /\ CostSum(T) \in Nat /\ CostSum(S) <= CostSum(T)
  BY <1>2, <1>3, LogsFinite, SumLaws, SumMonotone DEF CostSum
<1> QED  BY <1>4, <1>5

LEMMA CountsGrow ==
  ASSUME NEW T \in SUBSET Logs, NEW S \in SUBSET T
  PROVE  /\ IsFiniteSet(T) /\ Cardinality(S) \in Nat /\ Cardinality(T) \in Nat
         /\ Cardinality(S) <= Cardinality(T)
<1>1. IsFiniteSet(T)
  BY LogsFinite, FS_Subset
<1> QED  BY <1>1, FS_Subset, FS_CardinalityType

\* With more rows no figure gets smaller, whatever is stamped meanwhile.
LEMMA MeasureGrows ==
  ASSUME NEW f \in Totals \cup Todays, NEW st, NEW later, NEW today,
         NEW rows \in SUBSET Logs, NEW base \in SUBSET rows,
         \A i \in base : later[i] = st[i]
  PROVE  /\ Measure(f, st, base, today) \in Nat /\ Measure(f, later, rows, today) \in Nat
         /\ Measure(f, st, base, today) <= Measure(f, later, rows, today)
<1> DEFINE R == {i \in rows : later[i] >= today}
           B == {i \in base : st[i] >= today}
<1>1. R \in SUBSET Logs /\ B \in SUBSET R
  OBVIOUS
<1> HIDE DEF R, B
<1>2. /\ Cardinality(B) \in Nat /\ Cardinality(R) \in Nat /\ Cardinality(B) <= Cardinality(R)
      /\ CostSum(B) \in Nat /\ CostSum(R) \in Nat /\ CostSum(B) <= CostSum(R)
      /\ Cardinality(base) \in Nat /\ Cardinality(rows) \in Nat /\ Cardinality(base) <= Cardinality(rows)
      /\ TokenSum(base) \in Nat /\ TokenSum(rows) \in Nat /\ TokenSum(base) <= TokenSum(rows)
      /\ CostSum(base) \in Nat /\ CostSum(rows) \in Nat /\ CostSum(base) <= CostSum(rows)
  BY <1>1, CountsGrow, SumsGrow
<1>3. CASE f = "total_requests"
  BY <1>2, <1>3 DEF Measure
<1>4. CASE f = "total_tokens"
  BY <1>2, <1>4 DEF Measure
<1>5. CASE f = "total_cost"
  BY <1>2, <1>5 DEF Measure
<1>6. CASE f = "today_requests"
  <2>1. Measure(f, st, base, today) = Cardinality(B) /\ Measure(f, later, rows, today) = Cardinality(R)
    BY <1>6 DEF Measure, R, B
  <2> QED  BY <1>2, <2>1
<1>7. CASE f = "today_cost"
  <2>1. Measure(f, st, base, today) = CostSum(B) /\ Measure(f, later, rows, today) = CostSum(R)
    BY <1>7 DEF Measure, R, B
  <2> QED  BY <1>2, <2>1
<1> QED  BY <1>3, <1>4, <1>5, <1>6, <1>7 DEF Totals, Todays

\* The totals do not depend on the date.
LEMMA TotalsUndated ==
  ASSUME NEW f \in Totals, NEW st, NEW rows, NEW today, NEW other
  PROVE  Measure(f, st, rows, today) = Measure(f, st, rows, other)
BY DEF Measure, Totals

LEMMA ActiveTypes ==
  ASSUME NEW f \in Actives, NEW on
  PROVE  ActiveOf(f, on) \in Nat
<1>1. IsFiniteSet(on \cap IF f = "active_keys" THEN Keys ELSE Channels)
  BY StatsAssumption, FS_Subset
<1> QED  BY <1>1, FS_CardinalityType DEF ActiveOf

-----------------------------------------------------------------------------
(* One dashboard w, when the rows are in the table with the stamps st, the  *)
(* keys and channels act are active and it is day d.                        *)

Measured(f, next) == \E i \in DOMAIN Steps : i < next /\ Steps[i] = f

FigureWithin(w, f, st, rows) ==
  IF f \in Actives
    THEN \E on \in w.on : w.figure[f] = ActiveOf(f, on)
    ELSE /\ Measure(f, st, w.base, w.today) <= w.figure[f]
         /\ w.figure[f] <= Measure(f, st, rows, w.today)

Within(w, st, rows, d) ==
  /\ w.next > 6 => w.today \in w.since..d
  /\ \A f \in Figures : Measured(f, w.next) => FigureWithin(w, f, st, rows)

\* What a query has counted, others may have answered before.
Seen(w, st, rows, act, d) ==
  /\ w \in Dashboards
  /\ w.base \subseteq rows
  /\ w.since <= d
  /\ w.least <= Cardinality(w.base)
  /\ act \in w.on
  /\ w.figure.total_requests <= Cardinality(rows)
  /\ w.whole => Within(w, st, rows, d)

LEMMA DashboardFields ==
  ASSUME NEW w \in Dashboards
  PROVE  /\ w.next \in 1..9 /\ w.today \in Nat /\ w.since \in Nat /\ w.least \in Nat /\ w.whole \in BOOLEAN
         /\ w.figure \in [Figures -> Nat] /\ w.base \in SUBSET Logs
         /\ w.on \in SUBSET SUBSET (Keys \cup Channels)
BY StepsInOrder DEF Dashboards

LEMMA TodaysTaken ==
  ASSUME NEW f \in Todays, NEW next \in Nat, Measured(f, next)
  PROVE  next > 6
BY StepsInOrder, TodaysLast DEF Measured

\* Whatever is stamped and written, and when midnight passes, the dashboard
\* stays within its bounds.
LEMMA SeenLater ==
  ASSUME NEW w, NEW st, NEW rows, NEW act, NEW d \in Nat, Seen(w, st, rows, act, d),
         NEW later, NEW more \in SUBSET Logs, NEW e \in Nat,
         rows \subseteq more, d <= e, \A i \in rows : later[i] = st[i]
  PROVE  Seen(w, later, more, act, e)
<1>1. /\ w.next \in 1..9 /\ w.today \in Nat /\ w.since \in Nat /\ w.figure \in [Figures -> Nat]
      /\ w.base \subseteq rows /\ w \in Dashboards
  BY DashboardFields DEF Seen
<1>2. Cardinality(rows) \in Nat /\ Cardinality(more) \in Nat /\ Cardinality(rows) <= Cardinality(more)
  BY CountsGrow
<1>3. w.figure.total_requests \in Nat
  BY <1>1, FiguresAre DEF Totals
<1>4. ASSUME Within(w, st, rows, d) PROVE Within(w, later, more, e)
  <2>1. w.next > 6 => w.today \in w.since..e
    BY <1>1, <1>4 DEF Within
  <2>2. ASSUME NEW f \in Figures, Measured(f, w.next) PROVE FigureWithin(w, f, later, more)
    <3>1. FigureWithin(w, f, st, rows)
      BY <1>4, <2>2 DEF Within
    <3>2. CASE f \in Actives
      BY <3>1, <3>2 DEF FigureWithin
    <3>3. CASE f \in Totals \cup Todays /\ f \notin Actives
      <4>1. /\ rows \in SUBSET Logs /\ w.base \in SUBSET rows /\ rows \in SUBSET more
            /\ w.base \in SUBSET Logs /\ w.base \in SUBSET w.base
        BY <1>1
      <4>2. /\ Measure(f, later, w.base, w.today) \in Nat /\ Measure(f, st, w.base, w.today) \in Nat
            /\ Measure(f, later, w.base, w.today) <= Measure(f, st, w.base, w.today)
        BY <1>1, <3>3, <4>1, MeasureGrows
      <4>3. /\ Measure(f, st, rows, w.today) \in Nat /\ Measure(f, later, more, w.today) \in Nat
            /\ Measure(f, st, rows, w.today) <= Measure(f, later, more, w.today)
        BY <3>3, <4>1, MeasureGrows
      <4> QED  BY <1>1, <3>1, <3>3, <4>2, <4>3 DEF FigureWithin
    <3> QED  BY <3>2, <3>3, FiguresAre DEF Totals, Todays, Actives
  <2> QED  BY <2>1, <2>2 DEF Within
<1> QED  BY <1>1, <1>2, <1>3, <1>4 DEF Seen

\* A switch adds to what was active meanwhile.
LEMMA SeenSwitched ==
  ASSUME NEW w, NEW st, NEW rows, NEW act, NEW d, Seen(w, st, rows, act, d),
         NEW on \in SUBSET (Keys \cup Channels)
  PROVE  Seen([w EXCEPT !.on = @ \cup {on}], st, rows, on, d)
<1> DEFINE x == [w EXCEPT !.on = @ \cup {on}]
<1>1. w \in Dashboards
  BY DEF Seen
<1>2. /\ x \in Dashboards
      /\ x.next = w.next /\ x.today = w.today /\ x.figure = w.figure /\ x.since = w.since
      /\ x.base = w.base /\ x.on = w.on \cup {on} /\ x.least = w.least /\ x.whole = w.whole
  <2>1. w.on \cup {on} \in SUBSET SUBSET (Keys \cup Channels)
    BY <1>1, DashboardFields
  <2> QED  BY <1>1, <2>1, Zenon DEF Dashboards
<1> HIDE DEF x
<1>3. Within(w, st, rows, d) => Within(x, st, rows, d)
  BY <1>2 DEF Within, FigureWithin
<1>4. Seen(x, st, rows, on, d)
  BY <1>2, <1>3 DEF Seen
<1> QED  BY <1>4 DEF x

\* The date is taken before any figure that depends on it.
LEMMA SeenDated ==
  ASSUME NEW w, NEW st, NEW rows \in SUBSET Logs, NEW act, NEW d \in Nat, Seen(w, st, rows, act, d),
         w.next \in DOMAIN Steps, Steps[w.next] = "today"
  PROVE  Seen([w EXCEPT !.today = d, !.next = @ + 1], st, rows, act, d)
<1> DEFINE x == [w EXCEPT !.today = d, !.next = @ + 1]
<1>1. w \in Dashboards /\ w.next = 6
  BY TodaysLast, StepsInOrder DEF Seen
<1>2. /\ x \in Dashboards
      /\ x.next = w.next + 1 /\ x.today = d /\ x.figure = w.figure /\ x.since = w.since
      /\ x.base = w.base /\ x.on = w.on /\ x.least = w.least /\ x.whole = w.whole
  <2>1. w.next + 1 \in 1..Len(Steps) + 1
    BY <1>1, StepsInOrder
  <2> QED  BY <1>1, <2>1, Zenon DEF Dashboards
<1> HIDE DEF x
<1>3. ASSUME Within(w, st, rows, d), NEW f \in Figures, Measured(f, x.next) PROVE FigureWithin(x, f, st, rows)
  <2>1. Measured(f, w.next) /\ f \notin Todays
    <3>1. PICK i \in DOMAIN Steps : i < x.next /\ Steps[i] = f
      BY <1>3 DEF Measured
    <3>2. i # w.next
      BY <3>1 DEF Figures
    <3>3. i < w.next
      BY <1>1, <1>2, <3>1, <3>2, StepsInOrder
    <3> QED  BY <1>1, <3>1, <3>3, TodaysLast, StepsInOrder DEF Measured
  <2>2. FigureWithin(w, f, st, rows)
    BY <1>3, <2>1 DEF Within
  <2>3. CASE f \in Actives
    BY <1>2, <2>2, <2>3 DEF FigureWithin
  <2>4. CASE f \in Totals /\ f \notin Actives
    <3>1. /\ Measure(f, st, x.base, x.today) = Measure(f, st, w.base, w.today)
          /\ Measure(f, st, rows, x.today) = Measure(f, st, rows, w.today)
      BY <1>2, <2>4, TotalsUndated
    <3> QED  BY <1>2, <2>2, <2>4, <3>1 DEF FigureWithin
  <2> QED  BY <2>1, <2>3, <2>4, FiguresAre
<1>4. x.today \in x.since..d
  <2>1. w.since \in Nat /\ w.since <= d
    BY <1>1, DashboardFields DEF Seen
  <2> QED  BY <1>2, <2>1
<1>5. Within(w, st, rows, d) => Within(x, st, rows, d)
  BY <1>3, <1>4 DEF Within
<1>6. Seen(x, st, rows, act, d)
  BY <1>2, <1>5 DEF Seen
<1> QED  BY <1>6 DEF x

\* The dashboard after one more query.
Queried(w, f, n, ok) == [w EXCEPT !.figure[f] = n, !.whole = @ /\ ok, !.next = @ + 1]

\* A query sees the rows that are in the table now; one that fails spoils the
\* dashboard.
LEMMA SeenQueried ==
  ASSUME NEW w, NEW st, NEW rows \in SUBSET Logs, NEW act, NEW d \in Nat, Seen(w, st, rows, act, d),
         NEW f \in Figures, w.next \in DOMAIN Steps, Steps[w.next] = f,
         NEW ok \in BOOLEAN,
         NEW n \in Nat, n = IF ~ok THEN 0 ELSE IF f \in Actives THEN ActiveOf(f, act)
                                               ELSE Measure(f, st, rows, w.today)
  PROVE  Seen(Queried(w, f, n, ok), st, rows, act, d)
<1> DEFINE x == Queried(w, f, n, ok)
<1>1. /\ w \in Dashboards /\ w.next \in 1..9 /\ w.figure \in [Figures -> Nat] /\ w.whole \in BOOLEAN
      /\ w.base \subseteq rows
  BY DashboardFields DEF Seen
<1>2. /\ x \in Dashboards
      /\ x.next = w.next + 1 /\ x.today = w.today /\ x.since = w.since
      /\ x.figure = [w.figure EXCEPT ![f] = n]
      /\ x.base = w.base /\ x.on = w.on /\ x.least = w.least
      /\ x.whole <=> w.whole /\ ok
  <2>1. w.next + 1 \in 1..Len(Steps) + 1
    BY <1>1, StepsInOrder
  <2>2. [w.figure EXCEPT ![f] = n] \in [Figures -> Nat]
    BY <1>1
  <2>3. (w.whole /\ ok) \in BOOLEAN
    OBVIOUS
  <2> QED  BY <1>1, <2>1, <2>2, <2>3, Zenon DEF Dashboards, Queried
<1> HIDE DEF x
<1>3. x.figure \in [Figures -> Nat] /\ x.figure[f] = n /\ \A g \in Figures \ {f} : x.figure[g] = w.figure[g]
  BY <1>1, <1>2
<1>4. x.figure.total_requests <= Cardinality(rows)
  <2>1. Cardinality(rows) \in Nat
    BY CountsGrow
  <2>2. CASE f = "total_requests"
    <3>1. n = 0 \/ n = Cardinality(rows)
      BY <2>2 DEF Measure, Actives
    <3> QED  BY <1>3, <2>1, <2>2, <3>1
  <2>3. CASE f # "total_requests"
    BY <1>3, <2>3, FiguresAre DEF Seen, Totals
  <2> QED  BY <2>2, <2>3
<1>5. ASSUME Within(w, st, rows, d), ok, NEW g \in Figures, Measured(g, x.next) PROVE FigureWithin(x, g, st, rows)
  <2>1. CASE g = f
    <3>1. CASE f \in Actives
      BY <1>2, <1>3, <1>5, <2>1, <3>1 DEF FigureWithin, Seen
    <3>2. CASE f \in Totals \cup Todays /\ f \notin Actives
      <4>1. n = Measure(f, st, rows, x.today)
        BY <1>2, <1>5, <3>2
      <4>2. /\ Measure(f, st, x.base, x.today) <= Measure(f, st, rows, x.today)
            /\ Measure(f, st, rows, x.today) \in Nat
        BY <1>1, <1>2, <3>2, MeasureGrows
      <4> QED  BY <1>3, <2>1, <3>2, <4>1, <4>2 DEF FigureWithin
    <3> QED  BY <3>1, <3>2, FiguresAre
  <2>2. CASE g # f
    <3>1. PICK i \in DOMAIN Steps : i < x.next /\ Steps[i] = g
      BY <1>5 DEF Measured
    <3>2. i < w.next
      BY <1>1, <1>2, <2>2, <3>1, StepsInOrder
    <3>3. FigureWithin(w, g, st, rows)
      BY <1>5, <3>1, <3>2 DEF Within, Measured
    <3> QED  BY <1>2, <1>3, <2>2, <3>3 DEF FigureWithin
  <2> QED  BY <2>1, <2>2
<1>6. ASSUME Within(w, st, rows, d), x.next > 6 PROVE x.today \in x.since..d
  <2>1. w.next # 6
    BY StepsInOrder DEF Figures
  <2> QED  BY <1>1, <1>2, <1>6, <2>1 DEF Within
<1>7. Within(w, st, rows, d) /\ ok => Within(x, st, rows, d)
  BY <1>5, <1>6 DEF Within
<1>8. Seen(x, st, rows, act, d)
  BY <1>1, <1>2, <1>4, <1>7 DEF Seen
<1> QED  BY <1>8 DEF x

-----------------------------------------------------------------------------
(* The pages of the log.                                                   *)

\* How many of the rows are as new as i.
PlaceIn(rows, i) == Cardinality({j \in rows : j >= i})

\* Of the rows that were there when page 1 was read, those that have not been
\* seen are further down than the pages that were read.
Unread(l, rows) == \A i \in l.base \ l.seen : PlaceIn(rows, i) > l.pages * PageSize

Listings(rows) == [pages : Nat, seen : SUBSET rows, base : SUBSET rows]

LEMMA PlaceGrows ==
  ASSUME NEW more \in SUBSET Logs, NEW rows \in SUBSET more, NEW i
  PROVE  /\ PlaceIn(rows, i) \in Nat /\ PlaceIn(more, i) \in Nat
         /\ PlaceIn(rows, i) <= PlaceIn(more, i)
<1> DEFINE R == {j \in rows : j >= i}
           M == {j \in more : j >= i}
<1>1. M \in SUBSET Logs /\ R \in SUBSET M
  OBVIOUS
<1> HIDE DEF R, M
<1>2. Cardinality(R) \in Nat /\ Cardinality(M) \in Nat /\ Cardinality(R) <= Cardinality(M)
  BY <1>1, CountsGrow
<1> QED  BY <1>2 DEF PlaceIn, R, M

\* A row is in its own place or further down.
LEMMA PlacePositive ==
  ASSUME NEW rows \in SUBSET Logs, NEW i \in rows
  PROVE  PlaceIn(rows, i) >= 1
<1> DEFINE R == {j \in rows : j >= i}
<1>1. i \in Nat
  BY LogsFinite
<1>2. {i} \in SUBSET R /\ R \in SUBSET Logs
  <2>1. i >= i
    BY <1>1
  <2>2. i \in R
    BY <2>1
  <2> QED  BY <2>2
<1> HIDE DEF R
<1>3. Cardinality({i}) <= Cardinality(R) /\ Cardinality({i}) = 1 /\ Cardinality(R) \in Nat
  BY <1>2, CountsGrow, FS_Singleton
<1> QED  BY <1>3 DEF PlaceIn, R

\* New rows push the unread ones further down.
LEMMA UnreadLater ==
  ASSUME NEW more \in SUBSET Logs, NEW rows \in SUBSET more, NEW l \in Listings(rows), Unread(l, rows)
  PROVE  l \in Listings(more) /\ Unread(l, more)
<1>1. l.pages \in Nat /\ l.pages * PageSize \in Nat
  BY StatsAssumption DEF Listings
<1>2. Unread(l, more)
  BY <1>1, PlaceGrows DEF Unread
<1>3. SUBSET rows \subseteq SUBSET more
  OBVIOUS
<1>4. l \in Listings(more)
  BY <1>3 DEF Listings
<1> QED  BY <1>2, <1>4

PageIn(rows, page) ==
  {i \in rows : (page - 1) * PageSize < PlaceIn(rows, i) /\ PlaceIn(rows, i) <= (page - 1) * PageSize + PageSize}

\* The first page is read afresh.
LEMMA UnreadFirst ==
  ASSUME NEW rows \in SUBSET Logs
  PROVE  LET l == [pages |-> 1, seen |-> PageIn(rows, 1), base |-> rows]
         IN  l \in Listings(rows) /\ Unread(l, rows)
<1> DEFINE l == [pages |-> 1, seen |-> PageIn(rows, 1), base |-> rows]
<1>1. PageIn(rows, 1) \subseteq rows
  BY DEF PageIn
<1>2. l \in Listings(rows)
  BY <1>1 DEF Listings
<1>3. (1 - 1) * PageSize = 0 /\ 0 + PageSize = PageSize /\ 1 * PageSize = PageSize /\ PageSize \in Nat
  BY StatsAssumption
<1>4. ASSUME NEW i \in rows \ PageIn(rows, 1) PROVE PlaceIn(rows, i) > 1 * PageSize
  <2>1. PlaceIn(rows, i) \in Nat /\ PlaceIn(rows, i) >= 1
    BY PlacePositive, PlaceGrows
  <2> QED  BY <1>3, <1>4, <2>1 DEF PageIn
<1>5. Unread(l, rows)
  BY <1>4 DEF Unread
<1> QED  BY <1>2, <1>5

\* Another page is a neighbour of one that was read.
LEMMA UnreadNext ==
  ASSUME NEW rows \in SUBSET Logs, NEW l \in Listings(rows), Unread(l, rows),
         NEW page \in Nat, 1 <= page, page <= l.pages + 1,
         NEW m, m = [pages |-> Larger(l.pages, page), seen |-> l.seen \cup PageIn(rows, page), base |-> l.base]
  PROVE  m \in Listings(rows) /\ Unread(m, rows)
<1>1. l.pages \in Nat /\ l.seen \subseteq rows /\ l.base \subseteq rows
  BY DEF Listings
<1>2. PageIn(rows, page) \subseteq rows
  BY DEF PageIn
<1>3. Larger(l.pages, page) \in Nat
  BY <1>1 DEF Larger
<1>4. m \in Listings(rows)
  BY <1>1, <1>2, <1>3 DEF Listings
<1>5. m.pages = Larger(l.pages, page) /\ m.seen = l.seen \cup PageIn(rows, page) /\ m.base = l.base
  BY DEF Listings
<1>6. ASSUME NEW i \in m.base \ m.seen PROVE PlaceIn(rows, i) > m.pages * PageSize
  <2>1. i \in rows /\ i \in l.base \ l.seen /\ i \notin PageIn(rows, page)
    BY <1>1, <1>5, <1>6
  <2>2. PlaceIn(rows, i) > l.pages * PageSize
    BY <2>1 DEF Unread
  <2>3. PlaceIn(rows, i) \in Nat
    BY PlaceGrows
  <2>4. CASE page <= l.pages
    BY <1>1, <1>5, <2>2, <2>4 DEF Larger
  <2>5. CASE page = l.pages + 1
    <3>1. m.pages = page /\ page - 1 = l.pages
      BY <1>1, <1>5, <2>5 DEF Larger
    <3>2. (page - 1) * PageSize + PageSize = page * PageSize /\ page * PageSize \in Nat
          /\ (page - 1) * PageSize \in Nat
      <4>1. PageSize \in Nat
        BY StatsAssumption
      <4>2. \A p, s \in Nat : p * s + s = (p + 1) * s /\ p * s \in Nat
        OBVIOUS
      <4>3. l.pages * PageSize + PageSize = (l.pages + 1) * PageSize /\ l.pages * PageSize \in Nat
            /\ page * PageSize \in Nat
        BY <1>1, <4>1, <4>2
      <4> QED  BY <2>5, <3>1, <4>3
    <3>3. ~(PlaceIn(rows, i) <= (page - 1) * PageSize + PageSize)
      BY <2>1, <2>2, <3>1 DEF PageIn
    <3> QED  BY <2>3, <3>1, <3>2, <3>3
  <2> QED  BY <1>1, <2>4, <2>5
<1> QED  BY <1>4, <1>6 DEF Unread

-----------------------------------------------------------------------------
(* The invariant.                                                          *)

ViewsSeen == \A v \in Viewers : view[v] # NoView => Seen(view[v], stamps, written, active, day)

StatsInv ==
  /\ StatsTypeOK
  /\ ViewsSeen
  /\ NoLogSkipped

LEMMA PagesUnread ==
  /\ NoLogSkipped <=> \A v \in Viewers : Unread(listing[v], written)
  /\ NoLogSkipped' <=> \A v \in Viewers : Unread(listing'[v], written')
BY DEF NoLogSkipped, Unread, Place, PlaceIn

LEMMA SomeTypes ==
  ASSUME StatsTypeOK
  PROVE  /\ day \in Nat /\ stamps \in Seq(0..day) /\ DOMAIN stamps = 1..Len(stamps) /\ Len(stamps) \in Nat
         /\ DOMAIN stamps \subseteq Logs /\ written \in SUBSET Logs /\ written \subseteq DOMAIN stamps
         /\ \A v \in Viewers : listing[v] \in Listings(written)
         /\ \A v \in Viewers : view[v] = NoView \/ view[v] \in Dashboards
         /\ Cardinality(written) \in Nat /\ shown \in 0..Cardinality(written)
         /\ active \in SUBSET (Keys \cup Channels)
<1>1. DOMAIN stamps = 1..Len(stamps) /\ Len(stamps) \in Nat /\ Len(stamps) <= Len(Workload)
  BY DEF StatsTypeOK
<1>2. written \in SUBSET Logs /\ DOMAIN stamps \subseteq Logs
  BY <1>1, LogsFinite DEF StatsTypeOK
<1> QED  BY <1>1, <1>2, CountsGrow DEF StatsTypeOK, Listings

\* Logs are stamped and written, midnight passes, and somebody is answered.
LEMMA RowsLater ==
  ASSUME StatsInv,
         day' \in Nat, day <= day',
         stamps' \in Seq(0..day'), Len(stamps') <= Len(Workload),
         \A i, j \in DOMAIN stamps' : i < j => stamps'[i] <= stamps'[j],
         \A i \in DOMAIN stamps : stamps'[i] = stamps[i],
         written' \subseteq DOMAIN stamps', written \subseteq written',
         edits' \in Nat, load' \in Nat, shown' \in 0..Cardinality(written'),
         UNCHANGED <<active, view, listing>>
  PROVE  StatsInv'
<1>1. StatsTypeOK /\ ViewsSeen /\ \A v \in Viewers : Unread(listing[v], written)
  BY PagesUnread DEF StatsInv
<1>2. written' \in SUBSET Logs
  <2>1. DOMAIN stamps' = 1..Len(stamps') /\ Len(stamps') \in Nat
    OBVIOUS
  <2> QED  BY <2>1, LogsFinite
<1>3. \A v \in Viewers : listing'[v] \in Listings(written') /\ Unread(listing'[v], written')
  <2> SUFFICES ASSUME NEW v \in Viewers PROVE listing'[v] \in Listings(written') /\ Unread(listing'[v], written')
    OBVIOUS
  <2>1. listing[v] \in Listings(written) /\ Unread(listing[v], written) /\ written \in SUBSET written'
    BY <1>1, SomeTypes
  <2>2. listing[v] \in Listings(written') /\ Unread(listing[v], written')
    BY <1>2, <2>1, UnreadLater
  <2> QED  BY <2>2
<1>4. ViewsSeen'
  <2> SUFFICES ASSUME NEW v \in Viewers, view[v] # NoView
               PROVE  Seen(view[v], stamps', written', active, day')
    BY DEF ViewsSeen
  <2>1. Seen(view[v], stamps, written, active, day) /\ day \in Nat /\ written \subseteq DOMAIN stamps
    BY <1>1, SomeTypes DEF ViewsSeen
  <2>2. \A i \in written : stamps'[i] = stamps[i]
    BY <2>1
  <2> QED  BY <1>2, <2>1, <2>2, SeenLater
<1>5. listing' \in [Viewers -> [pages : Nat, seen : SUBSET written', base : SUBSET written']]
  <2>1. listing' = [v \in Viewers |-> listing'[v]]
    BY <1>1 DEF StatsTypeOK
  <2> QED  BY <1>3, <2>1 DEF Listings
<1>6. StatsTypeOK'
  BY <1>1, <1>5 DEF StatsTypeOK
<1> QED  BY <1>3, <1>4, <1>6, PagesUnread DEF StatsInv

\* Dashboards are opened, taken further and answered, and keys are switched.
LEMMA ViewsLater ==
  ASSUME StatsInv,
         UNCHANGED <<day, stamps, written, load, listing>>, edits' \in Nat,
         active' \in SUBSET (Keys \cup Channels),
         shown' \in 0..Cardinality(written),
         DOMAIN view' = Viewers, view' = [v \in Viewers |-> view'[v]],
         \A v \in Viewers : view'[v] = NoView \/ Seen(view'[v], stamps, written, active', day)
  PROVE  StatsInv'
<1>1. StatsTypeOK /\ NoLogSkipped
  BY DEF StatsInv
<1>2. view' \in [Viewers -> Dashboards \cup {NoView}]
  BY DEF Seen
<1>3. StatsTypeOK'
  BY <1>1, <1>2 DEF StatsTypeOK
<1>4. ViewsSeen'
  BY DEF ViewsSeen
<1>5. NoLogSkipped'
  BY <1>1, PagesUnread
<1> QED  BY <1>3, <1>4, <1>5 DEF StatsInv

LEMMA TrafficStep ==
  ASSUME StatsInv, TrafficNext \/ Midnight
  PROVE  StatsInv'
<1>1. StatsTypeOK
  BY DEF StatsInv
<1>2. /\ day \in Nat /\ stamps \in Seq(0..day) /\ DOMAIN stamps = 1..Len(stamps) /\ Len(stamps) \in Nat
      /\ written \subseteq DOMAIN stamps /\ written \in SUBSET Logs /\ DOMAIN stamps \subseteq Logs
      /\ shown \in 0..Cardinality(written) /\ edits \in Nat /\ load \in Nat
      /\ \A i, j \in DOMAIN stamps : i < j => stamps[i] <= stamps[j]
      /\ Len(stamps) <= Len(Workload)
  BY <1>1, SomeTypes DEF StatsTypeOK
<1>3. CASE Stamp
  <2>1. /\ stamps' = Append(stamps, day) /\ load' = load - 1 /\ load > 0 /\ Len(stamps) < Len(Workload)
        /\ UNCHANGED <<day, written, active, edits, view, listing, shown>>
    BY <1>3 DEF Stamp
  <2>2. /\ stamps' \in Seq(0..day) /\ DOMAIN stamps' = 1..Len(stamps) + 1
        /\ Len(stamps') = Len(stamps) + 1
        /\ \A i \in DOMAIN stamps : stamps'[i] = stamps[i]
        /\ stamps'[Len(stamps) + 1] = day
    BY <1>2, <2>1
  <2>3. \A i \in DOMAIN stamps : stamps[i] \in 0..day
    BY <1>2
  <2>4. \A i, j \in DOMAIN stamps' : i < j => stamps'[i] <= stamps'[j]
    <3> SUFFICES ASSUME NEW i \in DOMAIN stamps', NEW j \in DOMAIN stamps', i < j
                 PROVE  stamps'[i] <= stamps'[j]
      OBVIOUS
    <3>1. i \in DOMAIN stamps
      BY <1>2, <2>2
    <3>2. CASE j \in DOMAIN stamps
      BY <1>2, <2>2, <3>1, <3>2
    <3>3. CASE j = Len(stamps) + 1
      BY <2>2, <2>3, <3>1, <3>3
    <3> QED  BY <1>2, <2>2, <3>2, <3>3
  <2>5. Len(stamps') <= Len(Workload) /\ load' \in Nat /\ DOMAIN stamps \subseteq DOMAIN stamps'
    BY <1>2, <2>1, <2>2, LogsFinite
  <2> QED  BY <1>2, <2>1, <2>2, <2>4, <2>5, RowsLater
<1>4. ASSUME NEW i \in Logs, Write(i) PROVE StatsInv'
  <2>1. /\ i \in DOMAIN stamps /\ written' = written \cup {i}
        /\ UNCHANGED <<day, stamps, active, edits, load, view, listing, shown>>
    BY <1>4 DEF Write
  <2>2. written' \in SUBSET Logs /\ written \in SUBSET written'
    BY <1>2, <2>1
  <2>3. /\ Cardinality(written) \in Nat /\ Cardinality(written') \in Nat
        /\ Cardinality(written) <= Cardinality(written')
    BY <2>2, CountsGrow
  <2>4. shown' \in 0..Cardinality(written')
    BY <1>2, <2>1, <2>3
  <2> QED  BY <1>2, <2>1, <2>2, <2>4, RowsLater
<1>5. CASE Midnight
  <2>1. day' = day + 1 /\ UNCHANGED <<stamps, written, active, edits, load, view, listing, shown>>
    BY <1>5 DEF Midnight
  <2>2. 0..day \subseteq 0..day'
    BY <1>2, <2>1
  <2>3. stamps' \in Seq(0..day')
    BY <1>2, <2>1, <2>2
  <2> QED  BY <1>2, <2>1, <2>3, RowsLater
<1> QED  BY <1>3, <1>4, <1>5 DEF TrafficNext

\* When one dashboard changes, it has to be shown within its bounds.
LEMMA OneView ==
  ASSUME StatsInv, NEW v \in Viewers, NEW w, view' = [view EXCEPT ![v] = w],
         w = NoView \/ Seen(w, stamps, written, active, day),
         shown' \in 0..Cardinality(written),
         UNCHANGED <<day, stamps, written, active, edits, load, listing>>
  PROVE  StatsInv'
<1>1. view \in [Viewers -> Dashboards \cup {NoView}] /\ edits \in Nat
  BY DEF StatsInv, StatsTypeOK
<1>2. DOMAIN view' = Viewers /\ view' = [u \in Viewers |-> view'[u]]
  BY <1>1
<1>3. \A u \in Viewers : view'[u] = IF u = v THEN w ELSE view[u]
  BY <1>1
<1>4. \A u \in Viewers : view'[u] = NoView \/ Seen(view'[u], stamps, written, active, day)
  BY <1>3 DEF StatsInv, ViewsSeen
<1>5. active' \in SUBSET (Keys \cup Channels)
  BY SomeTypes DEF StatsInv
<1>6. active' = active
  OBVIOUS
<1> QED  BY <1>1, <1>2, <1>4, <1>5, <1>6, ViewsLater

LEMMA OpenSeen ==
  ASSUME StatsTypeOK
  PROVE  Seen([next |-> 1, today |-> 0, figure |-> [f \in Figures |-> 0],
               since |-> day, base |-> written, on |-> {active}, least |-> shown, whole |-> TRUE],
              stamps, written, active, day)
<1> DEFINE w == [next |-> 1, today |-> 0, figure |-> [f \in Figures |-> 0],
                 since |-> day, base |-> written, on |-> {active}, least |-> shown, whole |-> TRUE]
<1>1. /\ day \in Nat /\ written \in SUBSET Logs /\ active \in SUBSET (Keys \cup Channels)
      /\ shown \in 0..Cardinality(written) /\ Cardinality(written) \in Nat
  BY SomeTypes
<1>2. shown \in Nat /\ 1 \in 1..Len(Steps) + 1 /\ 0 \in Nat /\ {active} \in SUBSET SUBSET (Keys \cup Channels)
  BY <1>1, StepsInOrder
<1>3. [f \in Figures |-> 0] \in [Figures -> Nat]
  OBVIOUS
<1>4. w \in Dashboards
  BY <1>1, <1>2, <1>3, Zenon DEF Dashboards
<1>5. /\ w.next = 1 /\ w.since = day /\ w.base = written /\ w.least = shown /\ w.on = {active}
      /\ w.figure = [f \in Figures |-> 0]
  OBVIOUS
<1>6. w.figure.total_requests = 0
  BY <1>5, FiguresAre DEF Totals
<1> HIDE DEF w
<1>7. ~ \E f : Measured(f, w.next)
  BY <1>5, StepsInOrder DEF Measured
<1>8. Within(w, stamps, written, day)
  BY <1>5, <1>7 DEF Within
<1>9. Seen(w, stamps, written, active, day)
  BY <1>1, <1>4, <1>5, <1>6, <1>8 DEF Seen
<1> QED  BY <1>9 DEF w

LEMMA DashboardStep ==
  ASSUME StatsInv, NEW v \in Viewers, DashboardNext(v)
  PROVE  StatsInv'
<1>1. /\ StatsTypeOK
      /\ day \in Nat /\ written \in SUBSET Logs /\ active \in SUBSET (Keys \cup Channels)
      /\ shown \in 0..Cardinality(written) /\ Cardinality(written) \in Nat
      /\ view \in [Viewers -> Dashboards \cup {NoView}]
  BY SomeTypes DEF StatsInv, StatsTypeOK
<1>2. view[v] # NoView => /\ Seen(view[v], stamps, written, active, day)
                          /\ view[v] \in Dashboards /\ view[v].today \in Nat
  BY DashboardFields DEF StatsInv, ViewsSeen, Seen
<1>3. CASE OpenDashboard(v)
  <2>1. /\ UNCHANGED <<day, stamps, written, active, edits, load, listing, shown>>
        /\ view' = [view EXCEPT ![v] =
             [next |-> 1, today |-> 0, figure |-> [f \in Figures |-> 0],
              since |-> day, base |-> written, on |-> {active}, least |-> shown, whole |-> TRUE]]
    BY <1>3 DEF OpenDashboard
  <2> QED  BY <1>1, <2>1, OpenSeen, OneView
<1>4. CASE TakeDate(v)
  <2> DEFINE w == [view[v] EXCEPT !.today = day, !.next = @ + 1]
  <2>1. /\ view[v] # NoView /\ view[v].next \in DOMAIN Steps /\ Steps[view[v].next] = "today"
        /\ UNCHANGED <<day, stamps, written, active, edits, load, listing, shown>>
    BY <1>4 DEF TakeDate, Waiting
  <2>2. view' = [view EXCEPT ![v] = w]
    BY <1>4, Zenon DEF TakeDate
  <2>3. Seen(w, stamps, written, active, day)
    BY <1>1, <1>2, <2>1, SeenDated
  <2> HIDE DEF w
  <2> QED  BY <1>1, <2>1, <2>2, <2>3, OneView
<1>5. ASSUME NEW f \in Figures, NEW ok \in BOOLEAN, Query(v, f, ok) PROVE StatsInv'
  <2> DEFINE n == IF ok THEN Snapshot(written, active, view[v].today)[f] ELSE 0
             w == Queried(view[v], f, n, ok)
  <2>1. /\ view[v] # NoView /\ view[v].next \in DOMAIN Steps /\ Steps[view[v].next] = f
        /\ UNCHANGED <<day, stamps, written, active, edits, load, listing, shown>>
    BY <1>5 DEF Query, Waiting
  <2>2. view' = [view EXCEPT ![v] = w]
    BY <1>5, Zenon DEF Query, Queried
  <2>3. n = IF ~ok THEN 0 ELSE IF f \in Actives THEN ActiveOf(f, active)
                                ELSE Measure(f, stamps, written, view[v].today)
    BY SnapshotMeasures, FiguresAre
  <2>4. n \in Nat
    <3>1. f \in Actives => ActiveOf(f, active) \in Nat
      BY ActiveTypes
    <3>2. f \in Totals \cup Todays => Measure(f, stamps, written, view[v].today) \in Nat
      BY <1>1, MeasureGrows
    <3> HIDE DEF n
    <3> QED  BY <2>3, <3>1, <3>2, FiguresAre
  <2> HIDE DEF n
  <2>5. Seen(view[v], stamps, written, active, day)
    BY <1>2, <2>1
  <2>6. Seen(w, stamps, written, active, day)
    BY <1>1, <2>1, <2>3, <2>4, <2>5, SeenQueried
  <2> HIDE DEF w
  <2> QED  BY <1>1, <2>1, <2>2, <2>6, OneView
<1>6. CASE AnswerDashboard(v)
  <2>1. /\ shown' = Larger(shown, view[v].figure.total_requests) /\ view[v] # NoView
        /\ view' = [view EXCEPT ![v] = NoView]
        /\ UNCHANGED <<day, stamps, written, active, edits, load, listing>>
    BY <1>6 DEF AnswerDashboard
  <2>2. view[v].figure.total_requests \in 0..Cardinality(written)
    <3>1. view[v].figure \in [Figures -> Nat] /\ "total_requests" \in Figures
      BY <1>2, <2>1, DashboardFields, FiguresAre DEF Totals
    <3> QED  BY <1>1, <1>2, <2>1, <3>1 DEF Seen
  <2>3. shown' \in 0..Cardinality(written)
    BY <1>1, <2>1, <2>2 DEF Larger
  <2> QED  BY <2>1, <2>3, OneView
<1> QED  BY <1>3, <1>4, <1>5, <1>6 DEF DashboardNext

LEMMA SwitchStep ==
  ASSUME StatsInv, NEW x \in Keys \cup Channels, Switch(x)
  PROVE  StatsInv'
<1>1. /\ UNCHANGED <<day, stamps, written, load, listing, shown>> /\ edits > 0 /\ edits' = edits - 1
      /\ active' = IF x \in active THEN active \ {x} ELSE active \cup {x}
      /\ view' = [v \in Viewers |->
           IF view[v] = NoView THEN NoView ELSE [view[v] EXCEPT !.on = @ \cup {active'}]]
  BY DEF Switch
<1>2. /\ active \in SUBSET (Keys \cup Channels) /\ shown \in 0..Cardinality(written) /\ edits \in Nat
  BY SomeTypes DEF StatsInv, StatsTypeOK
<1>3. active' \in SUBSET (Keys \cup Channels) /\ edits' \in Nat
  BY <1>1, <1>2
<1>4. ASSUME NEW v \in Viewers PROVE view'[v] = NoView \/ Seen(view'[v], stamps, written, active', day)
  <2>1. CASE view[v] = NoView
    BY <1>1, <2>1
  <2>2. CASE view[v] # NoView
    <3>1. Seen(view[v], stamps, written, active, day)
      BY <2>2 DEF StatsInv, ViewsSeen
    <3>2. view'[v] = [view[v] EXCEPT !.on = @ \cup {active'}]
      BY <1>1, <2>2, Zenon
    <3>3. Seen([view[v] EXCEPT !.on = @ \cup {active'}], stamps, written, active', day)
      BY <1>3, <3>1, SeenSwitched
    <3> QED  BY <3>2, <3>3, Zenon
  <2> QED  BY <2>1, <2>2
<1>5. DOMAIN view' = Viewers /\ view' = [v \in Viewers |-> view'[v]]
  BY <1>1
<1> QED  BY <1>1, <1>2, <1>3, <1>4, <1>5, ViewsLater

LEMMA AbandonStep ==
  ASSUME StatsInv, NEW gone, Abandon(gone)
  PROVE  StatsInv'
<1>1. /\ UNCHANGED <<day, stamps, written, active, edits, load, listing, shown>>
      /\ view' = [v \in Viewers |-> IF v \in gone THEN NoView ELSE view[v]]
  BY DEF Abandon
<1>2. /\ active \in SUBSET (Keys \cup Channels) /\ shown \in 0..Cardinality(written) /\ edits \in Nat
  BY SomeTypes DEF StatsInv, StatsTypeOK
<1>3. \A v \in Viewers : view'[v] = NoView \/ Seen(view'[v], stamps, written, active, day)
  BY <1>1 DEF StatsInv, ViewsSeen
<1>4. DOMAIN view' = Viewers /\ view' = [v \in Viewers |-> view'[v]]
  BY <1>1
<1>5. active' = active /\ edits' = edits /\ shown' = shown
  BY <1>1
<1> QED  BY <1>1, <1>2, <1>3, <1>4, <1>5, ViewsLater

LEMMA UsageStep ==
  ASSUME StatsInv, NEW v \in Viewers, NEW filter, NEW start, Usage(v, filter, start)
  PROVE  StatsInv'
<1>1. /\ shown' = Larger(shown, Cardinality(Since(Matching(filter), start)))
      /\ UNCHANGED <<day, stamps, written, active, edits, load, view, listing>>
  BY DEF Usage
<1>2. /\ written \in SUBSET Logs /\ shown \in 0..Cardinality(written) /\ Cardinality(written) \in Nat
      /\ active \in SUBSET (Keys \cup Channels)
  BY SomeTypes DEF StatsInv
<1>3. Since(Matching(filter), start) \in SUBSET written
  BY DEF Since, Matching
<1>4. /\ Cardinality(Since(Matching(filter), start)) \in Nat
      /\ Cardinality(Since(Matching(filter), start)) <= Cardinality(written)
  BY <1>2, <1>3, CountsGrow
<1>5. shown' \in 0..Cardinality(written)
  BY <1>1, <1>2, <1>4 DEF Larger
<1>6. /\ \A u \in Viewers : view'[u] = NoView \/ Seen(view'[u], stamps, written, active', day)
      /\ DOMAIN view' = Viewers /\ view' = [u \in Viewers |-> view'[u]] /\ edits' \in Nat
  BY <1>1 DEF StatsInv, ViewsSeen, StatsTypeOK
<1> QED  BY <1>1, <1>2, <1>5, <1>6, ViewsLater

LEMMA PageStep ==
  ASSUME StatsInv, NEW v \in Viewers, NEW page \in Nat, ReadPage(v, page)
  PROVE  StatsInv'
<1>1. /\ UNCHANGED <<day, stamps, written, active, edits, load, view, shown>>
      /\ page \in 1..listing[v].pages + 1
      /\ listing' = [listing EXCEPT ![v] =
           IF page = 1 THEN [pages |-> 1, seen |-> PageOf(1), base |-> written]
           ELSE [pages |-> Larger(@.pages, page), seen |-> @.seen \cup PageOf(page), base |-> @.base]]
  BY DEF ReadPage
<1>2. /\ StatsTypeOK /\ written \in SUBSET Logs /\ listing[v] \in Listings(written)
      /\ Unread(listing[v], written)
  BY SomeTypes, PagesUnread DEF StatsInv
<1>3. \A p : PageOf(p) = PageIn(written, p)
  BY DEF PageOf, PageIn, List, Place, PlaceIn
<1> DEFINE m == IF page = 1 THEN [pages |-> 1, seen |-> PageOf(1), base |-> written]
                ELSE [pages |-> Larger(listing[v].pages, page), seen |-> listing[v].seen \cup PageOf(page),
                      base |-> listing[v].base]
<1>4. m \in Listings(written) /\ Unread(m, written)
  <2>1. CASE page = 1
    BY <1>2, <1>3, <2>1, UnreadFirst
  <2>2. CASE page # 1
    <3>1. m = [pages |-> Larger(listing[v].pages, page), seen |-> listing[v].seen \cup PageIn(written, page),
               base |-> listing[v].base]
      BY <1>3, <2>2, Zenon
    <3>2. 1 <= page /\ page <= listing[v].pages + 1
      BY <1>1, <1>2 DEF Listings
    <3> HIDE DEF m
    <3> QED  BY <1>2, <3>1, <3>2, UnreadNext
  <2> QED  BY <2>1, <2>2
<1>5. listing' = [listing EXCEPT ![v] = m]
  BY <1>1, Zenon
<1> HIDE DEF m
<1>6. listing \in [Viewers -> Listings(written)]
  BY <1>2 DEF StatsTypeOK, Listings
<1>7. listing' \in [Viewers -> Listings(written)] /\ \A u \in Viewers : listing'[u] = IF u = v THEN m ELSE listing[u]
  BY <1>4, <1>5, <1>6
<1>8. \A u \in Viewers : Unread(listing'[u], written)
  BY <1>4, <1>7, PagesUnread DEF StatsInv
<1>9. StatsTypeOK'
  <2>1. listing' \in [Viewers -> [pages : Nat, seen : SUBSET written, base : SUBSET written]]
    BY <1>7 DEF Listings
  <2> QED  BY <1>1, <1>2, <2>1 DEF StatsTypeOK
<1>10. ViewsSeen'
  BY <1>1 DEF StatsInv, ViewsSeen
<1> QED  BY <1>1, <1>8, <1>9, <1>10, PagesUnread DEF StatsInv

LEMMA StatsInvInit ==
  ASSUME NEW switches \in Nat, NEW traffic \in Nat, StatsInit(switches, traffic)
  PROVE  StatsInv
<1> USE DEF StatsInit
<1>1. /\ stamps \in Seq(0..day) /\ DOMAIN stamps = {} /\ Len(stamps) = 0
      /\ Cardinality({}) = 0
  BY FS_EmptySet
<1>2. Len(stamps) <= Len(Workload)
  BY <1>1, LogsFinite
<1>3. listing \in [Viewers -> [pages : Nat, seen : SUBSET written, base : SUBSET written]]
  OBVIOUS
<1>4. shown \in 0..Cardinality(written)
  BY <1>1
<1>5. StatsTypeOK
  BY <1>1, <1>2, <1>3, <1>4 DEF StatsTypeOK
<1>6. ViewsSeen
  BY DEF ViewsSeen
<1>7. NoLogSkipped
  BY DEF NoLogSkipped
<1> QED  BY <1>5, <1>6, <1>7 DEF StatsInv

\* What a step of the statistics may be, on its own or in the console.
StatsStep ==
  \/ StatsNext
  \/ \E gone : Abandon(gone)
  \/ UNCHANGED statsVars

LEMMA StatsInvNext ==
  ASSUME StatsInv, StatsStep
  PROVE  StatsInv'
<1>1. CASE TrafficNext \/ Midnight
  BY <1>1, TrafficStep
<1>2. ASSUME NEW x \in Keys \cup Channels, Switch(x) PROVE StatsInv'
  BY <1>2, SwitchStep
<1>3. ASSUME NEW v \in Viewers, DashboardNext(v) PROVE StatsInv'
  BY <1>3, DashboardStep
<1>4. ASSUME NEW gone, Abandon(gone) PROVE StatsInv'
  BY <1>4, AbandonStep
<1>5. ASSUME NEW v \in Viewers, NEW filter, NEW start, Usage(v, filter, start) PROVE StatsInv'
  BY <1>5, UsageStep
<1>6. ASSUME NEW v \in Viewers, NEW page \in Nat, ReadPage(v, page) PROVE StatsInv'
  BY <1>6, PageStep
<1>7. CASE UNCHANGED statsVars
  <2>1. StatsTypeOK'
    BY <1>7 DEF StatsInv, StatsTypeOK, statsVars
  <2>2. ViewsSeen'
    BY <1>7 DEF StatsInv, ViewsSeen, statsVars
  <2>3. NoLogSkipped'
    BY <1>7, PagesUnread DEF StatsInv, statsVars
  <2> QED  BY <2>1, <2>2, <2>3 DEF StatsInv
<1> QED  BY <1>1, <1>2, <1>3, <1>4, <1>5, <1>6, <1>7 DEF StatsStep, StatsNext

\* What the invariant says of the figures.
LEMMA StatsSafe ==
  ASSUME StatsInv
  PROVE  StatsTypeOK /\ FiguresWithin /\ NeverFewer /\ NoLogSkipped
<1>1. ASSUME NEW v \in Viewers, view[v] # NoView, view[v].whole
      PROVE  Within(view[v], stamps, written, day) /\ Seen(view[v], stamps, written, active, day)
  BY <1>1 DEF StatsInv, ViewsSeen, Seen
<1>2. FiguresWithin
  <2> SUFFICES ASSUME NEW v \in Viewers, view[v] # NoView, view[v].whole
               PROVE  LET w == view[v]
                          low == Snapshot(w.base, {}, w.today)
                          high == Snapshot(written, {}, w.today)
                      IN  /\ w.next > 6 => w.today \in w.since..day
                          /\ \A f \in Figures : (\E i \in DOMAIN Steps : i < w.next /\ Steps[i] = f) =>
                               IF f \in {"active_keys", "active_channels"}
                                 THEN \E on \in w.on : w.figure[f] = Snapshot({}, on, 0)[f]
                                 ELSE low[f] <= w.figure[f] /\ w.figure[f] <= high[f]
    BY DEF FiguresWithin
  <2> DEFINE w == view[v]
  <2>1. Within(w, stamps, written, day)
    BY <1>1
  <2>2. ASSUME NEW f \in Figures, Measured(f, w.next)
        PROVE  IF f \in {"active_keys", "active_channels"}
                 THEN \E on \in w.on : w.figure[f] = Snapshot({}, on, 0)[f]
                 ELSE /\ Snapshot(w.base, {}, w.today)[f] <= w.figure[f]
                      /\ w.figure[f] <= Snapshot(written, {}, w.today)[f]
    <3>1. FigureWithin(w, f, stamps, written)
      BY <2>1, <2>2 DEF Within
    <3>2. CASE f \in Actives
      BY <3>1, <3>2, SnapshotMeasures DEF FigureWithin, Actives
    <3>3. CASE f \in Totals \cup Todays /\ f \notin Actives
      BY <3>1, <3>3, SnapshotMeasures DEF FigureWithin, Actives
    <3> QED  BY <3>2, <3>3, FiguresAre DEF Totals, Todays, Actives
  <2>3. w.next > 6 => w.today \in w.since..day
    BY <2>1 DEF Within
  <2> HIDE DEF w
  <2>4. \A f \in Figures : (\E i \in DOMAIN Steps : i < w.next /\ Steps[i] = f) => Measured(f, w.next)
    BY DEF Measured
  <2> QED  BY <2>2, <2>3, <2>4 DEF w
<1>3. NeverFewer
  <2> SUFFICES ASSUME NEW v \in Viewers, view[v] # NoView, view[v].whole, view[v].next > 1
               PROVE  view[v].figure.total_requests >= view[v].least
    BY DEF NeverFewer
  <2>1. /\ Within(view[v], stamps, written, day)
        /\ view[v].least <= Cardinality(view[v].base) /\ view[v] \in Dashboards
    BY <1>1 DEF Seen
  <2>2. Measured("total_requests", view[v].next) /\ "total_requests" \in Figures /\ "total_requests" \notin Actives
    BY StepsInOrder, FiguresAre DEF Measured, Totals, Actives
  <2>3. FigureWithin(view[v], "total_requests", stamps, written)
    BY <2>1, <2>2 DEF Within
  <2>4. Cardinality(view[v].base) <= view[v].figure.total_requests
    BY <2>2, <2>3 DEF FigureWithin, Measure
  <2>5. /\ Cardinality(view[v].base) \in Nat /\ view[v].least \in Nat
        /\ view[v].figure.total_requests \in Nat
    BY <2>1, <2>2, DashboardFields, CountsGrow
  <2> QED  BY <2>1, <2>4, <2>5
<1> QED  BY <1>2, <1>3 DEF StatsInv

-----------------------------------------------------------------------------
(* Theorems.                                                               *)

LEMMA StatsInvariant == StatsSpec => []StatsInv
<1>1. (\E switches, traffic \in Nat : StatsInit(switches, traffic)) => StatsInv
  BY StatsInvInit
<1>2. ASSUME StatsInv, [StatsNext]_statsVars PROVE StatsInv'
  BY <1>2, StatsInvNext DEF StatsStep
<1> QED  BY <1>1, <1>2, PTL DEF StatsSpec

\* Of the statistics on their own: the stamps are in order, each dashboard
\* shows figures that its queries can have read together, answers do not
\* contradict each other and no log is skipped between the pages.
THEOREM StatsSound ==
  StatsSpec => [](StatsTypeOK /\ FiguresWithin /\ NeverFewer /\ NoLogSkipped)
<1>1. StatsInv => StatsTypeOK /\ FiguresWithin /\ NeverFewer /\ NoLogSkipped
  BY StatsSafe
<1> QED  BY <1>1, StatsInvariant, PTL

\* In the console, requests for statistics come through the middlewares, share
\* their failing queries with the accounts and die with their processes.
LEMMA ConsoleStats ==
  ASSUME ConsoleNext \/ UNCHANGED consoleVars
  PROVE  StatsStep
<1> USE ConsoleAssumption
<1>1. ASSUME NEW c \in Clients, StatsRequest(c) PROVE StatsStep
  <2>1. CASE Dashboard(c)
    BY <2>1 DEF Dashboard, StatsStep, StatsNext, DashboardNext
  <2>2. CASE DashboardQuery(c)
    <3>1. CASE TakeDate(c)
      BY <3>1 DEF StatsStep, StatsNext, DashboardNext
    <3>2. ASSUME NEW f \in Figures, NEW ok \in Results, Query(c, f, ok) PROVE StatsStep
      <4>1. ok \in BOOLEAN
        BY DEF Results
      <4> QED  BY <3>2, <4>1 DEF StatsStep, StatsNext, DashboardNext
    <3> QED  BY <2>2, <3>1, <3>2 DEF DashboardQuery
  <2>3. CASE DashboardAnswer(c)
    BY <2>3 DEF DashboardAnswer, StatsStep, StatsNext, DashboardNext
  <2>4. CASE UsageRequest(c)
    BY <2>4 DEF UsageRequest, StatsStep, StatsNext
  <2>5. CASE LogsRequest(c)
    <3>1. PICK page : ReadPage(c, page)
      BY <2>5 DEF LogsRequest
    <3>2. ReadPage(c, page) => page \in 1..listing[c].pages + 1
      BY DEF ReadPage
    <3>3. page \in Nat
      BY <3>1, <3>2
    <3> QED  BY <3>1, <3>3 DEF StatsStep, StatsNext
  <2>6. CASE OtherRequest(c)
    BY <2>6 DEF OtherRequest, StatsStep
  <2> QED  BY <1>1, <2>1, <2>2, <2>3, <2>4, <2>5, <2>6 DEF StatsRequest
<1>2. CASE UNCHANGED statsVars
  BY <1>2 DEF StatsStep
<1>3. CASE TrafficNext
  BY <1>3 DEF StatsStep, StatsNext
<1>4. ASSUME NEW x \in Keys \cup Channels, Switch(x) PROVE StatsStep
  BY <1>4 DEF StatsStep, StatsNext
<1>5. ASSUME NEW p, CrashProcess(p) PROVE StatsStep
  BY <1>5 DEF CrashProcess, StatsStep
<1>6. CASE NextDay
  BY <1>6 DEF NextDay, StatsStep, StatsNext
<1> QED  BY <1>1, <1>2, <1>3, <1>4, <1>5, <1>6 DEF ConsoleNext, consoleVars

LEMMA ConsoleStatsInvariant == ConsoleSpec => []StatsInv
<1>1. ConsoleInit => StatsInv
  <2> SUFFICES ASSUME ConsoleInit PROVE StatsInv
    OBVIOUS
  <2>1. PICK s \in Situations : StatsInit(s.switches, s.traffic)
    BY DEF ConsoleInit
  <2>2. s.switches \in Nat /\ s.traffic \in Nat
    BY ConsoleAssumption
  <2> QED  BY <2>1, <2>2, StatsInvInit
<1>2. ASSUME StatsInv, [ConsoleNext]_consoleVars PROVE StatsInv'
  BY <1>2, ConsoleStats, StatsInvNext
<1> QED  BY <1>1, <1>2, PTL DEF ConsoleSpec

\* The console's statistics are well formed: stamps are in order and not ahead
\* of the clock, and nobody has been shown more requests than there are.
THEOREM ConsoleStatsTypeCorrect == ConsoleSpec => []StatsTypeOK
<1>1. StatsInv => StatsTypeOK
  BY StatsSafe
<1> QED  BY <1>1, ConsoleStatsInvariant, PTL

\* Whatever is logged, switched or dated between the eight queries of a
\* dashboard, each figure lies between what it was when the dashboard was
\* opened and what it is when it is answered, unless a query failed.
THEOREM DashboardsConsistent == ConsoleSpec => []FiguresWithin
<1>1. StatsInv => FiguresWithin
  BY StatsSafe
<1> QED  BY <1>1, ConsoleStatsInvariant, PTL

\* A dashboard that is opened after an answer does not count fewer requests.
THEOREM AnswersAgree == ConsoleSpec => []NeverFewer
<1>1. StatsInv => NeverFewer
  BY StatsSafe
<1> QED  BY <1>1, ConsoleStatsInvariant, PTL

\* The pages of the log, turned one after the other, show every log that was
\* there at the first, however many arrive meanwhile and in whatever order.
THEOREM PagesComplete == ConsoleSpec => []NoLogSkipped
<1>1. StatsInv => NoLogSkipped
  BY StatsSafe
<1> QED  BY <1>1, ConsoleStatsInvariant, PTL

=============================================================================
