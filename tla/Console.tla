------------------------------ MODULE Console ------------------------------
(***************************************************************************)
(* The console's requests for statistics, end to end: main.go puts         *)
(* JWTAuth before the stats handlers, whose queries run while accounts     *)
(* change, logs arrive, and processes start and crash.                     *)
(***************************************************************************)
EXTENDS Accounts, UsageStats

\* What a deployment starts with and how much is going to happen to it.
CONSTANT Situations

ASSUME ConsoleAssumption ==
  /\ Viewers = Clients
  /\ Situations \subseteq [table : StartTables, tabs : [Clients -> Browsers], budget : Budgets,
                               switches : Nat, traffic : Nat, visits : Nat]

VARIABLE visits \* how many requests for statistics are still to come

consoleVars == <<accountsVars, statsVars, visits>>

ConsoleInit ==
  \E s \in Situations :
    /\ AccountsInit(s.table, s.tabs, s.budget)
    /\ StatsInit(s.switches, s.traffic)
    /\ visits = s.visits

\* The handler has been called and no answer is due yet.
AtHandler(c) == job[c].at = "served" /\ view[c] = NoView

Visit(c) == AtHandler(c) /\ visits > 0 /\ visits' = visits - 1

Dashboard(c) == Visit(c) /\ OpenDashboard(c) /\ UNCHANGED accountsVars

DashboardQuery(c) ==
  /\ \/ TakeDate(c) /\ UNCHANGED accountsVars
     \/ \E f \in Figures, ok \in Results : Query(c, f, ok) /\ HandlerQuery(c, ok)
  /\ UNCHANGED visits

DashboardAnswer(c) == AnswerDashboard(c) /\ Respond(c) /\ UNCHANGED visits

UsageRequest(c) ==
  /\ Visit(c)
  /\ \E filter \in Keys \cup Channels \cup {NoFilter}, start \in 0..day : Usage(c, filter, start)
  /\ Respond(c)

LogsRequest(c) ==
  /\ Visit(c)
  /\ \E page \in 1..listing[c].pages + 1 : ReadPage(c, page)
  /\ Respond(c)

\* A query that fails is answered with a 500; the other admin routes do not
\* touch the statistics.
OtherRequest(c) == AtHandler(c) /\ Respond(c) /\ UNCHANGED <<statsVars, visits>>

StatsRequest(c) ==
  \/ Dashboard(c)
  \/ DashboardQuery(c)
  \/ DashboardAnswer(c)
  \/ UsageRequest(c)
  \/ LogsRequest(c)
  \/ OtherRequest(c)

CrashProcess(p) == Crash(p) /\ Abandon({c \in Clients : job[c].host = p}) /\ UNCHANGED visits

\* One clock dates the tokens and the logs.
NextDay == Tick /\ Midnight /\ UNCHANGED visits

ConsoleNext ==
  \/ StartupNext /\ UNCHANGED <<statsVars, visits>>
  \/ RequestNext /\ UNCHANGED <<statsVars, visits>>
  \/ OperatorNext /\ UNCHANGED <<statsVars, visits>>
  \/ \E c \in Clients : StatsRequest(c)
  \/ TrafficNext /\ UNCHANGED <<accountsVars, visits>>
  \/ \E x \in Keys \cup Channels : Switch(x) /\ UNCHANGED <<accountsVars, visits>>
  \/ \E p \in Processes : CrashProcess(p)
  \/ NextDay

ConsoleSpec == ConsoleInit /\ [][ConsoleNext]_consoleVars

=============================================================================
