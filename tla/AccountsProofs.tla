--------------------------- MODULE AccountsProofs ---------------------------
(***************************************************************************)
(* Proofs about Accounts, for any processes, clients, browsers and names,  *)
(* any tables to start with and any number of faults; and about Console,   *)
(* whose steps are all steps of Accounts.                                  *)
(***************************************************************************)
EXTENDS Console, TLAPS

-----------------------------------------------------------------------------
(* Types.                                                                  *)

\* What the queries return and what clients hold has the right types.
LEMMA ValueTypes ==
  /\ NoRecord \in UserRows /\ Idle \in Jobs
  /\ Down \in ProcessStages /\ Serving \in ProcessStages /\ Down # Serving
  /\ \A n \in Defaults : /\ After(n) \in ProcessStages
                         /\ Stage("look", n) \in ProcessStages \ {Down, Serving}
                         /\ Stage("insert", n) \in ProcessStages \ {Down, Serving}
  /\ NoTokens \in [user : Users \cup {NoUser}, access : Nat, refresh : Nat]
BY AccountsAssumption, SMT DEF NoRecord, UserRows, Idle, Jobs, Down, Serving, Stage, ProcessStages,
   After, NoTokens, Defaults, Users

\* A function changed at one place.
LEMMA Update ==
  ASSUME NEW S, NEW R, NEW f \in [S -> R], NEW x, NEW y \in R
  PROVE  [f EXCEPT ![x] = y] \in [S -> R]
BY Zenon

\* Inserting a row keeps the table well formed.
LEMMA InsertedType ==
  ASSUME user \in [Users -> UserRows], NEW n, NEW who \in Browsers \cup {Startup}
  PROVE  Inserted(n, who) \in [Users -> UserRows]
<1>1. [state |-> "active", by |-> who] \in UserRows
  BY SMT DEF UserRows
<1> QED  BY <1>1, Update DEF Inserted

\* A request has the type of one.
LEMMA RequestType ==
  ASSUME NEW at \in {"idle", "register", "issue", "sent", "served"},
         NEW n \in Users \cup {NoUser}, NEW p \in Processes
  PROVE  /\ Request(at, n, p) \in Jobs
         /\ Request(at, n, p).at = at /\ Request(at, n, p).name = n /\ Request(at, n, p).host = p
BY SMT DEF Request, Jobs

\* Init has the types.
LEMMA TypeInit ==
  ASSUME NEW table \in StartTables, NEW tabs \in [Clients -> Browsers], NEW budget \in Budgets,
         AccountsInit(table, tabs, budget)
  PROVE  AccountsTypeOK
<1>1. user \in [Users -> UserRows]
  BY DEF AccountsInit, StartTables
<1>2. \A b \in Browsers : wallet[b] = NoTokens
  BY DEF AccountsInit
<1>3. \A c \in Clients : job[c] = Idle
  BY DEF AccountsInit
<1> QED  BY <1>1, <1>2, <1>3, ValueTypes, SMT DEF AccountsInit, AccountsTypeOK

\* A query, if it fails, takes one failure from the budget.
LEMMA SpendType ==
  ASSUME spare \in Budgets, NEW ok \in Results, Spend(ok)
  PROVE  spare' \in Budgets /\ (ok \/ spare'.queries < spare.queries)
<1>1. spare'.queries = spare.queries - Failures(ok) /\ spare'.queries \in Nat
  BY SMT DEF Spend, Failures, Results, Budgets
<1>2. ok \in BOOLEAN
  BY DEF Results
<1> QED  BY <1>1, <1>2, SMT DEF Spend, Budgets, Failures

\* A client that enters takes one entry, too.
LEMMA EnterType ==
  ASSUME spare \in Budgets, NEW c, NEW p, NEW ok \in Results, Enter(c, p, ok)
  PROVE  spare' \in Budgets
<1>1. ok \in BOOLEAN /\ Failures(ok) \in {0, 1} /\ spare.queries - Failures(ok) \in Nat
  BY SMT DEF Failures, Results, Budgets
<1>2. spare.entries - 1 \in Nat
  BY SMT DEF Enter, Budgets
<1>3. spare' = [spare EXCEPT !.entries = spare.entries - 1, !.queries = spare.queries - Failures(ok)]
  BY DEF Enter
<1> QED  BY <1>1, <1>2, <1>3, Zenon DEF Budgets

\* Some fields of a request replaced.
LEMMA RequestUpdate ==
  ASSUME NEW r \in Jobs, NEW e \in BOOLEAN, NEW l \in BOOLEAN,
         NEW at \in {"idle", "register", "issue", "sent", "served"}
  PROVE  /\ [r EXCEPT !.at = at] \in Jobs
         /\ [r EXCEPT !.at = at, !.lapsed = l] \in Jobs
         /\ [r EXCEPT !.entitled = e, !.lapsed = l] \in Jobs
BY Zenon DEF Jobs

\* ... and what that leaves alone.
LEMMA RequestFields ==
  ASSUME NEW r \in Jobs, NEW e \in BOOLEAN, NEW l \in BOOLEAN, NEW at
  PROVE  /\ [r EXCEPT !.at = at].host = r.host
         /\ [r EXCEPT !.at = at, !.lapsed = l].host = r.host
         /\ [r EXCEPT !.entitled = e, !.lapsed = l].host = r.host
BY Zenon DEF Jobs

\* One request replaced.
LEMMA ReplaceType ==
  ASSUME AccountsTypeOK, NEW c \in Clients, NEW r \in Jobs, job' = [job EXCEPT ![c] = r],
         r = Idle \/ (r.host \in Processes /\ proc[r.host] = Serving),
         UNCHANGED <<proc, missed, browser, wallet, clock>>,
         user' \in [Users -> UserRows], spare' \in Budgets
  PROVE  AccountsTypeOK'
<1> USE DEF AccountsTypeOK
<1>1. job' \in [Clients -> Jobs]
  BY Update
<1>2. \A d \in Clients : job'[d] # Idle => job'[d].host \in Processes /\ proc[job'[d].host] = Serving
  BY Zenon
<1> QED  BY <1>1, <1>2, SMT

\* A refusal keeps the types.
LEMMA RefuseType ==
  ASSUME AccountsTypeOK, NEW c \in Clients, Refuse(c), spare' \in Budgets,
         UNCHANGED <<user, proc, missed, browser, clock>>
  PROVE  AccountsTypeOK'
<1> USE DEF AccountsTypeOK
<1>1. job' \in [Clients -> Jobs] /\ \A d \in Clients : job'[d] # Idle => job'[d] = job[d]
  BY ValueTypes, SMT DEF Refuse
<1>2. /\ wallet' \in [Browsers -> [user : Users \cup {NoUser}, access : Nat, refresh : Nat]]
      /\ \A b \in Browsers : wallet'[b] # NoTokens => wallet'[b] = wallet[b]
  BY ValueTypes, SMT DEF Refuse
<1> QED  BY <1>1, <1>2, SMT

\* Every step keeps them.
LEMMA TypeStep ==
  ASSUME AccountsTypeOK, [AccountsNext]_accountsVars
  PROVE  AccountsTypeOK'
<1> USE DEF AccountsTypeOK
<1>1. ASSUME NEW p \in Processes, Start(p)  PROVE AccountsTypeOK'
  BY <1>1, ValueTypes, SMT DEF Start, Budgets, Defaults
<1>2. ASSUME NEW p \in Processes, NEW ok \in Results, LookDefault(p, ok)  PROVE AccountsTypeOK'
  <2>1. proc[p].name \in Defaults /\ proc[p] # Serving
    BY <1>2, SMT DEF LookDefault, ProcessStages, Down, Serving, Stage
  <2>2. spare' \in Budgets
    BY <1>2, SpendType DEF LookDefault
  <2> QED  BY <1>2, <2>1, <2>2, ValueTypes, SMT DEF LookDefault
<1>3. ASSUME NEW p \in Processes, NEW ok \in Results, InsertDefault(p, ok)  PROVE AccountsTypeOK'
  <2>1. proc[p].name \in Defaults /\ proc[p] # Serving
    BY <1>3, SMT DEF InsertDefault, ProcessStages, Down, Serving, Stage
  <2>2. spare' \in Budgets
    BY <1>3, SpendType DEF InsertDefault
  <2>3. user' \in [Users -> UserRows]
    BY <1>3, InsertedType DEF InsertDefault
  <2> QED  BY <1>3, <2>1, <2>2, <2>3, ValueTypes, SMT DEF InsertDefault
<1>4. ASSUME NEW c \in Clients, NEW p \in Processes, NEW n \in Users, NEW ok \in Results,
             Register(c, p, n, ok)
      PROVE  AccountsTypeOK'
  <2>1. spare' \in Budgets
    BY <1>4, EnterType DEF Register
  <2>2. proc[p] = Serving
    BY <1>4 DEF Register, Enter, Accept
  <2> QED  BY <1>4, <2>1, <2>2, RequestType, SMT DEF Register
<1>5. ASSUME NEW c \in Clients, NEW p \in Processes, NEW n \in Users, NEW ok \in Results,
             Login(c, p, n, ok)
      PROVE  AccountsTypeOK'
  <2>1. spare' \in Budgets
    BY <1>5, EnterType DEF Login
  <2>2. proc[p] = Serving
    BY <1>5 DEF Login, Enter, Accept
  <2>3. CASE Refuse(c)
    BY <1>5, <2>1, <2>3, RefuseType DEF Login
  <2>4. CASE job' = [job EXCEPT ![c] = Request("issue", n, p)] /\ UNCHANGED wallet
    BY <1>5, <2>1, <2>2, <2>4, RequestType, SMT DEF Login
  <2> QED  BY <1>5, <2>3, <2>4, Zenon DEF Login
<1>6. ASSUME NEW c \in Clients, NEW p \in Processes, NEW ok \in Results, Refresh(c, p, ok)
      PROVE  AccountsTypeOK'
  <2>1. spare' \in Budgets
    BY <1>6, SpendType DEF Refresh
  <2>2. proc[p] = Serving /\ Tokens(c).user \in Users
    BY <1>6, SMT DEF Refresh, Accept, Tokens
  <2>3. CASE Refuse(c)
    BY <1>6, <2>1, <2>3, RefuseType DEF Refresh
  <2>4. CASE job' = [job EXCEPT ![c] = Request("issue", Tokens(c).user, p)] /\ UNCHANGED wallet
    BY <1>6, <2>1, <2>2, <2>4, RequestType, SMT DEF Refresh
  <2> QED  BY <1>6, <2>3, <2>4, Zenon DEF Refresh
<1>7. ASSUME NEW c \in Clients, NEW p \in Processes, Send(c, p)  PROVE AccountsTypeOK'
  <2> DEFINE req == Sent(Tokens(c).user, p, Tokens(c).access)
  <2>1. proc[p] = Serving /\ Tokens(c).user \in Users \cup {NoUser} /\ Tokens(c).access \in Nat
    BY <1>7, SMT DEF Send, Accept, Tokens
  <2>2. req \in Jobs /\ req.host = p
    BY <2>1, SMT DEF Sent, Active, Jobs
  <2>3. job' = [job EXCEPT ![c] = req] /\ UNCHANGED <<user, proc, missed, browser, wallet, clock, spare>>
    BY <1>7 DEF Send
  <2> HIDE DEF req
  <2> QED  BY <2>1, <2>2, <2>3, ReplaceType, Zenon
<1>8. ASSUME NEW c \in Clients, NEW ok \in Results, InsertUser(c, ok)  PROVE AccountsTypeOK'
  <2>1. spare' \in Budgets
    BY <1>8, SpendType DEF InsertUser
  <2>2. user' \in [Users -> UserRows]
    BY <1>8, InsertedType DEF InsertUser
  <2>3. job[c] # Idle
    BY <1>8 DEF InsertUser, Idle
  <2> DEFINE req == [job[c] EXCEPT !.at = "issue"]
  <2>4. req \in Jobs /\ req.host = job[c].host
    BY RequestUpdate, RequestFields, Zenon
  <2>5. job' = [job EXCEPT ![c] = req] \/ job' = [job EXCEPT ![c] = Idle]
    BY <1>8 DEF InsertUser
  <2>6. UNCHANGED <<proc, missed, browser, wallet, clock>>
    BY <1>8 DEF InsertUser
  <2> HIDE DEF req
  <2> QED  BY <2>1, <2>2, <2>3, <2>4, <2>5, <2>6, ValueTypes, ReplaceType, Zenon
<1>9. ASSUME NEW c \in Clients, NEW ok \in Results, JWTAuth(c, ok)  PROVE AccountsTypeOK'
  <2>1. spare' \in Budgets
    BY <1>9, SpendType DEF JWTAuth
  <2>2. job[c] # Idle
    BY <1>9 DEF JWTAuth, Idle
  <2> DEFINE req == [job[c] EXCEPT !.at = "served", !.lapsed = FALSE]
  <2>3. req \in Jobs /\ req.host = job[c].host
    BY RequestUpdate, RequestFields, Zenon
  <2>4. CASE Refuse(c)
    BY <1>9, <2>1, <2>4, RefuseType DEF JWTAuth
  <2>5. CASE job' = [job EXCEPT ![c] = req] /\ UNCHANGED wallet
    <3>1. UNCHANGED <<user, proc, missed, browser, clock>>
      BY <1>9 DEF JWTAuth
    <3> HIDE DEF req
    <3> QED  BY <2>1, <2>2, <2>3, <2>5, <3>1, SMT
  <2> QED  BY <1>9, <2>4, <2>5, Zenon DEF JWTAuth
<1>10. ASSUME NEW c \in Clients, Issue(c)  PROVE AccountsTypeOK'
  BY <1>10, AccountsAssumption, ValueTypes, SMT DEF Issue, TokenPair, Jobs
<1>11. ASSUME NEW c \in Clients, Logout(c)  PROVE AccountsTypeOK'
  BY <1>11, ValueTypes, SMT DEF Logout
<1>12. ASSUME NEW n \in Users, NEW state \in {"active", "disabled", "deleted"}, EditUser(n, state)
       PROVE  AccountsTypeOK'
  <2>1. user' \in [Users -> UserRows]
    <3>1. [user[n] EXCEPT !.state = state] \in UserRows
      BY Zenon DEF UserRows
    <3>2. user' = [user EXCEPT ![n] = [user[n] EXCEPT !.state = state]]
      BY <1>12 DEF EditUser
    <3> QED  BY <3>1, <3>2, Update
  <2>2. spare' \in Budgets
    <3>1. spare.edits > 0 /\ spare' = [spare EXCEPT !.edits = @ - 1]
      BY <1>12 DEF EditUser
    <3> QED  BY <3>1, SMT DEF Budgets
  <2> DEFINE req(c) == [job[c] EXCEPT !.entitled = @ \/ state = "active", !.lapsed = @ \/ state # "active"]
  <2>3. \A c \in Clients : req(c) \in Jobs /\ req(c).host = job[c].host
    <3>1. TAKE c \in Clients
    <3>2. job[c].entitled \in BOOLEAN /\ job[c].lapsed \in BOOLEAN
      BY Zenon DEF Jobs
    <3>3. (job[c].entitled \/ state = "active") \in BOOLEAN /\ (job[c].lapsed \/ state # "active") \in BOOLEAN
      BY Zenon
    <3>4. req(c) \in Jobs
      BY <3>3, RequestUpdate, Zenon
    <3>5. req(c).host = job[c].host
      BY <3>3, RequestFields, Zenon
    <3> QED  BY <3>4, <3>5
  <2>4. /\ job' = [c \in Clients |-> IF job[c].at = "sent" /\ job[c].name = n THEN req(c) ELSE job[c]]
        /\ UNCHANGED <<proc, missed, browser, wallet, clock>>
    BY <1>12 DEF EditUser
  <2> HIDE DEF req
  <2>5. job' \in [Clients -> Jobs]
    BY <2>3, <2>4, Zenon
  <2>6. \A c \in Clients : job'[c] # Idle => job'[c].host = job[c].host /\ job[c] # Idle
    <3>1. Idle.at # "sent"
      BY Zenon DEF Idle
    <3> QED  BY <2>3, <2>4, <3>1, Zenon
  <2> QED  BY <2>1, <2>2, <2>4, <2>5, <2>6, SMT
<1>13. ASSUME NEW c \in Clients, Respond(c)  PROVE AccountsTypeOK'
  BY <1>13, ValueTypes, SMT DEF Respond
<1>14. ASSUME NEW c \in Clients, NEW ok \in Results, HandlerQuery(c, ok)  PROVE AccountsTypeOK'
  <2>1. spare' \in Budgets
    BY <1>14, SpendType DEF HandlerQuery
  <2> QED  BY <1>14, <2>1, SMT DEF HandlerQuery
<1>15. ASSUME NEW p \in Processes, Crash(p)  PROVE AccountsTypeOK'
  <2>1. spare' \in Budgets
    BY <1>15, SMT DEF Crash, Budgets
  <2> QED  BY <1>15, <2>1, ValueTypes, SMT DEF Crash
<1>16. ASSUME Tick  PROVE AccountsTypeOK'
  <2>1. spare' \in Budgets
    BY <1>16, SMT DEF Tick, Budgets
  <2> QED  BY <1>16, <2>1, AccountsAssumption, SMT DEF Tick
<1>17. ASSUME UNCHANGED accountsVars  PROVE AccountsTypeOK'
  BY <1>17 DEF accountsVars
<1> QED
  BY <1>1, <1>2, <1>3, <1>4, <1>5, <1>6, <1>7, <1>8, <1>9, <1>10, <1>11, <1>12, <1>13, <1>14, <1>15,
     <1>16, <1>17 DEF AccountsNext, StartupNext, RequestNext, OperatorNext

-----------------------------------------------------------------------------
(* The invariant.                                                          *)

\* A row that is there belongs to somebody.
Owned == \A n \in Users : user[n].by = NoUser <=> user[n].state = "absent"

\* Start-up created the account, or failed to.
Made(n) == n \in missed \/ user[n].by = Startup

\* Nobody but start-up creates a default account, and a process that has come
\* past an account knows that it was made.
DefaultsKept ==
  /\ \A n \in Defaults \ missed : user[n].by \in {NoUser, Startup}
  /\ \A p \in Processes : proc[p] = Serving \/ proc[p].name = Root => Made(Admin)
  /\ \A p \in Processes : proc[p] = Serving => Made(Root)

\* Tokens are about to be issued only to those who know the password.
IssuesBelong ==
  \A c \in Clients : /\ job[c].at \in {"register", "issue"} => job[c].name \in Users
                     /\ job[c].at = "issue" => Knows(browser[c], job[c].name)

\* What the history of a request on its way says about the account now.
HistoryKept ==
  \A c \in Clients : job[c].at = "sent" =>
    /\ job[c].name # NoUser => job[c].name \in Users /\ Taken(job[c].name)
    /\ Active(job[c].name) => job[c].entitled
    /\ ~Active(job[c].name) => job[c].lapsed

AccountsInv ==
  AccountsTypeOK /\ Owned /\ DefaultsKept /\ TokensBelong /\ IssuesBelong /\ HistoryKept /\ ServedWereEntitled

-----------------------------------------------------------------------------
(* What a step does to one row, one wallet, one process and one request.   *)

RowInserted(n) ==
  /\ ~Taken(n)
  /\ user'[n].state = "active"
  /\ user'[n].by \in Browsers \cup {Startup}
  /\ n \in Defaults => Made(n) \/ user'[n].by = Startup

RowEdited(n) == Taken(n) /\ user'[n].state # "absent" /\ user'[n].by = user[n].by

RowStep(n) == user'[n] = user[n] \/ RowInserted(n) \/ RowEdited(n)

WalletStep(b) ==
  \/ wallet'[b] = wallet[b]
  \/ wallet'[b].user = NoUser
  \/ wallet'[b].user \in Users /\ Knows(b, wallet'[b].user)

ProcessPasses(p, n) ==
  proc[p].name = n /\ (proc'[p] = Stage("insert", n) \/ (proc'[p] = After(n) /\ Made(n)'))

ProcessStep(p) ==
  \/ proc'[p] = proc[p]
  \/ proc'[p] = Down
  \/ proc'[p] = Stage("look", Admin)
  \/ ProcessPasses(p, Admin)
  \/ ProcessPasses(p, Root)

JobKept(c) ==
  /\ job'[c] = job[c]
  /\ job[c].at = "sent" /\ job[c].name # NoUser => user'[job[c].name] = user[job[c].name]

JobEdited(c) ==
  /\ job[c].at = "sent" /\ job'[c].at = "sent"
  /\ job'[c].name = job[c].name /\ job[c].name \in Users
  /\ user'[job[c].name].state = "active" => job'[c].entitled
  /\ user'[job[c].name].state # "active" => job'[c].lapsed

JobStep(c) ==
  \/ JobKept(c)
  \/ JobEdited(c)
  \/ job'[c].at = "idle"
  \/ job'[c].at = "register" /\ job'[c].name \in Users
  \/ job'[c].at = "issue" /\ job'[c].name \in Users /\ user'[job'[c].name].by \in {browser[c], Startup}
  \/ UNCHANGED user /\ \E p \in Processes : job'[c] = Sent(Tokens(c).user, p, Tokens(c).access)
  \/ job'[c].at = "served" /\ job'[c].entitled

StepShape ==
  /\ \A n \in Users : RowStep(n)
  /\ \A b \in Browsers : WalletStep(b)
  /\ \A p \in Processes : ProcessStep(p)
  /\ \A c \in Clients : JobStep(c)
  /\ missed \subseteq missed'
  /\ browser' = browser

\* Rows that are there stay and keep their owner.
LEMMA RowsKept ==
  ASSUME Owned, \A n \in Users : RowStep(n)
  PROVE  /\ Owned'
         /\ \A n \in Users : user[n].by # NoUser => user'[n].by = user[n].by
<1>1. ASSUME NEW n \in Users
      PROVE  /\ user'[n].by = NoUser <=> user'[n].state = "absent"
             /\ user[n].by # NoUser => user'[n].by = user[n].by
  <2>1. CASE user'[n] = user[n]
    BY <2>1 DEF Owned
  <2>2. CASE RowInserted(n)
    BY <2>2, AccountsAssumption, Zenon DEF RowInserted, Owned, Taken
  <2>3. CASE RowEdited(n)
    BY <2>3, Zenon DEF RowEdited, Owned, Taken
  <2> QED  BY <2>1, <2>2, <2>3 DEF RowStep
<1> QED  BY <1>1 DEF Owned

\* Steps of this shape keep the invariant.
LEMMA ShapeKeeps ==
  ASSUME AccountsInv, StepShape, AccountsTypeOK'
  PROVE  AccountsInv'
<1>1. Owned' /\ \A n \in Users : user[n].by # NoUser => user'[n].by = user[n].by
  BY RowsKept DEF AccountsInv, StepShape
<1>2. \A b \in Browsers, n \in Users : Knows(b, n) => user'[n].by \in {b, Startup}
  BY <1>1, AccountsAssumption, Zenon DEF Knows
<1>3. TokensBelong'
  <2> SUFFICES ASSUME NEW b \in Browsers, wallet'[b].user # NoUser
               PROVE  user'[wallet'[b].user].by \in {b, Startup}
    BY DEF TokensBelong, Knows
  <2>1. wallet[b].user \in Users \cup {NoUser}
    BY SMT DEF AccountsInv, AccountsTypeOK
  <2> QED  BY <1>2, <2>1, Zenon DEF AccountsInv, StepShape, TokensBelong, WalletStep
<1>4. \A n \in Defaults : Made(n) => Made(n)'
  BY <1>1, AccountsAssumption, SMT DEF Made, StepShape, Users
<1>5. DefaultsKept'
  <2>1. ASSUME NEW n \in Defaults \ missed'  PROVE user'[n].by \in {NoUser, Startup}
    <3>1. n \in Users /\ n \notin missed /\ RowStep(n) /\ user[n].by \in {NoUser, Startup}
      BY <2>1 DEF StepShape, AccountsInv, DefaultsKept, Users
    <3>2. CASE RowInserted(n)
      BY <1>1, <3>1, <3>2, AccountsAssumption, Zenon DEF RowInserted, Made
    <3> QED  BY <3>1, <3>2, Zenon DEF RowStep, RowEdited
  <2>2. ASSUME NEW p \in Processes
        PROVE  /\ proc'[p] = Serving \/ proc'[p].name = Root => Made(Admin)'
               /\ proc'[p] = Serving => Made(Root)'
    <3>1. /\ proc[p] = Serving \/ proc[p].name = Root => Made(Admin)
          /\ proc[p] = Serving => Made(Root)
      BY DEF AccountsInv, DefaultsKept
    <3>2. /\ Admin \in Defaults /\ Root \in Defaults /\ Admin # Root /\ Root # NoUser /\ Admin # NoUser
          /\ Down.name = NoUser /\ Down # Serving
          /\ \A n \in Defaults, at \in {"look", "insert"} : Stage(at, n).name = n /\ Stage(at, n) # Serving
      BY AccountsAssumption, ValueTypes, SMT DEF Defaults, Users, Down, Serving, Stage
    <3>3. CASE proc'[p] = proc[p]
      BY <1>4, <3>1, <3>2, <3>3, Zenon
    <3>4. CASE proc'[p] = Down \/ proc'[p] = Stage("look", Admin)
      BY <3>2, <3>4, Zenon
    <3>5. CASE ProcessPasses(p, Admin)
      BY <1>4, <3>1, <3>2, <3>5, Zenon DEF ProcessPasses, After
    <3>6. CASE ProcessPasses(p, Root)
      BY <1>4, <3>1, <3>2, <3>6, Zenon DEF ProcessPasses
    <3>7. ProcessStep(p)
      BY DEF StepShape
    <3> QED  BY <3>3, <3>4, <3>5, <3>6, <3>7 DEF ProcessStep
  <2> QED  BY <2>1, <2>2 DEF DefaultsKept
<1>6. ASSUME NEW c \in Clients
      PROVE  /\ job'[c].at \in {"register", "issue"} => job'[c].name \in Users
             /\ job'[c].at = "issue" => user'[job'[c].name].by \in {browser[c], Startup}
             /\ job'[c].at = "sent" =>
                  /\ job'[c].name # NoUser => job'[c].name \in Users /\ user'[job'[c].name].state # "absent"
                  /\ Active(job[c].name)' => job'[c].entitled
                  /\ ~Active(job[c].name)' => job'[c].lapsed
             /\ job'[c].at = "served" => job'[c].entitled
  <2>1. JobStep(c) /\ browser' = browser /\ \A n \in Users : RowStep(n)
    BY DEF StepShape
  <2>2. CASE JobKept(c)
    <3>1. CASE job[c].at = "sent"
      <4>1. /\ job[c].name # NoUser => job[c].name \in Users /\ user[job[c].name].state # "absent"
            /\ Active(job[c].name) => job[c].entitled
            /\ ~Active(job[c].name) => job[c].lapsed
        BY <3>1 DEF AccountsInv, HistoryKept, Taken
      <4>2. CASE job[c].name = NoUser
        BY <2>2, <3>1, <4>1, <4>2, Zenon DEF JobKept, Active
      <4>3. CASE job[c].name # NoUser
        BY <2>2, <3>1, <4>1, <4>3, Zenon DEF JobKept, Active
      <4> QED  BY <4>2, <4>3
    <3>2. CASE job[c].at # "sent"
      <4>1. /\ job[c].at \in {"register", "issue"} => job[c].name \in Users
            /\ job[c].at = "issue" => user[job[c].name].by \in {browser[c], Startup}
            /\ job[c].at = "served" => job[c].entitled
        BY DEF AccountsInv, IssuesBelong, ServedWereEntitled, Knows
      <4>2. browser[c] \in Browsers
        BY DEF AccountsInv, AccountsTypeOK
      <4>3. job'[c] = job[c]
        BY <2>2 DEF JobKept
      <4> QED  BY <1>1, <3>2, <4>1, <4>2, <4>3, AccountsAssumption, SMT
    <3> QED  BY <3>1, <3>2
  <2>3. CASE JobEdited(c)
    <3>1. job[c].name # NoUser => job[c].name \in Users /\ user[job[c].name].state # "absent"
      BY <2>3 DEF AccountsInv, HistoryKept, Taken, JobEdited
    <3>2. job[c].name # NoUser => user'[job[c].name].state # "absent"
      BY <1>1, <3>1 DEF AccountsInv, Owned
    <3> QED  BY <2>3, <3>1, <3>2, AccountsAssumption, Zenon DEF JobEdited, Active
  <2>4. CASE UNCHANGED user /\ \E p \in Processes : job'[c] = Sent(Tokens(c).user, p, Tokens(c).access)
    <3>1. PICK p \in Processes : job'[c] = Sent(Tokens(c).user, p, Tokens(c).access)
      BY <2>4
    <3> DEFINE n == Tokens(c).user
    <3>2. /\ job'[c].at = "sent" /\ job'[c].name = n
          /\ job'[c].entitled <=> Active(n)
          /\ job'[c].lapsed <=> ~Active(n)
      <4> DEFINE req == Sent(n, p, Tokens(c).access)
      <4>1. req.at = "sent" /\ req.name = n
        BY SMT DEF Sent
      <4>2. req.entitled <=> Active(n)
        BY Zenon DEF Sent
      <4>3. req.lapsed <=> ~Active(n)
        BY Zenon DEF Sent
      <4>4. job'[c] = req
        BY <3>1
      <4> HIDE DEF req, n
      <4> QED  BY <4>1, <4>2, <4>3, <4>4, Zenon
    <3>3. n # NoUser => n \in Users /\ user[n].state # "absent"
      <4>1. browser[c] \in Browsers /\ n \in Users \cup {NoUser}
        BY SMT DEF AccountsInv, AccountsTypeOK, Tokens
      <4>2. n # NoUser => user[n].by \in {browser[c], Startup}
        BY <4>1, Zenon DEF AccountsInv, TokensBelong, Knows, Tokens
      <4> QED  BY <4>1, <4>2, AccountsAssumption, Zenon DEF AccountsInv, Owned
    <3> QED  BY <2>4, <3>2, <3>3, Zenon DEF Active
  <2>5. CASE \/ job'[c].at = "idle"
             \/ job'[c].at = "register" /\ job'[c].name \in Users
             \/ job'[c].at = "issue" /\ job'[c].name \in Users /\ user'[job'[c].name].by \in {browser[c], Startup}
             \/ job'[c].at = "served" /\ job'[c].entitled
    BY <2>5, Zenon
  <2> QED  BY <2>1, <2>2, <2>3, <2>4, <2>5, Zenon DEF JobStep
<1> QED  BY <1>1, <1>3, <1>5, <1>6 DEF AccountsInv, IssuesBelong, HistoryKept, ServedWereEntitled, StepShape, Knows, Taken

-----------------------------------------------------------------------------
(* Every step has this shape.                                              *)

\* What is not touched.
LEMMA Untouched ==
  /\ user' = user => \A n \in Users : RowStep(n)
  /\ wallet' = wallet => \A b \in Browsers : WalletStep(b)
  /\ proc' = proc => \A p \in Processes : ProcessStep(p)
  /\ user' = user /\ job' = job => \A c \in Clients : JobStep(c)
BY Zenon DEF RowStep, WalletStep, ProcessStep, JobStep, JobKept

\* One request replaced by another.
LEMMA OneJob ==
  ASSUME AccountsTypeOK, user' = user, NEW c \in Clients, NEW r, job' = [job EXCEPT ![c] = r],
         \/ r.at \in {"idle", "register", "served"} /\ (r.at = "register" => r.name \in Users)
                                                    /\ (r.at = "served" => r.entitled)
         \/ r.at = "issue" /\ r.name \in Users /\ Knows(browser[c], r.name)
         \/ \E p \in Processes : r = Sent(Tokens(c).user, p, Tokens(c).access)
  PROVE  \A d \in Clients : JobStep(d)
<1> SUFFICES ASSUME NEW d \in Clients  PROVE JobStep(d)
  OBVIOUS
<1>1. CASE d = c
  <2>1. job'[d] = r
    BY <1>1, SMT DEF AccountsTypeOK
  <2> QED  BY <1>1, <2>1, Zenon DEF JobStep, Knows
<1>2. CASE d # c
  <2>1. job'[d] = job[d]
    BY <1>2, SMT DEF AccountsTypeOK
  <2> QED  BY <2>1, Zenon DEF JobStep, JobKept
<1> QED  BY <1>1, <1>2

\* A refusal.
LEMMA RefuseShape ==
  ASSUME AccountsTypeOK, user' = user, NEW c \in Clients, Refuse(c)
  PROVE  (\A d \in Clients : JobStep(d)) /\ \A b \in Browsers : WalletStep(b)
<1>1. \A d \in Clients : JobStep(d)
  <2>1. Idle.at = "idle" /\ job' = [job EXCEPT ![c] = Idle]
    BY Zenon DEF Idle, Refuse
  <2> QED  BY <2>1, OneJob, Zenon
<1>2. \A b \in Browsers : WalletStep(b)
  <2>1. \A b \in Browsers : wallet'[b] = wallet[b] \/ wallet'[b] = NoTokens
    BY SMT DEF AccountsTypeOK, Refuse
  <2>2. NoTokens.user = NoUser
    BY DEF NoTokens
  <2> QED  BY <2>1, <2>2, Zenon DEF WalletStep
<1> QED  BY <1>1, <1>2

\* A row inserted.
LEMMA InsertedShape ==
  ASSUME AccountsTypeOK, NEW n \in Users, NEW who \in Browsers \cup {Startup},
         user' = Inserted(n, who) \/ user' = user,
         n \in Defaults => Made(n) \/ who = Startup
  PROVE  /\ \A m \in Users : RowStep(m)
         /\ \A m \in Users : Taken(m) => user'[m] = user[m]
<1>1. CASE user' = user
  BY <1>1, Untouched
<1>2. CASE user' = Inserted(n, who) /\ Taken(n)
  BY <1>2, Untouched DEF Inserted
<1>3. CASE user' = Inserted(n, who) /\ ~Taken(n)
  <2>1. user' = [user EXCEPT ![n] = [state |-> "active", by |-> who]]
    BY <1>3 DEF Inserted
  <2>2. \A m \in Users : m # n => user'[m] = user[m]
    BY <2>1, SMT DEF AccountsTypeOK
  <2>3. user'[n] = [state |-> "active", by |-> who]
    BY <2>1, SMT DEF AccountsTypeOK
  <2>4. RowInserted(n)
    BY <1>3, <2>3, SMT DEF RowInserted
  <2> QED  BY <1>3, <2>2, <2>4, Zenon DEF RowStep
<1> QED  BY <1>1, <1>2, <1>3

\* A request is at a process that has made both default accounts.
LEMMA ServedAfterStart ==
  ASSUME AccountsInv, NEW p \in Processes, proc[p] = Serving
  PROVE  \A n \in Defaults : Made(n)
BY Zenon DEF AccountsInv, DefaultsKept, Defaults

\* Start-up.
LEMMA StartupShape ==
  ASSUME AccountsInv, StartupNext
  PROVE  StepShape
<1> USE DEF StepShape
<1>1. AccountsTypeOK
  BY DEF AccountsInv
<1>2. ASSUME NEW p \in Processes, Start(p)  PROVE StepShape
  <2>1. \A q \in Processes : ProcessStep(q)
    BY <1>1, <1>2, SMT DEF Start, AccountsTypeOK, ProcessStep
  <2> QED  BY <1>2, <2>1, Untouched DEF Start
<1>3. ASSUME NEW p \in Processes, NEW ok \in Results, LookDefault(p, ok)  PROVE StepShape
  <2>1. PICK n \in Defaults : proc[p].name = n
    BY <1>1, <1>3, SMT DEF AccountsTypeOK, LookDefault, ProcessStages, Down, Serving, Stage
  <2>2. CASE ok /\ Found(n)
    <3>1. Made(n)
      BY <1>1, <2>1, <2>2, Zenon DEF AccountsInv, DefaultsKept, Owned, Found, Made, Users
    <3>2. /\ proc' = [proc EXCEPT ![p] = After(n)]
          /\ UNCHANGED <<user, missed, job, browser, wallet>>
      BY <1>3, <2>1, <2>2, Zenon DEF LookDefault
    <3>3. ProcessPasses(p, n)
      BY <1>1, <2>1, <3>1, <3>2, SMT DEF ProcessPasses, AccountsTypeOK, Made
    <3>4. \A q \in Processes : ProcessStep(q)
      BY <1>1, <2>1, <3>2, <3>3, SMT DEF ProcessStep, AccountsTypeOK, Defaults
    <3> QED  BY <3>2, <3>4, Untouched
  <2>3. CASE ~(ok /\ Found(n))
    <3>1. /\ proc' = [proc EXCEPT ![p] = Stage("insert", n)]
          /\ UNCHANGED <<user, missed, job, browser, wallet>>
      BY <1>3, <2>1, <2>3, Zenon DEF LookDefault
    <3>2. ProcessPasses(p, n)
      <4>1. proc'[p] = Stage("insert", n)
        BY <1>1, <3>1, Zenon DEF AccountsTypeOK
      <4> QED  BY <2>1, <4>1, Zenon DEF ProcessPasses, Made
    <3>3. \A q \in Processes : ProcessStep(q)
      BY <1>1, <2>1, <3>1, <3>2, SMT DEF ProcessStep, AccountsTypeOK, Defaults
    <3> QED  BY <3>1, <3>3, Untouched
  <2> QED  BY <2>2, <2>3
<1>4. ASSUME NEW p \in Processes, NEW ok \in Results, InsertDefault(p, ok)  PROVE StepShape
  <2>1. PICK n \in Defaults : proc[p].name = n /\ n \in Users
    BY <1>1, <1>4, SMT DEF AccountsTypeOK, InsertDefault, ProcessStages, Down, Serving, Stage, Users
  <2>2. /\ proc' = [proc EXCEPT ![p] = After(n)]
        /\ user' = (IF ok THEN Inserted(n, Startup) ELSE user)
        /\ missed' = (IF ok \/ Taken(n) THEN missed ELSE missed \cup {n})
        /\ UNCHANGED <<job, browser, wallet>>
    BY <1>4, <2>1 DEF InsertDefault
  <2>3. /\ \A m \in Users : RowStep(m)
        /\ \A m \in Users : Taken(m) => user'[m] = user[m]
    BY <1>1, <2>1, <2>2, InsertedShape, Zenon
  <2>4. Made(n)'
    <3>1. CASE Taken(n)
      <4>1. Made(n)
        BY <2>1, <3>1, Zenon DEF AccountsInv, DefaultsKept, Owned, Taken, Made
      <4>2. user'[n] = user[n] /\ missed' = missed
        BY <2>1, <2>2, <2>3, <3>1, Zenon
      <4> QED  BY <4>1, <4>2, Zenon DEF Made
    <3>2. CASE ok /\ ~Taken(n)
      BY <1>1, <2>1, <2>2, <3>2, SMT DEF Inserted, AccountsTypeOK, Made
    <3>3. CASE ~ok /\ ~Taken(n)
      BY <2>2, <3>3, SMT DEF Made
    <3> QED  BY <3>1, <3>2, <3>3
  <2>5. ProcessPasses(p, n)
    BY <1>1, <2>1, <2>2, <2>4, SMT DEF ProcessPasses, AccountsTypeOK, Made
  <2>6. \A q \in Processes : ProcessStep(q)
    BY <1>1, <2>1, <2>2, <2>5, SMT DEF ProcessStep, AccountsTypeOK, Defaults
  <2>7. \A c \in Clients : JobStep(c)
    BY <2>2, <2>3, Zenon DEF JobStep, JobKept, AccountsInv, HistoryKept
  <2> QED  BY <2>2, <2>3, <2>6, <2>7, Untouched, SMT
<1> QED  BY <1>2, <1>3, <1>4 DEF StartupNext

\* Requests.
LEMMA RequestShape ==
  ASSUME AccountsInv, RequestNext
  PROVE  StepShape
<1> USE DEF StepShape
<1>1. AccountsTypeOK
  BY DEF AccountsInv
<1>2. ASSUME NEW c \in Clients, NEW p \in Processes, NEW n \in Users, NEW ok \in Results,
             Register(c, p, n, ok)
      PROVE  StepShape
  <2>1. job' = [job EXCEPT ![c] = Request("register", n, p)] /\ UNCHANGED <<user, proc, missed, browser, wallet>>
    BY <1>2 DEF Register
  <2>2. Request("register", n, p).at = "register" /\ Request("register", n, p).name = n
    BY RequestType
  <2>3. \A d \in Clients : JobStep(d)
    BY <1>1, <2>1, <2>2, OneJob, Zenon
  <2> QED  BY <2>1, <2>3, Untouched
<1>3. ASSUME NEW c \in Clients, NEW p \in Processes, NEW n \in Users, Knows(browser[c], n),
             job' = [job EXCEPT ![c] = Request("issue", n, p)],
             UNCHANGED <<user, proc, missed, browser, wallet>>
      PROVE  StepShape
  <2>1. Request("issue", n, p).at = "issue" /\ Request("issue", n, p).name = n
    BY RequestType
  <2>2. \A d \in Clients : JobStep(d)
    BY <1>1, <1>3, <2>1, OneJob, Zenon
  <2> QED  BY <1>3, <2>2, Untouched
<1>4. ASSUME NEW c \in Clients, Refuse(c), UNCHANGED <<user, proc, missed, browser>>
      PROVE  StepShape
  BY <1>1, <1>4, RefuseShape, Untouched
<1>5. ASSUME NEW c \in Clients, NEW p \in Processes, NEW n \in Users, NEW ok \in Results,
             Login(c, p, n, ok)
      PROVE  StepShape
  BY <1>3, <1>4, <1>5, Zenon DEF Login
<1>6. ASSUME NEW c \in Clients, NEW p \in Processes, NEW ok \in Results, Refresh(c, p, ok)
      PROVE  StepShape
  <2>1. Tokens(c).user \in Users /\ Knows(browser[c], Tokens(c).user)
    <3>1. browser[c] \in Browsers /\ Tokens(c).user \in Users \cup {NoUser}
      BY <1>1, SMT DEF AccountsTypeOK, Tokens
    <3> QED  BY <1>6, <3>1, Zenon DEF Refresh, AccountsInv, TokensBelong, Tokens
  <2> QED  BY <1>3, <1>4, <1>6, <2>1, Zenon DEF Refresh
<1>7. ASSUME NEW c \in Clients, NEW p \in Processes, Send(c, p)  PROVE StepShape
  <2>1. /\ job' = [job EXCEPT ![c] = Sent(Tokens(c).user, p, Tokens(c).access)]
        /\ UNCHANGED <<user, proc, missed, browser, wallet>>
    BY <1>7 DEF Send
  <2>2. \A d \in Clients : JobStep(d)
    BY <1>1, <2>1, OneJob, Zenon
  <2> QED  BY <2>1, <2>2, Untouched
<1>8. ASSUME NEW c \in Clients, NEW ok \in Results, InsertUser(c, ok)  PROVE StepShape
  <2> DEFINE n == job[c].name
  <2>1. n \in Users /\ browser[c] \in Browsers
    BY <1>1, <1>8, Zenon DEF AccountsInv, AccountsTypeOK, IssuesBelong, InsertUser
  <2>2. UNCHANGED <<proc, missed, browser, wallet>>
    BY <1>8 DEF InsertUser
  <2>3. CASE user' = user /\ job' = [job EXCEPT ![c] = Idle]
    <3>1. Idle.at = "idle"
      BY DEF Idle
    <3>2. \A d \in Clients : JobStep(d)
      BY <1>1, <2>3, <3>1, OneJob, Zenon
    <3> QED  BY <2>2, <2>3, <3>2, Untouched
  <2>4. CASE ~Taken(n) /\ user' = Inserted(n, browser[c]) /\ job' = [job EXCEPT ![c].at = "issue"]
    <3>1. n \in Defaults => Made(n)
      <4>1. job[c] # Idle
        <5>1. job[c].at = "register"
          BY <1>8 DEF InsertUser
        <5>2. Idle.at = "idle"
          BY DEF Idle
        <5> QED  BY <5>1, <5>2, SMT
      <4>2. job[c].host \in Processes /\ proc[job[c].host] = Serving
        BY <1>1, <4>1 DEF AccountsTypeOK
      <4> QED  BY <4>2, ServedAfterStart
    <3>2. /\ \A m \in Users : RowStep(m)
          /\ \A m \in Users : Taken(m) => user'[m] = user[m]
      BY <1>1, <2>1, <2>4, <3>1, InsertedShape, Zenon
    <3>3. user'[n].by = browser[c]
      BY <1>1, <2>1, <2>4, SMT DEF Inserted, AccountsTypeOK
    <3>4. job'[c].at = "issue" /\ job'[c].name = n
      BY <1>1, <2>4, SMT DEF AccountsTypeOK, Jobs
    <3>5. JobStep(c)
      BY <2>1, <3>3, <3>4, Zenon DEF JobStep
    <3>6. ASSUME NEW d \in Clients, d # c  PROVE JobStep(d)
      <4>1. job'[d] = job[d]
        BY <1>1, <2>4, <3>6, SMT DEF AccountsTypeOK
      <4> QED  BY <3>2, <4>1, Zenon DEF JobStep, JobKept, AccountsInv, HistoryKept
    <3> QED  BY <2>2, <3>2, <3>5, <3>6, Untouched
  <2> QED  BY <1>8, <2>3, <2>4, Zenon DEF InsertUser
<1>9. ASSUME NEW c \in Clients, NEW ok \in Results, JWTAuth(c, ok)  PROVE StepShape
  <2> DEFINE req == [job[c] EXCEPT !.at = "served", !.lapsed = FALSE]
  <2>1. CASE Refuse(c)
    BY <1>4, <1>9, <2>1 DEF JWTAuth
  <2>2. CASE Valid(c) /\ job' = [job EXCEPT ![c] = req] /\ UNCHANGED wallet
    <3>1. job[c].entitled
      BY <1>9, <2>2 DEF JWTAuth, Valid, AccountsInv, HistoryKept
    <3>2. req.at = "served" /\ req.entitled
      BY <1>1, <3>1, Zenon DEF AccountsTypeOK, Jobs
    <3>3. UNCHANGED <<user, proc, missed, browser>>
      BY <1>9 DEF JWTAuth
    <3> HIDE DEF req
    <3>4. \A d \in Clients : JobStep(d)
      BY <1>1, <2>2, <3>2, <3>3, OneJob, Zenon
    <3> QED  BY <2>2, <3>3, <3>4, Untouched
  <2> QED  BY <1>9, <2>1, <2>2, Zenon DEF JWTAuth
<1>10. ASSUME NEW c \in Clients, Issue(c)  PROVE StepShape
  <2>1. UNCHANGED <<user, proc, missed, browser>>
    BY <1>10 DEF Issue
  <2>2. Idle.at = "idle" /\ job' = [job EXCEPT ![c] = Idle]
    BY <1>10, Zenon DEF Issue, Idle
  <2>3. \A d \in Clients : JobStep(d)
    BY <1>1, <2>1, <2>2, OneJob, Zenon
  <2>4. job[c].name \in Users /\ Knows(browser[c], job[c].name)
    BY <1>10, Zenon DEF Issue, AccountsInv, IssuesBelong
  <2>5. \A b \in Browsers : wallet'[b] = wallet[b] \/ (b = browser[c] /\ wallet'[b].user = job[c].name)
    <3>1. wallet' = [wallet EXCEPT ![browser[c]] = TokenPair(job[c].name)]
      BY <1>10 DEF Issue
    <3>2. TokenPair(job[c].name).user = job[c].name
      BY DEF TokenPair
    <3>3. wallet \in [Browsers -> [user : Users \cup {NoUser}, access : Nat, refresh : Nat]]
      BY <1>1 DEF AccountsTypeOK
    <3>4. \A b \in Browsers : IF b = browser[c] THEN wallet'[b] = TokenPair(job[c].name)
                                             ELSE wallet'[b] = wallet[b]
      BY <3>1, <3>3, Zenon
    <3> QED  BY <3>2, <3>4, Zenon
  <2>6. \A b \in Browsers : WalletStep(b)
    BY <2>4, <2>5, Zenon DEF WalletStep
  <2> QED  BY <2>1, <2>3, <2>6, Untouched
<1>11. ASSUME NEW c \in Clients, Logout(c)  PROVE StepShape
  <2>1. \A b \in Browsers : wallet'[b] = wallet[b] \/ wallet'[b] = NoTokens
    BY <1>1, <1>11, SMT DEF AccountsTypeOK, Logout
  <2>2. NoTokens.user = NoUser
    BY DEF NoTokens
  <2>3. \A b \in Browsers : WalletStep(b)
    BY <2>1, <2>2, Zenon DEF WalletStep
  <2> QED  BY <1>11, <2>3, Untouched DEF Logout
<1> QED  BY <1>2, <1>5, <1>6, <1>7, <1>8, <1>9, <1>10, <1>11 DEF RequestNext

\* Everything else.
LEMMA OtherShape ==
  ASSUME AccountsInv,
         \/ OperatorNext
         \/ \E c \in Clients : Respond(c) \/ \E ok \in Results : HandlerQuery(c, ok)
         \/ \E p \in Processes : Crash(p)
         \/ Tick
         \/ UNCHANGED accountsVars
  PROVE  StepShape
<1> USE DEF StepShape
<1>1. AccountsTypeOK
  BY DEF AccountsInv
<1>2. ASSUME NEW n \in Users, NEW state \in {"active", "disabled", "deleted"}, EditUser(n, state)
      PROVE  StepShape
  <2>1. /\ user' = [user EXCEPT ![n] = [user[n] EXCEPT !.state = state]]
        /\ Found(n)
        /\ UNCHANGED <<proc, missed, browser, wallet>>
    BY <1>2 DEF EditUser
  <2>2. \A m \in Users : m # n => user'[m] = user[m]
    BY <1>1, <2>1, SMT DEF AccountsTypeOK
  <2>3. user'[n].state = state /\ user'[n].by = user[n].by
    <3>1. user'[n] = [user[n] EXCEPT !.state = state]
      BY <1>1, <2>1, SMT DEF AccountsTypeOK
    <3>2. user[n] \in UserRows
      BY <1>1 DEF AccountsTypeOK
    <3> QED  BY <3>1, <3>2, SMT DEF UserRows
  <2>4. \A m \in Users : RowStep(m)
    <3>1. RowEdited(n)
      BY <2>1, <2>3, Zenon DEF RowEdited, Taken, Found
    <3> QED  BY <2>2, <3>1, Zenon DEF RowStep
  <2>5. ASSUME NEW c \in Clients  PROVE JobStep(c)
    <3> DEFINE req == [job[c] EXCEPT !.entitled = @ \/ state = "active", !.lapsed = @ \/ state # "active"]
    <3>1. job'[c] = IF job[c].at = "sent" /\ job[c].name = n THEN req ELSE job[c]
      BY <1>2 DEF EditUser
    <3>2. CASE job[c].at = "sent" /\ job[c].name = n
      <4>1. /\ req.at = "sent" /\ req.name = n
            /\ state = "active" => req.entitled
            /\ state # "active" => req.lapsed
        BY <1>1, <3>2, Zenon DEF AccountsTypeOK, Jobs
      <4> HIDE DEF req
      <4> QED  BY <2>3, <3>1, <3>2, <4>1, Zenon DEF JobStep, JobEdited
    <3>3. CASE ~(job[c].at = "sent" /\ job[c].name = n)
      <4>1. job'[c] = job[c]
        BY <3>1, <3>3
      <4>2. job[c].at = "sent" /\ job[c].name # NoUser => job[c].name \in Users
        BY DEF AccountsInv, HistoryKept
      <4> QED  BY <2>2, <3>3, <4>1, <4>2, Zenon DEF JobStep, JobKept
    <3> QED  BY <3>2, <3>3
  <2> QED  BY <2>1, <2>4, <2>5, Untouched
<1>3. ASSUME NEW c \in Clients, Respond(c)  PROVE StepShape
  <2>1. Idle.at = "idle" /\ job' = [job EXCEPT ![c] = Idle] /\ UNCHANGED <<user, proc, missed, browser, wallet>>
    BY <1>3, Zenon DEF Respond, Idle
  <2>2. \A d \in Clients : JobStep(d)
    BY <1>1, <2>1, OneJob, Zenon
  <2> QED  BY <2>1, <2>2, Untouched
<1>4. ASSUME NEW p \in Processes, Crash(p)  PROVE StepShape
  <2>1. /\ proc' = [proc EXCEPT ![p] = Down]
        /\ job' = [c \in Clients |-> IF job[c].host = p THEN Idle ELSE job[c]]
        /\ UNCHANGED <<user, missed, browser, wallet>>
    BY <1>4 DEF Crash
  <2>2. \A q \in Processes : ProcessStep(q)
    BY <1>1, <2>1, SMT DEF AccountsTypeOK, ProcessStep
  <2>3. ASSUME NEW c \in Clients  PROVE JobStep(c)
    <3>1. job'[c] = Idle \/ job'[c] = job[c]
      BY <2>1
    <3>2. Idle.at = "idle"
      BY DEF Idle
    <3> QED  BY <2>1, <3>1, <3>2, Zenon DEF JobStep, JobKept
  <2> QED  BY <2>1, <2>2, <2>3, Untouched
<1>5. ASSUME UNCHANGED <<user, proc, missed, job, browser, wallet>>  PROVE StepShape
  BY <1>5, Untouched
<1> QED  BY <1>2, <1>3, <1>4, <1>5 DEF OperatorNext, HandlerQuery, Tick, accountsVars

\* The invariant holds at the start ...
LEMMA InvInit ==
  ASSUME NEW table \in StartTables, NEW tabs \in [Clients -> Browsers], NEW budget \in Budgets,
         AccountsInit(table, tabs, budget)
  PROVE  AccountsInv
<1>1. AccountsTypeOK
  BY TypeInit
<1>2. \A n \in Users : \/ user[n].state = "absent" /\ user[n].by = NoUser
                       \/ /\ user[n].state # "absent"
                          /\ user[n].by \in IF n \in Defaults THEN {Startup} ELSE Browsers
  <2>1. \A n \in Users : \/ user[n] = NoRecord
                         \/ /\ user[n].state # "absent"
                            /\ user[n].by \in IF n \in Defaults THEN {Startup} ELSE Browsers
    BY DEF AccountsInit, StartTables
  <2>2. NoRecord.state = "absent" /\ NoRecord.by = NoUser
    BY DEF NoRecord
  <2> QED  BY <2>1, <2>2, Zenon
<1>3. Owned
  BY <1>2, AccountsAssumption, Zenon DEF Owned
<1>4. DefaultsKept
  <2>1. \A n \in Defaults : user[n].by \in {NoUser, Startup}
    BY <1>2, Zenon DEF Users
  <2>2. \A p \in Processes : proc[p] = Down
    BY DEF AccountsInit
  <2>3. Down # Serving /\ Down.name = NoUser /\ NoUser # Root
    BY AccountsAssumption, ValueTypes, SMT DEF Down, Stage, Users, Defaults
  <2> QED  BY <2>1, <2>2, <2>3, Zenon DEF DefaultsKept
<1>5. \A b \in Browsers : wallet[b].user = NoUser
  BY SMT DEF AccountsInit, NoTokens
<1>6. \A c \in Clients : job[c].at = "idle"
  BY SMT DEF AccountsInit, Idle
<1> QED
  BY <1>1, <1>3, <1>4, <1>5, <1>6, Zenon
  DEF AccountsInv, TokensBelong, IssuesBelong, HistoryKept, ServedWereEntitled

\* ... and every step keeps it.
LEMMA InvStep ==
  ASSUME AccountsInv, [AccountsNext]_accountsVars
  PROVE  AccountsInv'
<1>1. AccountsTypeOK'
  BY TypeStep DEF AccountsInv
<1>2. StepShape
  <2>1. CASE StartupNext
    BY <2>1, StartupShape
  <2>2. CASE RequestNext
    BY <2>2, RequestShape
  <2>3. CASE \/ OperatorNext
             \/ \E c \in Clients : Respond(c) \/ \E ok \in Results : HandlerQuery(c, ok)
             \/ \E p \in Processes : Crash(p)
             \/ Tick
             \/ UNCHANGED accountsVars
    BY <2>3, OtherShape
  <2> QED  BY <2>1, <2>2, <2>3 DEF AccountsNext
<1> QED  BY <1>1, <1>2, ShapeKeeps

-----------------------------------------------------------------------------
(* What a step does to a request on its way.                               *)

\* No other client's step touches it, apart from a crash.
LEMMA OtherClient ==
  ASSUME AccountsTypeOK, NEW c \in Clients, job[c].at = "sent", NEW d \in Clients, NEW r,
         job[d].at # "sent", job' = [job EXCEPT ![d] = r]
  PROVE  job'[c] # Idle
<1>1. job'[c] = job[c]
  BY SMT DEF AccountsTypeOK
<1> QED  BY <1>1 DEF Idle

\* No step refuses it without a cause.
LEMMA CauseStep ==
  ASSUME AccountsInv, [AccountsNext]_accountsVars, NEW c \in Clients,
         job[c].at = "sent", job'[c] = Idle, proc'[job[c].host] = Serving
  PROVE  \/ job[c].lapsed
         \/ job[c].access <= clock
         \/ spare'.queries < spare.queries
<1> DEFINE Cause == \/ job[c].lapsed
                    \/ job[c].access <= clock
                    \/ spare'.queries < spare.queries
<1>1. AccountsTypeOK /\ job[c] # Idle
  BY DEF AccountsInv, Idle
<1>2. ASSUME job' = job  PROVE FALSE
  BY <1>1, <1>2
<1>3. ASSUME NEW d \in Clients, NEW r, job[d].at # "sent", job' = [job EXCEPT ![d] = r]  PROVE FALSE
  BY <1>1, <1>3, OtherClient
<1>4. CASE StartupNext
  BY <1>2, <1>4 DEF StartupNext, Start, LookDefault, InsertDefault
<1>5. CASE RequestNext
  <2>1. Idle.at # "sent"
    BY DEF Idle
  <2>2. ASSUME NEW d \in Clients, NEW p \in Processes, Accept(d, p), NEW r, job' = [job EXCEPT ![d] = r]
        PROVE  FALSE
    BY <1>3, <2>1, <2>2 DEF Accept
  <2>3. ASSUME NEW d \in Clients, NEW p \in Processes, NEW n \in Users, NEW ok \in Results,
               Register(d, p, n, ok) \/ Login(d, p, n, ok)
        PROVE  FALSE
    BY <2>2, <2>3, Zenon DEF Register, Login, Enter, Refuse
  <2>4. ASSUME NEW d \in Clients, NEW p \in Processes, NEW ok \in Results, Refresh(d, p, ok)
        PROVE  FALSE
    BY <2>2, <2>4, Zenon DEF Refresh, Refuse
  <2>5. ASSUME NEW d \in Clients, NEW p \in Processes, Send(d, p)  PROVE FALSE
    BY <2>2, <2>5, Zenon DEF Send
  <2>6. ASSUME NEW d \in Clients, NEW ok \in Results, InsertUser(d, ok)  PROVE FALSE
    <3>1. job[d].at # "sent"
      BY <2>6 DEF InsertUser
    <3>2. \E r : job' = [job EXCEPT ![d] = r]
      BY <2>6, Zenon DEF InsertUser
    <3> QED  BY <1>3, <3>1, <3>2
  <2>7. ASSUME NEW d \in Clients, NEW ok \in Results, JWTAuth(d, ok)  PROVE Cause
    <3>1. CASE d # c
      <4>1. job'[c] = job[c]
        BY <1>1, <2>7, <3>1, SMT DEF JWTAuth, Refuse, AccountsTypeOK
      <4> QED  BY <1>1, <4>1
    <3>2. CASE d = c /\ ok /\ Valid(c)
      <4>1. job'[c] = [job[c] EXCEPT !.at = "served", !.lapsed = FALSE]
        BY <1>1, <2>7, <3>2, Zenon DEF JWTAuth, AccountsTypeOK
      <4>2. job'[c].at = "served"
        BY <1>1, <4>1, Zenon DEF AccountsTypeOK, Jobs
      <4> QED  BY <4>2 DEF Idle
    <3>3. CASE d = c /\ ~ok
      BY <1>1, <2>7, <3>3, SpendType DEF JWTAuth, AccountsTypeOK
    <3>4. CASE d = c /\ ~Valid(c)
      <4>1. job[c].access \in Nat /\ clock \in Nat
        BY <1>1, SMT DEF AccountsTypeOK, Jobs
      <4>2. ~Active(job[c].name) => job[c].lapsed
        BY DEF AccountsInv, HistoryKept
      <4> QED  BY <3>4, <4>1, <4>2, SMT DEF Valid, Unexpired
    <3> QED  BY <3>1, <3>2, <3>3, <3>4
  <2>8. ASSUME NEW d \in Clients, Issue(d)  PROVE FALSE
    BY <1>3, <2>8, Zenon DEF Issue
  <2>9. ASSUME NEW d \in Clients, Logout(d)  PROVE FALSE
    BY <1>2, <2>9 DEF Logout
  <2> QED  BY <1>5, <2>3, <2>4, <2>5, <2>6, <2>7, <2>8, <2>9 DEF RequestNext
<1>6. CASE OperatorNext
  <2>1. PICK n \in Users, state \in {"active", "disabled", "deleted"} : EditUser(n, state)
    BY <1>6 DEF OperatorNext
  <2>2. \/ job'[c] = [job[c] EXCEPT !.entitled = @ \/ state = "active", !.lapsed = @ \/ state # "active"]
        \/ job'[c] = job[c]
    BY <2>1 DEF EditUser
  <2>3. job'[c].at = job[c].at
    BY <1>1, <2>2, Zenon DEF AccountsTypeOK, Jobs
  <2> QED  BY <2>3 DEF Idle
<1>7. ASSUME NEW d \in Clients, Respond(d) \/ \E ok \in Results : HandlerQuery(d, ok)  PROVE FALSE
  BY <1>2, <1>3, <1>7, Zenon DEF Respond, HandlerQuery
<1>8. ASSUME NEW p \in Processes, Crash(p)  PROVE FALSE
  <2>1. /\ proc' = [proc EXCEPT ![p] = Down]
        /\ job'[c] = IF job[c].host = p THEN Idle ELSE job[c]
    BY <1>8 DEF Crash
  <2>2. job[c].host = p
    BY <1>1, <2>1
  <2>3. proc'[p] = Down
    BY <1>1, <2>1, SMT DEF AccountsTypeOK
  <2> QED  BY <2>2, <2>3, ValueTypes
<1>9. CASE Tick \/ UNCHANGED accountsVars
  BY <1>2, <1>9 DEF Tick, accountsVars
<1> QED  BY <1>4, <1>5, <1>6, <1>7, <1>8, <1>9 DEF AccountsNext

-----------------------------------------------------------------------------
(* The theorems.                                                           *)

\* The inductive invariant holds throughout.
THEOREM Invariance == AccountsSpec => []AccountsInv
<1>1. ASSUME \E table \in StartTables, tabs \in [Clients -> Browsers], budget \in Budgets :
               AccountsInit(table, tabs, budget)
      PROVE  AccountsInv
  BY <1>1, InvInit
<1>2. AccountsInv /\ [AccountsNext]_accountsVars => AccountsInv'
  BY InvStep
<1> QED  BY <1>1, <1>2, PTL DEF AccountsSpec

\* Everything keeps its type, tokens are pairs that no configuration outlives,
\* and requests are at processes that serve.
THEOREM TypesCorrect == AccountsSpec => []AccountsTypeOK
<1>1. AccountsInv => AccountsTypeOK
  BY DEF AccountsInv
<1> QED  BY <1>1, Invariance, PTL

\* Once a process serves, both default accounts are there and are start-up's,
\* whatever processes start and crash at the same time and whatever names are
\* registered (CreateDefaultAdmin and CreateDefaultRoot).
THEOREM DefaultsArePresent == AccountsSpec => []DefaultsPresent
<1>1. AccountsInv => DefaultsPresent
  BY ServedAfterStart, Zenon DEF DefaultsPresent, Made
<1> QED  BY <1>1, Invariance, PTL

\* Tokens are issued only to those who know the account's password, however
\* many register one name at the same time (Register and Login).
THEOREM TokensAreOwned == AccountsSpec => []TokensBelong
<1>1. AccountsInv => TokensBelong
  BY DEF AccountsInv
<1> QED  BY <1>1, Invariance, PTL

\* An admin route serves a request only if its account was there and enabled at
\* some time since the request was sent (ValidateToken).
THEOREM OnlyEntitledServed == AccountsSpec => []ServedWereEntitled
<1>1. AccountsInv => ServedWereEntitled
  BY DEF AccountsInv
<1> QED  BY <1>1, Invariance, PTL

\* An admin route refuses a request only for its token, its account or a query
\* that failed (JWTAuth).
THEOREM RefusalsHaveCause == AccountsSpec => RefusedForCause
<1> DEFINE Cause(c) == \/ job[c].lapsed
                       \/ job[c].access <= clock
                       \/ spare'.queries < spare.queries
           Step == \A c \in Clients : job[c].at = "sent" /\ job'[c] = Idle /\ proc'[job[c].host] = Serving =>
                     Cause(c)
<1>1. AccountsInv /\ [AccountsNext]_accountsVars => [Step]_accountsVars
  BY CauseStep
<1> QED  BY <1>1, Invariance, PTL DEF AccountsSpec, RefusedForCause

\* The console with its statistics is a system of accounts: none of its steps
\* does to the accounts what Accounts does not allow ...
THEOREM ConsoleImplementsAccounts == ConsoleSpec => AccountsSpec
<1>1. ASSUME ConsoleInit
      PROVE  \E table \in StartTables, tabs \in [Clients -> Browsers], budget \in Budgets :
               AccountsInit(table, tabs, budget)
  <2>1. PICK s \in Situations : AccountsInit(s.table, s.tabs, s.budget)
    BY <1>1 DEF ConsoleInit
  <2>2. s.table \in StartTables /\ s.tabs \in [Clients -> Browsers] /\ s.budget \in Budgets
    BY ConsoleAssumption
  <2> QED  BY <2>1, <2>2
<1>2. ASSUME [ConsoleNext]_consoleVars  PROVE [AccountsNext]_accountsVars
  <2>1. ASSUME NEW c \in Clients, StatsRequest(c)  PROVE [AccountsNext]_accountsVars
    <3>1. CASE Dashboard(c)
      BY <3>1 DEF Dashboard
    <3>2. CASE DashboardQuery(c)
      BY <3>2 DEF DashboardQuery, AccountsNext
    <3>3. CASE DashboardAnswer(c)
      BY <3>3 DEF DashboardAnswer, AccountsNext
    <3>4. CASE UsageRequest(c)
      BY <3>4 DEF UsageRequest, AccountsNext
    <3>5. CASE LogsRequest(c)
      BY <3>5 DEF LogsRequest, AccountsNext
    <3>6. CASE OtherRequest(c)
      BY <3>6 DEF OtherRequest, AccountsNext
    <3> QED  BY <2>1, <3>1, <3>2, <3>3, <3>4, <3>5, <3>6 DEF StatsRequest
  <2>2. ASSUME NEW p \in Processes, CrashProcess(p)  PROVE AccountsNext
    BY <2>2 DEF CrashProcess, AccountsNext
  <2>3. CASE StartupNext \/ RequestNext \/ OperatorNext \/ NextDay
    BY <2>3 DEF AccountsNext, NextDay
  <2>4. CASE UNCHANGED accountsVars
    BY <2>4
  <2> QED  BY <1>2, <2>1, <2>2, <2>3, <2>4 DEF ConsoleNext, consoleVars
<1> QED  BY <1>1, <1>2, PTL DEF ConsoleSpec, AccountsSpec

\* ... and what holds of the accounts holds in it, too.
THEOREM ConsoleKeepsAccounts ==
  ConsoleSpec =>
    /\ [](AccountsTypeOK /\ DefaultsPresent /\ TokensBelong /\ ServedWereEntitled)
    /\ RefusedForCause
BY ConsoleImplementsAccounts, TypesCorrect, DefaultsArePresent, TokensAreOwned, OnlyEntitledServed,
   RefusalsHaveCause, PTL

=============================================================================
