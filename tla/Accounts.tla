------------------------------ MODULE Accounts ------------------------------
(***************************************************************************)
(* Administrator accounts and their tokens: service and handler auth.go,   *)
(* repository/user.go, middleware/jwt.go and the start-up in               *)
(* cmd/server/main.go.  Several processes share one users table.  A        *)
(* process creates the two default accounts before it serves; Register     *)
(* and Login read a row in one query and act on it later; nothing but the  *)
(* row itself can revoke a token.  Roles and e-mail addresses are stored   *)
(* and never read, and are left out; a password is known to whoever        *)
(* created the row, those of the default accounts to everybody.  A client  *)
(* keeps every pair of tokens it is given (the console itself keeps those  *)
(* of a login only, and never refreshes them).                             *)
(***************************************************************************)
EXTENDS Naturals

CONSTANTS Processes,     \* servers on one database
          Clients,       \* tabs of the console or scripts, each with one request at a time
          Browsers,      \* where the tabs are, each with one localStorage
          Admin, Root,   \* the names of the default accounts
          Names,         \* other user names
          NoUser,        \* no name
          Startup,       \* who creates the default accounts
          NoProcess,     \* where an idle client's request is
          AccessExpiry,  \* days for which an access token is valid
          RefreshExpiry  \* days for which a refresh token is valid

Defaults == {Admin, Root}

Users == Defaults \cup Names

ASSUME AccountsAssumption ==
  /\ Admin # Root
  /\ NoUser \notin Users \cup Browsers \cup {Startup}
  /\ Startup \notin Browsers
  /\ AccessExpiry \in Nat
  /\ RefreshExpiry \in Nat

VARIABLES user,    \* the users table
          proc,    \* where each process is
          missed,  \* default accounts that a failing query kept from being created
          job,     \* the request of each client
          browser, \* the browser of each client, which stays the same
          wallet,  \* the pair of tokens in each browser's localStorage
          clock,   \* the day
          spare    \* how many of the faults and other rare events are still to come

accountsVars == <<user, proc, missed, job, browser, wallet, clock, spare>>

\* Names are unique, so a name stands for its row.  Soft-deleted rows stay.
UserRows == [state : {"absent", "active", "disabled", "deleted"},
             by : Browsers \cup {Startup, NoUser}]

NoRecord == [state |-> "absent", by |-> NoUser]

Stage(at, n) == [at |-> at, name |-> n]

Down == Stage("down", NoUser)

Serving == Stage("serving", NoUser)

ProcessStages == {Down, Serving} \cup [at : {"look", "insert"}, name : Defaults]

Idle == [at |-> "idle", name |-> NoUser, host |-> NoProcess, access |-> 0,
         entitled |-> FALSE, lapsed |-> FALSE]

\* access is when the token that was sent expires.  entitled and lapsed are
\* history: whether the account has been good, and whether it has not been, at
\* some time since the request was sent.
Jobs == [at : {"idle", "register", "issue", "sent", "served"}, name : Users \cup {NoUser},
         host : Processes \cup {NoProcess}, access : Nat, entitled : BOOLEAN, lapsed : BOOLEAN]

\* What is left of a wallet when its tokens are removed; to send no token is as
\* good as to send one that has expired.
NoTokens == [user |-> NoUser, access |-> 0, refresh |-> 0]

\* Mutant of TokenPair: the two lifetimes swapped.
SwappedPair(n) == [user |-> n, access |-> clock + RefreshExpiry, refresh |-> clock + AccessExpiry]

\* generateToken, twice: the day on which each token expires.
TokenPair(n) == [user |-> n, access |-> clock + AccessExpiry, refresh |-> clock + RefreshExpiry]

Budgets == [starts : Nat, entries : Nat, queries : Nat, crashes : Nat, edits : Nat, days : Nat]

\* Besides the types: tokens come in pairs that were issued together, no token
\* outlives its configured time, and only a serving process has requests.
AccountsTypeOK ==
  /\ user \in [Users -> UserRows]
  /\ proc \in [Processes -> ProcessStages]
  /\ missed \subseteq Defaults
  /\ job \in [Clients -> Jobs]
  /\ browser \in [Clients -> Browsers]
  /\ wallet \in [Browsers -> [user : Users \cup {NoUser}, access : Nat, refresh : Nat]]
  /\ clock \in Nat
  /\ spare \in Budgets
  /\ \A b \in Browsers : wallet[b] # NoTokens =>
       /\ wallet[b].access <= clock + AccessExpiry
       /\ wallet[b].access + RefreshExpiry = wallet[b].refresh + AccessExpiry
  /\ \A c \in Clients : job[c] # Idle => job[c].host \in Processes /\ proc[job[c].host] = Serving

\* No process runs yet and nobody has a token; the table may be one that an
\* earlier deployment left behind.
AccountsInit(table, tabs, budget) ==
  /\ user = table
  /\ proc = [p \in Processes |-> Down]
  /\ missed = {}
  /\ job = [c \in Clients |-> Idle]
  /\ browser = tabs
  /\ wallet = [b \in Browsers |-> NoTokens]
  /\ clock = 0
  /\ spare = budget

-----------------------------------------------------------------------------
(* Queries.                                                                *)

\* GetByUsername and GetByID do not see deleted rows.
Found(n) == user[n].state \in {"active", "disabled"}

Active(n) == n # NoUser /\ user[n].state = "active"

\* Mutant of Taken: a clash on the name overwrites the row.
NeverTaken(n) == FALSE

\* The unique index on the name covers the deleted rows.
Taken(n) == user[n].state # "absent"

Inserted(n, who) ==
  IF Taken(n) THEN user ELSE [user EXCEPT ![n] = [state |-> "active", by |-> who]]

\* A query works or fails; spare counts the failures to come.
Results == {ok \in BOOLEAN : ok \/ spare.queries > 0}

Failures(ok) == IF ok THEN 0 ELSE 1

Spend(ok) == spare' = [spare EXCEPT !.queries = @ - Failures(ok)]

Accept(c, p) == job[c] = Idle /\ proc[p] = Serving

\* A client registers or logs in.
Enter(c, p, ok) ==
  /\ Accept(c, p)
  /\ spare.entries > 0
  /\ spare' = [spare EXCEPT !.entries = @ - 1, !.queries = @ - Failures(ok)]

-----------------------------------------------------------------------------
(* Start-up: look for each default account, create it if it is not there,  *)
(* log errors and go on.                                                   *)

After(n) == IF n = Admin THEN Stage("look", Root) ELSE Serving

Start(p) ==
  /\ spare.starts > 0
  /\ proc[p] = Down
  /\ proc' = [proc EXCEPT ![p] = Stage("look", Admin)]
  /\ spare' = [spare EXCEPT !.starts = @ - 1]
  /\ UNCHANGED <<user, missed, job, browser, wallet, clock>>

\* Mutant of LookDefault: an admin account shows that start-up was done before.
LookAdminOnly(p, ok) ==
  /\ proc[p].at = "look"
  /\ LET n == proc[p].name
     IN  proc' = [proc EXCEPT ![p] = IF ok /\ Found(n) THEN Serving ELSE Stage("insert", n)]
  /\ Spend(ok)
  /\ UNCHANGED <<user, missed, job, browser, wallet, clock>>

\* Any error counts as "not there".
LookDefault(p, ok) ==
  /\ proc[p].at = "look"
  /\ LET n == proc[p].name
     IN  proc' = [proc EXCEPT ![p] = IF ok /\ Found(n) THEN After(n) ELSE Stage("insert", n)]
  /\ Spend(ok)
  /\ UNCHANGED <<user, missed, job, browser, wallet, clock>>

InsertDefault(p, ok) ==
  /\ proc[p].at = "insert"
  /\ LET n == proc[p].name
     IN  /\ user' = IF ok THEN Inserted(n, Startup) ELSE user
         /\ missed' = IF ok \/ Taken(n) THEN missed ELSE missed \cup {n}
         /\ proc' = [proc EXCEPT ![p] = After(n)]
  /\ Spend(ok)
  /\ UNCHANGED <<job, browser, wallet, clock>>

-----------------------------------------------------------------------------
(* Requests.  One that is refused without a 401 leaves everything as it    *)
(* was and is left out.                                                    *)

Request(at, n, p) == [at |-> at, name |-> n, host |-> p, access |-> 0,
                      entitled |-> FALSE, lapsed |-> FALSE]

\* The tokens a client finds in localStorage.
Tokens(c) == wallet[browser[c]]

\* The console's answer to a 401: it removes the tokens that are there, be they
\* the refused ones or not (src/api/index.ts).
Refuse(c) ==
  /\ job' = [job EXCEPT ![c] = Idle]
  /\ wallet' = [wallet EXCEPT ![browser[c]] = NoTokens]

\* Register looks for the name; an error counts as "not there" ...
Register(c, p, n, ok) ==
  /\ Enter(c, p, ok)
  /\ ~(ok /\ Found(n))
  /\ job' = [job EXCEPT ![c] = Request("register", n, p)]
  /\ UNCHANGED <<user, proc, missed, browser, wallet, clock>>

\* ... and inserts it, which the unique index may refuse with a 400.
InsertUser(c, ok) ==
  /\ job[c].at = "register"
  /\ LET n == job[c].name
     IN  IF ok /\ ~Taken(n)
           THEN user' = Inserted(n, browser[c]) /\ job' = [job EXCEPT ![c].at = "issue"]
           ELSE user' = user /\ job' = [job EXCEPT ![c] = Idle]
  /\ Spend(ok)
  /\ UNCHANGED <<proc, missed, browser, wallet, clock>>

Knows(b, n) == user[n].by \in {b, Startup}

Login(c, p, n, ok) ==
  /\ Enter(c, p, ok)
  /\ IF ok /\ Active(n) /\ Knows(browser[c], n)
       THEN job' = [job EXCEPT ![c] = Request("issue", n, p)] /\ UNCHANGED wallet
       ELSE Refuse(c)
  /\ UNCHANGED <<user, proc, missed, browser, clock>>

\* Mutant of Unexpired: the clock's leeway subtracted where it should be added.
ExpiredEarly(day) == clock + 1 < day

Unexpired(day) == clock < day

\* RefreshToken reads the user again.  It does not use the old token up.
Refresh(c, p, ok) ==
  /\ Accept(c, p)
  /\ LET n == Tokens(c).user
     IN  /\ n # NoUser
         /\ IF ok /\ Unexpired(Tokens(c).refresh) /\ Active(n)
              THEN job' = [job EXCEPT ![c] = Request("issue", n, p)] /\ UNCHANGED wallet
              ELSE Refuse(c)
  /\ Spend(ok)
  /\ UNCHANGED <<user, proc, missed, browser, clock>>

\* After bcrypt, the two tokens are signed and sent; the row is not read again.
Issue(c) ==
  /\ job[c].at = "issue"
  /\ wallet' = [wallet EXCEPT ![browser[c]] = TokenPair(job[c].name)]
  /\ job' = [job EXCEPT ![c] = Idle]
  /\ UNCHANGED <<user, proc, missed, browser, clock, spare>>

\* The console's button, in one tab: the others are not told.
Logout(c) ==
  /\ job[c] = Idle
  /\ Tokens(c) # NoTokens
  /\ wallet' = [wallet EXCEPT ![browser[c]] = NoTokens]
  /\ UNCHANGED <<user, proc, missed, job, browser, clock, spare>>

Sent(n, p, day) == [at |-> "sent", name |-> n, host |-> p, access |-> day,
                    entitled |-> Active(n), lapsed |-> ~Active(n)]

\* A request to an admin route, with the access token if there is one.
Send(c, p) ==
  /\ Accept(c, p)
  /\ job' = [job EXCEPT ![c] = Sent(Tokens(c).user, p, Tokens(c).access)]
  /\ UNCHANGED <<user, proc, missed, browser, wallet, clock, spare>>

\* Mutant of Valid: the claims of the token are trusted.
ValidClaims(c) == Unexpired(job[c].access)

\* JWTAuth and ValidateToken: an access token, whose user is read again.
Valid(c) == Unexpired(job[c].access) /\ Active(job[c].name)

JWTAuth(c, ok) ==
  /\ job[c].at = "sent"
  /\ IF ok /\ Valid(c)
       THEN job' = [job EXCEPT ![c] = [@ EXCEPT !.at = "served", !.lapsed = FALSE]] /\ UNCHANGED wallet
       ELSE Refuse(c)
  /\ Spend(ok)
  /\ UNCHANGED <<user, proc, missed, browser, clock>>

\* A query of an admin handler.
HandlerQuery(c, ok) ==
  /\ job[c].at = "served"
  /\ Spend(ok)
  /\ UNCHANGED <<user, proc, missed, job, browser, wallet, clock>>

Respond(c) ==
  /\ job[c].at = "served"
  /\ job' = [job EXCEPT ![c] = Idle]
  /\ UNCHANGED <<user, proc, missed, browser, wallet, clock, spare>>

-----------------------------------------------------------------------------
(* The environment.                                                        *)

\* Update and Delete of the repository; no route leads there, an operator's
\* SQL does the same.
EditUser(n, state) ==
  /\ spare.edits > 0
  /\ Found(n)
  /\ user[n].state # state
  /\ user' = [user EXCEPT ![n].state = state]
  /\ job' = [c \in Clients |->
       IF job[c].at = "sent" /\ job[c].name = n
         THEN [job[c] EXCEPT !.entitled = @ \/ state = "active", !.lapsed = @ \/ state # "active"]
         ELSE job[c]]
  /\ spare' = [spare EXCEPT !.edits = @ - 1]
  /\ UNCHANGED <<proc, missed, browser, wallet, clock>>

\* The clients see a broken connection, not a 401.
Crash(p) ==
  /\ spare.crashes > 0
  /\ proc[p] # Down
  /\ proc' = [proc EXCEPT ![p] = Down]
  /\ job' = [c \in Clients |-> IF job[c].host = p THEN Idle ELSE job[c]]
  /\ spare' = [spare EXCEPT !.crashes = @ - 1]
  /\ UNCHANGED <<user, missed, browser, wallet, clock>>

Tick ==
  /\ spare.days > 0
  /\ clock' = clock + 1
  /\ spare' = [spare EXCEPT !.days = @ - 1]
  /\ UNCHANGED <<user, proc, missed, job, browser, wallet>>

StartupNext ==
  \E p \in Processes : Start(p) \/ \E ok \in Results : LookDefault(p, ok) \/ InsertDefault(p, ok)

RequestNext ==
  \/ \E c \in Clients, p \in Processes, n \in Users, ok \in Results :
       Register(c, p, n, ok) \/ Login(c, p, n, ok)
  \/ \E c \in Clients, p \in Processes, ok \in Results : Refresh(c, p, ok)
  \/ \E c \in Clients, p \in Processes : Send(c, p)
  \/ \E c \in Clients, ok \in Results : InsertUser(c, ok) \/ JWTAuth(c, ok)
  \/ \E c \in Clients : Issue(c) \/ Logout(c)

OperatorNext == \E n \in Users, state \in {"active", "disabled", "deleted"} : EditUser(n, state)

AccountsNext ==
  \/ StartupNext
  \/ RequestNext
  \/ OperatorNext
  \/ \E c \in Clients : Respond(c) \/ \E ok \in Results : HandlerQuery(c, ok)
  \/ \E p \in Processes : Crash(p)
  \/ Tick

\* The tables an earlier deployment may leave: start-up created the default
\* accounts that are there, clients registered the others.
StartTables == {table \in [Users -> UserRows] : \A n \in Users :
  \/ table[n] = NoRecord
  \/ table[n].state # "absent" /\ table[n].by \in IF n \in Defaults THEN {Startup} ELSE Browsers}

AccountsSpec ==
  /\ \E table \in StartTables, tabs \in [Clients -> Browsers], budget \in Budgets :
       AccountsInit(table, tabs, budget)
  /\ [][AccountsNext]_accountsVars

-----------------------------------------------------------------------------
(* Properties.                                                             *)

\* Once any process serves, both default accounts are in the table and are the
\* ones that start-up created, never a registration that got there first:
\* however many processes start at the same time, and when one of them crashes
\* between the two accounts.  Only a query that fails while one is created may
\* leave a name open (CreateDefaultAdmin and CreateDefaultRoot; main.go goes on
\* after an error).
DefaultsPresent ==
  (\E p \in Processes : proc[p] = Serving) =>
    \A n \in Defaults \ missed : user[n].by = Startup

\* Tokens name an account whose password their holder knows.  Two
\* registrations of one name may both have found it free, and only the one
\* that was stored may get tokens (Register in service/auth.go).
TokensBelong ==
  \A b \in Browsers : wallet[b].user # NoUser => Knows(b, wallet[b].user)

\* An administrator's request is served only if its account was there and
\* enabled at some time since the request was sent, even with tokens from a
\* login or a refresh that overlapped the disabling (ValidateToken, and Login
\* and RefreshToken, which sign tokens for a row they read before).
ServedWereEntitled == \A c \in Clients : job[c].at = "served" => job[c].entitled

\* No request is refused without a cause: an admin route answers with a 401 only
\* if the request carried no access token or one that has expired, its account
\* was disabled or removed at some time since it was sent, or a query failed;
\* not because another process answers, or one that restarted, or because of
\* another login (JWTAuth in middleware/jwt.go).
RefusedForCause ==
  [][\A c \in Clients : job[c].at = "sent" /\ job'[c] = Idle /\ proc'[job[c].host] = Serving =>
       \/ job[c].lapsed
       \/ job[c].access <= clock
       \/ spare'.queries < spare.queries]_accountsVars

=============================================================================
