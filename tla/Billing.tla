------------------------------ MODULE Billing ------------------------------
(***************************************************************************)
(* Prepaid billing of tenant requests: service/billing.go, driven the way  *)
(* the handlers of handler/proxy.go drive it, over the rows of APIKeys.    *)
(*                                                                         *)
(* A caller is one HTTP request.  APIKeyAuth reads the row of its key once *)
(* and the rest of the request works on that copy (seen).  PreDeduct,      *)
(* Refund and FinalizeBilling each take the key's billing lock, run one    *)
(* query and let the lock go.  Between them the upstream provider is       *)
(* called, other requests and administrators run, the lock may expire,     *)
(* Redis may be lost and the process may die.                              *)
(***************************************************************************)
EXTENDS APIKeys

CONSTANTS Callers,          \* requests, each served once
          KeyOf,            \* the key a request presents
          NotSeen,          \* a request that holds no copy of its key's row
          PreDeductAmount,  \* 0.1 in the code
          Usages,           \* token counts an upstream answer may report
          NoModel,          \* the nil model
          UseRedis,         \* REDIS_ENABLED: the lock is a Redis key
          DBMayFail,        \* whether queries can fail
          MaxFaults,        \* bound on crashes, Redis outages and lost answers
          MaxOverruns       \* bound on locks that run out under a request

ASSUME BillingAssumption ==
  /\ IsFiniteSet(Callers)
  /\ KeyOf \in [Callers -> Keys]
  /\ NotSeen \notin Rows
  /\ PreDeductAmount \in Nat \ {0}
  /\ Usages \subseteq [input : Nat, output : Nat, total : Nat]
  /\ UseRedis \in BOOLEAN
  /\ DBMayFail \in BOOLEAN

VARIABLES pc,       \* where each request is
          seen,     \* the copy of the key's row that APIKeyAuth put in the context
          locked,   \* the key's mutex is held, or its Redis lock key exists
          redisUp,
          overruns, \* history: how often a lock ran out while a request was inside
          faults    \* crashes, outages and lost answers so far

callVars == <<pc, seen>>
lockVars == <<locked, redisUp, overruns, faults>>
vars == <<keysVars, callVars, lockVars>>

\* Waiting for the lock, and the critical section each wait leads to.
Entered == [admitted |-> "predebit", toRefund |-> "refunding", toFinalize |-> "finalizing"]
Waiting == DOMAIN Entered
Inside == {"predebit", "refunding", "finalizing"}

\* "kept": answered, its reservation never to be touched again.
\* "lost": its reservation cannot be returned any more (crash, failed query).
Final == {"refused", "free", "dropped", "settled", "kept", "lost"}

\* The reservation has been taken from the balance and not been returned.
Holding == {"reserved", "toRefund", "toFinalize", "refunding", "finalizing", "kept", "lost"}

PCs == {"idle", "authed", "reserved"} \cup Waiting \cup Inside \cup Final

TypeOK ==
  /\ KeysTypeOK
  /\ pc \in [Callers -> PCs]
  /\ seen \in [Callers -> Rows \cup {NotSeen}]
  /\ \A c \in Callers : seen[c] = NotSeen => pc[c] \in {"idle"} \cup Final
  /\ locked \in [Keys -> BOOLEAN]
  /\ redisUp \in BOOLEAN
  /\ overruns \in [Keys -> Nat]
  /\ faults \in Nat

Init ==
  /\ KeysInit
  /\ pc = [c \in Callers |-> "idle"]
  /\ seen = [c \in Callers |-> NotSeen]
  /\ locked = [k \in Keys |-> FALSE]
  /\ redisUp = TRUE
  /\ overruns = [k \in Keys |-> 0]
  /\ faults = 0

Goto(c, label) == pc' = [pc EXCEPT ![c] = label]

\* Results a query may have.
QueryResults == IF DBMayFail THEN {TRUE, FALSE} ELSE {TRUE}

-----------------------------------------------------------------------------
(* The tenant middlewares.                                                 *)

Authenticate(c) ==
  /\ pc[c] = "idle"
  /\ \E ok \in QueryResults :
       IF ok /\ Live(KeyOf[c]) /\ row[KeyOf[c]].active
         THEN Goto(c, "authed") /\ seen' = [seen EXCEPT ![c] = row[KeyOf[c]]]
         ELSE Goto(c, "refused") /\ UNCHANGED seen
  /\ UNCHANGED <<keysVars, lockVars>>

\* The RateLimit middleware lets the request through or answers 429.  GET
\* /info and streamed Gemini requests are answered for free.
CheckRateLimit(c) ==
  /\ pc[c] = "authed"
  /\ \E next \in {"admitted", "refused", "free"} : Goto(c, next)
  /\ UNCHANGED <<keysVars, seen, lockVars>>

-----------------------------------------------------------------------------
(* The billing lock.                                                       *)

\* Mutant of AcquireLock: SET in the place of SETNX.
SetLock(c) ==
  /\ pc[c] \in Waiting
  /\ UseRedis => redisUp
  /\ locked' = [locked EXCEPT ![KeyOf[c]] = TRUE]
  /\ Goto(c, Entered[pc[c]])
  /\ UNCHANGED <<keysVars, seen, redisUp, overruns, faults>>

\* SETNX on the lock key, or Lock on the key's mutex.  While Redis cannot be
\* reached the error is dropped and the loop tries again.
AcquireLock(c) ==
  /\ pc[c] \in Waiting
  /\ ~locked[KeyOf[c]]
  /\ UseRedis => redisUp
  /\ locked' = [locked EXCEPT ![KeyOf[c]] = TRUE]
  /\ Goto(c, Entered[pc[c]])
  /\ UNCHANGED <<keysVars, seen, redisUp, overruns, faults>>

\* Redis sets the lock key and the answer gets lost: the request still waits,
\* for a key that nobody will remove.
LoseReply(c) ==
  /\ pc[c] \in Waiting
  /\ UseRedis /\ redisUp
  /\ ~locked[KeyOf[c]]
  /\ faults < MaxFaults
  /\ faults' = faults + 1
  /\ locked' = [locked EXCEPT ![KeyOf[c]] = TRUE]
  /\ UNCHANGED <<keysVars, callVars, redisUp, overruns>>

\* Mutant of ReleaseLock: the unlock is forgotten.
KeepLock(c) == UNCHANGED lockVars

\* The deferred unlock.  DEL removes the lock key whoever set it, and does
\* nothing while Redis cannot be reached.
ReleaseLock(c) ==
  /\ locked' = IF UseRedis /\ ~redisUp THEN locked ELSE [locked EXCEPT ![KeyOf[c]] = FALSE]
  /\ UNCHANGED <<redisUp, overruns, faults>>

InsideOf(k) == {c \in Callers : KeyOf[c] = k /\ pc[c] \in Inside}

\* Mutant of ExpireLock: SETNX without a time to live.
NeverExpires(k) == FALSE

\* The lock key's time to live runs out, however long its holder still takes.
ExpireLock(k) ==
  /\ UseRedis
  /\ locked[k]
  /\ locked' = [locked EXCEPT ![k] = FALSE]
  /\ IF InsideOf(k) = {} THEN UNCHANGED overruns
     ELSE /\ overruns[k] < MaxOverruns
          /\ overruns' = [overruns EXCEPT ![k] = @ + 1]
  /\ UNCHANGED <<keysVars, callVars, redisUp, faults>>

-----------------------------------------------------------------------------
(* BillingService, each operation with the lock held.                      *)

\* Tokens are in thousands; of a model only its price matters.
CalculateCost(usage, price) ==
  IF price = NoModel THEN 0 ELSE usage.input * price.input + usage.output * price.output

\* Mutant of MayReserve: the error of DeductBalance is dropped.
SeenSufficient(c) == seen[c].balance >= PreDeductAmount

\* The balance that is tested is the one APIKeyAuth read.
MayReserve(c) == seen[c].balance >= PreDeductAmount /\ Sufficient(KeyOf[c], PreDeductAmount)

PreDeduct(c) ==
  /\ pc[c] = "predebit"
  /\ \E ok \in QueryResults :
       IF ok /\ MayReserve(c)
         THEN Goto(c, "reserved") /\ row' = DeductBalance(KeyOf[c], PreDeductAmount)
         ELSE Goto(c, "refused") /\ UNCHANGED row
  /\ ReleaseLock(c)
  /\ UNCHANGED <<draft, deposited, clobbered, seen>>

\* The error of Recharge is returned and every caller of Refund drops it.
Refund(c) ==
  /\ pc[c] = "refunding"
  /\ \E ok \in QueryResults :
       IF ok THEN Goto(c, "settled") /\ row' = Recharge(KeyOf[c], PreDeductAmount)
             ELSE Goto(c, "lost") /\ UNCHANGED row
  /\ ReleaseLock(c)
  /\ UNCHANGED <<draft, deposited, clobbered, seen>>

\* Mutant of Settle: the two branches swapped.
SettleSwapped(k, diff) ==
  IF diff > 0 THEN DeductBalance(k, diff) ELSE IF diff < 0 THEN Recharge(k, -diff) ELSE row

\* The row after the reservation has been corrected by diff.
Settle(k, diff) ==
  IF diff > 0 THEN Recharge(k, diff) ELSE IF diff < 0 THEN DeductBalance(k, -diff) ELSE row

\* ProxyHandler.getModel knows no model.
getModel == NoModel

FinalizeBilling(c, usage) ==
  /\ pc[c] = "finalizing"
  /\ \E ok \in QueryResults :
       IF ok THEN /\ Goto(c, "settled")
                  /\ row' = Settle(KeyOf[c], PreDeductAmount - CalculateCost(usage, getModel))
             ELSE Goto(c, "lost") /\ UNCHANGED row
  /\ ReleaseLock(c)
  /\ UNCHANGED <<draft, deposited, clobbered, seen>>

-----------------------------------------------------------------------------
(* What the handlers do with a reservation once they hold it: a body that   *)
(* does not parse or a failed call is refunded, an answer is finalised, and *)
(* streams and answers without a choice leave it as it is.                  *)

HandlerOutcome(c) ==
  /\ pc[c] = "reserved"
  /\ \E next \in {"toRefund", "toFinalize", "kept"} : Goto(c, next)
  /\ UNCHANGED <<keysVars, seen, lockVars>>

-----------------------------------------------------------------------------
(* The environment.                                                        *)

\* The process dies and restarts: requests in flight are gone, with their
\* reservations; so are half-done updates and, with them, the mutexes.  A
\* Redis lock key stays.
Crash ==
  /\ faults < MaxFaults
  /\ faults' = faults + 1
  /\ pc' = [c \in Callers |-> IF pc[c] \in Final \cup {"idle"} THEN pc[c]
                              ELSE IF pc[c] \in Holding THEN "lost" ELSE "dropped"]
  /\ draft' = [a \in Admins |-> NoDraft]
  /\ locked' = IF UseRedis THEN locked ELSE [k \in Keys |-> FALSE]
  /\ UNCHANGED <<row, deposited, clobbered, seen, redisUp, overruns>>

RedisDown ==
  /\ UseRedis
  /\ redisUp
  /\ faults < MaxFaults
  /\ faults' = faults + 1
  /\ redisUp' = FALSE
  /\ UNCHANGED <<keysVars, callVars, locked, overruns>>

RedisBack ==
  /\ ~redisUp
  /\ redisUp' = TRUE
  /\ UNCHANGED <<keysVars, callVars, locked, overruns, faults>>

CallerNext(c) ==
  \/ Authenticate(c)
  \/ CheckRateLimit(c)
  \/ AcquireLock(c)
  \/ PreDeduct(c)
  \/ HandlerOutcome(c)
  \/ Refund(c)
  \/ \E usage \in Usages : FinalizeBilling(c, usage)

Next ==
  \/ KeysNext /\ UNCHANGED <<callVars, lockVars>>
  \/ \E c \in Callers : CallerNext(c)
  \/ \E c \in Callers : LoseReply(c)
  \/ \E k \in Keys : ExpireLock(k)
  \/ Crash
  \/ RedisDown
  \/ RedisBack

Spec == Init /\ [][Next]_vars

\* The Go scheduler runs every handler on, the upstream call ends within the
\* client's timeout of 120 s, and lock keys run out.  Nothing makes Redis
\* come back.
FairSpec ==
  /\ Spec
  /\ \A c \in Callers : WF_vars(CallerNext(c))
  /\ \A k \in Keys : WF_vars(ExpireLock(k))

RecoveringSpec == FairSpec /\ WF_vars(RedisBack)

-----------------------------------------------------------------------------
(* Properties.                                                             *)

Held(k) == {c \in Callers : KeyOf[c] = k /\ pc[c] \in Holding}

\* No schedule of reservations, refunds and administrators' saves overdraws a
\* key, though PreDeduct tests a stale copy and Save writes one back
\* (DeductBalance, repository/apikey.go).
NonNegative == \A k \in Keys : row[k].balance >= 0

\* Reserve-then-settle keeps every deposit accounted for: what was paid into a
\* key is its balance plus one pre-deduction per request that still holds its
\* reservation, unless a save has overwritten the row's money.  No lock that
\* ran out, crash, failed query or settlement creates or destroys money
\* (PreDeduct, Refund and FinalizeBilling, service/billing.go).
Conserved ==
  \A k \in Keys : Live(k) /\ k \notin clobbered =>
    row[k].balance + PreDeductAmount * Cardinality(Held(k)) = deposited[k]

\* Requests inside the critical section of one key: at most one, and one more
\* for every time the lock ran out under a request.  The slack also counts the
\* free lock, which a late DEL of somebody else's lock key may have freed
\* (acquireLock, service/billing.go).
LockSlack(k) == IF locked[k] THEN 0 ELSE 1

LockBudget == \A k \in Keys : Cardinality(InsideOf(k)) + LockSlack(k) <= 1 + overruns[k]

\* Two operations on one key never run at the same time (acquireLock).
MutualExclusion == \A k \in Keys : Cardinality(InsideOf(k)) <= 1

\* The money of a deleted key stays as it was when the key was deleted: a
\* refund that comes late goes nowhere, and only an update that had read the
\* row before can change it, by bringing the key back (Recharge, DeductBalance
\* and Save, repository/apikey.go).
DeletedFrozen ==
  [][\A k \in Keys : row[k].status = "deleted" =>
       \/ row'[k] = row[k]
       \/ row'[k].status = "live" /\ \E a \in Admins : draft[a] # NoDraft /\ draft[a].key = k]_vars

\* Billing seen as the abstract account: a reservation that was kept or lost is
\* forfeited, and every other change of a key's money is a deposit or an
\* administrator's.
AccountState(status) ==
  CASE status = "absent" -> "none" [] status = "live" -> "open" [] status = "deleted" -> "closed"

Reservation(label) ==
  CASE label \in {"kept", "lost"} -> "forfeited"
    [] label = "settled" -> "given back"
    [] label \in Holding \ {"kept", "lost"} -> "held"
    [] OTHER -> "none"

AccountStates == [k \in Keys |-> AccountState(row[k].status)]
Funds == [k \in Keys |-> row[k].balance]
Reservations == [c \in Callers |-> Reservation(pc[c])]

Account == INSTANCE PrepaidAccount WITH
  Accounts <- Keys, Requests <- Callers, AccountOf <- KeyOf, Fee <- PreDeductAmount,
  state <- AccountStates, funds <- Funds, hold <- Reservations

\* Billing implements the prepaid account: money is reserved only out of
\* sufficient funds, and each reservation is given back at most once
\* (service/billing.go and handler/proxy.go).
ImplementsAccount == Account!Spec

\* A request that has reserved money is settled, answered or lost: neither the
\* lock loop nor a lock left behind holds it for ever.
ReservationEnds == \A c \in Callers : pc[c] = "reserved" ~> pc[c] \in Final

\* A billing lock that is held is let go again, also after a crash or an
\* outage that made the unlock impossible.
LockFreed == \A k \in Keys : locked[k] ~> ~locked[k]

\* "Accurate cost tracking": every deposit stays accounted for whatever
\* administrators edit, since an update changes the name, the limits and the
\* active flag only (UpdateKeyRequest, handler/apikey.go).
AccurateTracking ==
  \A k \in Keys : Live(k) =>
    row[k].balance + PreDeductAmount * Cardinality(Held(k)) = deposited[k]

=============================================================================
