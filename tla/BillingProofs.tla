--------------------------- MODULE BillingProofs ---------------------------
(***************************************************************************)
(* Proofs about Billing, for any keys, administrators, requests, amounts   *)
(* and bounds, with the memory lock or the Redis lock, and with failing    *)
(* queries, crashes and outages.                                           *)
(***************************************************************************)
EXTENDS Billing, FiniteSetTheorems, TLAPS

\* Rows as they are built from a request, limits left out included.
NewRows == [status : {"live"}, balance : Int, limits : RequestLimits, active : BOOLEAN]

-----------------------------------------------------------------------------
(* What the queries return.                                                *)

\* Changing one row's balance keeps the table well formed.
LEMMA QueryTypes ==
  ASSUME row \in [Keys -> Rows], NEW k \in Keys, NEW amount \in Int
  PROVE  /\ Recharge(k, amount) \in [Keys -> Rows]
         /\ DeductBalance(k, amount) \in [Keys -> Rows]
BY SMT DEF Recharge, DeductBalance, Sufficient, Live, Rows

\* An inserted row has all its limits set.
LEMMA InsertTypes ==
  ASSUME NEW r \in NewRows
  PROVE  OnInsert(r) \in LiveRows
<1>1. WithDefaults(r.limits) \in Limits
  BY LimitsAssumption, SMT DEF WithDefaults, Limits, RequestLimits, NewRows
<1> QED  BY <1>1, Zenon DEF OnInsert, NewRows, LiveRows

\* So has a row with an update merged in.
LEMMA MergeTypes ==
  ASSUME NEW r \in LiveRows,
         NEW req \in UpdateRequests
  PROVE  Merge(r, req) \in LiveRows
<1>1. [m \in Metrics |-> IF req.limits[m] > 0 THEN req.limits[m] ELSE r.limits[m]] \in Limits
  BY RequestsAssumption, SMT DEF Limits, RequestLimits, LiveRows
<1> QED  BY <1>1, RequestsAssumption, Zenon DEF Merge, LiveRows

\* getModel knows no model, so a settlement returns the whole reservation.
LEMMA SettleReturns ==
  ASSUME NEW k \in Keys, NEW usage \in Usages
  PROVE  Settle(k, PreDeductAmount - CalculateCost(usage, getModel)) = Recharge(k, PreDeductAmount)
<1>1. CalculateCost(usage, getModel) = 0
  BY DEF CalculateCost, getModel
<1>2. PreDeductAmount - 0 = PreDeductAmount /\ PreDeductAmount > 0
  BY BillingAssumption, SMT
<1> QED  BY <1>1, <1>2 DEF Settle

\* So a refund and a settlement do the same.
LEMMA GiveBackStep ==
  ASSUME NEW c \in Callers, Refund(c) \/ \E usage \in Usages : FinalizeBilling(c, usage)
  PROVE  /\ pc[c] \in {"refunding", "finalizing"}
         /\ \/ Goto(c, "settled") /\ row' = Recharge(KeyOf[c], PreDeductAmount)
            \/ Goto(c, "lost") /\ UNCHANGED row
         /\ ReleaseLock(c)
         /\ UNCHANGED <<draft, deposited, clobbered, seen>>
<1>1. KeyOf[c] \in Keys
  BY BillingAssumption
<1>2. CASE Refund(c)
  BY <1>2 DEF Refund
<1>3. ASSUME NEW usage \in Usages, FinalizeBilling(c, usage)
      PROVE  \/ Goto(c, "settled") /\ row' = Recharge(KeyOf[c], PreDeductAmount)
             \/ Goto(c, "lost") /\ UNCHANGED row
  BY <1>1, <1>3, SettleReturns DEF FinalizeBilling
<1>4. CASE \E usage \in Usages : FinalizeBilling(c, usage)
  BY <1>3, <1>4 DEF FinalizeBilling
<1> QED  BY <1>2, <1>4

-----------------------------------------------------------------------------
(* Type correctness.                                                       *)

LEMMA TypeInit == Init => TypeOK
BY LimitsAssumption DEF Init, KeysInit, TypeOK, KeysTypeOK, Absent, Rows, PCs, Final

\* Administrators keep the key table well formed.
LEMMA KeysTypeNext ==
  ASSUME KeysTypeOK, KeysNext
  PROVE  KeysTypeOK'
<1> USE DEF KeysTypeOK
<1>1. ASSUME NEW k \in Keys, NEW req \in CreateRequests, CreateKey(k, req)
      PROVE  KeysTypeOK'
  <2> DEFINE r == [status |-> "live", balance |-> req.balance,
                   limits |-> req.limits, active |-> req.active]
  <2>1. /\ r \in NewRows
        /\ req.balance \in Nat
    BY RequestsAssumption DEF NewRows
  <2>2. OnInsert(r) \in Rows
    BY <2>1, InsertTypes DEF Rows, LiveRows
  <2> QED  BY <1>1, <2>1, <2>2 DEF CreateKey
<1>2. ASSUME NEW k \in Keys, NEW amount \in Recharges, RechargeKey(k, amount)
      PROVE  KeysTypeOK'
  <2>1. amount \in Nat
    BY RequestsAssumption DEF NewRows
  <2> QED  BY <1>2, <2>1, QueryTypes DEF RechargeKey
<1>3. ASSUME NEW k \in Keys, DeleteKey(k) PROVE KeysTypeOK'
  BY <1>3 DEF DeleteKey, Rows
<1>4. ASSUME NEW a \in Admins, NEW k \in Keys, NEW req \in UpdateRequests, UpdateLoad(a, k, req)
      PROVE  KeysTypeOK'
  <2>1. Merge(row[k], req) \in LiveRows
    BY <1>4, MergeTypes DEF UpdateLoad, Live, Rows, LiveRows
  <2> QED  BY <1>4, <2>1 DEF UpdateLoad, Drafts
<1>5. ASSUME NEW a \in Admins, UpdateSave(a) PROVE KeysTypeOK'
  <2>1. draft[a] \in Drafts
    BY <1>5 DEF UpdateSave
  <2>2. /\ draft[a].copy \in Rows
        /\ OnInsert(draft[a].copy) \in Rows
    <3>1. draft[a].copy \in NewRows
      BY <2>1 DEF Drafts, Limits, RequestLimits, LiveRows, NewRows
    <3> QED  BY <2>1, <3>1, InsertTypes DEF Drafts, Rows, LiveRows
  <2>3. Save(draft[a].key, draft[a].copy) \in [Keys -> Rows]
    BY <2>1, <2>2 DEF Save, Drafts
  <2> QED  BY <1>5, <2>1, <2>3 DEF UpdateSave, Drafts
<1> QED  BY <1>1, <1>2, <1>3, <1>4, <1>5 DEF KeysNext

\* The queries that can be answered two ways.
LEMMA QueryStep ==
  ASSUME NEW c \in Callers, TypeOK
  PROVE  KeyOf[c] \in Keys /\ PreDeductAmount \in Int
BY BillingAssumption

LEMMA TypeNext ==
  ASSUME TypeOK, [Next]_vars
  PROVE  TypeOK'
<1> USE DEF TypeOK
<1> USE BillingAssumption
<1>1. CASE KeysNext /\ UNCHANGED <<callVars, lockVars>>
  BY <1>1, KeysTypeNext DEF callVars, lockVars
<1>2. ASSUME NEW c \in Callers, Authenticate(c) PROVE TypeOK'
  <2>1. CASE Goto(c, "authed") /\ seen' = [seen EXCEPT ![c] = row[KeyOf[c]]]
    BY <1>2, <2>1 DEF Authenticate, Goto, PCs, KeysTypeOK, keysVars, lockVars
  <2>2. CASE Goto(c, "refused") /\ UNCHANGED seen
    BY <1>2, <2>2 DEF Authenticate, Goto, PCs, Final, KeysTypeOK, keysVars, lockVars
  <2> QED  BY <1>2, <2>1, <2>2 DEF Authenticate
<1>3. ASSUME NEW c \in Callers, CheckRateLimit(c) PROVE TypeOK'
  <2>1. PICK next \in {"admitted", "refused", "free"} : Goto(c, next)
    BY <1>3 DEF CheckRateLimit
  <2>2. {"admitted", "refused", "free"} \subseteq PCs /\ seen[c] # NotSeen
    BY <1>3 DEF CheckRateLimit, PCs, Final, Waiting, Entered
  <2> QED  BY <1>3, <2>1, <2>2 DEF CheckRateLimit, Goto, KeysTypeOK, keysVars, lockVars
<1>4. ASSUME NEW c \in Callers, AcquireLock(c) PROVE TypeOK'
  <2>1. Entered[pc[c]] \in PCs /\ seen[c] # NotSeen
    BY <1>4 DEF AcquireLock, Entered, Waiting, PCs, Inside, Final
  <2> QED  BY <1>4, <2>1 DEF AcquireLock, Goto, KeysTypeOK, keysVars
<1>5. ASSUME NEW c \in Callers, PreDeduct(c) PROVE TypeOK'
  <2>1. locked' \in [Keys -> BOOLEAN] /\ UNCHANGED <<redisUp, overruns, faults>>
    BY <1>5 DEF PreDeduct, ReleaseLock
  <2>2. \/ Goto(c, "reserved") /\ row' = DeductBalance(KeyOf[c], PreDeductAmount)
        \/ Goto(c, "refused") /\ row' = row
    BY <1>5 DEF PreDeduct
  <2>3. row' \in [Keys -> Rows]
    BY <2>2, QueryTypes, QueryStep DEF KeysTypeOK
  <2>4. seen[c] # NotSeen
    BY <1>5 DEF PreDeduct, Final
  <2> QED  BY <1>5, <2>1, <2>2, <2>3, <2>4 DEF PreDeduct, Goto, PCs, Final, KeysTypeOK
<1>6. ASSUME NEW c \in Callers, HandlerOutcome(c) PROVE TypeOK'
  <2>1. PICK next \in {"toRefund", "toFinalize", "kept"} : Goto(c, next)
    BY <1>6 DEF HandlerOutcome
  <2>2. {"toRefund", "toFinalize", "kept"} \subseteq PCs /\ seen[c] # NotSeen
    BY <1>6 DEF HandlerOutcome, PCs, Final, Waiting, Entered
  <2> QED  BY <1>6, <2>1, <2>2 DEF HandlerOutcome, Goto, KeysTypeOK, keysVars, lockVars
<1>7. ASSUME NEW c \in Callers, Refund(c) \/ \E usage \in Usages : FinalizeBilling(c, usage) PROVE TypeOK'
  <2>1. locked' \in [Keys -> BOOLEAN] /\ UNCHANGED <<redisUp, overruns, faults>>
    BY <1>7, GiveBackStep DEF ReleaseLock
  <2>2. \/ Goto(c, "settled") /\ row' = Recharge(KeyOf[c], PreDeductAmount)
        \/ Goto(c, "lost") /\ row' = row
    BY <1>7, GiveBackStep
  <2>3. row' \in [Keys -> Rows]
    BY <2>2, QueryTypes, QueryStep DEF KeysTypeOK
  <2>4. /\ seen[c] # NotSeen
        /\ UNCHANGED <<draft, deposited, clobbered, seen>>
    BY <1>7, GiveBackStep DEF Final
  <2> QED  BY <2>1, <2>2, <2>3, <2>4 DEF Goto, PCs, Final, KeysTypeOK
<1>8. ASSUME NEW k \in Keys, ExpireLock(k) PROVE TypeOK'
  BY <1>8 DEF ExpireLock, callVars, keysVars, KeysTypeOK
<1>9. CASE Crash
  <2>1. \A c \in Callers : pc'[c] \in PCs /\ (pc[c] \in {"idle"} \cup Final => pc'[c] = pc[c])
    BY <1>9 DEF Crash, PCs, Final
  <2>2. pc' \in [Callers -> PCs]
    BY <1>9, <2>1 DEF Crash
  <2> QED  BY <1>9, <2>1, <2>2 DEF Crash, KeysTypeOK
<1>10. CASE RedisDown \/ RedisBack
  <2>1. redisUp' \in BOOLEAN
    BY <1>10, Zenon DEF RedisDown, RedisBack
  <2>2. faults' \in Nat
    BY <1>10 DEF RedisDown, RedisBack
  <2>3. UNCHANGED <<keysVars, callVars, locked, overruns>>
    BY <1>10 DEF RedisDown, RedisBack
  <2> QED  BY <2>1, <2>2, <2>3 DEF callVars, keysVars, KeysTypeOK
<1>11. CASE UNCHANGED vars
  BY <1>11 DEF vars, callVars, lockVars, keysVars, KeysTypeOK
<1>13. ASSUME NEW c \in Callers, LoseReply(c) PROVE TypeOK'
  BY <1>13 DEF LoseReply, callVars, keysVars, KeysTypeOK
<1> HIDE DEF TypeOK
<1>12. ASSUME NEW c \in Callers, CallerNext(c) PROVE TypeOK'
  BY <1>12, <1>2, <1>3, <1>4, <1>5, <1>6, <1>7 DEF CallerNext
<1> QED
  BY <1>1, <1>8, <1>9, <1>10, <1>11, <1>12, <1>13 DEF Next

\* Every state of billing is well typed: in particular no key ever has a rate
\* limit of zero, through any create, partial update or revived row.
THEOREM TypeCorrect == Spec => []TypeOK
BY TypeInit, TypeNext, PTL DEF Spec

-----------------------------------------------------------------------------
(* Money.                                                                  *)

\* A save writes back a balance that was never negative.
DraftsNonNegative == \A a \in Admins : draft[a] # NoDraft => draft[a].copy.balance >= 0

\* Nobody holds a reservation on a key that does not exist yet.
NoEarlyHolds == \A k \in Keys : row[k].status = "absent" => Held(k) = {}

MoneyInv ==
  /\ TypeOK
  /\ NonNegative
  /\ DraftsNonNegative
  /\ NoEarlyHolds
  /\ Conserved

LEMMA HeldFinite ==
  ASSUME NEW k \in Keys
  PROVE  IsFiniteSet(Held(k)) /\ Cardinality(Held(k)) \in Nat
<1>1. Held(k) \subseteq Callers
  BY DEF Held
<1> QED  BY <1>1, BillingAssumption, FS_Subset, FS_CardinalityType

\* A step in which nobody gains or gives up a reservation.
HoldsKept == \A c \in Callers : pc'[c] \in Holding <=> pc[c] \in Holding

LEMMA HeldUnchanged ==
  ASSUME HoldsKept
  PROVE  \A k \in Keys : Held(k)' = Held(k)
BY DEF Held, HoldsKept

\* A step of one request changes the holders of its own key only.
LEMMA HeldByMove ==
  ASSUME TypeOK, NEW c \in Callers, NEW label, Goto(c, label)
  PROVE  /\ \A k \in Keys \ {KeyOf[c]} : Held(k)' = Held(k)
         /\ Held(KeyOf[c])' = IF label \in Holding THEN Held(KeyOf[c]) \cup {c}
                                                  ELSE Held(KeyOf[c]) \ {c}
BY DEF Held, Goto, TypeOK

LEMMA MoneyInit == Init => MoneyInv
<1> SUFFICES ASSUME Init PROVE MoneyInv
  OBVIOUS
<1>1. \A k \in Keys : row[k] = Absent /\ Absent.balance = 0 /\ Absent.status = "absent"
  BY DEF Init, KeysInit, Absent
<1>2. \A k \in Keys : Held(k) = {}
  BY DEF Init, Held, Holding
<1> QED
  BY <1>1, <1>2, TypeInit
  DEF MoneyInv, NonNegative, DraftsNonNegative, NoEarlyHolds, Conserved, Live, Init, KeysInit

\* Administrators: creating and recharging a key move the deposits with the
\* balance, a save either leaves the money alone or marks the key clobbered.
LEMMA MoneyKeys ==
  ASSUME MoneyInv, KeysNext, UNCHANGED callVars
  PROVE  NonNegative' /\ DraftsNonNegative' /\ NoEarlyHolds' /\ Conserved'
<1> USE DEF MoneyInv, TypeOK, KeysTypeOK
<1>0. \A k \in Keys : /\ Held(k)' = Held(k)
                       /\ Cardinality(Held(k)) \in Nat
  BY HeldUnchanged, HeldFinite DEF HoldsKept, callVars
<1>a. PreDeductAmount \in Nat
  BY BillingAssumption
<1>b. \A k \in Keys : row[k] \in Rows /\ row[k].balance \in Int
  BY DEF Rows
<1>1. ASSUME NEW k \in Keys, NEW req \in CreateRequests, CreateKey(k, req)
      PROVE  NonNegative' /\ DraftsNonNegative' /\ NoEarlyHolds' /\ Conserved'
  <2> DEFINE r == OnInsert([status |-> "live", balance |-> req.balance,
                            limits |-> req.limits, active |-> req.active])
  <2>1. req.balance \in Nat /\ r.balance = req.balance /\ r.status = "live"
    BY RequestsAssumption DEF OnInsert
  <2>2. /\ row' = [row EXCEPT ![k] = r]
        /\ deposited' = [deposited EXCEPT ![k] = req.balance]
        /\ UNCHANGED <<draft, clobbered>>
        /\ row[k].status = "absent"
    BY <1>1 DEF CreateKey
  <2>3. Cardinality(Held(k)) = 0 /\ PreDeductAmount * 0 = 0
    <3>1. Held(k) = {}
      BY <2>2 DEF NoEarlyHolds
    <3>2. PreDeductAmount * 0 = 0
      BY <1>a
    <3> QED  BY <3>1, <3>2, FS_EmptySet
  <2> HIDE DEF r
  <2>4. NonNegative' /\ DraftsNonNegative' /\ NoEarlyHolds'
    BY <2>1, <2>2, <1>0 DEF NonNegative, DraftsNonNegative, NoEarlyHolds
  <2>5. Conserved'
    BY <2>1, <2>2, <2>3, <1>0 DEF Conserved, Live
  <2> QED  BY <2>4, <2>5
<1>2. ASSUME NEW k \in Keys, NEW amount \in Recharges, RechargeKey(k, amount)
      PROVE  NonNegative' /\ DraftsNonNegative' /\ NoEarlyHolds' /\ Conserved'
  <2>1. amount \in Nat
    BY RequestsAssumption
  <2>2. CASE ~Live(k)
    BY <1>2, <2>2, <1>0
    DEF RechargeKey, Recharge, NonNegative, DraftsNonNegative, NoEarlyHolds, Conserved, Live
  <2>3. CASE Live(k)
    <3>1. /\ row' = [row EXCEPT ![k].balance = @ + amount]
          /\ deposited' = [deposited EXCEPT ![k] = @ + amount]
          /\ UNCHANGED <<draft, clobbered>>
      BY <1>2, <2>3 DEF RechargeKey, Recharge
    <3>2. /\ \A j \in Keys : row'[j].status = row[j].status
          /\ \A j \in Keys \ {k} : row'[j] = row[j] /\ deposited'[j] = deposited[j]
          /\ row'[k].balance = row[k].balance + amount
          /\ deposited'[k] = deposited[k] + amount
      BY <3>1, <1>b DEF Rows
    <3>3. NonNegative' /\ DraftsNonNegative' /\ NoEarlyHolds'
      BY <2>1, <3>1, <3>2, <1>0, <1>b DEF NonNegative, DraftsNonNegative, NoEarlyHolds
    <3>4. Conserved'
      BY <2>1, <3>1, <3>2, <1>0, <1>a, <1>b DEF Conserved, Live
    <3> QED  BY <3>3, <3>4
  <2> QED  BY <2>2, <2>3
<1>3. ASSUME NEW k \in Keys, DeleteKey(k)
      PROVE  NonNegative' /\ DraftsNonNegative' /\ NoEarlyHolds' /\ Conserved'
  <2>1. /\ \A j \in Keys : row'[j].balance = row[j].balance
        /\ \A j \in Keys \ {k} : row'[j].status = row[j].status
        /\ row'[k].status = "deleted"
        /\ UNCHANGED <<draft, deposited, clobbered>>
    BY <1>3, <1>b DEF DeleteKey, Rows
  <2> QED  BY <2>1, <1>0 DEF NonNegative, DraftsNonNegative, NoEarlyHolds, Conserved, Live
<1>4. ASSUME NEW a \in Admins, NEW k \in Keys, NEW req \in UpdateRequests, UpdateLoad(a, k, req)
      PROVE  NonNegative' /\ DraftsNonNegative' /\ NoEarlyHolds' /\ Conserved'
  <2>1. Merge(row[k], req).balance = row[k].balance
    BY <1>b DEF Merge, Rows
  <2>2. /\ draft' = [draft EXCEPT ![a] = [key |-> k, copy |-> Merge(row[k], req)]]
        /\ UNCHANGED <<row, deposited, clobbered>>
    BY <1>4 DEF UpdateLoad
  <2>3. draft'[a].copy.balance = row[k].balance /\ \A b \in Admins \ {a} : draft'[b] = draft[b]
    BY <2>1, <2>2
  <2> QED
    BY <2>2, <2>3, <1>0 DEF NonNegative, DraftsNonNegative, NoEarlyHolds, Conserved, Live
<1>5. ASSUME NEW a \in Admins, UpdateSave(a)
      PROVE  NonNegative' /\ DraftsNonNegative' /\ NoEarlyHolds' /\ Conserved'
  <2> DEFINE k == draft[a].key
             copy == draft[a].copy
  <2>1. /\ draft[a] # NoDraft
        /\ row' = Save(k, copy)
        /\ clobbered' = IF Live(k) /\ copy.balance = row[k].balance
                           THEN clobbered ELSE clobbered \cup {k}
        /\ draft' = [draft EXCEPT ![a] = NoDraft]
        /\ UNCHANGED deposited
    BY <1>5 DEF UpdateSave
  <2>2. k \in Keys /\ copy \in LiveRows /\ copy.balance >= 0
    BY <2>1 DEF DraftsNonNegative, Drafts
  <2>3. /\ \A j \in Keys \ {k} : row'[j] = row[j]
        /\ row'[k].balance = copy.balance
        /\ row'[k].status = "live"
    BY <2>1, <2>2 DEF Save, OnInsert, LiveRows
  <2>4. \A b \in Admins \ {a} : draft'[b] = draft[b]
    BY <2>1
  <2>5. draft'[a] = NoDraft
    BY <2>1
  <2> HIDE DEF k, copy
  <2>6. NonNegative' /\ DraftsNonNegative' /\ NoEarlyHolds'
    BY <2>2, <2>3, <2>4, <2>5, <1>0 DEF NonNegative, DraftsNonNegative, NoEarlyHolds
  <2>7. Conserved'
    BY <2>1, <2>2, <2>3, <1>0 DEF Conserved, Live
  <2> QED  BY <2>6, <2>7
<1> QED  BY <1>1, <1>2, <1>3, <1>4, <1>5 DEF KeysNext

\* A step that touches no row and moves no reservation.
LEMMA MoneyStutter ==
  ASSUME MoneyInv, HoldsKept, UNCHANGED <<row, deposited, clobbered>>, DraftsNonNegative'
  PROVE  NonNegative' /\ DraftsNonNegative' /\ NoEarlyHolds' /\ Conserved'
<1>1. \A k \in Keys : Held(k)' = Held(k)
  BY HeldUnchanged
<1> QED  BY <1>1 DEF MoneyInv, NonNegative, NoEarlyHolds, Conserved, Live

\* Reserving moves one fee from the balance into a new hold.
LEMMA MoneyReserve ==
  ASSUME MoneyInv, NEW c \in Callers, pc[c] \notin Holding, Goto(c, "reserved"),
         Sufficient(KeyOf[c], PreDeductAmount),
         row' = DeductBalance(KeyOf[c], PreDeductAmount),
         UNCHANGED <<draft, deposited, clobbered>>
  PROVE  NonNegative' /\ DraftsNonNegative' /\ NoEarlyHolds' /\ Conserved'
<1> USE DEF MoneyInv
<1> DEFINE k == KeyOf[c]
<1>1. k \in Keys /\ PreDeductAmount \in Nat
  BY BillingAssumption
<1>2. row \in [Keys -> Rows] /\ \A j \in Keys : row[j].balance \in Int /\ deposited[j] \in Nat
  BY DEF TypeOK, KeysTypeOK, Rows
<1>3. /\ Live(k)
      /\ row[k].balance >= PreDeductAmount
      /\ row' = [row EXCEPT ![k].balance = @ - PreDeductAmount]
  BY DEF DeductBalance, Sufficient
<1>4. /\ \A j \in Keys : row'[j].status = row[j].status
      /\ \A j \in Keys \ {k} : row'[j] = row[j]
      /\ row'[k].balance = row[k].balance - PreDeductAmount
  BY <1>1, <1>2, <1>3 DEF Rows
<1>5. /\ \A j \in Keys \ {k} : Held(j)' = Held(j)
      /\ Held(k)' = Held(k) \cup {c}
      /\ c \notin Held(k)
  BY HeldByMove DEF Holding, Held
<1>6. /\ Cardinality(Held(k)) \in Nat
      /\ Cardinality(Held(k)') = Cardinality(Held(k)) + 1
  BY <1>1, <1>5, HeldFinite, FS_AddElement
<1>7. PreDeductAmount * (Cardinality(Held(k)) + 1) = PreDeductAmount * Cardinality(Held(k)) + PreDeductAmount
  BY <1>1, <1>6
<1>8. PreDeductAmount * Cardinality(Held(k)) \in Int
  BY <1>1, <1>6
<1> HIDE DEF k
<1>9. NonNegative' /\ DraftsNonNegative' /\ NoEarlyHolds'
  BY <1>1, <1>2, <1>3, <1>4, <1>5 DEF NonNegative, DraftsNonNegative, NoEarlyHolds, Live
<1>10. Conserved'
  <2> SUFFICES ASSUME NEW j \in Keys, Live(j)', j \notin clobbered'
               PROVE  row'[j].balance + PreDeductAmount * Cardinality(Held(j)') = deposited'[j]
    BY DEF Conserved
  <2>1. row[j].balance + PreDeductAmount * Cardinality(Held(j)) = deposited[j]
    BY <1>4 DEF Conserved, Live
  <2>2. CASE j = k
    BY <2>1, <2>2, <1>1, <1>2, <1>4, <1>6, <1>7, <1>8
  <2>3. CASE j # k
    BY <2>1, <2>3, <1>4, <1>5
  <2> QED  BY <2>2, <2>3
<1> QED  BY <1>9, <1>10

\* Giving back moves it the other way, unless the key is gone.
LEMMA MoneyGiveBack ==
  ASSUME MoneyInv, NEW c \in Callers, pc[c] \in Holding, Goto(c, "settled"),
         row' = Recharge(KeyOf[c], PreDeductAmount),
         UNCHANGED <<draft, deposited, clobbered>>
  PROVE  NonNegative' /\ DraftsNonNegative' /\ NoEarlyHolds' /\ Conserved'
<1> USE DEF MoneyInv
<1> DEFINE k == KeyOf[c]
<1>1. k \in Keys /\ PreDeductAmount \in Nat
  BY BillingAssumption
<1>2. row \in [Keys -> Rows] /\ \A j \in Keys : row[j].balance \in Int /\ deposited[j] \in Nat
  BY DEF TypeOK, KeysTypeOK, Rows
<1>3. row' = IF Live(k) THEN [row EXCEPT ![k].balance = @ + PreDeductAmount] ELSE row
  BY DEF Recharge
<1>4. /\ \A j \in Keys : row'[j].status = row[j].status
      /\ \A j \in Keys \ {k} : row'[j] = row[j]
      /\ row'[k].balance = IF Live(k) THEN row[k].balance + PreDeductAmount ELSE row[k].balance
  BY <1>1, <1>2, <1>3 DEF Rows
<1>5. /\ \A j \in Keys \ {k} : Held(j)' = Held(j)
      /\ Held(k)' = Held(k) \ {c}
      /\ c \in Held(k)
  BY HeldByMove DEF Holding, Held
<1>6. /\ Cardinality(Held(k)) \in Nat
      /\ Cardinality(Held(k)') = Cardinality(Held(k)) - 1
  BY <1>1, <1>5, HeldFinite, FS_RemoveElement
<1>7. PreDeductAmount * (Cardinality(Held(k)) - 1) = PreDeductAmount * Cardinality(Held(k)) - PreDeductAmount
  BY <1>1, <1>6
<1>8. PreDeductAmount * Cardinality(Held(k)) \in Int
  BY <1>1, <1>6
<1> HIDE DEF k
<1>9. NonNegative' /\ DraftsNonNegative' /\ NoEarlyHolds'
  BY <1>1, <1>2, <1>3, <1>4, <1>5 DEF NonNegative, DraftsNonNegative, NoEarlyHolds, Live
<1>10. Conserved'
  <2> SUFFICES ASSUME NEW j \in Keys, Live(j)', j \notin clobbered'
               PROVE  row'[j].balance + PreDeductAmount * Cardinality(Held(j)') = deposited'[j]
    BY DEF Conserved
  <2>1. Live(j) /\ row[j].balance + PreDeductAmount * Cardinality(Held(j)) = deposited[j]
    BY <1>4 DEF Conserved, Live
  <2>2. CASE j = k
    BY <2>1, <2>2, <1>1, <1>2, <1>4, <1>6, <1>7, <1>8
  <2>3. CASE j # k
    BY <2>1, <2>3, <1>4, <1>5
  <2> QED  BY <2>2, <2>3
<1> QED  BY <1>9, <1>10

LEMMA MoneyNext ==
  ASSUME MoneyInv, [Next]_vars
  PROVE  MoneyInv'
<1> DEFINE Goal == NonNegative' /\ DraftsNonNegative' /\ NoEarlyHolds' /\ Conserved'
<1>0. TypeOK /\ TypeOK' /\ DraftsNonNegative
  BY TypeNext DEF MoneyInv
<1> SUFFICES Goal
  BY <1>0 DEF MoneyInv
<1>1. CASE KeysNext /\ UNCHANGED <<callVars, lockVars>>
  BY <1>1, MoneyKeys
<1>2. ASSUME NEW c \in Callers, Authenticate(c) \/ CheckRateLimit(c) \/ AcquireLock(c) \/ HandlerOutcome(c)
      PROVE  Goal
  <2>1. UNCHANGED <<row, draft, deposited, clobbered>>
    BY <1>2 DEF Authenticate, CheckRateLimit, AcquireLock, HandlerOutcome, keysVars
  <2>2. PICK label : Goto(c, label) /\ (label \in Holding <=> pc[c] \in Holding)
    BY <1>2 DEF Authenticate, CheckRateLimit, AcquireLock, HandlerOutcome, Holding, Entered, Waiting
  <2>3. HoldsKept
    BY <2>2, <1>0 DEF Goto, HoldsKept, TypeOK
  <2> QED  BY <2>1, <2>3, <1>0, MoneyStutter DEF DraftsNonNegative
<1>3. ASSUME NEW c \in Callers, PreDeduct(c) PROVE Goal
  <2>1. pc[c] \notin Holding /\ "refused" \notin Holding
    BY <1>3 DEF PreDeduct, Holding
  <2>2. UNCHANGED <<draft, deposited, clobbered>>
    BY <1>3 DEF PreDeduct
  <2>3. CASE /\ MayReserve(c)
             /\ Goto(c, "reserved")
             /\ row' = DeductBalance(KeyOf[c], PreDeductAmount)
    BY <2>1, <2>2, <2>3, MoneyReserve DEF MayReserve
  <2>4. CASE Goto(c, "refused") /\ UNCHANGED row
    <3>1. HoldsKept
      BY <2>1, <2>4, <1>0 DEF Goto, HoldsKept, TypeOK
    <3> QED  BY <2>2, <2>4, <3>1, <1>0, MoneyStutter DEF DraftsNonNegative
  <2> QED  BY <1>3, <2>3, <2>4 DEF PreDeduct
<1>4. ASSUME NEW c \in Callers, Refund(c) \/ \E usage \in Usages : FinalizeBilling(c, usage) PROVE Goal
  <2>1. pc[c] \in Holding /\ "lost" \in Holding
    BY <1>4, GiveBackStep DEF Holding
  <2>2. UNCHANGED <<draft, deposited, clobbered>>
    BY <1>4, GiveBackStep
  <2>3. CASE Goto(c, "settled") /\ row' = Recharge(KeyOf[c], PreDeductAmount)
    BY <2>1, <2>2, <2>3, MoneyGiveBack
  <2>4. CASE Goto(c, "lost") /\ UNCHANGED row
    <3>1. HoldsKept
      BY <2>1, <2>4, <1>0 DEF Goto, HoldsKept, TypeOK
    <3> QED  BY <2>2, <2>4, <3>1, <1>0, MoneyStutter DEF DraftsNonNegative
  <2> QED  BY <1>4, <2>3, <2>4, GiveBackStep
<1>5. CASE Crash
  <2>1. HoldsKept
    BY <1>5 DEF Crash, HoldsKept, Holding, Final
  <2>2. UNCHANGED <<row, deposited, clobbered>> /\ DraftsNonNegative'
    BY <1>5 DEF Crash, DraftsNonNegative
  <2> QED  BY <2>1, <2>2, MoneyStutter
<1>6. CASE \/ \E c \in Callers : LoseReply(c)
           \/ \E k \in Keys : ExpireLock(k)
           \/ RedisDown \/ RedisBack
           \/ UNCHANGED vars
  <2>1. UNCHANGED <<keysVars, callVars>>
    BY <1>6 DEF LoseReply, ExpireLock, RedisDown, RedisBack, vars
  <2> QED
    BY <2>1, <1>0, MoneyStutter DEF HoldsKept, keysVars, callVars, DraftsNonNegative
<1>7. ASSUME NEW c \in Callers, CallerNext(c) PROVE Goal
  BY <1>7, <1>2, <1>3, <1>4 DEF CallerNext
<1> HIDE DEF Goal
<1> QED  BY <1>1, <1>5, <1>6, <1>7 DEF Next

\* However requests, administrators, expiring locks, crashes and failing
\* queries interleave, no key is ever overdrawn.
THEOREM NeverOverdrawn == Spec => []NonNegative
<1>1. MoneyInv => NonNegative
  BY DEF MoneyInv
<1> QED  BY <1>1, MoneyInit, MoneyNext, PTL DEF Spec

\* Every deposit is accounted for by the balance and the reservations held,
\* on every key whose money no save has overwritten.
THEOREM DepositsConserved == Spec => []Conserved
<1>1. MoneyInv => Conserved
  BY DEF MoneyInv
<1> QED  BY <1>1, MoneyInit, MoneyNext, PTL DEF Spec

-----------------------------------------------------------------------------
(* The lock.                                                               *)

LEMMA InsideFinite ==
  ASSUME NEW k \in Keys
  PROVE  IsFiniteSet(InsideOf(k)) /\ Cardinality(InsideOf(k)) \in Nat
<1>1. InsideOf(k) \subseteq Callers
  BY DEF InsideOf
<1> QED  BY <1>1, BillingAssumption, FS_Subset, FS_CardinalityType

LEMMA InsideByMove ==
  ASSUME TypeOK, NEW c \in Callers, NEW label, Goto(c, label)
  PROVE  /\ \A k \in Keys \ {KeyOf[c]} : InsideOf(k)' = InsideOf(k)
         /\ InsideOf(KeyOf[c])' = IF label \in Inside THEN InsideOf(KeyOf[c]) \cup {c}
                                                     ELSE InsideOf(KeyOf[c]) \ {c}
BY DEF InsideOf, Goto, TypeOK

\* A step that enters or leaves no critical section and leaves the lock alone.
LEMMA LockStutter ==
  ASSUME LockBudget, \A c \in Callers : pc'[c] \in Inside <=> pc[c] \in Inside,
         UNCHANGED <<locked, overruns>>
  PROVE  LockBudget'
<1>1. \A k \in Keys : InsideOf(k)' = InsideOf(k)
  BY DEF InsideOf
<1> QED  BY <1>1 DEF LockBudget, LockSlack

LEMMA LockNext ==
  ASSUME TypeOK, LockBudget, [Next]_vars
  PROVE  LockBudget'
<1>0. /\ locked \in [Keys -> BOOLEAN]
      /\ overruns \in [Keys -> Nat]
      /\ \A k \in Keys : Cardinality(InsideOf(k)) \in Nat
  BY InsideFinite DEF TypeOK
<1>1. CASE KeysNext /\ UNCHANGED <<callVars, lockVars>>
  BY <1>1, LockStutter DEF callVars, lockVars
<1>2. ASSUME NEW c \in Callers, Authenticate(c) \/ CheckRateLimit(c) \/ HandlerOutcome(c)
      PROVE  LockBudget'
  <2>1. PICK label : Goto(c, label) /\ label \notin Inside /\ pc[c] \notin Inside
    BY <1>2 DEF Authenticate, CheckRateLimit, HandlerOutcome, Inside
  <2>2. UNCHANGED <<locked, overruns>>
    BY <1>2 DEF Authenticate, CheckRateLimit, HandlerOutcome, lockVars
  <2>3. \A d \in Callers : pc'[d] \in Inside <=> pc[d] \in Inside
    BY <2>1 DEF Goto, TypeOK
  <2> QED  BY <2>2, <2>3, LockStutter
<1>3. ASSUME NEW c \in Callers, AcquireLock(c) PROVE LockBudget'
  <2> DEFINE k == KeyOf[c]
  <2>1. /\ k \in Keys
        /\ ~locked[k]
        /\ locked' = [locked EXCEPT ![k] = TRUE]
        /\ UNCHANGED overruns
    BY <1>3, BillingAssumption DEF AcquireLock
  <2>2. Entered[pc[c]] \in Inside /\ pc[c] \notin Inside
    BY <1>3 DEF AcquireLock, Entered, Waiting, Inside
  <2>3. /\ \A j \in Keys \ {k} : InsideOf(j)' = InsideOf(j)
        /\ InsideOf(k)' = InsideOf(k) \cup {c}
        /\ c \notin InsideOf(k)
    BY <1>3, <2>2, InsideByMove DEF AcquireLock, InsideOf
  <2>4. Cardinality(InsideOf(k)') = Cardinality(InsideOf(k)) + 1
    BY <2>1, <2>3, InsideFinite, FS_AddElement
  <2>5. LockSlack(k) = 1 /\ LockSlack(k)' = 0 /\ \A j \in Keys \ {k} : LockSlack(j)' = LockSlack(j)
    BY <1>0, <2>1 DEF LockSlack
  <2> HIDE DEF k
  <2> QED  BY <1>0, <2>1, <2>3, <2>4, <2>5 DEF LockBudget
<1>4. ASSUME NEW c \in Callers,
              PreDeduct(c) \/ Refund(c) \/ \E usage \in Usages : FinalizeBilling(c, usage)
      PROVE LockBudget'
  <2> DEFINE k == KeyOf[c]
  <2>1. /\ k \in Keys
        /\ \/ UNCHANGED locked
           \/ locked' = [locked EXCEPT ![k] = FALSE]
        /\ UNCHANGED overruns
    BY <1>4, GiveBackStep, BillingAssumption DEF PreDeduct, ReleaseLock
  <2>2. PICK label : Goto(c, label) /\ label \notin Inside /\ pc[c] \in Inside
    BY <1>4, GiveBackStep DEF PreDeduct, Inside
  <2>3. /\ \A j \in Keys \ {k} : InsideOf(j)' = InsideOf(j)
        /\ InsideOf(k)' = InsideOf(k) \ {c}
        /\ c \in InsideOf(k)
    BY <2>2, InsideByMove DEF InsideOf
  <2>4. Cardinality(InsideOf(k)') = Cardinality(InsideOf(k)) - 1
    BY <2>1, <2>3, InsideFinite, FS_RemoveElement
  <2>5. /\ LockSlack(k) \in {0, 1} /\ LockSlack(k)' \in {0, 1}
        /\ LockSlack(k)' <= LockSlack(k) + 1
        /\ \A j \in Keys \ {k} : LockSlack(j)' = LockSlack(j)
    BY <1>0, <2>1 DEF LockSlack
  <2> HIDE DEF k
  <2> QED  BY <1>0, <2>1, <2>3, <2>4, <2>5 DEF LockBudget
<1>5. ASSUME NEW k \in Keys, ExpireLock(k) PROVE LockBudget'
  <2>1. /\ locked' = [locked EXCEPT ![k] = FALSE]
        /\ UNCHANGED pc
        /\ locked[k]
    BY <1>5 DEF ExpireLock, callVars
  <2>2. \A j \in Keys : InsideOf(j)' = InsideOf(j)
    BY <2>1 DEF InsideOf
  <2>3. LockSlack(k) = 0 /\ LockSlack(k)' = 1 /\ \A j \in Keys \ {k} : LockSlack(j)' = LockSlack(j)
    BY <1>0, <2>1 DEF LockSlack
  <2>4. CASE InsideOf(k) = {}
    <3>1. UNCHANGED overruns /\ Cardinality(InsideOf(k)) = 0
      BY <1>5, <2>4, FS_EmptySet DEF ExpireLock
    <3> QED  BY <1>0, <2>2, <2>3, <3>1 DEF LockBudget
  <2>5. CASE InsideOf(k) # {}
    <3>1. overruns' = [overruns EXCEPT ![k] = @ + 1]
      BY <1>5, <2>5 DEF ExpireLock
    <3> QED  BY <1>0, <2>2, <2>3, <3>1 DEF LockBudget
  <2> QED  BY <2>4, <2>5
<1>6. CASE Crash
  <2>1. \A k \in Keys : InsideOf(k)' = {}
    BY <1>6 DEF Crash, InsideOf, Inside, Final, Holding
  <2>2. \A k \in Keys : Cardinality(InsideOf(k)') = 0
    BY <2>1, FS_EmptySet
  <2>3. UNCHANGED overruns /\ \A k \in Keys : LockSlack(k)' \in {0, 1}
    BY <1>6 DEF Crash, LockSlack
  <2> QED  BY <1>0, <2>2, <2>3 DEF LockBudget
<1>7. CASE RedisDown \/ RedisBack \/ UNCHANGED vars
  BY <1>7, LockStutter DEF RedisDown, RedisBack, vars, callVars, lockVars
<1>9. ASSUME NEW c \in Callers, LoseReply(c) PROVE LockBudget'
  <2> DEFINE k == KeyOf[c]
  <2>1. /\ k \in Keys
        /\ locked' = [locked EXCEPT ![k] = TRUE]
        /\ UNCHANGED <<pc, overruns>>
    BY <1>9, BillingAssumption DEF LoseReply, callVars
  <2>2. \A j \in Keys : InsideOf(j)' = InsideOf(j)
    BY <2>1 DEF InsideOf
  <2>3. \A j \in Keys : /\ LockSlack(j) \in {0, 1} /\ LockSlack(j)' \in {0, 1}
                        /\ LockSlack(j)' <= LockSlack(j)
    BY <1>0, <2>1 DEF LockSlack
  <2> HIDE DEF k
  <2> QED  BY <1>0, <2>1, <2>2, <2>3 DEF LockBudget
<1>8. ASSUME NEW c \in Callers, CallerNext(c) PROVE LockBudget'
  BY <1>8, <1>2, <1>3, <1>4 DEF CallerNext
<1> QED  BY <1>1, <1>5, <1>6, <1>7, <1>8, <1>9 DEF Next

LEMMA LockInit == Init => LockBudget
<1> SUFFICES ASSUME Init PROVE LockBudget
  OBVIOUS
<1>1. \A k \in Keys : InsideOf(k) = {} /\ ~locked[k] /\ overruns[k] = 0
  BY DEF Init, InsideOf, Inside
<1> QED  BY <1>1, FS_EmptySet DEF LockBudget, LockSlack

\* At most one request is inside the critical section of a key, plus one for
\* each time its lock ran out under a request: an unlock that deletes somebody
\* else's lock key never lets in more than that.
THEOREM OverlapBounded == Spec => []LockBudget
<1>1. Init => TypeOK /\ LockBudget
  BY TypeInit, LockInit
<1>2. TypeOK /\ LockBudget /\ [Next]_vars => (TypeOK /\ LockBudget)'
  BY TypeNext, LockNext
<1> QED  BY <1>1, <1>2, PTL DEF Spec

\* The mutexes never run out.
NoOverruns == \A k \in Keys : overruns[k] = 0

\* Without Redis, billing operations on one key exclude each other.
THEOREM MemoryLockExcludes == ASSUME ~UseRedis PROVE Spec => []MutualExclusion
<1>1. Init => TypeOK /\ LockBudget /\ NoOverruns
  BY TypeInit, LockInit DEF Init, NoOverruns
<1>2. NoOverruns /\ [Next]_vars => NoOverruns'
  BY DEF NoOverruns, Next, CallerNext, Authenticate, CheckRateLimit, AcquireLock, PreDeduct,
         HandlerOutcome, Refund, FinalizeBilling, ReleaseLock, LoseReply, ExpireLock, Crash, RedisDown,
         RedisBack, vars, lockVars
<1>3. TypeOK /\ LockBudget /\ NoOverruns /\ [Next]_vars => (TypeOK /\ LockBudget /\ NoOverruns)'
  BY <1>2, TypeNext, LockNext
<1>4. LockBudget /\ NoOverruns => MutualExclusion
  <2> SUFFICES ASSUME LockBudget, NoOverruns, NEW k \in Keys
               PROVE  Cardinality(InsideOf(k)) <= 1
    BY DEF MutualExclusion
  <2>1. Cardinality(InsideOf(k)) \in Nat /\ LockSlack(k) \in {0, 1} /\ overruns[k] = 0
    BY InsideFinite DEF LockSlack, NoOverruns
  <2> QED  BY <2>1 DEF LockBudget
<1> QED  BY <1>1, <1>3, <1>4, PTL DEF Spec

=============================================================================
