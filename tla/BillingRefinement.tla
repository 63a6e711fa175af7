------------------------- MODULE BillingRefinement -------------------------
(***************************************************************************)
(* Proof that Billing implements PrepaidAccount: every step of a request,  *)
(* an administrator, the lock or the environment is one step of the        *)
(* abstract account or leaves it as it is.                                 *)
(***************************************************************************)
EXTENDS BillingProofs

\* An update works on a copy of a row that has existed: the one of its key.
DraftsExist == \A a \in Admins : draft[a] # NoDraft => row[draft[a].key].status # "absent"

RefinementInv == MoneyInv /\ DraftsExist

LEMMA DraftsExistInit == Init => DraftsExist
BY DEF Init, KeysInit, DraftsExist

\* Only a query that brings a key back changes a status, and none erases a row.
LEMMA StatusKept ==
  ASSUME TypeOK, NEW k \in Keys, NEW amount \in Int
  PROVE  /\ \A j \in Keys : /\ Recharge(k, amount)[j].status = row[j].status
                            /\ DeductBalance(k, amount)[j].status = row[j].status
         /\ \A j \in Keys \ {k} : /\ Recharge(k, amount)[j].balance = row[j].balance
                                  /\ DeductBalance(k, amount)[j].balance = row[j].balance
         /\ Recharge(k, amount)[k].balance =
              IF Live(k) THEN row[k].balance + amount ELSE row[k].balance
         /\ Sufficient(k, amount) => DeductBalance(k, amount)[k].balance = row[k].balance - amount
BY DEF TypeOK, KeysTypeOK, Recharge, DeductBalance, Sufficient, Live, Rows

LEMMA SavedRow ==
  ASSUME TypeOK, NEW k \in Keys, NEW copy \in LiveRows
  PROVE  /\ Save(k, copy)[k].status = "live"
         /\ Save(k, copy)[k].balance = copy.balance
         /\ \A j \in Keys \ {k} : Save(k, copy)[j] = row[j]
<1>1. OnInsert(copy).status = "live" /\ OnInsert(copy).balance = copy.balance
  BY DEF OnInsert, LiveRows
<1> QED  BY <1>1 DEF TypeOK, KeysTypeOK, Save, LiveRows

LEMMA DraftsExistNext ==
  ASSUME TypeOK, DraftsExist, [Next]_vars
  PROVE  DraftsExist'
<1> SUFFICES ASSUME NEW a \in Admins, draft'[a] # NoDraft
             PROVE  row'[draft'[a].key].status # "absent"
  BY DEF DraftsExist
<1> USE DEF TypeOK, KeysTypeOK
<1>1. CASE KeysNext
  <2>1. ASSUME NEW k \in Keys, NEW req \in CreateRequests, CreateKey(k, req)
        PROVE  row'[draft'[a].key].status # "absent"
    <3>1. OnInsert([status |-> "live", balance |-> req.balance,
                    limits |-> req.limits, active |-> req.active]).status = "live"
      BY DEF OnInsert
    <3> QED  BY <2>1, <3>1 DEF CreateKey, DraftsExist, Drafts
  <2>2. ASSUME NEW k \in Keys, NEW amount \in Recharges, RechargeKey(k, amount)
        PROVE  row'[draft'[a].key].status # "absent"
    <3>1. amount \in Int /\ row' = Recharge(k, amount) /\ UNCHANGED draft
      BY <2>2, RequestsAssumption DEF RechargeKey
    <3> QED  BY <3>1, StatusKept DEF DraftsExist, Drafts
  <2>3. ASSUME NEW k \in Keys, DeleteKey(k) PROVE row'[draft'[a].key].status # "absent"
    BY <2>3 DEF DeleteKey, DraftsExist, Drafts, Rows
  <2>4. ASSUME NEW b \in Admins, NEW k \in Keys, NEW req \in UpdateRequests, UpdateLoad(b, k, req)
        PROVE  row'[draft'[a].key].status # "absent"
    BY <2>4 DEF UpdateLoad, Live, DraftsExist
  <2>5. ASSUME NEW b \in Admins, UpdateSave(b) PROVE row'[draft'[a].key].status # "absent"
    <3>1. /\ draft[b].key \in Keys /\ draft[b].copy \in LiveRows
          /\ row' = Save(draft[b].key, draft[b].copy)
          /\ a # b /\ draft'[a] = draft[a]
      BY <2>5 DEF UpdateSave, Drafts
    <3> QED  BY <3>1, SavedRow DEF DraftsExist, Drafts
  <2> QED  BY <1>1, <2>1, <2>2, <2>3, <2>4, <2>5 DEF KeysNext
<1>2. ASSUME NEW c \in Callers,
              PreDeduct(c) \/ Refund(c) \/ \E usage \in Usages : FinalizeBilling(c, usage)
      PROVE  row'[draft'[a].key].status # "absent"
  <2>1. /\ UNCHANGED draft
        /\ \/ row' = DeductBalance(KeyOf[c], PreDeductAmount)
           \/ row' = Recharge(KeyOf[c], PreDeductAmount)
           \/ row' = row
    BY <1>2, GiveBackStep DEF PreDeduct
  <2>2. \A j \in Keys : row'[j].status = row[j].status
    <3> HIDE DEF TypeOK, KeysTypeOK
    <3>1. KeyOf[c] \in Keys /\ PreDeductAmount \in Int
      BY QueryStep
    <3> QED  BY <2>1, <3>1, StatusKept
  <2> QED  BY <2>1, <2>2 DEF DraftsExist, Drafts
<1>3. CASE \/ \E c \in Callers : \/ Authenticate(c) \/ CheckRateLimit(c) \/ AcquireLock(c)
                                 \/ HandlerOutcome(c) \/ LoseReply(c)
           \/ \E k \in Keys : ExpireLock(k)
           \/ Crash \/ RedisDown \/ RedisBack
           \/ UNCHANGED vars
  <2>1. UNCHANGED row /\ (UNCHANGED draft \/ draft' = [b \in Admins |-> NoDraft])
    BY <1>3 DEF Authenticate, CheckRateLimit, AcquireLock, HandlerOutcome, LoseReply,
                ExpireLock, Crash, RedisDown, RedisBack, vars, keysVars
  <2> QED  BY <2>1 DEF DraftsExist, Drafts
<1> QED  BY <1>1, <1>2, <1>3 DEF Next, CallerNext

LEMMA RefinementInvInductive ==
  /\ Init => RefinementInv
  /\ RefinementInv /\ [Next]_vars => RefinementInv'
BY MoneyInit, MoneyNext, DraftsExistInit, DraftsExistNext DEF RefinementInv, MoneyInv

-----------------------------------------------------------------------------
(* Administrators.                                                         *)

\* What a step does to the account, in terms of the rows and the requests.
LEMMA RowMap ==
  ASSUME TypeOK, NEW k \in Keys, row' \in [Keys -> Rows],
         \A j \in Keys \ {k} : row'[j].status = row[j].status /\ row'[j].balance = row[j].balance
  PROVE  /\ AccountStates' = [AccountStates EXCEPT ![k] = AccountState(row'[k].status)]
         /\ Funds' = [Funds EXCEPT ![k] = row'[k].balance]
         /\ AccountStates[k] = AccountState(row[k].status)
         /\ Funds[k] = row[k].balance
         /\ Funds'[k] = row'[k].balance
         /\ row'[k].status = row[k].status => AccountStates' = AccountStates
         /\ row'[k].balance = row[k].balance => Funds' = Funds
<1> USE DEF AccountStates, Funds
<1>1. AccountStates' = [j \in Keys |-> AccountState(row'[j].status)]
  OBVIOUS
<1>2. Funds' = [j \in Keys |-> row'[j].balance]
  OBVIOUS
<1> QED  BY <1>1, <1>2

LEMMA StateNames ==
  /\ AccountState("absent") = "none"
  /\ AccountState("live") = "open"
  /\ AccountState("deleted") = "closed"
BY DEF AccountState

\* An administrator's request opens, feeds, closes or overwrites an account,
\* or it does nothing to it.
LEMMA KeysStep ==
  ASSUME RefinementInv, KeysNext, UNCHANGED callVars
  PROVE  [Account!Next]_(Account!vars)
<1> USE StateNames
<1>0. Reservations' = Reservations
  BY DEF callVars, Reservations
<1>a. TypeOK /\ row \in [Keys -> Rows] /\ row' \in [Keys -> Rows]
  BY KeysTypeNext DEF RefinementInv, MoneyInv, TypeOK, KeysTypeOK
<1>1. ASSUME NEW k \in Keys, NEW req \in CreateRequests, CreateKey(k, req)
      PROVE  Account!Open(k)
  <2>1. /\ req.balance \in Nat
        /\ row[k].status = "absent"
        /\ row'[k].status = "live" /\ row'[k].balance = req.balance
        /\ \A j \in Keys \ {k} : row'[j] = row[j]
    BY <1>1, <1>a, RequestsAssumption DEF CreateKey, OnInsert
  <2> QED  BY <1>0, <1>a, <2>1, RowMap DEF Account!Open, Account!FundsChange
<1>2. ASSUME NEW k \in Keys, NEW amount \in Recharges, RechargeKey(k, amount)
      PROVE  Account!Deposit(k) \/ UNCHANGED Account!vars
  <2>1. /\ amount \in Nat
        /\ row[k].balance \in Nat
        /\ row' = Recharge(k, amount)
    BY <1>2, <1>a, RequestsAssumption DEF RechargeKey, RefinementInv, MoneyInv, NonNegative, Rows
  <2>2. CASE Live(k)
    <3>1. /\ row[k].status = "live"
          /\ row'[k].balance = row[k].balance + amount
          /\ \A j \in Keys \ {k} : row'[j].balance = row[j].balance
          /\ \A j \in Keys : row'[j].status = row[j].status
      BY <1>a, <2>1, <2>2, StatusKept DEF Live
    <3> QED  BY <1>0, <1>a, <2>1, <3>1, RowMap DEF Account!Deposit, Account!FundsChange
  <2>3. CASE ~Live(k)
    BY <1>0, <2>1, <2>3 DEF Recharge, Account!vars, AccountStates, Funds
  <2> QED  BY <2>2, <2>3
<1>3. ASSUME NEW k \in Keys, DeleteKey(k) PROVE Account!Close(k)
  <2>1. /\ row[k].status = "live"
        /\ row'[k].status = "deleted" /\ row'[k].balance = row[k].balance
        /\ \A j \in Keys \ {k} : row'[j] = row[j]
    BY <1>3, <1>a DEF DeleteKey, Live, Rows
  <2> QED  BY <1>0, <1>a, <2>1, RowMap DEF Account!Close
<1>4. ASSUME NEW a \in Admins, NEW k \in Keys, NEW req \in UpdateRequests, UpdateLoad(a, k, req)
      PROVE  UNCHANGED Account!vars
  BY <1>0, <1>4 DEF UpdateLoad, Account!vars, AccountStates, Funds
<1>5. ASSUME NEW a \in Admins, UpdateSave(a)
      PROVE  \E k \in Keys : Account!Overwrite(k)
  <2>1. PICK k \in Keys : k = draft[a].key
    BY <1>5 DEF UpdateSave, Drafts, RefinementInv, MoneyInv, TypeOK, KeysTypeOK
  <2>2. /\ draft[a].copy \in LiveRows
        /\ draft[a].copy.balance \in Nat
        /\ row' = Save(k, draft[a].copy)
        /\ row[k].status \in {"live", "deleted"}
    BY <1>5, <1>a, <2>1
    DEF UpdateSave, Drafts, LiveRows, DraftsNonNegative, DraftsExist, Rows,
        RefinementInv, MoneyInv, TypeOK, KeysTypeOK
  <2>3. /\ row'[k].status = "live" /\ row'[k].balance \in Nat
        /\ \A j \in Keys \ {k} : row'[j] = row[j]
    BY <1>a, <2>2, SavedRow
  <2>4. AccountStates[k] \in {"open", "closed"}
    BY <1>a, <2>2, <2>3, RowMap
  <2>5. Account!Overwrite(k)
    BY <1>0, <1>a, <2>3, <2>4, RowMap DEF Account!Overwrite, Account!FundsChange
  <2> QED  BY <2>5
<1>7. \/ \E k \in Keys : Account!Open(k) \/ Account!Deposit(k) \/ Account!Close(k) \/ Account!Overwrite(k)
      \/ UNCHANGED Account!vars
  BY <1>1, <1>2, <1>3, <1>4, <1>5 DEF KeysNext
<1> QED  BY <1>7 DEF Account!Next

-----------------------------------------------------------------------------
(* Requests and the environment.                                           *)

LEMMA ReservationNames ==
  /\ \A label \in {"idle", "authed", "admitted", "predebit", "refused", "free", "dropped"} :
       Reservation(label) = "none"
  /\ \A label \in {"reserved", "toRefund", "toFinalize", "refunding", "finalizing"} :
       Reservation(label) = "held"
  /\ Reservation("settled") = "given back"
  /\ \A label \in {"kept", "lost"} : Reservation(label) = "forfeited"
BY DEF Reservation, Holding

\* A request that moves changes its own reservation only.
LEMMA HoldMap ==
  ASSUME TypeOK, NEW c \in Callers, NEW label, Goto(c, label)
  PROVE  /\ Reservations' = [Reservations EXCEPT ![c] = Reservation(label)]
         /\ Reservations[c] = Reservation(pc[c])
         /\ Reservation(label) = Reservation(pc[c]) => Reservations' = Reservations
<1>1. Reservations' = [d \in Callers |-> Reservation(pc'[d])]
  BY DEF Reservations
<1>2. pc'[c] = label /\ \A d \in Callers \ {c} : pc'[d] = pc[d]
  BY DEF Goto, TypeOK
<1> QED  BY <1>1, <1>2 DEF Reservations

\* The account is untouched by a move between stages that mean the same to it.
LEMMA StutterStep ==
  ASSUME TypeOK, NEW c \in Callers, NEW label, Goto(c, label),
         Reservation(label) = Reservation(pc[c]), UNCHANGED row
  PROVE  UNCHANGED Account!vars
BY HoldMap DEF Account!vars, AccountStates, Funds

\* A reservation that is kept, or whose refund fails, is forfeited.
LEMMA ForfeitStep ==
  ASSUME TypeOK, NEW c \in Callers, NEW label, Goto(c, label), UNCHANGED row,
         Reservation(pc[c]) = "held", Reservation(label) = "forfeited"
  PROVE  Account!Next
<1>1. /\ Reservations[c] = "held"
      /\ Reservations' = [Reservations EXCEPT ![c] = "forfeited"]
  BY HoldMap
<1>2. /\ \A r \in {c} : Reservations[r] = "held"
      /\ Reservations' = [r \in Callers |-> IF r \in {c} THEN "forfeited" ELSE Reservations[r]]
  BY <1>1 DEF Reservations
<1>3. UNCHANGED <<AccountStates, Funds>>
  BY DEF AccountStates, Funds
<1>4. Account!Forfeit({c})
  BY <1>2, <1>3 DEF Account!Forfeit
<1> QED  BY <1>4 DEF Account!Next

LEMMA ReserveStep ==
  ASSUME RefinementInv, NEW c \in Callers, pc[c] = "predebit", Goto(c, "reserved"),
         Sufficient(KeyOf[c], PreDeductAmount),
         row' = DeductBalance(KeyOf[c], PreDeductAmount)
  PROVE  Account!Reserve(c)
<1>a. TypeOK /\ row \in [Keys -> Rows]
  BY DEF RefinementInv, MoneyInv, TypeOK, KeysTypeOK
<1>1. PICK k \in Keys : k = KeyOf[c]
  BY BillingAssumption
<1>2. PreDeductAmount \in Int
  BY BillingAssumption
<1>3. row' \in [Keys -> Rows]
  BY <1>a, <1>1, <1>2, QueryTypes
<1>4. /\ row[k].status = "live" /\ row[k].balance >= PreDeductAmount
      /\ row'[k].balance = row[k].balance - PreDeductAmount
      /\ \A j \in Keys \ {k} : row'[j].balance = row[j].balance
      /\ \A j \in Keys : row'[j].status = row[j].status
  BY <1>a, <1>1, <1>2, StatusKept DEF Sufficient, Live
<1>5. /\ AccountStates[k] = "open" /\ Funds[k] >= PreDeductAmount
      /\ Funds' = [Funds EXCEPT ![k] = Funds[k] - PreDeductAmount]
      /\ UNCHANGED AccountStates
  BY <1>a, <1>3, <1>4, RowMap, StateNames
<1>6. Reservations[c] = "none" /\ Reservations' = [Reservations EXCEPT ![c] = "held"]
  <2>1. Reservation("predebit") = "none" /\ Reservation("reserved") = "held"
    BY ReservationNames
  <2> QED  BY <1>a, <2>1, HoldMap
<1> QED  BY <1>1, <1>5, <1>6 DEF Account!Reserve

LEMMA GiveBackRefines ==
  ASSUME RefinementInv, NEW c \in Callers, Reservation(pc[c]) = "held", Goto(c, "settled"),
         row' = Recharge(KeyOf[c], PreDeductAmount)
  PROVE  Account!GiveBack(c)
<1>a. TypeOK /\ row \in [Keys -> Rows]
  BY DEF RefinementInv, MoneyInv, TypeOK, KeysTypeOK
<1>1. PICK k \in Keys : k = KeyOf[c]
  BY BillingAssumption
<1>2. PreDeductAmount \in Int
  BY BillingAssumption
<1>3. row' \in [Keys -> Rows]
  BY <1>a, <1>1, <1>2, QueryTypes
<1>4. /\ row'[k].balance = IF Live(k) THEN row[k].balance + PreDeductAmount ELSE row[k].balance
      /\ \A j \in Keys \ {k} : row'[j].balance = row[j].balance
      /\ \A j \in Keys : row'[j].status = row[j].status
  BY <1>a, <1>1, <1>2, StatusKept
<1>5. UNCHANGED AccountStates /\ Funds[k] = row[k].balance
  BY <1>a, <1>3, <1>4, RowMap
<1>6. AccountStates[k] = "open" <=> Live(k)
  BY <1>a DEF AccountStates, AccountState, Live, Rows
<1>7. Funds' = IF AccountStates[k] = "open" THEN [Funds EXCEPT ![k] = @ + PreDeductAmount] ELSE Funds
  <2>1. CASE Live(k)
    BY <2>1, <1>a, <1>3, <1>4, <1>5, <1>6, RowMap
  <2>2. CASE ~Live(k)
    BY <2>2, <1>a, <1>3, <1>4, <1>5, <1>6, RowMap
  <2> QED  BY <2>1, <2>2
<1>8. Reservations[c] = "held" /\ Reservations' = [Reservations EXCEPT ![c] = "given back"]
  <2>1. Reservation("settled") = "given back"
    BY ReservationNames
  <2> QED  BY <1>a, <2>1, HoldMap
<1> QED  BY <1>1, <1>5, <1>7, <1>8 DEF Account!GiveBack

\* A crash forfeits every reservation that is held, all at once.
LEMMA CrashStep ==
  ASSUME TypeOK, Crash
  PROVE  [Account!Next]_(Account!vars)
<1> DEFINE R == {c \in Callers : pc[c] \in Holding \ {"kept", "lost"}}
<1>1. UNCHANGED <<AccountStates, Funds>>
  BY DEF Crash, AccountStates, Funds
<1>2. \A c \in Callers : /\ Reservation(pc[c]) = "held" <=> c \in R
                         /\ c \in R => Reservation(pc'[c]) = "forfeited"
                         /\ c \notin R => Reservation(pc'[c]) = Reservation(pc[c])
  BY DEF TypeOK, Crash, Reservation, Holding, PCs, Final, Inside, Waiting, Entered
<1>3. Reservations' = [c \in Callers |-> Reservation(pc'[c])]
  BY DEF Reservations
<1>4. \A c \in R : Reservations[c] = "held"
  BY <1>2 DEF Reservations
<1>5. Reservations' = [c \in Callers |-> IF c \in R THEN "forfeited" ELSE Reservations[c]]
  BY <1>2, <1>3 DEF Reservations
<1>6. R \subseteq Callers
  OBVIOUS
<1> HIDE DEF R
<1>7. CASE R = {}
  <2>1. UNCHANGED Reservations
    BY <1>5, <1>7 DEF Reservations
  <2> QED  BY <1>1, <2>1 DEF Account!vars
<1>8. CASE R # {}
  <2>1. Account!Forfeit(R)
    BY <1>1, <1>4, <1>5, <1>8 DEF Account!Forfeit
  <2> QED  BY <1>6, <2>1 DEF Account!Next
<1> QED  BY <1>7, <1>8

LEMMA StepRefines ==
  ASSUME RefinementInv, [Next]_vars
  PROVE  [Account!Next]_(Account!vars)
<1> DEFINE Goal == [Account!Next]_(Account!vars)
<1> SUFFICES Goal
  OBVIOUS
<1>0. TypeOK
  BY DEF RefinementInv, MoneyInv
<1>1. CASE KeysNext /\ UNCHANGED <<callVars, lockVars>>
  BY <1>1, KeysStep
<1>2. ASSUME NEW c \in Callers, Authenticate(c) \/ CheckRateLimit(c) \/ AcquireLock(c)
      PROVE  Goal
  <2>1. UNCHANGED row
    BY <1>2 DEF Authenticate, CheckRateLimit, AcquireLock, keysVars
  <2>2. PICK label : Goto(c, label) /\ Reservation(label) = Reservation(pc[c])
    <3>1. CASE Authenticate(c) \/ CheckRateLimit(c)
      BY <3>1, ReservationNames DEF Authenticate, CheckRateLimit
    <3>2. CASE AcquireLock(c)
      <4>1. Goto(c, Entered[pc[c]]) /\ pc[c] \in {"admitted", "toRefund", "toFinalize"}
        BY <3>2 DEF AcquireLock, Waiting, Entered
      <4>2. /\ Entered["admitted"] = "predebit"
            /\ Entered["toRefund"] = "refunding"
            /\ Entered["toFinalize"] = "finalizing"
        BY DEF Entered
      <4>3. Reservation(Entered[pc[c]]) = Reservation(pc[c])
        BY <4>1, <4>2, ReservationNames
      <4> QED  BY <4>1, <4>3
    <3> QED  BY <1>2, <3>1, <3>2
  <2> QED  BY <1>0, <2>1, <2>2, StutterStep
<1>3. ASSUME NEW c \in Callers, PreDeduct(c) PROVE Goal
  <2>1. pc[c] = "predebit"
    BY <1>3 DEF PreDeduct
  <2>2. CASE /\ MayReserve(c)
             /\ Goto(c, "reserved")
             /\ row' = DeductBalance(KeyOf[c], PreDeductAmount)
    <3>1. Account!Reserve(c)
      BY <2>1, <2>2, ReserveStep DEF MayReserve
    <3> QED  BY <3>1 DEF Account!Next
  <2>3. CASE Goto(c, "refused") /\ UNCHANGED row
    BY <1>0, <2>1, <2>3, ReservationNames, StutterStep
  <2> QED  BY <1>3, <2>2, <2>3 DEF PreDeduct
<1>4. ASSUME NEW c \in Callers, HandlerOutcome(c) PROVE Goal
  <2>1. pc[c] = "reserved" /\ UNCHANGED row
    BY <1>4 DEF HandlerOutcome, keysVars
  <2>2. PICK label \in {"toRefund", "toFinalize", "kept"} : Goto(c, label)
    BY <1>4 DEF HandlerOutcome
  <2>3. CASE label = "kept"
    BY <1>0, <2>1, <2>2, <2>3, ReservationNames, ForfeitStep
  <2>4. CASE label # "kept"
    BY <1>0, <2>1, <2>2, <2>4, ReservationNames, StutterStep
  <2> QED  BY <2>3, <2>4
<1>5. ASSUME NEW c \in Callers, Refund(c) \/ \E usage \in Usages : FinalizeBilling(c, usage)
      PROVE  Goal
  <2>1. Reservation(pc[c]) = "held"
    BY <1>5, GiveBackStep, ReservationNames
  <2>2. CASE Goto(c, "settled") /\ row' = Recharge(KeyOf[c], PreDeductAmount)
    <3>1. Account!GiveBack(c)
      BY <2>1, <2>2, GiveBackRefines
    <3> QED  BY <3>1 DEF Account!Next
  <2>3. CASE Goto(c, "lost") /\ UNCHANGED row
    BY <1>0, <2>1, <2>3, ReservationNames, ForfeitStep
  <2> QED  BY <1>5, <2>2, <2>3, GiveBackStep
<1>6. CASE Crash
  BY <1>0, <1>6, CrashStep
<1>7. CASE \/ \E c \in Callers : LoseReply(c)
           \/ \E k \in Keys : ExpireLock(k)
           \/ RedisDown \/ RedisBack
           \/ UNCHANGED vars
  <2>1. UNCHANGED <<row, pc>>
    BY <1>7 DEF LoseReply, ExpireLock, RedisDown, RedisBack, vars, callVars, keysVars
  <2> QED  BY <2>1 DEF Account!vars, AccountStates, Funds, Reservations
<1>8. ASSUME NEW c \in Callers, CallerNext(c) PROVE Goal
  BY <1>8, <1>2, <1>3, <1>4, <1>5 DEF CallerNext
<1> HIDE DEF Goal
<1> QED  BY <1>1, <1>6, <1>7, <1>8 DEF Next

LEMMA InitRefines == Init => Account!Init
<1> SUFFICES ASSUME Init PROVE Account!Init
  OBVIOUS
<1>1. /\ \A k \in Keys : row[k].status = "absent" /\ row[k].balance = 0
      /\ \A c \in Callers : pc[c] = "idle"
  BY DEF Init, KeysInit, Absent
<1> QED
  BY <1>1, StateNames, ReservationNames DEF Account!Init, AccountStates, Funds, Reservations

\* Billing is a prepaid account: whatever requests, administrators' copies,
\* locks that run out, failing queries and crashes do, funds are reserved only
\* out of sufficient funds, each reservation is given back at most once and
\* only while it is held, and nothing else moves an account's money but its
\* administrators.
THEOREM BillingRefinesAccount == Spec => ImplementsAccount
<1>1. Spec => []RefinementInv
  BY RefinementInvInductive, PTL DEF Spec
<1>2. RefinementInv /\ [Next]_vars => [Account!Next]_(Account!vars)
  BY StepRefines
<1> QED  BY <1>1, <1>2, InitRefines, PTL DEF Spec, ImplementsAccount, Account!Spec

-----------------------------------------------------------------------------
(* Deleted keys.                                                           *)

FrozenStep ==
  \A k \in Keys : row[k].status = "deleted" =>
    \/ row'[k] = row[k]
    \/ row'[k].status = "live" /\ \E a \in Admins : draft[a] # NoDraft /\ draft[a].key = k

LEMMA FrozenNext ==
  ASSUME TypeOK, [Next]_vars
  PROVE  FrozenStep
<1> SUFFICES ASSUME NEW k \in Keys, row[k].status = "deleted", row'[k] # row[k]
             PROVE  row'[k].status = "live" /\ \E a \in Admins : draft[a] # NoDraft /\ draft[a].key = k
  BY DEF FrozenStep
<1> USE DEF TypeOK, KeysTypeOK
<1>1. \A j \in Keys, amount \in Int : Recharge(j, amount)[k] = row[k] /\ DeductBalance(j, amount)[k] = row[k]
  BY DEF Recharge, DeductBalance, Sufficient, Live
<1>2. ASSUME NEW c \in Callers, CallerNext(c) PROVE FALSE
  <2>1. CASE Authenticate(c) \/ CheckRateLimit(c) \/ AcquireLock(c) \/ HandlerOutcome(c)
    BY <2>1 DEF Authenticate, CheckRateLimit, AcquireLock, HandlerOutcome, keysVars
  <2>2. CASE PreDeduct(c) \/ Refund(c) \/ \E usage \in Usages : FinalizeBilling(c, usage)
    <3>1. \/ row' = DeductBalance(KeyOf[c], PreDeductAmount)
          \/ row' = Recharge(KeyOf[c], PreDeductAmount)
          \/ row' = row
      BY <2>2, GiveBackStep DEF PreDeduct
    <3>2. KeyOf[c] \in Keys /\ PreDeductAmount \in Int
      BY QueryStep
    <3> HIDE DEF TypeOK, KeysTypeOK
    <3> QED  BY <3>1, <3>2, <1>1
  <2> QED  BY <1>2, <2>1, <2>2 DEF CallerNext
<1>3. CASE \/ \E c \in Callers : LoseReply(c)
           \/ \E j \in Keys : ExpireLock(j)
           \/ Crash \/ RedisDown \/ RedisBack
           \/ UNCHANGED vars
  BY <1>3 DEF LoseReply, ExpireLock, Crash, RedisDown, RedisBack, vars, keysVars
<1>4. CASE KeysNext
  <2>1. ASSUME NEW j \in Keys, NEW req \in CreateRequests, CreateKey(j, req) PROVE FALSE
    BY <2>1 DEF CreateKey
  <2>2. ASSUME NEW j \in Keys, NEW amount \in Recharges, RechargeKey(j, amount) PROVE FALSE
    BY <2>2, <1>1, RequestsAssumption DEF RechargeKey
  <2>3. ASSUME NEW j \in Keys, DeleteKey(j) PROVE FALSE
    BY <2>3 DEF DeleteKey, Live
  <2>4. ASSUME NEW a \in Admins, NEW j \in Keys, NEW req \in UpdateRequests, UpdateLoad(a, j, req)
        PROVE  FALSE
    BY <2>4 DEF UpdateLoad
  <2>5. ASSUME NEW a \in Admins, UpdateSave(a)
        PROVE  draft[a] # NoDraft /\ draft[a].key = k /\ row'[k].status = "live"
    <3>1. draft[a].key \in Keys /\ draft[a].copy \in LiveRows /\ draft[a] # NoDraft
      BY <2>5 DEF UpdateSave, Drafts
    <3>2. row' = Save(draft[a].key, draft[a].copy)
      BY <2>5 DEF UpdateSave
    <3> HIDE DEF TypeOK, KeysTypeOK
    <3> QED  BY <3>1, <3>2, SavedRow
  <2> QED  BY <1>4, <2>1, <2>2, <2>3, <2>4, <2>5 DEF KeysNext
<1> QED  BY <1>2, <1>3, <1>4 DEF Next

\* The money of a deleted key stays as it was, whatever refund comes late; only
\* an update that had read the row before it was deleted brings the key back.
THEOREM DeletedKeysFrozen == Spec => DeletedFrozen
<1>1. TypeOK /\ [Next]_vars => [FrozenStep]_vars
  BY FrozenNext
<1>2. DeletedFrozen <=> [][FrozenStep]_vars
  BY DEF DeletedFrozen, FrozenStep
<1> QED  BY <1>1, <1>2, TypeInit, TypeNext, PTL DEF Spec

=============================================================================
