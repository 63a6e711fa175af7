--------------------------- MODULE GatewayProofs ---------------------------
(***************************************************************************)
(* Proofs about Gateway, for any requests, catalogs, prices, answers and   *)
(* limits: that it implements Billing, so that what is proved of Billing   *)
(* holds of requests from end to end, and what becomes of the money of the *)
(* requests that fail.                                                     *)
(***************************************************************************)
EXTENDS Gateway, BillingProofs

\* The proofs about the parts.
RateP == INSTANCE RateProofs WITH
  Workers <- Callers, rateUp <- redisUp, LimitsOf <- [k \in Keys |-> DefaultLimits]

CatP == INSTANCE CatalogProofs WITH LookupMayFail <- DBMayFail

-----------------------------------------------------------------------------
(* The handlers.                                                           *)

\* Before the provider answers there is nothing to count, settle or log.
Unanswered ==
  \A c \in Callers : step[c] \in {"parse", "model", "channel", "send"} =>
    answer[c] = NoAnswer /\ log[c] = NoLog

\* What is settled and counted is an answer.
Answered ==
  \A c \in Callers : step[c] = "count" \/ pc[c] \in {"toFinalize", "finalizing"} => answer[c] \in Usages

\* A handler goes on with a body that has parsed only.
Parsed == \A c \in Callers : step[c] \in {"model", "channel", "send"} => call[c].valid

\* A reservation is kept for an answer, or for a stream whose body has parsed.
KeptOwed == \A c \in Callers : pc[c] = "kept" => MayOwe(c)

NoneLost == ~DBMayFail /\ faults = 0 => \A c \in Callers : pc[c] # "lost"

\* A channel has been chosen before the request is sent.
ChosenToSend == \A c \in Callers : step[c] = "send" => chosen[c].channel \in Channels

GatewayInv ==
  /\ GatewayTypeOK
  /\ ChosenToSend
  /\ Unanswered
  /\ Answered
  /\ Parsed
  /\ KeptOwed
  /\ NoneLost

\* The steps a handler takes with the money reserved.
Handles(c) ==
  \/ ParseBody(c) \/ LookupModel(c) \/ LookupChannel(c)
  \/ Unreachable(c) \/ FailUnlogged(c)
  \/ \E usage \in Usages : AnswerWhole(c, usage) \/ AnswerStream(c, usage)

LEMMA HandlesStep ==
  ASSUME NEW c \in Callers, Handles(c)
  PROVE  HandlerStep(c) /\ Reserved(c, step[c]) /\ step[c] \in {"parse", "model", "channel", "send"}
BY DEF Handles, ParseBody, LookupModel, LookupChannel, Unreachable, FailUnlogged, AnswerWhole, AnswerStream,
       Answer, Reserved

\* Whatever the gateway does is a step of Billing, or changes nothing there.
LEMMA BillingStep ==
  ASSUME GatewayInv, [GatewayNext]_gatewayVars
  PROVE  [Next]_vars
<1>1. ASSUME NEW c \in Callers, Handles(c) PROVE [Next]_vars
  BY <1>1, HandlesStep DEF HandlerStep, Next, CallerNext, vars, billingVars
<1>2. ASSUME NEW c \in Callers, UseBilling(c) PROVE [Next]_vars
  <2>1. ASSUME FinalizeBilling(c, answer[c]) PROVE \E usage \in Usages : FinalizeBilling(c, usage)
    <3>1. pc[c] = "finalizing"
      BY <2>1 DEF FinalizeBilling
    <3>2. answer[c] \in Usages
      BY <3>1 DEF GatewayInv, Answered
    <3> QED  BY <2>1, <3>2
  <2>2. AcquireLock(c) \/ PreDeduct(c) \/ Refund(c) \/ FinalizeBilling(c, answer[c])
    BY <1>2 DEF UseBilling
  <2> QED  BY <2>1, <2>2 DEF Next, CallerNext
<1>3. ASSUME NEW c \in Callers, Arrive(c) \/ StartCheck(c) \/ CheckQuota(c) PROVE [Next]_vars
  BY <1>3 DEF Arrive, StartCheck, CheckQuota, Next, CallerNext, vars, billingVars
<1>4. ASSUME NEW c \in Callers, StartCount(c) \/ CountOn(c) \/ Leave(c) PROVE [Next]_vars
  BY <1>4 DEF StartCount, CountOn, Leave, vars, billingVars
<1>5. ASSUME NEW c \in Callers, GatewayCall(c) PROVE [Next]_vars
  BY <1>5, <1>1, <1>2, <1>3, <1>4 DEF GatewayCall, Handles
<1>6. CASE Administer
  BY <1>6 DEF Administer, Next, vars, billingVars
<1>7. CASE Rate!Tick /\ UNCHANGED <<billingVars, catVars, call, proxyVars>>
  BY <1>7 DEF vars, billingVars
<1>8. CASE RedisNext
  BY <1>8 DEF RedisNext, Next, vars, billingVars
<1>9. CASE RestartAll
  BY <1>9 DEF RestartAll, Next
<1>10. CASE UNCHANGED gatewayVars
  BY <1>10 DEF gatewayVars, vars, billingVars
<1> QED  BY <1>5, <1>6, <1>7, <1>8, <1>9, <1>10 DEF GatewayNext

-----------------------------------------------------------------------------
(* The quotas, by the lemmas of RateProofs.                                *)

LEMMA RateConstants == RateP!IsFiniteSet(Callers)
BY BillingAssumption, Zenon DEF RateP!IsFiniteSet, IsFiniteSet

LEMMA RateTypeNames ==
  /\ Rate!RateTypeOK <=> RateP!RateTypeOK
  /\ Rate!RateTypeOK' <=> RateP!RateTypeOK'
<1> USE DEF Rate!Windows, RateP!Windows, Rate!Counters, RateP!Counters, Rate!Metrics, RateP!Metrics,
            Rate!Stages, RateP!Stages, Rate!Steps, RateP!Steps
<1>1. Rate!RateTypeOK <=> RateP!RateTypeOK
  BY DEF Rate!RateTypeOK, RateP!RateTypeOK
<1>2. Rate!RateTypeOK' <=> RateP!RateTypeOK'
  BY DEF Rate!RateTypeOK, RateP!RateTypeOK
<1> QED  BY <1>1, <1>2

LEMMA RateActionNames ==
  ASSUME NEW c
  PROVE  /\ Rate!BeginCheck(c) <=> RateP!BeginCheck(c)
         /\ \A limits : Rate!CheckCounter(c, limits) <=> RateP!CheckCounter(c, limits)
         /\ \A n : Rate!BeginCount(c, n) <=> RateP!BeginCount(c, n)
         /\ Rate!CountNext(c) <=> RateP!CountNext(c)
         /\ Rate!EndUncounted(c) <=> RateP!EndUncounted(c)
         /\ Rate!ExpireCounter(c) <=> RateP!ExpireCounter(c)
         /\ Rate!Tick <=> RateP!Tick
         /\ Rate!RateCrash <=> RateP!RateCrash
         /\ Rate!RateRedisDown <=> RateP!RateRedisDown
         /\ Rate!RateRedisBack <=> RateP!RateRedisBack
<1> USE DEF Rate!storeVars, RateP!storeVars, Rate!workerVars, RateP!workerVars, Rate!Idle, RateP!Idle,
            Rate!Passed, RateP!Passed, Rate!Order, RateP!Order, Rate!Last, RateP!Last,
            Rate!CounterKey, RateP!CounterKey, Rate!WindowOf, RateP!WindowOf, Rate!Day, RateP!Day
<1>1. Rate!BeginCheck(c) <=> RateP!BeginCheck(c)
  BY DEF Rate!BeginCheck, RateP!BeginCheck
<1>2. ASSUME NEW limits PROVE Rate!CheckCounter(c, limits) <=> RateP!CheckCounter(c, limits)
  BY DEF Rate!CheckCounter, RateP!CheckCounter, Rate!Exceeded, RateP!Exceeded, Rate!getCount, RateP!getCount
<1>3. ASSUME NEW n PROVE Rate!BeginCount(c, n) <=> RateP!BeginCount(c, n)
  BY DEF Rate!BeginCount, RateP!BeginCount
<1>4. Rate!CountNext(c) <=> RateP!CountNext(c)
  BY DEF Rate!CountNext, RateP!CountNext, Rate!increment, RateP!increment, Rate!Amount, RateP!Amount,
         Rate!TTL, RateP!TTL
<1>5. Rate!EndUncounted(c) <=> RateP!EndUncounted(c)
  BY DEF Rate!EndUncounted, RateP!EndUncounted
<1>6. Rate!ExpireCounter(c) <=> RateP!ExpireCounter(c)
  BY DEF Rate!ExpireCounter, RateP!ExpireCounter
<1>7. Rate!Tick <=> RateP!Tick
  BY DEF Rate!Tick, RateP!Tick
<1>8. Rate!RateCrash <=> RateP!RateCrash
  BY DEF Rate!RateCrash, RateP!RateCrash, Rate!Counters, RateP!Counters, Rate!Metrics, RateP!Metrics,
         Rate!Windows, RateP!Windows
<1>9. (Rate!RateRedisDown <=> RateP!RateRedisDown) /\ (Rate!RateRedisBack <=> RateP!RateRedisBack)
  BY DEF Rate!RateRedisDown, RateP!RateRedisDown, Rate!RateRedisBack, RateP!RateRedisBack
<1> HIDE DEF Rate!Last, RateP!Last
<1> QED  BY <1>1, <1>2, <1>3, <1>4, <1>5, <1>6, <1>7, <1>8, <1>9

\* The steps the quotas take in the gateway: checks against the limits that the
\* request was let in with, and counts of the tokens of an answer.
QuotaMove ==
  \/ \E c \in Callers :
       \/ Rate!BeginCheck(c)
       \/ \E limits : Rate!CheckCounter(c, limits)
       \/ \E n \in TokenCounts : Rate!BeginCount(c, n)
       \/ Rate!CountNext(c)
       \/ Rate!EndUncounted(c)
  \/ \E ctr \in Rate!Counters : Rate!ExpireCounter(ctr)
  \/ Rate!Tick \/ Rate!RateCrash \/ Rate!RateRedisDown \/ Rate!RateRedisBack
  \/ UNCHANGED <<quotaVars, redisUp>>

LEMMA QuotaStep ==
  ASSUME GatewayInv, [GatewayNext]_gatewayVars
  PROVE  QuotaMove
<1>1. ASSUME NEW c \in Callers, Handles(c) \/ UseBilling(c) \/ Arrive(c) PROVE QuotaMove
  <2>1. CASE Handles(c)
    BY <2>1, HandlesStep DEF HandlerStep, HandlerOutcome, billingVars, lockVars, QuotaMove
  <2>2. CASE UseBilling(c)
    BY <2>2 DEF UseBilling, AcquireLock, PreDeduct, Refund, FinalizeBilling, ReleaseLock, QuotaMove
  <2>3. CASE Arrive(c)
    BY <2>3 DEF Arrive, Authenticate, lockVars, QuotaMove
  <2> QED  BY <1>1, <2>1, <2>2, <2>3
<1>2. ASSUME NEW c \in Callers, StartCheck(c) \/ CheckQuota(c) \/ CountOn(c) \/ Leave(c) PROVE QuotaMove
  BY <1>2 DEF StartCheck, CheckQuota, CountOn, Leave, QuotaMove
<1>3. ASSUME NEW c \in Callers, StartCount(c) PROVE QuotaMove
  <2>1. answer[c] \in Usages
    BY <1>3 DEF GatewayInv, Answered, StartCount
  <2>2. Counted(c) \in TokenCounts
    BY <2>1, GatewayAssumption DEF Counted
  <2> QED  BY <1>3, <2>2 DEF StartCount, QuotaMove
<1>4. ASSUME NEW c \in Callers, GatewayCall(c) PROVE QuotaMove
  BY <1>1, <1>2, <1>3, <1>4 DEF GatewayCall, Handles
<1>5. CASE RedisNext
  <2>1. ASSUME (\E c \in Callers : LoseReply(c)) \/ \E k \in Keys : ExpireLock(k) PROVE redisUp' = redisUp
    BY <2>1 DEF LoseReply, ExpireLock
  <2> QED  BY <1>5, <2>1 DEF RedisNext, QuotaMove
<1>6. CASE RestartAll
  BY <1>6 DEF RestartAll, QuotaMove
<1>7. CASE Rate!Tick
  BY <1>7 DEF QuotaMove
<1>8. CASE UNCHANGED <<quotaVars, redisUp>>
  BY <1>8 DEF QuotaMove
<1>9. CASE Administer /\ UNCHANGED <<quotaVars, call, proxyVars>>
  BY <1>9 DEF Administer, billingVars, lockVars, QuotaMove
<1>10. CASE UNCHANGED gatewayVars
  BY <1>8, <1>10 DEF gatewayVars, billingVars, lockVars
<1> QED  BY <1>4, <1>5, <1>6, <1>7, <1>9, <1>10 DEF GatewayNext

LEMMA QuotaTypes ==
  ASSUME Rate!RateTypeOK, TypeOK', QuotaMove
  PROVE  Rate!RateTypeOK'
<1>0. RateP!RateTypeOK
  BY RateTypeNames
<1> USE PartsAssumption, RateConstants
<1>1. ASSUME NEW c \in Callers,
             \/ Rate!BeginCheck(c)
             \/ \E limits : Rate!CheckCounter(c, limits)
             \/ \E n \in TokenCounts : Rate!BeginCount(c, n)
             \/ Rate!CountNext(c)
             \/ Rate!EndUncounted(c)
      PROVE  RateP!RateTypeOK'
  <2>1. \/ RateP!BeginCheck(c)
        \/ \E limits : RateP!CheckCounter(c, limits)
        \/ \E n \in TokenCounts : RateP!BeginCount(c, n)
        \/ RateP!CountNext(c)
        \/ RateP!EndUncounted(c)
    BY <1>1, RateActionNames
  <2> QED  BY <1>0, <2>1, RateP!WorkerTypes DEF Rate!Metrics, RateP!Metrics, Rate!Windows, RateP!Windows
<1>2. CASE \/ \E ctr \in Rate!Counters : Rate!ExpireCounter(ctr)
           \/ Rate!Tick \/ Rate!RateCrash \/ Rate!RateRedisDown \/ Rate!RateRedisBack
  <2>1. Rate!Counters = RateP!Counters
    BY DEF Rate!Counters, RateP!Counters, Rate!Metrics, RateP!Metrics, Rate!Windows, RateP!Windows
  <2>2. RateP!RateNext
    BY <1>2, <2>1, RateActionNames DEF RateP!RateNext
  <2>3. [RateP!RateNext]_(RateP!rateVars)
    BY <2>2
  <2>4. RateP!RateTypeOK'
    BY <1>0, <2>3, RateP!RateTypeNext DEF Rate!Metrics, RateP!Metrics, Rate!Windows, RateP!Windows
  <2> QED  BY <2>4, RateTypeNames
<1>3. CASE UNCHANGED quotaVars
  <2>1. redisUp' \in BOOLEAN
    BY DEF TypeOK
  <2> QED  BY <1>3, <2>1 DEF quotaVars, Rate!RateTypeOK
<1> QED  BY <1>1, <1>2, <1>3, RateTypeNames DEF QuotaMove

-----------------------------------------------------------------------------
(* The catalog, by the lemmas of CatalogProofs.                            *)

LEMMA CatalogTypeNames ==
  /\ Cat!CatalogTypeOK <=> CatP!CatalogTypeOK
  /\ Cat!CatalogTypeOK' <=> CatP!CatalogTypeOK'
<1> USE DEF Cat!Edits, CatP!Edits, Cat!ChannelTable, CatP!ChannelTable, Cat!ModelTable, CatP!ModelTable,
            Cat!ChannelRequests, CatP!ChannelRequests, Cat!ModelRequests, CatP!ModelRequests,
            Cat!Kinds, CatP!Kinds
<1>1. Cat!CatalogTypeOK <=> CatP!CatalogTypeOK
  BY DEF Cat!CatalogTypeOK, CatP!CatalogTypeOK
<1>2. Cat!CatalogTypeOK' <=> CatP!CatalogTypeOK'
  BY DEF Cat!CatalogTypeOK, CatP!CatalogTypeOK
<1> QED  BY <1>1, <1>2

LEMMA CatalogActionNames == Cat!CatalogNext <=> CatP!CatalogNext
<1>1. Cat!ChannelRequests = CatP!ChannelRequests /\ Cat!ModelRequests = CatP!ModelRequests
  BY DEF Cat!ChannelRequests, CatP!ChannelRequests, Cat!ModelRequests, CatP!ModelRequests, Cat!Kinds, CatP!Kinds
<1> USE DEF Cat!LiveRow, CatP!LiveRow, Cat!Editing, CatP!Editing, Cat!Finish, CatP!Finish,
            Cat!NameFree, CatP!NameFree, Cat!Inserted, CatP!Inserted, Cat!Saved, CatP!Saved
<1>2. \A e, req : Cat!CheckName(e, req) <=> CatP!CheckName(e, req)
  BY DEF Cat!CheckName, CatP!CheckName
<1>3. \A e, i : Cat!InsertChannel(e, i) <=> CatP!InsertChannel(e, i)
  BY DEF Cat!InsertChannel, CatP!InsertChannel
<1>4. \A e, i, req : Cat!LoadChannel(e, i, req) <=> CatP!LoadChannel(e, i, req)
  BY DEF Cat!LoadChannel, CatP!LoadChannel, Cat!Merged, CatP!Merged
<1>5. \A e : Cat!SaveChannel(e) <=> CatP!SaveChannel(e)
  BY DEF Cat!SaveChannel, CatP!SaveChannel
<1>6. \A i : Cat!DeleteChannel(i) <=> CatP!DeleteChannel(i)
  BY DEF Cat!DeleteChannel, CatP!DeleteChannel
<1>7. \A m, req : Cat!CreateModel(m, req) <=> CatP!CreateModel(m, req)
  BY DEF Cat!CreateModel, CatP!CreateModel
<1>8. \A e, m, req : Cat!LoadModel(e, m, req) <=> CatP!LoadModel(e, m, req)
  BY DEF Cat!LoadModel, CatP!LoadModel
<1>9. \A e : Cat!SaveModel(e) <=> CatP!SaveModel(e)
  BY DEF Cat!SaveModel, CatP!SaveModel
<1>10. \A m : Cat!DeleteModel(m) <=> CatP!DeleteModel(m)
  BY DEF Cat!DeleteModel, CatP!DeleteModel
<1> QED
  BY <1>1, <1>2, <1>3, <1>4, <1>5, <1>6, <1>7, <1>8, <1>9, <1>10 DEF Cat!CatalogNext, CatP!CatalogNext

LEMMA CallKeepsCatalog ==
  ASSUME NEW c \in Callers, GatewayCall(c)
  PROVE  UNCHANGED catVars
BY HandlesStep DEF GatewayCall, Handles, HandlerStep, UseBilling, Arrive, StartCheck, CheckQuota,
                   StartCount, CountOn, Leave

LEMMA CatalogTypes ==
  ASSUME Cat!CatalogTypeOK, [GatewayNext]_gatewayVars
  PROVE  Cat!CatalogTypeOK'
<1>1. CASE Cat!CatalogNext
  <2>1. CatP!CatalogTypeOK /\ [CatP!CatalogNext]_(CatP!catalogVars)
    BY <1>1, CatalogTypeNames, CatalogActionNames
  <2>2. CatP!CatalogTypeOK'
    BY <2>1, CatP!CatalogTypeNext, PartsAssumption
    DEF Cat!ChannelRequests, CatP!ChannelRequests, Cat!ModelRequests, CatP!ModelRequests, Cat!Kinds, CatP!Kinds
  <2> QED  BY <2>2, CatalogTypeNames
<1>2. CASE UNCHANGED catVars
  BY <1>2 DEF catVars, Cat!CatalogTypeOK
<1>3. CASE UNCHANGED <<channel, model>> /\ edit' = [e \in Editors |-> NoEdit]
  BY <1>3 DEF Cat!CatalogTypeOK
<1>4. ASSUME NEW c \in Callers, GatewayCall(c) PROVE UNCHANGED catVars
  BY <1>4, CallKeepsCatalog
<1> QED  BY <1>1, <1>2, <1>3, <1>4 DEF GatewayNext, Administer, RestartAll, gatewayVars

-----------------------------------------------------------------------------
(* What the handlers look up and write down.                               *)

LEMMA LeastNumber ==
  ASSUME NEW S, S \subseteq Nat, S # {}
  PROVE  \E m \in S : \A n \in S : m <= n
<1>1. PICK m \in S : \A n \in S : <<n, m>> \notin OpToRel(<, Nat)
  BY NatLessThanWellFounded, WFMin
<1>2. \A n \in S : ~(n < m)
  BY <1>1 DEF OpToRel
<1> QED  BY <1>2

\* A model that is found has a price.
LEMMA FoundPrice ==
  ASSUME Cat!CatalogTypeOK, NEW id, Cat!GetByModelID(id) # NoRow
  PROVE  model[Cat!GetByModelID(id)].is.price \in Prices
<1> DEFINE found == {m \in ModelRows : Cat!LiveRow(model[m]) /\ model[m].is.modelID = id}
<1>1. found # {} /\ Cat!GetByModelID(id) = CHOOSE m \in found : \A n \in found : m <= n
  BY DEF Cat!GetByModelID
<1>2. found \subseteq Nat
  BY PartsAssumption
<1>3. \E m \in found : \A n \in found : m <= n
  BY <1>1, <1>2, LeastNumber
<1>4. Cat!GetByModelID(id) \in found
  BY <1>1, <1>3
<1>5. \A m \in found : model[m] \in [deleted : BOOLEAN, is : Cat!ModelRequests]
  BY DEF Cat!CatalogTypeOK, Cat!ModelTable, Cat!LiveRow
<1> HIDE DEF found
<1> QED  BY <1>4, <1>5 DEF Cat!ModelRequests

LEMMA ChoiceTypes ==
  ASSUME NEW x \in Choices
  PROVE  /\ \A p \in Prices : [x EXCEPT !.price = p] \in Choices
         /\ \A i \in Channels : [x EXCEPT !.channel = i] \in Choices /\ [x EXCEPT !.channel = i].channel = i
BY DEF Choices

LEMMA CostTypes ==
  ASSUME NEW usage \in Usages, NEW price \in Prices \cup {NoModel}
  PROVE  CalculateCost(usage, price) \in Nat
<1>1. CASE price = NoModel
  BY <1>1 DEF CalculateCost
<1>2. CASE price # NoModel
  <2>1. usage.input \in Nat /\ usage.output \in Nat
    BY BillingAssumption
  <2>2. price.input \in Nat /\ price.output \in Nat
    BY <1>2, PartsAssumption
  <2>3. \A m, n \in Nat : m * n \in Nat
    OBVIOUS
  <2>4. usage.input * price.input \in Nat /\ usage.output * price.output \in Nat
    BY <2>1, <2>2, <2>3
  <2> QED  BY <1>2, <2>4 DEF CalculateCost
<1> QED  BY <1>1, <1>2

\* A log has a channel and a cost, and is of a request that was sent.
LEMMA RecordTypes ==
  ASSUME GatewayInv, NEW c \in Callers, step[c] = "send",
         NEW outcome \in {"unreachable", "answered"}, NEW cost \in Nat, Record(c, outcome, cost)
  PROVE  /\ log' \in [Callers -> Logs \cup {NoLog}]
         /\ \A d \in Callers \ {c} : log'[d] = log[d]
         /\ \/ log'[c] \in Logs /\ log'[c].outcome = outcome
            \/ DBMayFail /\ log'[c] = NoLog
<1> DEFINE new == [channel |-> chosen[c].channel, outcome |-> outcome, cost |-> cost]
<1>1. new \in Logs /\ new.outcome = outcome
  BY DEF GatewayInv, ChosenToSend, Logs
<1>2. log \in [Callers -> Logs \cup {NoLog}] /\ log[c] = NoLog
  BY DEF GatewayInv, GatewayTypeOK, Unanswered
<1>3. PICK ok \in QueryResults : log' = IF ok THEN [log EXCEPT ![c] = new] ELSE log
  BY Zenon DEF Record
<1>4. ok \/ DBMayFail
  BY DEF QueryResults
<1> HIDE DEF new
<1> QED  BY <1>1, <1>2, <1>3, <1>4

-----------------------------------------------------------------------------
(* A step of a handler.                                                    *)

\* It goes on, or it ends in one of Billing's outcomes.
Outcome(c) ==
  \/ /\ pc'[c] = "reserved" /\ step'[c] \in {"model", "channel", "send"} /\ call[c].valid
     /\ answer'[c] = NoAnswer /\ log'[c] = NoLog
     /\ step'[c] = "send" => chosen'[c].channel \in Channels
  \/ pc'[c] = "toRefund" /\ step'[c] = "done" /\ ~LogsAnswer(c)'
  \/ pc'[c] = "kept" /\ step'[c] = "done" /\ MayOwe(c)'
  \/ /\ pc'[c] = "toFinalize" /\ step'[c] = "count" /\ answer'[c] \in Usages
     /\ ~DBMayFail => LogsAnswer(c)'

ProxyTypes ==
  /\ step \in [Callers -> Steps]
  /\ chosen \in [Callers -> Choices]
  /\ answer \in [Callers -> Usages \cup {NoAnswer}]
  /\ log \in [Callers -> Logs \cup {NoLog}]

LEMMA HandlerStepMoves ==
  ASSUME TypeOK, NEW c \in Callers, HandlerStep(c)
  PROVE  pc[c] = "reserved" /\ call' = call /\ \A d \in Callers \ {c} : pc'[d] = pc[d]
<1>1. pc \in [Callers -> PCs]
  BY DEF TypeOK
<1>2. CASE pc[c] = "reserved" /\ UNCHANGED billingVars
  BY <1>2 DEF HandlerStep, billingVars, callVars
<1>3. CASE HandlerOutcome(c)
  BY <1>1, <1>3 DEF HandlerStep, HandlerOutcome, Goto
<1> QED  BY <1>2, <1>3 DEF HandlerStep

LEMMA FailedOutcome ==
  ASSUME GatewayInv, NEW c \in Callers, Handles(c), step[c] # "parse", Failed(c), ~LogsAnswer(c)'
  PROVE  Outcome(c)
<1>1. call' = call /\ call[c].valid
  BY HandlesStep DEF HandlerStep, GatewayInv, Parsed
<1>2. step'[c] = "done"
  BY DEF Failed, Proceed, GatewayInv, GatewayTypeOK
<1>3. pc'[c] = "kept" /\ call[c].endpoint = "chat stream" => MayOwe(c)'
  BY <1>1 DEF MayOwe, StreamEndpoints
<1> QED  BY <1>2, <1>3 DEF Failed, Outcome

LEMMA HandlerMoves ==
  ASSUME GatewayInv, NEW c \in Callers, Handles(c)
  PROVE  /\ ProxyTypes'
         /\ call' = call
         /\ \A d \in Callers \ {c} : /\ pc'[d] = pc[d] /\ step'[d] = step[d] /\ chosen'[d] = chosen[d]
                                     /\ answer'[d] = answer[d] /\ log'[d] = log[d]
         /\ Outcome(c)
<1> DEFINE Rest == \A d \in Callers \ {c} : /\ step'[d] = step[d] /\ chosen'[d] = chosen[d]
                                            /\ answer'[d] = answer[d] /\ log'[d] = log[d]
<1>0. /\ ProxyTypes /\ Cat!CatalogTypeOK /\ TypeOK
      /\ answer[c] = NoAnswer /\ log[c] = NoLog
      /\ LookupModel(c) \/ LookupChannel(c) => call[c].valid
      /\ \A s : Proceed(c, s) /\ s \in Steps => /\ step' \in [Callers -> Steps] /\ step'[c] = s
                                                /\ \A d \in Callers \ {c} : step'[d] = step[d]
  BY HandlesStep DEF GatewayInv, GatewayTypeOK, ProxyTypes, Unanswered, Parsed, LookupModel, LookupChannel, Reserved, Proceed
<1>1. call' = call /\ \A d \in Callers \ {c} : pc'[d] = pc[d]
  BY <1>0, HandlesStep, HandlerStepMoves
<1>2. {"parse", "model", "channel", "send", "count", "done"} = Steps
  BY DEF Steps
<1>3. CASE ParseBody(c)
  <2>1. UNCHANGED <<chosen, answer, log>>
    BY <1>3 DEF ParseBody
  <2>2. CASE ~call[c].valid /\ pc'[c] = "toRefund" /\ Proceed(c, "done")
    <3>1. ~LogsAnswer(c)'
      BY <1>0, <2>1 DEF LogsAnswer
    <3> QED  BY <1>0, <1>1, <1>2, <2>1, <2>2, <3>1 DEF ProxyTypes, Outcome
  <2>3. CASE call[c].valid /\ call[c].endpoint = "messages stream" /\ pc'[c] = "kept" /\ Proceed(c, "done")
    <3>1. MayOwe(c)'
      BY <1>1, <2>3 DEF MayOwe, StreamEndpoints
    <3> QED  BY <1>0, <1>1, <1>2, <2>1, <2>3, <3>1 DEF ProxyTypes, Outcome
  <2>4. CASE /\ call[c].valid
             /\ pc'[c] = "reserved"
             /\ Proceed(c, IF call[c].endpoint = "gemini" THEN "channel" ELSE "model")
    BY <1>0, <1>1, <1>2, <2>1, <2>4 DEF ProxyTypes, Outcome
  <2> QED  BY <1>3, <2>2, <2>3, <2>4 DEF ParseBody
<1>4. CASE LookupModel(c)
  <2>1. UNCHANGED <<answer, log>>
    BY <1>4 DEF LookupModel
  <2> DEFINE price == model[Cat!GetByModelID(call[c].modelID)].is.price
  <2>2. CASE /\ Cat!GetByModelID(call[c].modelID) # NoRow
             /\ pc'[c] = "reserved"
             /\ Proceed(c, "channel")
             /\ chosen' = [chosen EXCEPT ![c].price = price]
    <3>1. price \in Prices
      BY <1>0, <2>2, FoundPrice
    <3>2. chosen[c] \in Choices
      BY <1>0 DEF ProxyTypes
    <3> HIDE DEF price
    <3>3. [chosen[c] EXCEPT !.price = price] \in Choices
      BY <3>1, <3>2, ChoiceTypes
    <3>4. chosen' \in [Callers -> Choices] /\ \A d \in Callers \ {c} : chosen'[d] = chosen[d]
      BY <1>0, <2>2, <3>3 DEF ProxyTypes
    <3> QED  BY <1>0, <1>4, <1>1, <1>2, <2>1, <2>2, <3>4 DEF ProxyTypes, Outcome
  <2>3. CASE Failed(c) /\ UNCHANGED chosen
    <3>1. ~LogsAnswer(c)'
      BY <1>0, <2>1 DEF LogsAnswer
    <3>2. Outcome(c)
      BY <1>4, <2>3, <3>1, FailedOutcome DEF LookupModel, Reserved
    <3> QED  BY <1>0, <1>1, <1>2, <2>1, <2>3, <3>2 DEF ProxyTypes, Failed
  <2> QED  BY <1>4, <2>2, <2>3 DEF LookupModel
<1>5. CASE LookupChannel(c)
  <2>1. UNCHANGED <<answer, log>>
    BY <1>5 DEF LookupChannel
  <2>2. ASSUME NEW i \in Candidates(c), pc'[c] = "reserved", Proceed(c, "send"),
               chosen' = [chosen EXCEPT ![c].channel = i]
        PROVE  ProxyTypes' /\ Rest /\ Outcome(c)
    <3>1. i \in Channels
      BY DEF Candidates, Cat!ListActiveGemini, Cat!FirstChannels, Cat!GetAvailableByModel
    <3>2. chosen[c] \in Choices
      BY <1>0 DEF ProxyTypes
    <3>3. [chosen[c] EXCEPT !.channel = i] \in Choices /\ [chosen[c] EXCEPT !.channel = i].channel = i
      BY <3>1, <3>2, ChoiceTypes
    <3>4. /\ chosen' \in [Callers -> Choices] /\ \A d \in Callers \ {c} : chosen'[d] = chosen[d]
          /\ chosen'[c].channel = i
      BY <1>0, <2>2, <3>3 DEF ProxyTypes
    <3> QED  BY <1>0, <1>5, <1>2, <2>1, <2>2, <3>1, <3>4 DEF ProxyTypes, Outcome
  <2>3. CASE Failed(c) /\ UNCHANGED chosen
    <3>1. ~LogsAnswer(c)'
      BY <1>0, <2>1 DEF LogsAnswer
    <3>2. Outcome(c)
      BY <1>5, <2>3, <3>1, FailedOutcome DEF LookupChannel, Reserved
    <3> QED  BY <1>0, <1>1, <1>2, <2>1, <2>3, <3>2 DEF ProxyTypes, Failed
  <2> QED  BY <1>1, <1>5, <2>2, <2>3 DEF LookupChannel
<1>6. CASE Unreachable(c)
  <2>1. step[c] = "send" /\ Record(c, "unreachable", 0) /\ Failed(c) /\ UNCHANGED <<chosen, answer>>
    BY <1>6 DEF Unreachable, Reserved
  <2>2. /\ log' \in [Callers -> Logs \cup {NoLog}]
        /\ \A d \in Callers \ {c} : log'[d] = log[d]
        /\ log'[c] = NoLog \/ log'[c].outcome = "unreachable"
    BY <2>1, RecordTypes
  <2>3. ~LogsAnswer(c)'
    BY <2>2 DEF LogsAnswer
  <2>4. Outcome(c)
    BY <2>1, <2>3, FailedOutcome
  <2> QED  BY <1>0, <1>1, <1>2, <2>1, <2>2, <2>4 DEF ProxyTypes, Failed
<1>7. CASE FailUnlogged(c)
  <2>1. step[c] = "send" /\ Failed(c) /\ UNCHANGED <<chosen, answer, log>>
    BY <1>7 DEF FailUnlogged, Reserved
  <2>2. ~LogsAnswer(c)'
    BY <1>0, <2>1 DEF LogsAnswer
  <2>3. Outcome(c)
    BY <2>1, <2>2, FailedOutcome
  <2> QED  BY <1>0, <1>1, <1>2, <2>1, <2>3 DEF ProxyTypes, Failed
<1>8. ASSUME NEW usage \in Usages, AnswerWhole(c, usage) \/ AnswerStream(c, usage)
      PROVE  ProxyTypes' /\ Rest /\ Outcome(c)
  <2> DEFINE cost == CalculateCost(usage, chosen[c].price)
  <2>1. /\ step[c] = "send" /\ Record(c, "answered", cost)
        /\ answer' = [answer EXCEPT ![c] = usage] /\ UNCHANGED chosen
    BY <1>8 DEF AnswerWhole, AnswerStream, Answer, Reserved
  <2>2. cost \in Nat
    <3>1. chosen[c].price \in Prices \cup {NoModel}
      BY <1>0 DEF ProxyTypes, Choices
    <3> QED  BY <3>1, CostTypes
  <2> HIDE DEF cost
  <2>3. /\ log' \in [Callers -> Logs \cup {NoLog}]
        /\ \A d \in Callers \ {c} : log'[d] = log[d]
        /\ \/ log'[c] \in Logs /\ log'[c].outcome = "answered"
           \/ DBMayFail
    BY <2>1, <2>2, RecordTypes
  <2>4. ~DBMayFail => LogsAnswer(c)'
    BY <2>3, GatewayAssumption DEF LogsAnswer
  <2>5. /\ answer' \in [Callers -> Usages \cup {NoAnswer}] /\ answer'[c] = usage
        /\ \A d \in Callers \ {c} : answer'[d] = answer[d]
        /\ MayOwe(c)'
    BY <1>0, <2>1, GatewayAssumption DEF ProxyTypes, MayOwe
  <2>6. \/ pc'[c] = "toFinalize" /\ Proceed(c, "count")
        \/ pc'[c] = "kept" /\ Proceed(c, "done")
    BY <1>8 DEF AnswerWhole, AnswerStream
  <2> QED  BY <1>0, <1>2, <2>1, <2>3, <2>4, <2>5, <2>6 DEF ProxyTypes, Outcome
<1> HIDE DEF Rest
<1> QED
  <2>1. CASE \E usage \in Usages : AnswerWhole(c, usage) \/ AnswerStream(c, usage)
    BY <2>1, <1>1, <1>8 DEF Rest
  <2> QED  BY <1>3, <1>4, <1>5, <1>6, <1>7, <2>1 DEF Handles

-----------------------------------------------------------------------------
(* Every other step.                                                       *)

\* Requests go no further than to the places that no handler leads to, or into
\* the critical section they wait for; reservations get lost by failed queries.
Calm == {"authed", "refused", "free", "admitted", "predebit", "reserved", "settled"}

Quiet ==
  /\ \A c \in Callers :
       \/ pc'[c] = pc[c]
       \/ pc'[c] \in Calm
       \/ pc[c] = "toRefund" /\ pc'[c] = "refunding"
       \/ pc[c] = "toFinalize" /\ pc'[c] = "finalizing"
       \/ pc'[c] = "lost" /\ DBMayFail
  /\ faults' = 0 => faults = 0
  /\ UNCHANGED <<call, proxyVars>>

LEMMA CallerQuiet ==
  ASSUME TypeOK, NEW c \in Callers,
         \/ Authenticate(c) \/ CheckRateLimit(c) \/ AcquireLock(c) \/ PreDeduct(c) \/ Refund(c)
         \/ \E usage : FinalizeBilling(c, usage),
         UNCHANGED <<call, proxyVars>>
  PROVE  Quiet
<1> DEFINE Fine(label) == \/ label \in Calm
                          \/ pc[c] = "toRefund" /\ label = "refunding"
                          \/ pc[c] = "toFinalize" /\ label = "finalizing"
                          \/ label = "lost" /\ DBMayFail
<1>1. ASSUME Authenticate(c) \/ CheckRateLimit(c) PROVE \E label : Goto(c, label) /\ Fine(label)
  BY <1>1 DEF Authenticate, CheckRateLimit, Calm
<1>2. ASSUME AcquireLock(c) PROVE \E label : Goto(c, label) /\ Fine(label)
  <2>1. Fine(Entered[pc[c]])
    BY <1>2 DEF AcquireLock, Waiting, Entered, Calm
  <2> QED  BY <1>2, <2>1 DEF AcquireLock
<1>3. ASSUME PreDeduct(c) PROVE \E label : Goto(c, label) /\ Fine(label)
  BY <1>3 DEF PreDeduct, Calm
<1>4. ASSUME Refund(c) \/ \E usage : FinalizeBilling(c, usage) PROVE \E label : Goto(c, label) /\ Fine(label)
  <2>1. PICK ok \in QueryResults : Goto(c, IF ok THEN "settled" ELSE "lost")
    BY <1>4 DEF Refund, FinalizeBilling
  <2>2. Fine(IF ok THEN "settled" ELSE "lost")
    BY DEF QueryResults, Calm
  <2> QED  BY <2>1, <2>2
<1>5. faults' = faults
  BY DEF Authenticate, CheckRateLimit, AcquireLock, PreDeduct, Refund, FinalizeBilling, ReleaseLock, lockVars
<1>6. PICK label : Goto(c, label) /\ Fine(label)
  BY <1>1, <1>2, <1>3, <1>4
<1>7. pc'[c] = label /\ \A d \in Callers \ {c} : pc'[d] = pc[d]
  BY <1>6 DEF Goto, TypeOK
<1> QED  BY <1>5, <1>6, <1>7 DEF Quiet

\* In the gateway, that is every step but a handler's, the start of a count and
\* a restart.
LEMMA QuietStep ==
  ASSUME GatewayInv, [GatewayNext]_gatewayVars
  PROVE  \/ \E c \in Callers : Handles(c) \/ StartCount(c)
         \/ RestartAll
         \/ Quiet
<1>0. TypeOK
  BY DEF GatewayInv, GatewayTypeOK
<1>1. ASSUME NEW c \in Callers, Arrive(c) PROVE Quiet
  BY <1>0, <1>1, CallerQuiet DEF Arrive
<1>2. ASSUME UNCHANGED <<billingVars, call, proxyVars>> PROVE Quiet
  BY <1>2 DEF billingVars, callVars, lockVars, Quiet
<1>3. ASSUME NEW c \in Callers, CheckQuota(c) PROVE Quiet
  <2>1. CheckRateLimit(c) \/ UNCHANGED billingVars
    BY <1>3 DEF CheckQuota
  <2> QED  BY <1>0, <1>2, <1>3, <2>1, CallerQuiet DEF CheckQuota
<1>4. ASSUME NEW c \in Callers, UseBilling(c) PROVE Quiet
  BY <1>0, <1>4, CallerQuiet DEF UseBilling
<1>5. ASSUME NEW c \in Callers, StartCheck(c) \/ CountOn(c) \/ Leave(c) PROVE Quiet
  BY <1>2, <1>5 DEF StartCheck, CountOn, Leave
<1>6. CASE Administer /\ UNCHANGED <<quotaVars, call, proxyVars>>
  <2>1. CASE UNCHANGED <<callVars, lockVars>>
    BY <1>6, <2>1 DEF callVars, lockVars, Quiet
  <2> QED  BY <1>2, <1>6, <2>1 DEF Administer
<1>7. CASE RedisNext /\ UNCHANGED <<catVars, call, proxyVars>>
  <2>1. ASSUME RedisDown \/ RedisBack \/ (\E c \in Callers : LoseReply(c)) \/ (\E k \in Keys : ExpireLock(k))
        PROVE  Quiet
    <3>1. pc' = pc /\ (faults' = faults \/ faults' = faults + 1) /\ faults \in Nat
      BY <1>0, <2>1 DEF RedisDown, RedisBack, LoseReply, ExpireLock, callVars, TypeOK
    <3> QED  BY <1>7, <3>1 DEF Quiet
  <2> QED  BY <1>2, <1>7, <2>1 DEF RedisNext
<1>8. CASE Rate!Tick /\ UNCHANGED <<billingVars, catVars, call, proxyVars>>
  BY <1>2, <1>8
<1>9. CASE UNCHANGED gatewayVars
  BY <1>2, <1>9 DEF gatewayVars
<1> QED  BY <1>1, <1>3, <1>4, <1>5, <1>6, <1>7, <1>8, <1>9 DEF GatewayNext, GatewayCall, Handles

-----------------------------------------------------------------------------
(* The invariant.                                                          *)

LEMMA GatewayInvInit == GatewayInit => GatewayInv
<1> SUFFICES ASSUME GatewayInit PROVE GatewayInv
  OBVIOUS
<1>1. TypeOK
  BY TypeInit DEF GatewayInit
<1>2. Rate!RateTypeOK
  <2>1. Rate!RateInit => RateP!RateInit
    BY DEF Rate!RateInit, RateP!RateInit, Rate!Counters, RateP!Counters, Rate!Metrics, RateP!Metrics,
           Rate!Windows, RateP!Windows, Rate!Idle, RateP!Idle
  <2>2. RateP!RateInit
    BY <2>1 DEF GatewayInit
  <2>3. RateP!RateTypeOK
    BY <2>2, RateP!RateTypeInit, PartsAssumption, RateConstants
    DEF Rate!Metrics, RateP!Metrics, Rate!Windows, RateP!Windows
  <2> QED  BY <2>3, RateTypeNames
<1>3. Cat!CatalogTypeOK
  BY GatewayAssumption DEF GatewayInit, Cat!CatalogTypeOK
<1>4. /\ call \in [Callers -> Requests]
      /\ step \in [Callers -> Steps]
      /\ chosen \in [Callers -> Choices]
      /\ answer \in [Callers -> Usages \cup {NoAnswer}]
      /\ log \in [Callers -> Logs \cup {NoLog}]
  BY DEF GatewayInit, Steps, Choices, NothingChosen
<1>5. \A c \in Callers : pc[c] = "idle" /\ step[c] = "parse" /\ answer[c] = NoAnswer /\ log[c] = NoLog
  BY DEF GatewayInit, Init
<1> QED
  BY <1>1, <1>2, <1>3, <1>4, <1>5
  DEF GatewayInv, GatewayTypeOK, ChosenToSend, Unanswered, Answered, Parsed, KeptOwed, NoneLost

LEMMA GatewayInvNext ==
  ASSUME GatewayInv, [GatewayNext]_gatewayVars
  PROVE  GatewayInv'
<1> DEFINE Later == /\ ChosenToSend' /\ Unanswered' /\ Answered' /\ Parsed' /\ KeptOwed'
                    /\ NoneLost'
<1>1. TypeOK /\ TypeOK'
  BY BillingStep, TypeNext DEF GatewayInv, GatewayTypeOK
<1>2. Rate!RateTypeOK' /\ Cat!CatalogTypeOK'
  BY <1>1, QuotaStep, QuotaTypes, CatalogTypes DEF GatewayInv, GatewayTypeOK
<1>3. /\ ProxyTypes /\ call \in [Callers -> Requests] /\ faults \in Nat
      /\ ChosenToSend /\ Unanswered /\ Answered /\ Parsed /\ KeptOwed /\ NoneLost
  BY <1>1 DEF GatewayInv, GatewayTypeOK, ProxyTypes, TypeOK
<1>4. ASSUME NEW c \in Callers, Handles(c) PROVE call' = call /\ ProxyTypes' /\ Later
  <2>1. /\ ProxyTypes'
        /\ call' = call
        /\ \A d \in Callers \ {c} : /\ pc'[d] = pc[d] /\ step'[d] = step[d] /\ chosen'[d] = chosen[d]
                                    /\ answer'[d] = answer[d] /\ log'[d] = log[d]
        /\ Outcome(c)
    BY <1>4, HandlerMoves
  <2>2. faults' = faults
    BY <1>4, HandlesStep DEF HandlerStep, HandlerOutcome, billingVars, lockVars
  <2>3. ChosenToSend'
    BY <1>3, <2>1 DEF ChosenToSend, Outcome
  <2>4. Unanswered'
    BY <1>3, <2>1 DEF Unanswered, Outcome
  <2>5. Answered'
    BY <1>3, <2>1 DEF Answered, Outcome
  <2>6. Parsed'
    BY <1>3, <2>1 DEF Parsed, Outcome
  <2>7. KeptOwed'
    BY <1>3, <2>1 DEF KeptOwed, MayOwe, Outcome
  <2>8. NoneLost'
    BY <1>3, <2>1, <2>2 DEF NoneLost, Outcome
  <2> QED  BY <2>1, <2>3, <2>4, <2>5, <2>6, <2>7, <2>8
<1>5. ASSUME NEW c \in Callers, StartCount(c) PROVE call' = call /\ ProxyTypes' /\ Later
  <2>1. /\ UNCHANGED <<pc, faults, call, chosen, answer, log>> /\ step' = [step EXCEPT ![c] = "done"]
    BY <1>5 DEF StartCount, Proceed, billingVars, callVars, lockVars
  <2>2. ProxyTypes'
    BY <1>3, <2>1 DEF ProxyTypes, Steps
  <2>3. \A d \in Callers : step'[d] = step[d] \/ step'[d] = "done"
    BY <1>3, <2>1 DEF ProxyTypes
  <2> QED
    BY <1>3, <2>1, <2>2, <2>3
    DEF ChosenToSend, Unanswered, Answered, Parsed, KeptOwed, NoneLost, MayOwe
<1>6. ASSUME RestartAll PROVE call' = call /\ ProxyTypes' /\ Later
  <2>1. /\ UNCHANGED <<call, chosen, answer, log>>
        /\ step' = [c \in Callers |-> IF pc[c] = "idle" THEN step[c] ELSE "done"]
        /\ faults' = faults + 1
        /\ \A c \in Callers : pc'[c] = pc[c] \/ pc'[c] \in {"lost", "dropped"}
    BY <1>6 DEF RestartAll, Crash
  <2>2. ProxyTypes'
    BY <1>3, <2>1 DEF ProxyTypes, Steps
  <2>3. \A c \in Callers : step'[c] = step[c] \/ step'[c] = "done"
    BY <2>1
  <2> QED
    BY <1>3, <2>1, <2>2, <2>3
    DEF ChosenToSend, Unanswered, Answered, Parsed, KeptOwed, NoneLost, MayOwe
<1>7. ASSUME Quiet PROVE call' = call /\ ProxyTypes' /\ Later
  <2>1. UNCHANGED <<call, step, chosen, answer, log>>
    BY <1>7 DEF Quiet, proxyVars
  <2>2. ProxyTypes' /\ ChosenToSend' /\ Unanswered'
    BY <1>3, <2>1 DEF ProxyTypes, ChosenToSend, Unanswered
  <2>3. Answered' /\ Parsed'
    BY <1>3, <1>7, <2>1 DEF Answered, Parsed, Quiet, Calm
  <2>4. KeptOwed' /\ NoneLost'
    BY <1>3, <1>7, <2>1 DEF KeptOwed, MayOwe, NoneLost, Quiet, Calm
  <2> QED  BY <2>1, <2>2, <2>3, <2>4
<1> HIDE DEF Later
<1>8. call' = call /\ ProxyTypes' /\ Later
  BY <1>4, <1>5, <1>6, <1>7, QuietStep
<1> QED  BY <1>1, <1>2, <1>3, <1>8 DEF GatewayInv, GatewayTypeOK, ProxyTypes, Later

-----------------------------------------------------------------------------
(* Theorems.                                                               *)

LEMMA GatewayInvariant == GatewaySpec => []GatewayInv
BY GatewayInvInit, GatewayInvNext, PTL DEF GatewaySpec

\* The gateway's state is well formed: every request is at a place its handler
\* knows, with a model, a channel, an answer and a log that exist, and so are
\* the states of Billing, RateLimit and Catalog inside it.
THEOREM GatewayTypeCorrect == GatewaySpec => []GatewayTypeOK
<1>1. GatewayInv => GatewayTypeOK
  BY DEF GatewayInv
<1> QED  BY <1>1, GatewayInvariant, PTL

\* The handlers, with the catalog and the quotas they read, implement Billing,
\* which lets a handler decide anything: each of their steps is a step of
\* Billing or leaves the money, the locks and the requests' places alone.
THEOREM GatewayRefinesBilling == GatewaySpec => Spec
<1>1. GatewayInit => Init
  BY DEF GatewayInit
<1>2. ASSUME GatewayInv, [GatewayNext]_gatewayVars PROVE [Next]_vars
  BY <1>2, BillingStep
<1> QED  BY <1>1, <1>2, GatewayInvariant, PTL DEF GatewaySpec, Spec

\* So what holds of Billing holds of requests from end to end: no key is
\* overdrawn, deposits stay accounted for, and a lock lets one request in and
\* one more for every time it ran out.
THEOREM GatewayMoneySafe == GatewaySpec => [](NonNegative /\ Conserved /\ LockBudget)
BY GatewayRefinesBilling, NeverOverdrawn, DepositsConserved, OverlapBounded, PTL

LEMMA FailuresRepaidInv ==
  ASSUME GatewayInv, Conserved
  PROVE  FailuresRepaid
<1> SUFFICES ASSUME NEW k \in Keys \ clobbered, Live(k),
                    \A c \in {d \in Callers : KeyOf[d] = k} : Over(c) \/ pc[c] = "idle"
             PROVE  deposited[k] - row[k].balance
                      <= PreDeductAmount * Cardinality({c \in {d \in Callers : KeyOf[d] = k} : MayOwe(c)})
  BY DEF FailuresRepaid
<1> DEFINE owing == {c \in {d \in Callers : KeyOf[d] = k} : MayOwe(c)}
<1>1. Held(k) \subseteq owing
  <2> SUFFICES ASSUME NEW c \in Held(k) PROVE c \in owing
    OBVIOUS
  <2>1. c \in Callers /\ KeyOf[c] = k /\ pc[c] \in Holding
    BY DEF Held
  <2>2. pc[c] \in Final \cup {"idle"}
    BY <2>1 DEF Over
  <2>3. pc[c] \in {"kept", "lost"}
    BY <2>1, <2>2 DEF Final, Holding
  <2>4. MayOwe(c)
    BY <2>1, <2>3 DEF GatewayInv, KeptOwed, MayOwe
  <2> QED  BY <2>1, <2>4
<1>2. IsFiniteSet(owing)
  BY BillingAssumption, FS_Subset
<1>3. /\ Cardinality(Held(k)) \in Nat /\ Cardinality(owing) \in Nat
      /\ Cardinality(Held(k)) <= Cardinality(owing)
  BY <1>1, <1>2, FS_Subset, FS_CardinalityType, HeldFinite
<1> HIDE DEF owing
<1>4. row[k].balance + PreDeductAmount * Cardinality(Held(k)) = deposited[k]
  BY DEF Conserved
<1>5. row[k].balance \in Int /\ PreDeductAmount \in Nat
  BY BillingAssumption DEF GatewayInv, GatewayTypeOK, TypeOK, KeysTypeOK, Rows, LiveRows, Live
<1>6. \A a, m, n \in Nat : m <= n => a * m <= a * n
  OBVIOUS
<1>7. PreDeductAmount * Cardinality(Held(k)) <= PreDeductAmount * Cardinality(owing)
  BY <1>3, <1>5, <1>6
<1>8. /\ PreDeductAmount * Cardinality(Held(k)) \in Int
      /\ PreDeductAmount * Cardinality(owing) \in Int
  BY <1>3, <1>5
<1>9. deposited[k] - row[k].balance <= PreDeductAmount * Cardinality(owing)
  BY <1>4, <1>5, <1>7, <1>8
<1> QED  BY <1>9 DEF owing

\* A key is never short of more than one reservation for each request that was
\* answered, asked for a stream, or was lost to a crash or a failing query:
\* requests that were refused, and failures that are no streams, are repaid.
THEOREM FailedHaveTheirMoney == GatewaySpec => []FailuresRepaid
BY GatewayInvariant, GatewayMoneySafe, FailuresRepaidInv, PTL

-----------------------------------------------------------------------------
(* The usage log and the quotas.                                           *)

\* No fault yet, and queries do not fail.
GoesWell == faults = 0 /\ ~DBMayFail

\* A request that the quotas have let in stays so until it is counted or ends.
InHand ==
  \A c \in Callers :
    pc[c] \in {"admitted", "predebit", "reserved"} \/ step[c] = "count" => stage[c] = Rate!Passed

LoggedToCount == \A c \in Callers : step[c] = "count" => LogsAnswer(c)

\* What is counted has been settled and logged.
CountedSettled ==
  \A c \in Callers : stage[c].doing = "counting" => step[c] = "done" /\ LogsAnswer(c) /\ pc[c] = "settled"

\* The request has been counted in its day.
Tallied(c) ==
  /\ LogsAnswer(c) /\ pc[c] # "kept" /\ step[c] = "done"
  /\ ~(stage[c].doing = "counting" /\ stage[c].next <= 3)

IdleUnsent == \A c \in Callers : pc[c] = "idle" => step[c] = "parse"

TalliedOf(k) == {c \in Callers : KeyOf[c] = k /\ Tallied(c)}

DaysMatch ==
  (UseRedis => minute < StartMinute + DayTTL) =>
    \A k \in Keys : RateP!Total(RateP!DaysOf(k)) = Cardinality(TalliedOf(k))

TallyParts == InHand /\ LoggedToCount /\ CountedSettled /\ IdleUnsent /\ DaysMatch

TallyInv ==
  /\ GatewayInv
  /\ RateP!DaysLast
  /\ ~redisUp => faults # 0
  /\ GoesWell => TallyParts

\* In a request that is over nothing moves any more.
LEMMA FinalStays ==
  ASSUME TypeOK, [Next]_vars, NEW c \in Callers, pc[c] \in Final
  PROVE  pc'[c] = pc[c]
<1>1. ASSUME NEW d \in Callers, CallerNext(d) PROVE pc'[c] = pc[c]
  <2>1. pc[d] \notin Final
    BY <1>1 DEF CallerNext, Authenticate, CheckRateLimit, AcquireLock, PreDeduct, HandlerOutcome, Refund,
                FinalizeBilling, Waiting, Entered, Final
  <2>2. \E label : Goto(d, label)
    BY <1>1 DEF CallerNext, Authenticate, CheckRateLimit, AcquireLock, PreDeduct, HandlerOutcome, Refund,
                FinalizeBilling
  <2> QED  BY <2>1, <2>2 DEF Goto, TypeOK
<1>2. CASE Crash
  BY <1>2 DEF Crash
<1>3. CASE \/ KeysNext /\ UNCHANGED <<callVars, lockVars>>
           \/ \E d \in Callers : LoseReply(d)
           \/ \E k \in Keys : ExpireLock(k)
           \/ RedisDown \/ RedisBack
           \/ UNCHANGED vars
  BY <1>3 DEF callVars, LoseReply, ExpireLock, RedisDown, RedisBack, vars
<1> QED  BY <1>1, <1>2, <1>3 DEF Next

\* Sums and counters are the same in both instances of RateLimit.
LEMMA SameTotals == \A S : Rate!Total(S) = RateP!Total(S)
BY DEF Rate!Total, RateP!Total, Rate!Count, RateP!Count, Rate!SumFunction, RateP!SumFunction,
       Rate!SumFunctionOnSet, RateP!SumFunctionOnSet, Rate!FoldFunctionOnSet, RateP!FoldFunctionOnSet,
       Rate!MapThenFoldSet, RateP!MapThenFoldSet

LEMMA TotalNames ==
  ASSUME NEW k
  PROVE  Rate!Total({ctr \in Rate!Counters : ctr.metric = "rpd" /\ ctr.key = k}) = RateP!Total(RateP!DaysOf(k))
<1>1. {ctr \in Rate!Counters : ctr.metric = "rpd" /\ ctr.key = k} = RateP!DaysOf(k)
  BY DEF RateP!DaysOf, Rate!Counters, RateP!Counters, Rate!Metrics, RateP!Metrics, Rate!Windows, RateP!Windows
<1> QED  BY <1>1, SameTotals

\* Once all requests of a key are over, those that were logged have been counted.
LEMMA TallyImplies ==
  ASSUME TallyInv
  PROVE  QuotaMatchesLog
<1> SUFFICES ASSUME GoesWell, UseRedis => minute < StartMinute + DayTTL, NEW k \in Keys,
                    \A c \in {d \in Callers : KeyOf[d] = k} : Over(c) \/ pc[c] = "idle"
             PROVE  RateP!Total(RateP!DaysOf(k))
                      = Cardinality({c \in {d \in Callers : KeyOf[d] = k} : LogsAnswer(c) /\ pc[c] # "kept"})
  BY TotalNames DEF QuotaMatchesLog, GoesWell
<1>1. GatewayInv /\ InHand /\ LoggedToCount /\ CountedSettled /\ IdleUnsent /\ DaysMatch
  BY DEF TallyInv, TallyParts
<1>2. ASSUME NEW c \in Callers, KeyOf[c] = k PROVE Tallied(c) <=> LogsAnswer(c) /\ pc[c] # "kept"
  <2>1. CASE pc[c] = "idle"
    BY <1>1, <2>1 DEF IdleUnsent, GatewayInv, Unanswered, LogsAnswer, Tallied
  <2>2. CASE Over(c)
    <3>1. stage[c].doing # "counting" /\ stage[c] # Rate!Passed
      BY <2>2 DEF Over, Rate!Idle, Rate!Passed
    <3>2. LogsAnswer(c) => step[c] = "done"
      BY <1>1, <3>1 DEF GatewayInv, GatewayTypeOK, Steps, Unanswered, InHand, LogsAnswer
    <3> QED  BY <3>1, <3>2 DEF Tallied
  <2> QED  BY <1>2, <2>1, <2>2
<1>3. {c \in {d \in Callers : KeyOf[d] = k} : LogsAnswer(c) /\ pc[c] # "kept"} = TalliedOf(k)
  BY <1>2 DEF TalliedOf
<1> QED  BY <1>1, <1>3 DEF DaysMatch

\* What each step of the quotas does to the requests' stages.
OthersStay(c) == \A d \in Callers \ {c} : stage'[d] = stage[d]

LEMMA QuotaStages ==
  ASSUME Rate!RateTypeOK, NEW c \in Callers
  PROVE  /\ Rate!BeginCheck(c) =>
              /\ stage[c] = Rate!Idle /\ stage'[c].doing = "checking" /\ OthersStay(c)
              /\ UNCHANGED <<minute, redis, memory>>
         /\ Rate!EndUncounted(c) =>
              /\ stage[c] = Rate!Passed /\ stage'[c] = Rate!Idle /\ OthersStay(c)
              /\ UNCHANGED <<minute, redis, memory>>
         /\ \A n : Rate!BeginCount(c, n) =>
              /\ stage[c] = Rate!Passed /\ stage'[c] = [doing |-> "counting", next |-> 1] /\ OthersStay(c)
              /\ UNCHANGED <<minute, redis, memory>>
<1> USE DEF Rate!RateTypeOK, Rate!storeVars, OthersStay
<1>1. Rate!BeginCheck(c) =>
        /\ stage[c] = Rate!Idle /\ stage'[c].doing = "checking" /\ OthersStay(c)
        /\ UNCHANGED <<minute, redis, memory>>
  BY DEF Rate!BeginCheck
<1>2. Rate!EndUncounted(c) =>
        /\ stage[c] = Rate!Passed /\ stage'[c] = Rate!Idle /\ OthersStay(c)
        /\ UNCHANGED <<minute, redis, memory>>
  BY DEF Rate!EndUncounted
<1>3. ASSUME NEW n, Rate!BeginCount(c, n)
      PROVE  /\ stage[c] = Rate!Passed /\ stage'[c] = [doing |-> "counting", next |-> 1] /\ OthersStay(c)
             /\ UNCHANGED <<minute, redis, memory>>
  BY <1>3 DEF Rate!BeginCount
<1> QED  BY <1>1, <1>2, <1>3

LEMMA CheckStages ==
  ASSUME Rate!RateTypeOK, NEW c \in Callers, NEW limits, Rate!CheckCounter(c, limits)
  PROVE  /\ stage[c].doing = "checking" /\ stage'[c].doing \in {"checking", "idle", "passed"}
         /\ OthersStay(c) /\ UNCHANGED <<minute, redis, memory>>
<1>1. RateP!RateTypeOK /\ RateP!CheckCounter(c, limits)
  BY RateTypeNames, RateActionNames
<1>2. /\ stage[c].doing = "checking"
      /\ \E s : /\ s.doing \in {"checking", "idle", "passed"}
               /\ stage' = [stage EXCEPT ![c] = s]
      /\ UNCHANGED <<minute, redis, memory>>
  BY <1>1, RateP!CheckMoves, PartsAssumption, RateConstants
  DEF RateP!Passed, RateP!Idle, RateP!storeVars, Rate!Metrics, RateP!Metrics, Rate!Windows, RateP!Windows
<1> QED  BY <1>2 DEF OthersStay, Rate!RateTypeOK

LEMMA CountStages ==
  ASSUME Rate!RateTypeOK, NEW c \in Callers, Rate!CountNext(c)
  PROVE  /\ stage[c].doing = "counting" /\ stage[c].next \in 1..4
         /\ \/ stage[c].next # 4 /\ stage'[c] = [doing |-> "counting", next |-> stage[c].next + 1]
            \/ stage[c].next = 4 /\ stage'[c] = Rate!Idle
         /\ OthersStay(c) /\ minute' = minute
<1>1. RateP!RateTypeOK /\ RateP!CountNext(c)
  BY RateTypeNames, RateActionNames
<1>2. /\ stage[c].doing = "counting" /\ stage[c].next \in 1..4
      /\ \/ stage[c].next # 4 /\ stage' = [stage EXCEPT ![c] = [doing |-> "counting", next |-> stage[c].next + 1]]
         \/ stage[c].next = 4 /\ stage' = [stage EXCEPT ![c] = Rate!Idle]
      /\ minute' = minute
  BY <1>1, RateP!CountMoves, PartsAssumption, RateConstants
  DEF RateP!Steps, Rate!Idle, RateP!Idle, Rate!Metrics, RateP!Metrics, Rate!Windows, RateP!Windows
<1> QED  BY <1>2 DEF OthersStay, Rate!RateTypeOK

\* What each does to the days' totals.
LEMMA CountedOnce ==
  ASSUME Rate!RateTypeOK, Rate!RateTypeOK', UseRedis => redisUp, NEW c \in Callers, Rate!CountNext(c), NEW k \in Keys
  PROVE  /\ RateP!Total(RateP!DaysOf(k)) \in Nat
         /\ RateP!Total(RateP!DaysOf(k))'
              = RateP!Total(RateP!DaysOf(k)) + (IF KeyOf[c] = k /\ stage[c].next = 3 THEN 1 ELSE 0)
<1>1. RateP!RateTypeOK /\ RateP!RateTypeOK' /\ RateP!CountNext(c)
  BY RateTypeNames, RateActionNames
<1> QED
  BY <1>1, RateP!CountTally, PartsAssumption, RateConstants
  DEF Rate!Metrics, RateP!Metrics, Rate!Windows, RateP!Windows

LEMMA NoneRunsOut ==
  ASSUME Rate!RateTypeOK, Rate!RateTypeOK', RateP!DaysLast, UseRedis => minute < StartMinute + DayTTL,
         NEW ctr \in Rate!Counters, Rate!ExpireCounter(ctr), NEW k \in Keys
  PROVE  RateP!Total(RateP!DaysOf(k))' = RateP!Total(RateP!DaysOf(k))
<1>1. RateP!RateTypeOK /\ RateP!RateTypeOK' /\ RateP!ExpireCounter(ctr)
  BY RateTypeNames, RateActionNames
<1>2. ctr \in RateP!Counters
  BY DEF Rate!Counters, RateP!Counters, Rate!Metrics, RateP!Metrics, Rate!Windows, RateP!Windows
<1> QED
  BY <1>1, <1>2, RateP!ExpireTally, PartsAssumption, RateConstants
  DEF Rate!Metrics, RateP!Metrics, Rate!Windows, RateP!Windows

LEMMA DaysLastStep ==
  ASSUME Rate!RateTypeOK, RateP!DaysLast, QuotaMove
  PROVE  RateP!DaysLast'
<1>0. RateP!RateTypeOK
  BY RateTypeNames
<1>1. CASE UNCHANGED quotaVars
  BY <1>1 DEF quotaVars, RateP!DaysLast, RateP!Counters
<1>2. ASSUME NEW w \in Callers,
             \/ Rate!BeginCheck(w)
             \/ \E limits : Rate!CheckCounter(w, limits)
             \/ \E n \in TokenCounts : Rate!BeginCount(w, n)
             \/ Rate!CountNext(w)
             \/ Rate!EndUncounted(w)
      PROVE  RateP!DaysLast'
  <2>1. \/ RateP!BeginCheck(w)
        \/ \E limits : RateP!CheckCounter(w, limits)
        \/ \E n \in TokenCounts : RateP!BeginCount(w, n)
        \/ RateP!CountNext(w)
        \/ RateP!EndUncounted(w)
    BY <1>2, RateActionNames
  <2> QED
    BY <1>0, <2>1, RateP!DaysLastWorker, PartsAssumption, RateConstants
    DEF Rate!Metrics, RateP!Metrics, Rate!Windows, RateP!Windows
<1>3. CASE \/ \E ctr \in Rate!Counters : Rate!ExpireCounter(ctr)
           \/ Rate!Tick \/ Rate!RateCrash \/ Rate!RateRedisDown \/ Rate!RateRedisBack
  <2>1. Rate!Counters = RateP!Counters
    BY DEF Rate!Counters, RateP!Counters, Rate!Metrics, RateP!Metrics, Rate!Windows, RateP!Windows
  <2>2. \/ \E ctr \in RateP!Counters : RateP!ExpireCounter(ctr)
        \/ RateP!Tick \/ RateP!RateCrash \/ RateP!RateRedisDown \/ RateP!RateRedisBack
    BY <1>3, <2>1, RateActionNames
  <2> QED
    BY <1>0, <2>2, RateP!DaysLastNext, PartsAssumption, RateConstants
    DEF Rate!Metrics, RateP!Metrics, Rate!Windows, RateP!Windows
<1> QED  BY <1>1, <1>2, <1>3 DEF QuotaMove

\* Faults are never undone, and only a fault takes Redis away.
LEMMA FaultsGrow ==
  ASSUME TypeOK, [Next]_vars
  PROVE  /\ faults' = faults \/ faults' = faults + 1
         /\ redisUp /\ ~redisUp' => faults' = faults + 1
<1>1. ASSUME NEW c \in Callers, CallerNext(c) PROVE UNCHANGED <<faults, redisUp>>
  BY <1>1 DEF CallerNext, Authenticate, CheckRateLimit, AcquireLock, PreDeduct, HandlerOutcome, Refund,
              FinalizeBilling, ReleaseLock, lockVars
<1> QED
  BY <1>1 DEF Next, LoseReply, ExpireLock, Crash, RedisDown, RedisBack, vars, lockVars, TypeOK

LEMMA DaysKeptUp ==
  ASSUME DaysMatch, minute \in Nat, minute' \in Nat, minute <= minute',
         (UseRedis => minute < StartMinute + DayTTL) =>
           \A k \in Keys : RateP!Total(RateP!DaysOf(k))' = RateP!Total(RateP!DaysOf(k)),
         \A c \in Callers : Tallied(c)' <=> Tallied(c)
  PROVE  DaysMatch'
<1>1. \A k \in Keys : TalliedOf(k)' = TalliedOf(k)
  BY DEF TalliedOf
<1>2. (UseRedis => minute' < StartMinute + DayTTL) => (UseRedis => minute < StartMinute + DayTTL)
  BY PartsAssumption DEF Rate!RateAssumption, Rate!Windows
<1> QED  BY <1>1, <1>2 DEF DaysMatch

LEMMA HandlersTally ==
  ASSUME GatewayInv, GoesWell, TallyParts, NEW c \in Callers, Handles(c)
  PROVE  TallyParts'
<1>1. /\ \A d \in Callers \ {c} : pc'[d] = pc[d] /\ step'[d] = step[d] /\ log'[d] = log[d]
      /\ Outcome(c)
  BY HandlerMoves
<1>2. /\ UNCHANGED quotaVars /\ pc[c] = "reserved"
      /\ step[c] \in {"parse", "model", "channel", "send"}
  BY HandlesStep DEF HandlerStep, HandlerOutcome, Reserved
<1>3. /\ UNCHANGED <<minute, redis, memory, stage>> /\ minute \in Nat
  BY <1>2, PartsAssumption DEF quotaVars, GatewayInv, GatewayTypeOK, Rate!RateTypeOK, Rate!Windows, Rate!RateAssumption
<1>4. stage[c] = Rate!Passed
  BY <1>2 DEF TallyParts, InHand
<1>5. InHand'
  BY <1>1, <1>3, <1>4 DEF TallyParts, InHand
<1>6. LoggedToCount' /\ IdleUnsent'
  BY <1>1, <1>2 DEF TallyParts, LoggedToCount, IdleUnsent, LogsAnswer, Outcome, GoesWell
<1>7. CountedSettled'
  BY <1>1, <1>3, <1>4 DEF TallyParts, CountedSettled, LogsAnswer, Rate!Passed
<1>8. \A d \in Callers : Tallied(d)' <=> Tallied(d)
  <2>1. ~Tallied(c) /\ ~Tallied(c)'
    BY <1>1, <1>2 DEF Tallied, Outcome
  <2>2. \A d \in Callers \ {c} : Tallied(d)' <=> Tallied(d)
    BY <1>1, <1>3 DEF Tallied, LogsAnswer
  <2> QED  BY <2>1, <2>2
<1>9. \A k \in Keys : RateP!Total(RateP!DaysOf(k))' = RateP!Total(RateP!DaysOf(k))
  BY <1>3, RateP!StoreTally, PartsAssumption, RateConstants
  DEF Rate!Metrics, RateP!Metrics, Rate!Windows, RateP!Windows
<1>10. DaysMatch'
  BY <1>3, <1>8, <1>9, DaysKeptUp DEF TallyParts
<1> QED  BY <1>5, <1>6, <1>7, <1>10 DEF TallyParts

LEMMA CountBegins ==
  ASSUME GatewayInv, GoesWell, TallyParts, NEW c \in Callers, StartCount(c)
  PROVE  TallyParts'
<1>1. /\ step[c] = "count" /\ pc[c] \in {"settled", "lost"} /\ Rate!BeginCount(c, Counted(c))
      /\ UNCHANGED <<pc, log>> /\ step' = [step EXCEPT ![c] = "done"] /\ step \in [Callers -> Steps]
  BY DEF StartCount, Proceed, billingVars, callVars, GatewayInv, GatewayTypeOK
<1>2. /\ stage[c] = Rate!Passed /\ stage'[c] = [doing |-> "counting", next |-> 1] /\ OthersStay(c)
      /\ UNCHANGED <<minute, redis, memory>>
  BY <1>1, QuotaStages DEF GatewayInv, GatewayTypeOK
<1>3. step'[c] = "done" /\ \A d \in Callers \ {c} : step'[d] = step[d]
  BY <1>1
<1>4. pc[c] = "settled" /\ LogsAnswer(c) /\ LogsAnswer(c)'
  BY <1>1 DEF GatewayInv, NoneLost, GoesWell, TallyParts, LoggedToCount, LogsAnswer
<1>5. InHand' /\ LoggedToCount' /\ IdleUnsent'
  BY <1>1, <1>2, <1>3, <1>4 DEF TallyParts, InHand, LoggedToCount, IdleUnsent, LogsAnswer, OthersStay
<1>6. CountedSettled'
  BY <1>1, <1>2, <1>3, <1>4 DEF TallyParts, CountedSettled, LogsAnswer, OthersStay
<1>7. \A d \in Callers : Tallied(d)' <=> Tallied(d)
  <2>1. ~Tallied(c)
    BY <1>1 DEF Tallied
  <2>2. ~Tallied(c)'
    BY <1>2 DEF Tallied
  <2>3. \A d \in Callers \ {c} : Tallied(d)' <=> Tallied(d)
    BY <1>1, <1>2, <1>3 DEF Tallied, LogsAnswer, OthersStay
  <2> QED  BY <2>1, <2>2, <2>3
<1>8. \A k \in Keys : RateP!Total(RateP!DaysOf(k))' = RateP!Total(RateP!DaysOf(k))
  BY <1>2, RateP!StoreTally, PartsAssumption, RateConstants
  DEF Rate!Metrics, RateP!Metrics, Rate!Windows, RateP!Windows
<1>9. minute \in Nat
  BY PartsAssumption DEF GatewayInv, GatewayTypeOK, Rate!RateTypeOK, Rate!Windows, Rate!RateAssumption
<1>10. DaysMatch'
  BY <1>2, <1>7, <1>8, <1>9, DaysKeptUp DEF TallyParts
<1> QED  BY <1>5, <1>6, <1>10 DEF TallyParts

LEMMA CountGoesOn ==
  ASSUME GatewayInv, GatewayInv', GoesWell, redisUp, TallyParts, NEW c \in Callers, CountOn(c)
  PROVE  TallyParts'
<1>1. Rate!CountNext(c) /\ UNCHANGED <<pc, step, log>>
  BY DEF CountOn, proxyVars, billingVars, callVars
<1>2. Rate!RateTypeOK /\ Rate!RateTypeOK'
  BY DEF GatewayInv, GatewayTypeOK
<1>3. /\ stage[c].doing = "counting" /\ stage[c].next \in 1..4
      /\ \/ stage[c].next # 4 /\ stage'[c] = [doing |-> "counting", next |-> stage[c].next + 1]
         \/ stage[c].next = 4 /\ stage'[c] = Rate!Idle
      /\ OthersStay(c) /\ minute' = minute
  BY <1>1, <1>2, CountStages
<1>4. step[c] = "done" /\ LogsAnswer(c) /\ pc[c] = "settled" /\ stage[c] # Rate!Passed
  BY <1>3 DEF TallyParts, CountedSettled, Rate!Passed
<1>5. InHand' /\ LoggedToCount' /\ IdleUnsent'
  BY <1>1, <1>3, <1>4 DEF TallyParts, InHand, LoggedToCount, IdleUnsent, LogsAnswer, OthersStay
<1>6. CountedSettled'
  BY <1>1, <1>3, <1>4 DEF TallyParts, CountedSettled, LogsAnswer, OthersStay
<1>7. \A d \in Callers \ {c} : Tallied(d)' <=> Tallied(d)
  BY <1>1, <1>3 DEF Tallied, LogsAnswer, OthersStay
<1>8. (Tallied(c) <=> stage[c].next = 4) /\ (Tallied(c)' <=> stage[c].next \in {3, 4})
  <2>1. Tallied(c) <=> stage[c].next = 4
    BY <1>3, <1>4 DEF Tallied
  <2>2. Tallied(c)' <=> ~(stage'[c].doing = "counting" /\ stage'[c].next <= 3)
    BY <1>1, <1>4 DEF Tallied, LogsAnswer
  <2>3. CASE stage[c].next # 4
    BY <1>3, <2>1, <2>2, <2>3
  <2>4. CASE stage[c].next = 4
    BY <1>3, <2>1, <2>2, <2>4 DEF Rate!Idle
  <2> QED  BY <2>3, <2>4
<1>9. ASSUME NEW k \in Keys
      PROVE  Cardinality(TalliedOf(k)')
               = Cardinality(TalliedOf(k)) + (IF KeyOf[c] = k /\ stage[c].next = 3 THEN 1 ELSE 0)
  <2>1. IsFiniteSet(TalliedOf(k)) /\ Cardinality(TalliedOf(k)) \in Nat
    BY BillingAssumption, FS_Subset, FS_CardinalityType DEF TalliedOf
  <2>2. CASE KeyOf[c] = k /\ stage[c].next = 3
    <3>1. TalliedOf(k)' = TalliedOf(k) \cup {c} /\ c \notin TalliedOf(k)
      BY <1>7, <1>8, <2>2 DEF TalliedOf
    <3> QED  BY <2>1, <2>2, <3>1, FS_AddElement
  <2>3. CASE ~(KeyOf[c] = k /\ stage[c].next = 3)
    <3>1. TalliedOf(k)' = TalliedOf(k)
      BY <1>3, <1>7, <1>8, <2>3 DEF TalliedOf
    <3> QED  BY <2>1, <2>3, <3>1
  <2> QED  BY <2>2, <2>3
<1>10. DaysMatch'
  <2>1. ASSUME NEW k \in Keys
        PROVE  RateP!Total(RateP!DaysOf(k))'
                 = RateP!Total(RateP!DaysOf(k)) + (IF KeyOf[c] = k /\ stage[c].next = 3 THEN 1 ELSE 0)
    BY <1>1, <1>2, CountedOnce
  <2> QED  BY <1>3, <1>9, <2>1 DEF DaysMatch, TallyParts
<1> QED  BY <1>5, <1>6, <1>10 DEF TallyParts

\* Whatever else happens, with the logs and the handlers' places unchanged.
StageKept(c) ==
  \/ stage'[c] = stage[c]
  \/ /\ stage[c].doing # "counting" /\ stage'[c].doing # "counting"
     /\ stage[c] = Rate!Passed => pc[c] \in Final /\ step[c] # "count"

LEMMA QuietTally ==
  ASSUME GatewayInv, TypeOK', GoesWell, TallyParts, [Next]_vars, faults' = faults, Quiet,
         minute \in Nat, minute' \in Nat, minute <= minute',
         \A c \in Callers : StageKept(c),
         \A c \in Callers : pc'[c] \in {"admitted", "predebit", "reserved"} =>
            pc[c] \in {"admitted", "predebit", "reserved"} \/ stage'[c] = Rate!Passed,
         (UseRedis => minute < StartMinute + DayTTL) =>
           \A k \in Keys : RateP!Total(RateP!DaysOf(k))' = RateP!Total(RateP!DaysOf(k))
  PROVE  TallyParts'
<1>1. UNCHANGED <<step, log>>
  BY DEF Quiet, proxyVars
<1>2. \A c \in Callers : pc[c] \in Final => pc'[c] = pc[c]
  BY FinalStays DEF GatewayInv, GatewayTypeOK
<1>3. InHand'
  BY <1>1, <1>2 DEF InHand, TallyParts, StageKept, Final
<1>4. LoggedToCount'
  BY <1>1 DEF LoggedToCount, TallyParts, LogsAnswer
<1>5. CountedSettled'
  BY <1>1, <1>2 DEF CountedSettled, TallyParts, LogsAnswer, StageKept, Final
<1>6. \A c \in Callers : pc'[c] # "idle" \/ pc[c] = "idle"
  BY DEF Quiet, Calm
<1>7. IdleUnsent'
  BY <1>1, <1>6 DEF IdleUnsent, TallyParts
<1>8. ASSUME NEW c \in Callers PROVE Tallied(c)' <=> Tallied(c)
  <2>1. pc'[c] = "kept" <=> pc[c] = "kept"
    BY <1>2 DEF Quiet, Calm, Final
  <2>2. /\ stage'[c].doing = "counting" <=> stage[c].doing = "counting"
        /\ stage'[c].doing = "counting" => stage'[c].next = stage[c].next
    BY DEF StageKept
  <2> QED  BY <1>1, <2>1, <2>2 DEF Tallied, LogsAnswer
<1>9. DaysMatch'
  BY <1>8, DaysKeptUp DEF TallyParts
<1> QED  BY <1>3, <1>4, <1>5, <1>7, <1>9 DEF TallyParts

\* The requests that have been let in and have not come to an outcome yet.
Taken == {"admitted", "predebit", "reserved"}

\* What every step but a handler's and a count's does to the quotas.
Resting ==
  /\ minute' = minute \/ minute' = minute + 1
  /\ \A c \in Callers : StageKept(c)
  /\ \A c \in Callers : pc'[c] \in Taken => pc[c] \in Taken \/ stage'[c] = Rate!Passed
  /\ (UseRedis => minute < StartMinute + DayTTL) =>
       \A k \in Keys : RateP!Total(RateP!DaysOf(k))' = RateP!Total(RateP!DaysOf(k))

LEMMA StoreRests ==
  ASSUME UNCHANGED <<redis, memory>>
  PROVE  \A k \in Keys : RateP!Total(RateP!DaysOf(k))' = RateP!Total(RateP!DaysOf(k))
BY RateP!StoreTally, PartsAssumption, RateConstants
DEF Rate!Metrics, RateP!Metrics, Rate!Windows, RateP!Windows

LEMMA CallRests ==
  ASSUME GatewayInv, NEW c \in Callers,
         Arrive(c) \/ StartCheck(c) \/ CheckQuota(c) \/ UseBilling(c) \/ Leave(c)
  PROVE  Resting /\ UNCHANGED <<redis, memory>>
<1>0. /\ pc \in [Callers -> PCs] /\ Rate!RateTypeOK
      /\ \A label : Goto(c, label) => pc'[c] = label /\ \A d \in Callers \ {c} : pc'[d] = pc[d]
  BY DEF GatewayInv, GatewayTypeOK, TypeOK, Goto
<1>1. CASE Arrive(c)
  <2>1. UNCHANGED <<minute, redis, memory, stage>>
    BY <1>1 DEF Arrive, quotaVars
  <2>2. Goto(c, "authed") \/ Goto(c, "refused")
    BY <1>1 DEF Arrive, Authenticate
  <2>3. \A d \in Callers : pc'[d] \in Taken => pc[d] \in Taken
    BY <1>0, <2>2 DEF Taken
  <2> QED  BY <2>1, <2>3, StoreRests DEF Resting, StageKept
<1>2. CASE StartCheck(c)
  <2>1. /\ stage[c] = Rate!Idle /\ stage'[c].doing = "checking" /\ OthersStay(c)
        /\ UNCHANGED <<minute, redis, memory>> /\ pc' = pc
    BY <1>0, <1>2, QuotaStages DEF StartCheck, billingVars, callVars
  <2>2. \A d \in Callers : StageKept(d)
    BY <2>1 DEF StageKept, OthersStay, Rate!Idle, Rate!Passed
  <2> QED  BY <2>1, <2>2, StoreRests DEF Resting
<1>3. CASE CheckQuota(c)
  <2>1. /\ stage[c].doing = "checking" /\ stage'[c].doing \in {"checking", "idle", "passed"}
        /\ OthersStay(c) /\ UNCHANGED <<minute, redis, memory>>
    BY <1>0, <1>3, CheckStages DEF CheckQuota
  <2>2. \A d \in Callers : StageKept(d)
    BY <2>1 DEF StageKept, OthersStay, Rate!Passed
  <2>3. \A d \in Callers : pc'[d] \in Taken => pc[d] \in Taken \/ stage'[d] = Rate!Passed
    <3>1. CASE UNCHANGED billingVars
      BY <3>1 DEF billingVars, callVars
    <3>2. CASE CheckRateLimit(c) /\ (pc'[c] = "refused" \/ stage'[c] = Rate!Passed)
      BY <1>0, <3>2 DEF CheckRateLimit, Taken
    <3> QED  BY <1>3, <3>1, <3>2 DEF CheckQuota
  <2> QED  BY <2>1, <2>2, <2>3, StoreRests DEF Resting
<1>4. CASE UseBilling(c)
  <2>1. UNCHANGED <<minute, redis, memory, stage>>
    BY <1>4 DEF UseBilling, quotaVars
  <2>2. \E label : Goto(c, label) /\ (label \in Taken => pc[c] \in Taken)
    <3>1. CASE AcquireLock(c)
      BY <3>1 DEF AcquireLock, Waiting, Entered, Taken
    <3>2. CASE PreDeduct(c)
      BY <3>2 DEF PreDeduct, Taken
    <3>3. CASE Refund(c) \/ FinalizeBilling(c, answer[c])
      BY <3>3 DEF Refund, FinalizeBilling, Taken
    <3> QED  BY <1>4, <3>1, <3>2, <3>3 DEF UseBilling
  <2>3. \A d \in Callers : pc'[d] \in Taken => pc[d] \in Taken
    BY <1>0, <2>2
  <2> QED  BY <2>1, <2>3, StoreRests DEF Resting, StageKept
<1>5. CASE Leave(c)
  <2>1. /\ stage[c] = Rate!Passed /\ stage'[c] = Rate!Idle /\ OthersStay(c)
        /\ UNCHANGED <<minute, redis, memory>> /\ pc' = pc
        /\ pc[c] \in Final /\ step[c] # "count"
    BY <1>0, <1>5, QuotaStages DEF Leave, billingVars, callVars
  <2>2. \A d \in Callers : StageKept(d)
    BY <2>1 DEF StageKept, OthersStay, Rate!Idle, Rate!Passed
  <2> QED  BY <2>1, <2>2, StoreRests DEF Resting
<1> QED  BY <1>1, <1>2, <1>3, <1>4, <1>5

LEMMA ElseRests ==
  ASSUME GatewayInv, GatewayInv', RateP!DaysLast,
         \/ Administer /\ UNCHANGED quotaVars
         \/ Rate!Tick /\ UNCHANGED billingVars
         \/ RedisNext
         \/ UNCHANGED gatewayVars
  PROVE  Resting
<1>1. CASE Administer /\ UNCHANGED quotaVars
  <2>1. UNCHANGED <<pc, minute, redis, memory, stage>>
    BY <1>1 DEF Administer, quotaVars, billingVars, callVars
  <2> QED  BY <2>1, StoreRests DEF Resting, StageKept
<1>2. CASE Rate!Tick /\ UNCHANGED billingVars
  <2>1. UNCHANGED <<pc, redis, memory, stage>> /\ minute' = minute + 1
    BY <1>2 DEF Rate!Tick, Rate!storeVars, Rate!workerVars, billingVars, callVars
  <2> QED  BY <2>1, StoreRests DEF Resting, StageKept
<1>3. CASE RedisNext
  <2>1. pc' = pc
    BY <1>3 DEF RedisNext, RedisDown, RedisBack, LoseReply, ExpireLock, billingVars, callVars
  <2>2. CASE \E ctr \in Rate!Counters : Rate!ExpireCounter(ctr)
    <3>1. PICK ctr \in Rate!Counters : Rate!ExpireCounter(ctr)
      BY <2>2
    <3>2. UNCHANGED <<minute, stage>>
      BY <3>1 DEF Rate!ExpireCounter, Rate!workerVars
    <3>3. (UseRedis => minute < StartMinute + DayTTL) =>
            \A k \in Keys : RateP!Total(RateP!DaysOf(k))' = RateP!Total(RateP!DaysOf(k))
      BY <3>1, NoneRunsOut DEF GatewayInv, GatewayTypeOK
    <3> QED  BY <2>1, <3>2, <3>3 DEF Resting, StageKept
  <2>3. CASE UNCHANGED <<minute, redis, memory, stage>>
    BY <2>1, <2>3, StoreRests DEF Resting, StageKept
  <2> QED
    BY <1>3, <2>2, <2>3
    DEF RedisNext, Rate!RateRedisDown, Rate!RateRedisBack, Rate!storeVars, Rate!workerVars, quotaVars
<1>4. CASE UNCHANGED gatewayVars
  <2>1. UNCHANGED <<pc, minute, redis, memory, stage>>
    BY <1>4 DEF gatewayVars, quotaVars, billingVars, callVars
  <2> QED  BY <2>1, StoreRests DEF Resting, StageKept
<1> QED  BY <1>1, <1>2, <1>3, <1>4

LEMMA TallyNext ==
  ASSUME TallyInv, [GatewayNext]_gatewayVars
  PROVE  TallyInv'
<1>1. GatewayInv /\ GatewayInv' /\ TypeOK /\ [Next]_vars
  BY GatewayInvNext, BillingStep DEF TallyInv, GatewayInv, GatewayTypeOK
<1>2. RateP!DaysLast'
  BY <1>1, QuotaStep, DaysLastStep DEF TallyInv, GatewayInv, GatewayTypeOK
<1>3. /\ faults \in Nat
      /\ faults' = faults \/ faults' = faults + 1
      /\ redisUp /\ ~redisUp' => faults' = faults + 1
  BY <1>1, FaultsGrow DEF TypeOK
<1>4. ~redisUp' => faults' # 0
  BY <1>3 DEF TallyInv
<1>5. ASSUME GoesWell' PROVE TallyParts'
  <2>1. GoesWell /\ faults' = faults /\ redisUp /\ TallyParts
    BY <1>3, <1>5 DEF GoesWell, TallyInv
  <2>2. ASSUME NEW c \in Callers, Handles(c) \/ StartCount(c) \/ CountOn(c) PROVE TallyParts'
    BY <1>1, <2>1, <2>2, HandlersTally, CountBegins, CountGoesOn
  <2>3. ~RestartAll
    <3>1. RestartAll => faults' = faults + 1
      BY DEF RestartAll, Crash
    <3> QED  BY <1>3, <2>1, <3>1
  <2>4. ASSUME Resting, Quiet PROVE TallyParts'
    <3>1. minute \in Nat /\ minute' \in Nat /\ minute <= minute' /\ TypeOK'
      BY <1>1, <2>4, PartsAssumption
      DEF Resting, GatewayInv, GatewayTypeOK, Rate!RateTypeOK, Rate!Windows, Rate!RateAssumption
    <3> QED  BY <1>1, <2>1, <2>4, <3>1, QuietTally DEF Resting, Taken
  <2>5. ASSUME ~\E c \in Callers : Handles(c) \/ StartCount(c) \/ CountOn(c) PROVE TallyParts'
    <3>1. Quiet
      BY <1>1, <2>3, <2>5, QuietStep
    <3>2. Resting
      <4>1. ASSUME NEW c \in Callers, GatewayCall(c) PROVE Resting
        BY <1>1, <2>5, <4>1, CallRests DEF GatewayCall, Handles
      <4> QED
        BY <1>1, <2>3, <4>1, ElseRests DEF TallyInv, GatewayNext
    <3> QED  BY <2>4, <3>1, <3>2
  <2> QED  BY <2>2, <2>5
<1> QED  BY <1>1, <1>2, <1>4, <1>5 DEF TallyInv

LEMMA TallyInit == GatewayInit => TallyInv
<1> SUFFICES ASSUME GatewayInit PROVE TallyInv
  OBVIOUS
<1>1. RateP!RateInit
  <2>1. Rate!RateInit => RateP!RateInit
    BY DEF Rate!RateInit, RateP!RateInit, Rate!Counters, RateP!Counters, Rate!Metrics, RateP!Metrics,
           Rate!Windows, RateP!Windows, Rate!Idle, RateP!Idle
  <2> QED  BY <2>1 DEF GatewayInit
<1>2. RateP!DaysLast
  BY <1>1, RateP!DaysLastInit, PartsAssumption, RateConstants
  DEF Rate!Metrics, RateP!Metrics, Rate!Windows, RateP!Windows
<1>3. \A c \in Callers : pc[c] = "idle" /\ step[c] = "parse" /\ log[c] = NoLog /\ stage[c] = Rate!Idle
  BY DEF GatewayInit, Init, Rate!RateInit
<1>4. InHand /\ LoggedToCount /\ CountedSettled /\ IdleUnsent
  BY <1>3 DEF InHand, LoggedToCount, CountedSettled, IdleUnsent, Rate!Idle
<1>5. \A k \in Keys : RateP!Total(RateP!DaysOf(k)) = 0
  BY <1>1, RateP!EmptyTally, PartsAssumption, RateConstants
  DEF Rate!Metrics, RateP!Metrics, Rate!Windows, RateP!Windows
<1>6. \A k \in Keys : Cardinality(TalliedOf(k)) = 0
  <2>1. \A k \in Keys : TalliedOf(k) = {}
    BY <1>3 DEF TalliedOf, Tallied
  <2> QED  BY <2>1, FS_EmptySet
<1>7. redisUp
  BY DEF GatewayInit, Init
<1> QED  BY <1>2, <1>4, <1>5, <1>6, <1>7, GatewayInvInit DEF TallyInv, TallyParts, DaysMatch

\* As long as nothing fails and no day's counter can have run out, the days'
\* request counters of a key whose requests are over have counted exactly its
\* logged answers.
THEOREM CountsMatchLog == GatewaySpec => []QuotaMatchesLog
<1>1. GatewaySpec => []TallyInv
  BY TallyInit, TallyNext, PTL DEF GatewaySpec
<1> QED  BY <1>1, TallyImplies, PTL

-----------------------------------------------------------------------------
(* What counts against a day, whatever fails.                              *)

\* The request has been counted in its day, or never will be.
InDay(c) ==
  /\ answer[c] # NoAnswer /\ pc[c] # "kept" /\ step[c] = "done"
  /\ ~(stage[c].doing = "counting" /\ stage[c].next <= 3)

InDayOf(k) == {c \in Callers : KeyOf[c] = k /\ InDay(c)}

\* Only an answer is counted, with the billing done.
AnswersCounting ==
  \A c \in Callers : stage[c].doing = "counting" =>
    step[c] = "done" /\ answer[c] \in Usages /\ pc[c] \in {"settled", "lost"}

DaysBounded == \A k \in Keys : RateP!Total(RateP!DaysOf(k)) <= Cardinality(InDayOf(k))

CountInv == GatewayInv /\ AnswersCounting /\ DaysBounded

LEMMA InDayFinite ==
  ASSUME NEW k
  PROVE  /\ IsFiniteSet(InDayOf(k)) /\ Cardinality(InDayOf(k)) \in Nat
         /\ IsFiniteSet(InDayOf(k)') /\ Cardinality(InDayOf(k)') \in Nat
BY BillingAssumption, FS_Subset, FS_CardinalityType DEF InDayOf

\* A step that adds nothing to the days keeps the bound, unless a request that
\* was counted is one no more.
LEMMA BoundKept ==
  ASSUME GatewayInv, GatewayInv', DaysBounded,
         \/ \E ctr \in Rate!Counters : Rate!ExpireCounter(ctr)
         \/ Rate!RateCrash
         \/ UNCHANGED <<redis, memory>>,
         \A c \in Callers : InDay(c) => InDay(c)'
  PROVE  DaysBounded'
<1> SUFFICES ASSUME NEW k \in Keys
             PROVE  RateP!Total(RateP!DaysOf(k))' <= Cardinality(InDayOf(k)')
  BY DEF DaysBounded
<1>1. RateP!RateTypeOK /\ RateP!RateTypeOK'
  BY RateTypeNames DEF GatewayInv, GatewayTypeOK
<1>2. \/ \E ctr \in RateP!Counters : RateP!ExpireCounter(ctr)
      \/ RateP!RateCrash
      \/ UNCHANGED <<redis, memory>>
  BY RateActionNames DEF Rate!Counters, RateP!Counters, Rate!Metrics, RateP!Metrics, Rate!Windows, RateP!Windows
<1>3. /\ RateP!Total(RateP!DaysOf(k)) \in Nat /\ RateP!Total(RateP!DaysOf(k))' \in Nat
      /\ RateP!Total(RateP!DaysOf(k))' <= RateP!Total(RateP!DaysOf(k))
  BY <1>1, <1>2, RateP!TallyFalls, PartsAssumption, RateConstants
  DEF Rate!Metrics, RateP!Metrics, Rate!Windows, RateP!Windows
<1>4. RateP!Total(RateP!DaysOf(k)) <= Cardinality(InDayOf(k))
  BY DEF DaysBounded
<1>5. InDayOf(k) \subseteq InDayOf(k)'
  BY DEF InDayOf
<1>6. Cardinality(InDayOf(k)) <= Cardinality(InDayOf(k)')
  BY <1>5, InDayFinite, FS_Subset
<1> QED  BY <1>3, <1>4, <1>6, InDayFinite

LEMMA HandlersBound ==
  ASSUME CountInv, GatewayInv', NEW c \in Callers, Handles(c)
  PROVE  CountInv'
<1>1. /\ \A d \in Callers \ {c} : pc'[d] = pc[d] /\ step'[d] = step[d] /\ answer'[d] = answer[d]
      /\ step[c] # "done"
      /\ UNCHANGED <<redis, memory, stage>>
  BY HandlerMoves, HandlesStep DEF CountInv, HandlerStep, quotaVars
<1>2. AnswersCounting'
  BY <1>1 DEF CountInv, AnswersCounting
<1>3. \A d \in Callers : InDay(d) => InDay(d)'
  BY <1>1 DEF InDay
<1> QED  BY <1>1, <1>2, <1>3, BoundKept DEF CountInv

LEMMA StartBound ==
  ASSUME CountInv, GatewayInv', NEW c \in Callers, StartCount(c)
  PROVE  CountInv'
<1>1. /\ step[c] = "count" /\ pc[c] \in {"settled", "lost"} /\ Rate!BeginCount(c, Counted(c))
      /\ UNCHANGED <<pc, answer>> /\ step' = [step EXCEPT ![c] = "done"] /\ step \in [Callers -> Steps]
  BY DEF StartCount, Proceed, billingVars, callVars, CountInv, GatewayInv, GatewayTypeOK
<1>2. OthersStay(c) /\ UNCHANGED <<redis, memory>>
  BY <1>1, QuotaStages DEF CountInv, GatewayInv, GatewayTypeOK
<1>3. step'[c] = "done" /\ \A d \in Callers \ {c} : step'[d] = step[d]
  BY <1>1
<1>4. answer[c] \in Usages
  BY <1>1 DEF CountInv, GatewayInv, Answered
<1>5. AnswersCounting'
  BY <1>1, <1>2, <1>3, <1>4 DEF CountInv, AnswersCounting, OthersStay
<1>6. \A d \in Callers : InDay(d) => InDay(d)'
  BY <1>1, <1>2, <1>3 DEF InDay, OthersStay
<1> QED  BY <1>2, <1>5, <1>6, BoundKept DEF CountInv

LEMMA CountBound ==
  ASSUME CountInv, GatewayInv', NEW c \in Callers, CountOn(c)
  PROVE  CountInv'
<1>1. Rate!CountNext(c) /\ UNCHANGED <<pc, step, answer>>
  BY DEF CountOn, proxyVars, billingVars, callVars
<1>2. Rate!RateTypeOK /\ Rate!RateTypeOK'
  BY DEF CountInv, GatewayInv, GatewayTypeOK
<1>3. /\ stage[c].doing = "counting" /\ stage[c].next \in 1..4
      /\ \/ stage[c].next # 4 /\ stage'[c] = [doing |-> "counting", next |-> stage[c].next + 1]
         \/ stage[c].next = 4 /\ stage'[c] = Rate!Idle
      /\ OthersStay(c)
  BY <1>1, <1>2, CountStages
<1>4. step[c] = "done" /\ answer[c] # NoAnswer /\ pc[c] # "kept"
  BY <1>3, GatewayAssumption DEF CountInv, AnswersCounting
<1>5. AnswersCounting'
  BY <1>1, <1>3 DEF CountInv, AnswersCounting, OthersStay
<1>6. \A d \in Callers \ {c} : InDay(d)' <=> InDay(d)
  BY <1>1, <1>3 DEF InDay, OthersStay
<1>7. (InDay(c) <=> stage[c].next = 4) /\ (InDay(c)' <=> stage[c].next \in {3, 4})
  <2>1. InDay(c) <=> stage[c].next = 4
    BY <1>3, <1>4 DEF InDay
  <2>2. InDay(c)' <=> ~(stage'[c].doing = "counting" /\ stage'[c].next <= 3)
    BY <1>1, <1>4 DEF InDay
  <2>3. CASE stage[c].next # 4
    BY <1>3, <2>1, <2>2, <2>3
  <2>4. CASE stage[c].next = 4
    BY <1>3, <2>1, <2>2, <2>4 DEF Rate!Idle
  <2> QED  BY <2>3, <2>4
<1>8. ASSUME NEW k \in Keys
      PROVE  RateP!Total(RateP!DaysOf(k))' <= Cardinality(InDayOf(k)')
  <2>1. Cardinality(InDayOf(k)')
          = Cardinality(InDayOf(k)) + (IF KeyOf[c] = k /\ stage[c].next = 3 THEN 1 ELSE 0)
    <3>1. CASE KeyOf[c] = k /\ stage[c].next = 3
      <4>1. InDayOf(k)' = InDayOf(k) \cup {c} /\ c \notin InDayOf(k)
        BY <1>6, <1>7, <3>1 DEF InDayOf
      <4> QED  BY <3>1, <4>1, InDayFinite, FS_AddElement
    <3>2. CASE ~(KeyOf[c] = k /\ stage[c].next = 3)
      <4>1. InDayOf(k)' = InDayOf(k)
        BY <1>3, <1>6, <1>7, <3>2 DEF InDayOf
      <4> QED  BY <3>2, <4>1, InDayFinite
    <3> QED  BY <3>1, <3>2
  <2>2. RateP!RateTypeOK /\ RateP!RateTypeOK' /\ RateP!CountNext(c)
    BY <1>1, <1>2, RateTypeNames, RateActionNames
  <2>3. /\ RateP!Total(RateP!DaysOf(k)) \in Nat /\ RateP!Total(RateP!DaysOf(k))' \in Nat
        /\ RateP!Total(RateP!DaysOf(k))'
             <= RateP!Total(RateP!DaysOf(k)) + (IF KeyOf[c] = k /\ stage[c].next = 3 THEN 1 ELSE 0)
    BY <2>2, RateP!TallyRises, PartsAssumption, RateConstants
    DEF Rate!Metrics, RateP!Metrics, Rate!Windows, RateP!Windows
  <2>4. RateP!Total(RateP!DaysOf(k)) <= Cardinality(InDayOf(k)) /\ Cardinality(InDayOf(k)) \in Nat
    BY InDayFinite DEF CountInv, DaysBounded
  <2> QED  BY <2>1, <2>3, <2>4
<1> QED  BY <1>5, <1>8 DEF CountInv, DaysBounded

LEMMA RestartBound ==
  ASSUME CountInv, GatewayInv', RestartAll
  PROVE  CountInv'
<1>1. /\ UNCHANGED answer
      /\ \A c \in Callers : /\ step'[c] = step[c] \/ step'[c] = "done"
                            /\ stage'[c] = Rate!Idle
                            /\ pc'[c] = "kept" => pc[c] = "kept"
      /\ Rate!RateCrash
  BY DEF RestartAll, Crash, Rate!RateCrash
<1>2. AnswersCounting'
  BY <1>1 DEF AnswersCounting, Rate!Idle
<1>3. \A c \in Callers : InDay(c) => InDay(c)'
  BY <1>1 DEF InDay, Rate!Idle
<1> QED  BY <1>1, <1>2, <1>3, BoundKept DEF CountInv

LEMMA QuietBound ==
  ASSUME CountInv, GatewayInv', [Next]_vars, Quiet,
         \A c \in Callers : StageKept(c),
         (\E ctr \in Rate!Counters : Rate!ExpireCounter(ctr)) \/ UNCHANGED <<redis, memory>>
  PROVE  CountInv'
<1>1. UNCHANGED <<step, answer>>
  BY DEF Quiet, proxyVars
<1>2. \A c \in Callers : pc[c] \in Final => pc'[c] = pc[c]
  BY FinalStays DEF CountInv, GatewayInv, GatewayTypeOK
<1>3. AnswersCounting'
  BY <1>1, <1>2 DEF CountInv, AnswersCounting, StageKept, Final
<1>4. ASSUME NEW c \in Callers, InDay(c) PROVE InDay(c)'
  <2>1. pc'[c] # "kept"
    BY <1>2, <1>4 DEF InDay, Quiet, Calm
  <2>2. /\ stage'[c].doing = "counting" <=> stage[c].doing = "counting"
        /\ stage'[c].doing = "counting" => stage'[c].next = stage[c].next
    BY DEF StageKept
  <2> QED  BY <1>1, <1>4, <2>1, <2>2 DEF InDay
<1> QED  BY <1>3, <1>4, BoundKept DEF CountInv

\* What is neither a request's step nor a restart.
LEMMA ElseKept ==
  ASSUME \/ Administer /\ UNCHANGED quotaVars
         \/ Rate!Tick /\ UNCHANGED billingVars
         \/ RedisNext
         \/ UNCHANGED gatewayVars
  PROVE  /\ UNCHANGED stage
         /\ (\E ctr \in Rate!Counters : Rate!ExpireCounter(ctr)) \/ UNCHANGED <<redis, memory>>
BY DEF quotaVars, gatewayVars, RedisNext, Rate!Tick, Rate!ExpireCounter, Rate!RateRedisDown, Rate!RateRedisBack,
       Rate!storeVars, Rate!workerVars

LEMMA CountInvNext ==
  ASSUME CountInv, [GatewayNext]_gatewayVars
  PROVE  CountInv'
<1>1. GatewayInv /\ GatewayInv' /\ [Next]_vars
  BY GatewayInvNext, BillingStep DEF CountInv
<1>2. ASSUME NEW c \in Callers, Handles(c) \/ StartCount(c) \/ CountOn(c) PROVE CountInv'
  BY <1>1, <1>2, HandlersBound, StartBound, CountBound
<1>3. CASE RestartAll
  BY <1>1, <1>3, RestartBound
<1>4. CASE ~RestartAll /\ ~\E c \in Callers : Handles(c) \/ StartCount(c) \/ CountOn(c)
  <2>1. Quiet
    BY <1>1, <1>4, QuietStep
  <2>2. ASSUME NEW c \in Callers, GatewayCall(c)
        PROVE  (\A d \in Callers : StageKept(d)) /\ UNCHANGED <<redis, memory>>
    BY <1>1, <1>4, <2>2, CallRests DEF GatewayCall, Handles, Resting
  <2>3. /\ \A d \in Callers : StageKept(d)
        /\ (\E ctr \in Rate!Counters : Rate!ExpireCounter(ctr)) \/ UNCHANGED <<redis, memory>>
    BY <1>4, <2>2, ElseKept DEF GatewayNext, StageKept
  <2> QED  BY <1>1, <2>1, <2>3, QuietBound
<1> QED  BY <1>2, <1>3, <1>4

LEMMA CountInvInit == GatewayInit => CountInv
<1> SUFFICES ASSUME GatewayInit PROVE CountInv
  OBVIOUS
<1>1. AnswersCounting
  BY DEF GatewayInit, Rate!RateInit, Rate!Idle, AnswersCounting
<1>2. \A k \in Keys : RateP!Total(RateP!DaysOf(k)) = 0
  <2>1. Rate!RateInit => RateP!RateInit
    BY DEF Rate!RateInit, RateP!RateInit, Rate!Counters, RateP!Counters, Rate!Metrics, RateP!Metrics,
           Rate!Windows, RateP!Windows, Rate!Idle, RateP!Idle
  <2>2. RateP!RateInit
    BY <2>1 DEF GatewayInit
  <2> QED
    BY <2>2, RateP!EmptyTally, PartsAssumption, RateConstants
    DEF Rate!Metrics, RateP!Metrics, Rate!Windows, RateP!Windows
<1>3. DaysBounded
  BY <1>2, InDayFinite DEF DaysBounded
<1> QED  BY <1>1, <1>3, GatewayInvInit DEF CountInv

LEMMA CountInvImplies ==
  ASSUME CountInv
  PROVE  OnlyAnswersCounted
<1> SUFFICES ASSUME NEW k \in Keys
             PROVE  RateP!Total(RateP!DaysOf(k))
                      <= Cardinality({c \in {d \in Callers : KeyOf[d] = k} :
                                        answer[c] # NoAnswer /\ pc[c] # "kept"})
  BY TotalNames DEF OnlyAnswersCounted
<1> DEFINE answers == {c \in {d \in Callers : KeyOf[d] = k} : answer[c] # NoAnswer /\ pc[c] # "kept"}
<1>1. InDayOf(k) \subseteq answers /\ IsFiniteSet(answers)
  BY BillingAssumption, FS_Subset DEF InDayOf, InDay
<1>2. Cardinality(InDayOf(k)) <= Cardinality(answers) /\ Cardinality(answers) \in Nat
  BY <1>1, FS_Subset, FS_CardinalityType
<1>3. RateP!Total(RateP!DaysOf(k)) \in Nat
  <2>1. RateP!RateTypeOK
    BY RateTypeNames DEF CountInv, GatewayInv, GatewayTypeOK
  <2> QED
    BY <2>1, RateP!DaysTypes, PartsAssumption, RateConstants
    DEF Rate!Metrics, RateP!Metrics, Rate!Windows, RateP!Windows
<1>4. RateP!Total(RateP!DaysOf(k)) <= Cardinality(InDayOf(k))
  BY DEF CountInv, DaysBounded
<1> HIDE DEF answers
<1>5. RateP!Total(RateP!DaysOf(k)) <= Cardinality(answers)
  BY <1>2, <1>3, <1>4, InDayFinite
<1> QED  BY <1>5 DEF answers

\* Whatever crashes, outages, failing queries and counters that run out do, the
\* days' request counters of a key never add up to more than the answers it got
\* from providers: a request that failed is not counted, none is counted twice.
THEOREM CountsOnlyAnswers == GatewaySpec => []OnlyAnswersCounted
BY CountInvInit, CountInvNext, CountInvImplies, PTL DEF GatewaySpec

-----------------------------------------------------------------------------
(* The counters in the gateway, where checks read the limits of the row that *)
(* a request was let in with, whatever an administrator has made of it.      *)

LEMMA WorkNames ==
  ASSUME NEW c \in Callers, NEW limits,
         \/ Rate!BeginCheck(c)
         \/ Rate!CheckCounter(c, limits)
         \/ \E n \in TokenCounts : Rate!BeginCount(c, n)
         \/ Rate!CountNext(c)
         \/ Rate!EndUncounted(c)
  PROVE  RateP!Works(c, limits)
BY RateActionNames DEF RateP!Works

LEMMA EnvironmentNames ==
  ASSUME \/ \E ctr \in Rate!Counters : Rate!ExpireCounter(ctr)
         \/ Rate!Tick \/ Rate!RateCrash \/ Rate!RateRedisDown \/ Rate!RateRedisBack
         \/ UNCHANGED <<quotaVars, redisUp>>
  PROVE  RateP!Environment
<1>1. Rate!Counters = RateP!Counters
  BY DEF Rate!Counters, RateP!Counters, Rate!Metrics, RateP!Metrics, Rate!Windows, RateP!Windows
<1>2. CASE UNCHANGED <<quotaVars, redisUp>>
  BY <1>2 DEF quotaVars, RateP!rateVars, RateP!storeVars, RateP!workerVars, RateP!Environment
<1>3. CASE \/ \E ctr \in Rate!Counters : Rate!ExpireCounter(ctr)
           \/ Rate!Tick \/ Rate!RateCrash \/ Rate!RateRedisDown \/ Rate!RateRedisBack
  BY <1>1, <1>3, RateActionNames DEF RateP!Environment
<1> QED  BY <1>2, <1>3

LEMMA CountersNext ==
  ASSUME RateP!ExactInv, RateP!DayInv, QuotaMove
  PROVE  RateP!ExactInv' /\ RateP!DayInv'
<1> USE PartsAssumption, RateConstants
<1>1. ASSUME NEW c \in Callers, NEW limits, RateP!Works(c, limits) PROVE RateP!ExactInv' /\ RateP!DayInv'
  <2>1. RateP!ExactInv'
    BY <1>1, RateP!ExactNext DEF Rate!Metrics, RateP!Metrics, Rate!Windows, RateP!Windows
  <2>2. RateP!DayInv'
    BY <1>1, RateP!DayNext DEF Rate!Metrics, RateP!Metrics, Rate!Windows, RateP!Windows
  <2> QED  BY <2>1, <2>2
<1>2. ASSUME RateP!Environment PROVE RateP!ExactInv' /\ RateP!DayInv'
  <2>1. RateP!ExactInv'
    BY <1>2, RateP!ExactNext DEF Rate!Metrics, RateP!Metrics, Rate!Windows, RateP!Windows
  <2>2. RateP!DayInv'
    BY <1>2, RateP!DayNext DEF Rate!Metrics, RateP!Metrics, Rate!Windows, RateP!Windows
  <2> QED  BY <2>1, <2>2
<1>3. ASSUME NEW c \in Callers, NEW limits,
             \/ Rate!BeginCheck(c)
             \/ Rate!CheckCounter(c, limits)
             \/ \E n \in TokenCounts : Rate!BeginCount(c, n)
             \/ Rate!CountNext(c)
             \/ Rate!EndUncounted(c)
      PROVE  RateP!ExactInv' /\ RateP!DayInv'
  BY <1>1, <1>3, WorkNames
<1>4. CASE \/ \E ctr \in Rate!Counters : Rate!ExpireCounter(ctr)
           \/ Rate!Tick \/ Rate!RateCrash \/ Rate!RateRedisDown \/ Rate!RateRedisBack
           \/ UNCHANGED <<quotaVars, redisUp>>
  BY <1>2, <1>4, EnvironmentNames
<1> QED  BY <1>3, <1>4 DEF QuotaMove

LEMMA CountersInit == GatewayInit => RateP!ExactInv /\ RateP!DayInv
<1> SUFFICES ASSUME GatewayInit PROVE RateP!ExactInv /\ RateP!DayInv
  OBVIOUS
<1>1. Rate!RateInit => RateP!RateInit
  BY DEF Rate!RateInit, RateP!RateInit, Rate!Counters, RateP!Counters, Rate!Metrics, RateP!Metrics,
         Rate!Windows, RateP!Windows, Rate!Idle, RateP!Idle
<1>2. RateP!RateInit
  BY <1>1 DEF GatewayInit
<1> USE PartsAssumption, RateConstants
<1>3. RateP!ExactInv
  BY <1>2, RateP!ExactInit DEF Rate!Metrics, RateP!Metrics, Rate!Windows, RateP!Windows
<1>4. RateP!DayInv
  BY <1>2, RateP!DayInit DEF Rate!Metrics, RateP!Metrics, Rate!Windows, RateP!Windows
<1> QED  BY <1>3, <1>4

LEMMA SameSizes == \A S : Rate!Cardinality(S) = RateP!Cardinality(S)
BY Zenon DEF Rate!Cardinality, RateP!Cardinality

LEMMA ExactNames ==
  ASSUME RateP!CounterExact
  PROVE  Rate!CounterExact
<1>1. /\ \A ctr : Rate!Count(ctr) = RateP!Count(ctr)
      /\ \A m, k, t : Rate!CounterKey(m, k, t) = RateP!CounterKey(m, k, t)
      /\ \A k : Rate!WorkersOf(k) = RateP!WorkersOf(k)
  BY DEF Rate!Count, RateP!Count, Rate!CounterKey, RateP!CounterKey, Rate!WindowOf, RateP!WindowOf,
         Rate!Day, RateP!Day, Rate!WorkersOf, RateP!WorkersOf
<1> SUFFICES ASSUME outages + crashes = 0, NEW k \in Keys
             PROVE  Rate!Count(Rate!CounterKey("rpm", k, minute))
                      + Rate!Cardinality({w \in Rate!WorkersOf(k) :
                                       stage[w] = [doing |-> "counting", next |-> 1] /\ at[w] = minute})
                    = answered[k][minute]
  BY DEF Rate!CounterExact
<1>2. RateP!Count(RateP!CounterKey("rpm", k, minute))
        + RateP!Cardinality({w \in RateP!WorkersOf(k) :
                         stage[w] = [doing |-> "counting", next |-> 1] /\ at[w] = minute})
      = answered[k][minute]
  BY DEF RateP!CounterExact
<1> QED  BY <1>1, <1>2, SameSizes

LEMMA DayNames ==
  ASSUME RateP!DayCoversMinutes
  PROVE  Rate!DayCoversMinutes
<1>1. /\ \A ctr : Rate!Count(ctr) = RateP!Count(ctr)
      /\ \A m, k, t : Rate!CounterKey(m, k, t) = RateP!CounterKey(m, k, t)
      /\ \A k : Rate!WorkersOf(k) = RateP!WorkersOf(k)
      /\ \A t : Rate!Day(t) = RateP!Day(t)
      /\ Rate!Windows = RateP!Windows
  BY DEF Rate!Count, RateP!Count, Rate!CounterKey, RateP!CounterKey, Rate!WindowOf, RateP!WindowOf,
         Rate!Day, RateP!Day, Rate!WorkersOf, RateP!WorkersOf, Rate!Windows, RateP!Windows
<1> SUFFICES ASSUME NEW k \in Keys, NEW d \in {Rate!Day(t) : t \in Rate!Windows},
                    UseRedis => minute < d * MinutesPerDay + DayTTL
             PROVE  Rate!Total({Rate!CounterKey("rpm", k, t) : t \in {t \in Rate!Windows : Rate!Day(t) = d}})
                      <= Rate!Count([metric |-> "rpd", key |-> k, window |-> d])
                         + Rate!Cardinality({w \in Rate!WorkersOf(k) :
                              /\ stage[w].doing = "counting" /\ stage[w].next \in {2, 3}
                              /\ Rate!Day(at[w]) = d})
                         + Rate!Cardinality(Rate!WorkersOf(k)) * (outages + crashes)
  BY DEF Rate!DayCoversMinutes
<1>2. RateP!Total({RateP!CounterKey("rpm", k, t) : t \in {t \in RateP!Windows : RateP!Day(t) = d}})
        <= RateP!Count([metric |-> "rpd", key |-> k, window |-> d])
           + RateP!Cardinality({w \in RateP!WorkersOf(k) :
                /\ stage[w].doing = "counting" /\ stage[w].next \in {2, 3}
                /\ RateP!Day(at[w]) = d})
           + RateP!Cardinality(RateP!WorkersOf(k)) * (outages + crashes)
  <2>1. d \in {RateP!Day(t) : t \in RateP!Windows}
    BY <1>1
  <2> QED  BY <2>1 DEF RateP!DayCoversMinutes
<1>3. {Rate!CounterKey("rpm", k, t) : t \in {t \in Rate!Windows : Rate!Day(t) = d}}
        = {RateP!CounterKey("rpm", k, t) : t \in {t \in RateP!Windows : RateP!Day(t) = d}}
  BY <1>1
<1>4. {w \in Rate!WorkersOf(k) : /\ stage[w].doing = "counting" /\ stage[w].next \in {2, 3}
                                 /\ Rate!Day(at[w]) = d}
        = {w \in RateP!WorkersOf(k) : /\ stage[w].doing = "counting" /\ stage[w].next \in {2, 3}
                                      /\ RateP!Day(at[w]) = d}
  BY <1>1
<1> QED  BY <1>1, <1>2, <1>3, <1>4, SameTotals, SameSizes

LEMMA CountersImply ==
  ASSUME RateP!ExactInv, RateP!DayInv
  PROVE  Rate!CounterExact /\ Rate!DayCoversMinutes
<1> USE PartsAssumption, RateConstants
<1>1. RateP!CounterExact
  BY RateP!ExactImplies DEF Rate!Metrics, RateP!Metrics, Rate!Windows, RateP!Windows
<1>2. RateP!DayCoversMinutes
  BY RateP!DayImplies DEF Rate!Metrics, RateP!Metrics, Rate!Windows, RateP!Windows
<1> QED  BY <1>1, <1>2, ExactNames, DayNames

\* End to end, too, the request counter of the running minute is exact as long
\* as nothing fails, and a day counts at least what its minutes counted: the
\* handlers count an answer once, and the limits that a request was let in with
\* may by then have been changed (Gateway's CheckQuota, StartCount and CountOn).
THEOREM CountersSafe == GatewaySpec => [](Rate!CounterExact /\ Rate!DayCoversMinutes)
<1>1. ASSUME GatewayInv, RateP!ExactInv, RateP!DayInv, [GatewayNext]_gatewayVars
      PROVE  GatewayInv' /\ RateP!ExactInv' /\ RateP!DayInv'
  BY <1>1, GatewayInvNext, QuotaStep, CountersNext
<1> QED  BY <1>1, GatewayInvInit, CountersInit, CountersImply, PTL DEF GatewaySpec

-----------------------------------------------------------------------------
(* The catalog in the gateway.                                             *)

LEMMA CatalogStep ==
  ASSUME [GatewayNext]_gatewayVars
  PROVE  Cat!CatalogNext \/ UNCHANGED <<channel, model>>
<1>1. ASSUME NEW c \in Callers, GatewayCall(c) PROVE UNCHANGED catVars
  BY <1>1, CallKeepsCatalog
<1>2. CASE Administer
  BY <1>2 DEF Administer, KeysNext, catVars
<1> QED  BY <1>1, <1>2 DEF GatewayNext, RestartAll, gatewayVars, catVars

LEMMA NamesNames ==
  /\ Cat!NamesUnique <=> CatP!NamesUnique
  /\ Cat!NamesUnique' <=> CatP!NamesUnique'
<1>1. Cat!NamesUnique <=> CatP!NamesUnique
  BY DEF Cat!NamesUnique, CatP!NamesUnique
<1>2. Cat!NamesUnique' <=> CatP!NamesUnique'
  BY DEF Cat!NamesUnique, CatP!NamesUnique
<1> QED  BY <1>1, <1>2

LEMMA GatewayNames ==
  ASSUME Cat!CatalogTypeOK, Cat!NamesUnique, [GatewayNext]_gatewayVars
  PROVE  Cat!NamesUnique'
<1>1. CASE Cat!CatalogNext
  <2>1. CatP!CatalogTypeOK /\ CatP!NamesUnique /\ [CatP!CatalogNext]_(CatP!catalogVars)
    BY <1>1, CatalogTypeNames, NamesNames, CatalogActionNames
  <2>2. CatP!NamesUnique'
    BY <2>1, CatP!NamesNext, PartsAssumption
    DEF Cat!ChannelRequests, CatP!ChannelRequests, Cat!ModelRequests, CatP!ModelRequests, Cat!Kinds, CatP!Kinds
  <2> QED  BY <2>2, NamesNames
<1>2. CASE UNCHANGED <<channel, model>>
  BY <1>2 DEF Cat!NamesUnique
<1> QED  BY <1>1, <1>2, CatalogStep

\* While requests look up channels and administrators edit them, no two
\* channels share a name, of a catalog in which none did when the gateway was
\* started, which the table's unique index sees to.
THEOREM GatewayNamesUnique == GatewaySpec => []Cat!NamesUnique
<1>1. GatewayInit => Cat!NamesUnique
  BY GatewayAssumption DEF GatewayInit, Cat!NamesUnique
<1>2. GatewayTypeOK => Cat!CatalogTypeOK
  BY DEF GatewayTypeOK
<1> QED  BY <1>1, <1>2, GatewayNames, GatewayTypeCorrect, PTL DEF GatewaySpec

Revived ==
  /\ \A i \in Channels : channel[i] # NoRow /\ channel[i].deleted /\ ~channel'[i].deleted =>
       /\ channel'[i].is.active
       /\ \E e \in Editors : Cat!Editing(e, "channel") /\ edit[e].id = i
  /\ \A m \in ModelRows : model[m] # NoRow /\ model[m].deleted /\ ~model'[m].deleted =>
       /\ model'[m].is.active
       /\ \E e \in Editors : Cat!Editing(e, "model") /\ edit[e].id = m

LEMMA GatewayRevived ==
  ASSUME Cat!CatalogTypeOK, [GatewayNext]_gatewayVars
  PROVE  Revived
<1>1. CASE Cat!CatalogNext
  <2>1. CatP!CatalogTypeOK /\ [CatP!CatalogNext]_(CatP!catalogVars)
    BY <1>1, CatalogTypeNames, CatalogActionNames
  <2>2. CatP!ChannelsRevived /\ CatP!ModelsRevived
    BY <2>1, CatP!ChannelsRevivedNext, CatP!ModelsRevivedNext, PartsAssumption
    DEF Cat!ChannelRequests, CatP!ChannelRequests, Cat!ModelRequests, CatP!ModelRequests, Cat!Kinds, CatP!Kinds
  <2> QED  BY <2>2 DEF Revived, CatP!ChannelsRevived, CatP!ModelsRevived, Cat!Editing, CatP!Editing
<1>2. CASE UNCHANGED <<channel, model>>
  BY <1>2 DEF Revived
<1> QED  BY <1>1, <1>2, CatalogStep

\* In the gateway, too, a channel or model that was deleted comes back only
\* through an update that had read the row before, and then it is active: what
\* requests do meanwhile, and a restart, never revives one.
THEOREM GatewayRevivedActive == GatewaySpec => Cat!RevivedActive
<1>1. GatewayTypeOK /\ [GatewayNext]_gatewayVars => [Revived]_(Cat!catalogVars)
  BY GatewayRevived DEF GatewayTypeOK
<1> QED  BY <1>1, GatewayTypeCorrect, PTL DEF GatewaySpec, Cat!RevivedActive, Revived

=============================================================================
