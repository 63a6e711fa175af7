------------------------------ MODULE Gateway ------------------------------
(***************************************************************************)
(* A tenant request from end to end: the handlers of handler/proxy.go and  *)
(* the service they call, service/proxy.go, put together from Billing,     *)
(* RateLimit and Catalog.                                                  *)
(*                                                                         *)
(* Here HandlerOutcome of Billing is worked out: the request looks up a    *)
(* model, then a channel, calls the provider, writes a usage log and is    *)
(* refunded, settled or neither; and CheckRateLimit really reads the       *)
(* counters that settled requests have moved.  The catalog starts out      *)
(* filled and is edited meanwhile.                                         *)
(***************************************************************************)
EXTENDS Billing

CONSTANTS Requests,      \* what tenants ask for
          NoAnswer,      \* no answer has arrived
          NoLog,         \* no usage log has been written
          StartChannels, \* the catalog that administrators have set up
          StartModels,
          \* of RateLimit:
          TokenCounts, MaxTokens, MinutesPerDay, MinuteTTL, DayTTL, StartMinute,
          MaxMinute, MaxAnswers,
          \* of Catalog:
          Channels, ModelRows, Names, ModelIDs, Priorities, Prices, Editors, NoEdit, NoRow

VARIABLES minute, redis, expiresAt, memory, stage, at, tokens, outages, crashes, answered, \* RateLimit
          channel, model, edit, \* Catalog
          call,     \* what each request asks for
          step,     \* how far its handler has come
          chosen,   \* the model row and price, then the channel, it has looked up
          answer,   \* the tokens its answer reported
          log       \* the usage log it has written

Rate == INSTANCE RateLimit WITH
  Workers <- Callers, rateUp <- redisUp, LimitsOf <- [k \in Keys |-> DefaultLimits]

Cat == INSTANCE Catalog WITH LookupMayFail <- DBMayFail

billingVars == <<keysVars, callVars, lockVars>>
quotaVars == <<minute, redis, expiresAt, memory, stage, at, tokens, outages, crashes, answered>>
catVars == <<channel, model, edit>>
proxyVars == <<step, chosen, answer, log>>
gatewayVars == <<billingVars, quotaVars, catVars, call, proxyVars>>

\* The tenant routes; "info" and streamed Gemini requests cost nothing.
FreeEndpoints == {"info", "gemini stream"}
StreamEndpoints == {"chat stream", "messages stream"}
Endpoints == {"chat", "responses", "messages", "gemini"} \cup StreamEndpoints \cup FreeEndpoints

\* Of a usage log, the channel, the outcome and the cost.
Logs == [channel : Channels, outcome : {"unreachable", "answered"}, cost : Nat]

ASSUME GatewayAssumption ==
  /\ Requests \subseteq [endpoint : Endpoints, modelID : ModelIDs, valid : BOOLEAN]
  /\ StartChannels \in [Channels -> Cat!ChannelTable]
  /\ StartModels \in [ModelRows -> Cat!ModelTable]
  /\ \A i, j \in Channels : i # j /\ StartChannels[i] # NoRow /\ StartChannels[j] # NoRow =>
       StartChannels[i].is.name # StartChannels[j].is.name \* the unique index
  /\ \A u \in Usages : {u.total, u.input + u.output} \subseteq TokenCounts
  /\ NoAnswer \notin Usages
  /\ NoLog \notin Logs

\* The parts are used within their own assumptions.
ASSUME PartsAssumption == Rate!RateAssumption /\ Cat!CatalogAssumption

Steps == {"parse", "model", "channel", "send", "count", "done"}

NothingChosen == [price |-> NoModel, channel |-> NoRow]

Choices == [price : Prices \cup {NoModel}, channel : Channels \cup {NoRow}]

GatewayTypeOK ==
  /\ TypeOK
  /\ Rate!RateTypeOK
  /\ Cat!CatalogTypeOK
  /\ call \in [Callers -> Requests]
  /\ step \in [Callers -> Steps]
  /\ chosen \in [Callers -> Choices]
  /\ answer \in [Callers -> Usages \cup {NoAnswer}]
  /\ log \in [Callers -> Logs \cup {NoLog}]

GatewayInit ==
  /\ Init
  /\ Rate!RateInit
  /\ channel = StartChannels
  /\ model = StartModels
  /\ edit = [e \in Editors |-> NoEdit]
  /\ call \in [Callers -> Requests]
  /\ step = [c \in Callers |-> "parse"]
  /\ chosen = [c \in Callers |-> NothingChosen]
  /\ answer = [c \in Callers |-> NoAnswer]
  /\ log = [c \in Callers |-> NoLog]

Proceed(c, to) == step' = [step EXCEPT ![c] = to]

-----------------------------------------------------------------------------
(* The middlewares: authentication, then the four counters.                *)

Arrive(c) ==
  /\ Authenticate(c)
  /\ UNCHANGED <<quotaVars, catVars, call, proxyVars>>

StartCheck(c) ==
  /\ pc[c] = "authed"
  /\ Rate!BeginCheck(c)
  /\ UNCHANGED <<billingVars, catVars, call, proxyVars>>

\* The limits are those of the row that was read, the counters those of now.
CheckQuota(c) ==
  /\ Rate!CheckCounter(c, seen[c].limits)
  /\ \/ stage'[c].doing = "checking" /\ UNCHANGED billingVars
     \/ /\ stage'[c] = Rate!Idle
        /\ CheckRateLimit(c)
        /\ pc'[c] = "refused"
     \/ /\ stage'[c] = Rate!Passed
        /\ CheckRateLimit(c)
        /\ pc'[c] = IF call[c].endpoint \in FreeEndpoints THEN "free" ELSE "admitted"
  /\ UNCHANGED <<catVars, call, proxyVars>>

-----------------------------------------------------------------------------
(* The handler, with the money reserved.                                   *)

\* A step of the handler goes on, or brings it to one of Billing's outcomes.
HandlerStep(c) ==
  /\ UNCHANGED <<quotaVars, catVars, call>>
  /\ \/ pc[c] = "reserved" /\ UNCHANGED billingVars
     \/ HandlerOutcome(c)

Reserved(c, where) == pc[c] = "reserved" /\ step[c] = where

\* Mutant of Failed: the refund is forgotten.
FailedKept(c) == pc'[c] = "kept" /\ Proceed(c, "done")

\* A stream has begun or been refused: its handler just returns.  Others
\* return the reservation.
Failed(c) ==
  /\ pc'[c] = IF call[c].endpoint = "chat stream" THEN "kept" ELSE "toRefund"
  /\ Proceed(c, "done")

ParseBody(c) ==
  /\ Reserved(c, "parse")
  /\ HandlerStep(c)
  /\ IF ~call[c].valid THEN pc'[c] = "toRefund" /\ Proceed(c, "done")
     ELSE IF call[c].endpoint = "messages stream" THEN pc'[c] = "kept" /\ Proceed(c, "done")
     ELSE pc'[c] = "reserved" /\ Proceed(c, IF call[c].endpoint = "gemini" THEN "channel" ELSE "model")
  /\ UNCHANGED <<chosen, answer, log>>

\* GetByModelID; the price read here is the one that is logged.
LookupModel(c) ==
  /\ Reserved(c, "model")
  /\ HandlerStep(c)
  /\ \E ok \in QueryResults :
       LET m == Cat!GetByModelID(call[c].modelID)
       IN  IF ok /\ m # NoRow
             THEN /\ pc'[c] = "reserved"
                  /\ Proceed(c, "channel")
                  /\ chosen' = [chosen EXCEPT ![c].price = model[m].is.price]
             ELSE Failed(c) /\ UNCHANGED chosen
  /\ UNCHANGED <<answer, log>>

\* The channels a request may be sent to, in a query of its own.
Candidates(c) ==
  IF call[c].endpoint = "gemini" THEN Cat!ListActiveGemini
  ELSE Cat!FirstChannels(Cat!GetAvailableByModel(call[c].modelID))

LookupChannel(c) ==
  /\ Reserved(c, "channel")
  /\ HandlerStep(c)
  /\ \/ \E i \in Candidates(c) :
          /\ pc'[c] = "reserved"
          /\ Proceed(c, "send")
          /\ chosen' = [chosen EXCEPT ![c].channel = i]
     \/ /\ Candidates(c) = {} \/ DBMayFail
        /\ Failed(c)
        /\ UNCHANGED chosen
  /\ UNCHANGED <<answer, log>>

\* The error of logRepo.Create is dropped.
Record(c, outcome, cost) ==
  \E ok \in QueryResults :
    log' = IF ok THEN [log EXCEPT ![c] = [channel |-> chosen[c].channel,
                                          outcome |-> outcome, cost |-> cost]] ELSE log

\* The provider cannot be reached within the client's timeout.
Unreachable(c) ==
  /\ Reserved(c, "send")
  /\ HandlerStep(c)
  /\ Record(c, "unreachable", 0)
  /\ Failed(c)
  /\ UNCHANGED <<chosen, answer>>

\* Failures that leave no log: the channel's URL does not parse, or the answer
\* is no JSON, which goes unnoticed in a stream.
FailUnlogged(c) ==
  /\ Reserved(c, "send")
  /\ HandlerStep(c)
  /\ Failed(c)
  /\ UNCHANGED <<chosen, answer, log>>

\* It answers, an error status included, and the log has the cost.
Answer(c, usage) ==
  /\ Reserved(c, "send")
  /\ HandlerStep(c)
  /\ Record(c, "answered", CalculateCost(usage, chosen[c].price))
  /\ answer' = [answer EXCEPT ![c] = usage]
  /\ UNCHANGED chosen

\* A chat answer without choices is over with that.
AnswerWhole(c, usage) ==
  /\ call[c].endpoint # "chat stream"
  /\ Answer(c, usage)
  /\ \/ pc'[c] = "toFinalize" /\ Proceed(c, "count")
     \/ call[c].endpoint = "chat" /\ pc'[c] = "kept" /\ Proceed(c, "done")

\* So is every stream, once it has been passed on.
AnswerStream(c, usage) ==
  /\ call[c].endpoint = "chat stream"
  /\ Answer(c, usage)
  /\ pc'[c] = "kept"
  /\ Proceed(c, "done")

\* The lock, the reservation, the refund and the settlement are Billing's.
UseBilling(c) ==
  /\ \/ AcquireLock(c)
     \/ PreDeduct(c)
     \/ Refund(c)
     \/ FinalizeBilling(c, answer[c])
  /\ UNCHANGED <<quotaVars, catVars, call, proxyVars>>

\* Providers report a total of their own, Anthropic apart.
Counted(c) == IF call[c].endpoint = "messages" THEN answer[c].input + answer[c].output ELSE answer[c].total

\* Mutant of StartCount: requests that were refunded are counted, too.
CountRefunded(c) ==
  /\ pc[c] \in {"settled", "lost"}
  /\ Rate!BeginCount(c, IF answer[c] = NoAnswer THEN 0 ELSE Counted(c))
  /\ Proceed(c, "done")
  /\ UNCHANGED <<billingVars, catVars, call, chosen, answer, log>>

\* IncrementCounter comes after FinalizeBilling, whether that worked or not.
StartCount(c) ==
  /\ step[c] = "count"
  /\ pc[c] \in {"settled", "lost"}
  /\ Rate!BeginCount(c, Counted(c))
  /\ Proceed(c, "done")
  /\ UNCHANGED <<billingVars, catVars, call, chosen, answer, log>>

CountOn(c) ==
  /\ Rate!CountNext(c)
  /\ UNCHANGED <<billingVars, catVars, call, proxyVars>>

\* Mutant of Leave: the request ends before it is counted.
LeaveEarly(c) ==
  /\ pc[c] \in Final
  /\ Rate!EndUncounted(c)
  /\ UNCHANGED <<billingVars, catVars, call, proxyVars>>

\* Every other request ends without being counted.
Leave(c) ==
  /\ pc[c] \in Final
  /\ step[c] # "count"
  /\ Rate!EndUncounted(c)
  /\ UNCHANGED <<billingVars, catVars, call, proxyVars>>

-----------------------------------------------------------------------------
(* Everything else.                                                        *)

Administer ==
  \/ KeysNext /\ UNCHANGED <<callVars, lockVars, catVars>>
  \/ Cat!CatalogNext /\ UNCHANGED billingVars

RestartAll ==
  /\ Crash
  /\ Rate!RateCrash
  /\ step' = [c \in Callers |-> IF pc[c] = "idle" THEN step[c] ELSE "done"]
  /\ edit' = [e \in Editors |-> NoEdit]
  /\ UNCHANGED <<channel, model, call, chosen, answer, log>>

\* The billing lock and the quotas live in the same Redis.
RedisNext ==
  \/ RedisDown /\ Rate!RateRedisDown
  \/ RedisBack /\ Rate!RateRedisBack
  \/ /\ \/ \E c \in Callers : LoseReply(c)
        \/ \E k \in Keys : ExpireLock(k)
     /\ UNCHANGED quotaVars
  \/ \E ctr \in Rate!Counters : Rate!ExpireCounter(ctr) /\ UNCHANGED billingVars

GatewayCall(c) ==
  \/ Arrive(c) \/ StartCheck(c) \/ CheckQuota(c)
  \/ ParseBody(c) \/ LookupModel(c) \/ LookupChannel(c)
  \/ Unreachable(c) \/ FailUnlogged(c)
  \/ \E usage \in Usages : AnswerWhole(c, usage) \/ AnswerStream(c, usage)
  \/ UseBilling(c)
  \/ StartCount(c) \/ CountOn(c) \/ Leave(c)

GatewayNext ==
  \/ \E c \in Callers : GatewayCall(c)
  \/ Administer /\ UNCHANGED <<quotaVars, call, proxyVars>>
  \/ Rate!Tick /\ UNCHANGED <<billingVars, catVars, call, proxyVars>>
  \/ RedisNext /\ UNCHANGED <<catVars, call, proxyVars>>
  \/ RestartAll

GatewaySpec == GatewayInit /\ [][GatewayNext]_gatewayVars

\* Requests are run on, as in Billing.
FairGatewaySpec == GatewaySpec /\ \A c \in Callers : WF_gatewayVars(GatewayCall(c))

-----------------------------------------------------------------------------
(* Properties.                                                             *)

Over(c) == pc[c] \in Final /\ stage[c] = Rate!Idle

LogsAnswer(c) == log[c] # NoLog /\ log[c].outcome = "answered"

\* The usage log and the quotas tell the same story: once every request of a
\* key is over, the day's request counter has counted exactly the answers that
\* were logged, streams and answers without choices apart (the Create of
\* service/proxy.go against IncrementCounter).  In Redis that is as long as no
\* day's counter can have run out.
QuotaMatchesLog ==
  faults = 0 /\ ~DBMayFail /\ (UseRedis => minute < StartMinute + DayTTL) => \A k \in Keys :
    LET mine == {c \in Callers : KeyOf[c] = k}
        counters == {ctr \in Rate!Counters : ctr.metric = "rpd" /\ ctr.key = k}
    IN  (\A c \in mine : Over(c) \/ pc[c] = "idle") =>
          Rate!Total(counters) = Cardinality({c \in mine : LogsAnswer(c) /\ pc[c] # "kept"})

\* What counts against the day's quota is what the provider has answered, and
\* every answer once at the most: no refused, failed or refunded request ever
\* does, whatever is lost to crashes, outages, failing queries and counters that
\* run out (IncrementCounter comes after the answer, handler/proxy.go).
OnlyAnswersCounted ==
  \A k \in Keys :
    LET mine == {c \in Callers : KeyOf[c] = k}
        counters == {ctr \in Rate!Counters : ctr.metric = "rpd" /\ ctr.key = k}
    IN  Rate!Total(counters) <= Cardinality({c \in mine : answer[c] # NoAnswer /\ pc[c] # "kept"})

\* The requests that may be short of their reservation: the provider answered
\* them; or their body parsed and asked for a stream, which costs the whole
\* reservation even if no byte of it ever came (ChatCompletions and
\* proxyStreamAnthropic, handler/proxy.go); or a crash or a failing query has
\* lost it.
MayOwe(c) ==
  \/ answer[c] # NoAnswer
  \/ pc[c] = "kept" /\ call[c].valid /\ call[c].endpoint \in StreamEndpoints
  \/ pc[c] = "lost"

\* Money and outcome agree: once all requests of a live key are over, those that
\* were refused, did not parse, or failed without being a stream have their
\* money back, so the key is short of one reservation at the most for each of
\* the others.  Not even a crash or an expired lock makes a failed request cost
\* more (the error paths of handler/proxy.go).
FailuresRepaid ==
  \A k \in Keys \ clobbered : Live(k) =>
    LET mine == {c \in Callers : KeyOf[c] = k}
    IN  (\A c \in mine : Over(c) \/ pc[c] = "idle") =>
          deposited[k] - row[k].balance <= PreDeductAmount * Cardinality({c \in mine : MayOwe(c)})

\* A request that has been let in is over at some time: answered, refused or
\* failed, its lock let go and its counters written (handler/proxy.go).
RequestEnds == \A c \in Callers : pc[c] = "authed" ~> Over(c)

\* "After request completion, actual cost is calculated based on token usage":
\* a settlement takes what the usage log says the request cost
\* (README, Billing Model).
SettledAtCost ==
  [][\A c \in Callers : pc[c] = "finalizing" /\ pc'[c] = "settled" /\ log[c] # NoLog =>
       row' = Settle(KeyOf[c], PreDeductAmount - log[c].cost)]_gatewayVars

=============================================================================
