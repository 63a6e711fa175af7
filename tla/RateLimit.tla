----------------------------- MODULE RateLimit -----------------------------
(***************************************************************************)
(* Request and token quotas per minute and per day: service/ratelimit.go,  *)
(* called before a request (middleware/ratelimit.go) and, much later, when *)
(* its answer has arrived (handler/proxy.go).                              *)
(*                                                                         *)
(* A worker is one of the connections a tenant keeps busy: it serves one   *)
(* request after another.  CheckRateLimit and IncrementCounter each take   *)
(* the time once and then go through the four counters of that time, one   *)
(* query each.                                                             *)
(***************************************************************************)
EXTENDS Integers, FiniteSets, Functions

CONSTANTS Keys,
          Workers,        \* concurrent requests
          KeyOf,          \* the key a worker presents
          LimitsOf,       \* the limits in a worker's copy of its key's row
          TokenCounts,    \* tokens an answer may report
          MaxTokens,      \* the most of them
          MinutesPerDay,  \* 1440
          UseRedis,       \* REDIS_ENABLED
          MinuteTTL,      \* 2 minutes
          DayTTL,         \* 25 hours, in minutes
          StartMinute,    \* when the gateway is started
          MaxMinute,      \* bound on the clock
          MaxFaults,      \* bound on crashes and Redis outages
          MaxAnswers      \* bound on the answers a key gets in a minute

Metrics == {"rpm", "tpm", "rpd", "tpd"}

\* The order in which the counters are read and written.
Order == <<"rpm", "tpm", "rpd", "tpd">>

Windows == 0 .. MaxMinute

Counters == [metric : Metrics, key : Keys, window : Windows]

ASSUME RateAssumption ==
  /\ IsFiniteSet(Workers)
  /\ KeyOf \in [Workers -> Keys]
  /\ LimitsOf \in [Keys -> [Metrics -> Nat \ {0}]]
  /\ MaxTokens \in Nat
  /\ TokenCounts \subseteq 0 .. MaxTokens
  /\ MinutesPerDay \in Nat \ {0}
  /\ UseRedis \in BOOLEAN
  /\ MinuteTTL \in Nat \ {0}
  /\ DayTTL \in Nat
  /\ MaxMinute \in Nat
  /\ StartMinute \in Windows
  /\ MaxFaults \in Nat

VARIABLES minute,    \* time.Now(), in whole minutes
          redis,     \* the counters in Redis, 0 where there is none
          expiresAt, \* when a counter in Redis runs out
          memory,    \* memoryStore
          rateUp,    \* Redis can be reached
          stage,     \* what each worker is doing
          at,        \* now, in its current check or count
          tokens,    \* the tokens of the answer it is counting
          outages,   \* history: Redis outages so far
          crashes,   \* history: crashes so far
          answered   \* history: answers per key and minute

storeVars == <<redis, expiresAt, memory>>
workerVars == <<stage, at, tokens>>
rateVars == <<minute, storeVars, rateUp, workerVars, outages, crashes, answered>>

Steps == 1 .. 4

\* A stage with its progress through Order.
Stages == [doing : {"idle", "passed"}, next : {1}] \cup [doing : {"checking", "counting"}, next : Steps]

Idle == [doing |-> "idle", next |-> 1]
Passed == [doing |-> "passed", next |-> 1]

RateTypeOK ==
  /\ minute \in Windows
  /\ redis \in [Counters -> Nat]
  /\ expiresAt \in [Counters -> Nat]
  /\ memory \in [Counters -> Nat]
  /\ rateUp \in BOOLEAN
  /\ stage \in [Workers -> Stages]
  /\ at \in [Workers -> Windows]
  /\ tokens \in [Workers -> TokenCounts \cup {0}]
  /\ outages \in Nat
  /\ crashes \in Nat
  /\ answered \in [Keys -> [Windows -> Nat]]

RateInit ==
  /\ minute = StartMinute
  /\ redis = [ctr \in Counters |-> 0]
  /\ expiresAt = [ctr \in Counters |-> 0]
  /\ memory = [ctr \in Counters |-> 0]
  /\ rateUp = TRUE
  /\ stage = [w \in Workers |-> Idle]
  /\ at = [w \in Workers |-> 0]
  /\ tokens = [w \in Workers |-> 0]
  /\ outages = 0
  /\ crashes = 0
  /\ answered = [k \in Keys |-> [t \in Windows |-> 0]]

-----------------------------------------------------------------------------
(* Counters.                                                               *)

Day(t) == t \div MinutesPerDay

WindowOf(m, t) == IF m \in {"rpm", "tpm"} THEN t ELSE Day(t)

\* Mutant of CounterKey: the time is taken again for the day's counters.
CounterKeyOfNow(m, k, t) ==
  [metric |-> m, key |-> k, window |-> WindowOf(m, IF m \in {"rpd", "tpd"} THEN minute ELSE t)]

CounterKey(m, k, t) == [metric |-> m, key |-> k, window |-> WindowOf(m, t)]

\* A counter that is not in Redis, like every error, falls through to memory.
getCount(ctr) ==
  IF UseRedis /\ rateUp /\ redis[ctr] # 0 THEN redis[ctr] ELSE memory[ctr]

\* Mutant of TTL: seconds for minutes.
TTLInSeconds(m) == IF m \in {"rpm", "tpm"} THEN 0 ELSE DayTTL

TTL(m) == IF m \in {"rpm", "tpm"} THEN MinuteTTL ELSE DayTTL

\* With a client the increment goes to Redis or, with the error dropped,
\* nowhere; memory is for a gateway configured without Redis.
increment(ctr, value) ==
  IF UseRedis
    THEN /\ redis' = IF rateUp THEN [redis EXCEPT ![ctr] = @ + value] ELSE redis
         /\ expiresAt' = IF rateUp THEN [expiresAt EXCEPT ![ctr] = minute + TTL(ctr.metric)]
                         ELSE expiresAt
         /\ UNCHANGED memory
    ELSE /\ memory' = [memory EXCEPT ![ctr] = @ + value]
         /\ UNCHANGED <<redis, expiresAt>>

\* Redis removes a counter once its time to live has run out.
ExpireCounter(ctr) ==
  /\ redis[ctr] # 0
  /\ expiresAt[ctr] <= minute
  /\ redis' = [redis EXCEPT ![ctr] = 0]
  /\ expiresAt' = [expiresAt EXCEPT ![ctr] = 0]
  /\ UNCHANGED <<minute, memory, rateUp, workerVars, outages, crashes, answered>>

-----------------------------------------------------------------------------
(* CheckRateLimit.                                                         *)

\* Mutant of Exceeded: off by one.
ExceededByOne(count, limit) == count > limit

Exceeded(count, limit) == count >= limit

\* Mutant of Last: one counter too many.
PastLast(i) == i = 5

\* The fourth counter is the last.
Last(i) == i = 4

BeginCheck(w) ==
  /\ stage[w] = Idle
  /\ stage' = [stage EXCEPT ![w] = [doing |-> "checking", next |-> 1]]
  /\ at' = [at EXCEPT ![w] = minute]
  /\ UNCHANGED <<minute, storeVars, rateUp, tokens, outages, crashes, answered>>

\* One counter against its limit: 429, or on to the next.
CheckCounter(w, limits) ==
  /\ stage[w].doing = "checking"
  /\ LET i == stage[w].next
         exceeded == Exceeded(getCount(CounterKey(Order[i], KeyOf[w], at[w])), limits[Order[i]])
     IN  IF ~exceeded /\ ~Last(i)
           THEN /\ stage' = [stage EXCEPT ![w].next = i + 1]
                /\ UNCHANGED at
           ELSE /\ stage' = [stage EXCEPT ![w] = IF exceeded THEN Idle ELSE Passed]
                /\ at' = [at EXCEPT ![w] = 0]
  /\ UNCHANGED <<minute, storeVars, rateUp, tokens, outages, crashes, answered>>

-----------------------------------------------------------------------------
(* IncrementCounter.                                                       *)

\* The answer has arrived, with its n tokens.
BeginCount(w, n) ==
  /\ stage[w] = Passed
  /\ answered[KeyOf[w]][minute] < MaxAnswers
  /\ stage' = [stage EXCEPT ![w] = [doing |-> "counting", next |-> 1]]
  /\ at' = [at EXCEPT ![w] = minute]
  /\ tokens' = [tokens EXCEPT ![w] = n]
  /\ answered' = [answered EXCEPT ![KeyOf[w]][minute] = @ + 1]
  /\ UNCHANGED <<minute, storeVars, rateUp, outages, crashes>>

\* Mutant of Amount: requests are counted by their tokens, too.
AmountInTokens(w, m) == tokens[w]

Amount(w, m) == IF m \in {"tpm", "tpd"} THEN tokens[w] ELSE 1

CountNext(w) ==
  /\ stage[w].doing = "counting"
  /\ LET i == stage[w].next
     IN  /\ increment(CounterKey(Order[i], KeyOf[w], at[w]), Amount(w, Order[i]))
         /\ IF ~Last(i)
              THEN /\ stage' = [stage EXCEPT ![w].next = i + 1]
                   /\ UNCHANGED <<at, tokens>>
              ELSE /\ stage' = [stage EXCEPT ![w] = Idle]
                   /\ at' = [at EXCEPT ![w] = 0]
                   /\ tokens' = [tokens EXCEPT ![w] = 0]
  /\ UNCHANGED <<minute, rateUp, outages, crashes, answered>>

\* Refused, failed and streamed requests and GET /info are never counted.
EndUncounted(w) ==
  /\ stage[w] = Passed
  /\ stage' = [stage EXCEPT ![w] = Idle]
  /\ UNCHANGED <<minute, storeVars, rateUp, at, tokens, outages, crashes, answered>>

-----------------------------------------------------------------------------
(* The environment.                                                        *)

Tick ==
  /\ minute < MaxMinute
  /\ minute' = minute + 1
  /\ UNCHANGED <<storeVars, rateUp, workerVars, outages, crashes, answered>>

\* The process restarts: requests in flight and memoryStore are gone.
RateCrash ==
  /\ outages + crashes < MaxFaults
  /\ crashes' = crashes + 1
  /\ memory' = [ctr \in Counters |-> 0]
  /\ stage' = [w \in Workers |-> Idle]
  /\ at' = [w \in Workers |-> 0]
  /\ tokens' = [w \in Workers |-> 0]
  /\ UNCHANGED <<minute, redis, expiresAt, rateUp, outages, answered>>

RateRedisDown ==
  /\ UseRedis
  /\ rateUp
  /\ outages + crashes < MaxFaults
  /\ outages' = outages + 1
  /\ rateUp' = FALSE
  /\ UNCHANGED <<minute, storeVars, workerVars, crashes, answered>>

RateRedisBack ==
  /\ ~rateUp
  /\ rateUp' = TRUE
  /\ UNCHANGED <<minute, storeVars, workerVars, outages, crashes, answered>>

WorkerNext(w) ==
  \/ BeginCheck(w)
  \/ CheckCounter(w, LimitsOf[KeyOf[w]])
  \/ \E n \in TokenCounts : BeginCount(w, n)
  \/ CountNext(w)
  \/ EndUncounted(w)

RateNext ==
  \/ \E w \in Workers : WorkerNext(w)
  \/ \E ctr \in Counters : ExpireCounter(ctr)
  \/ Tick
  \/ RateCrash
  \/ RateRedisDown
  \/ RateRedisBack

RateSpec == RateInit /\ [][RateNext]_rateVars

-----------------------------------------------------------------------------
(* Properties.                                                             *)

Count(ctr) == IF UseRedis THEN redis[ctr] ELSE memory[ctr]

WorkersOf(k) == {w \in Workers : KeyOf[w] = k}

Total(counters) == SumFunction([ctr \in counters |-> Count(ctr)])

\* The most one answer adds to a counter.
Weight(m) == IF m \in {"tpm", "tpd"} THEN MaxTokens ELSE 1

\* A quota can be overshot, since it is checked long before it is used up, but
\* never by more than one answer per worker, and as much again for each Redis
\* outage, in which every check passes.  A request that was checked against an
\* earlier window is no exception (CheckRateLimit and IncrementCounter).
OvershootBounded ==
  \A ctr \in Counters :
    Count(ctr) <= LimitsOf[ctr.key][ctr.metric] - 1
                  + Weight(ctr.metric) * Cardinality(WorkersOf(ctr.key)) * (1 + outages)

\* As long as nothing fails, the request counter of the running minute is the
\* number of answers of this minute that have got as far as counting: no
\* counter runs out before its window is over (the TTLs of IncrementCounter).
CounterExact ==
  outages + crashes = 0 =>
    \A k \in Keys :
      Count(CounterKey("rpm", k, minute))
        + Cardinality({w \in WorkersOf(k) : stage[w] = [doing |-> "counting", next |-> 1] /\ at[w] = minute})
      = answered[k][minute]

\* The requests of a minute are part of its day: as long as the day's counter
\* cannot have run out, which in Redis it does 25 hours after the day has begun
\* at the earliest, the minute counters of the day never add up to more than it,
\* except for workers between the two increments, and for those that a crash or
\* an outage caught there (IncrementCounter takes the time once).
DayCoversMinutes ==
  \A k \in Keys, d \in {Day(t) : t \in Windows} :
    LET Midway == {w \in WorkersOf(k) : stage[w].doing = "counting" /\ stage[w].next \in {2, 3} /\ Day(at[w]) = d}
        minutes == {t \in Windows : Day(t) = d}
    IN  (UseRedis => minute < d * MinutesPerDay + DayTTL) =>
          Total({CounterKey("rpm", k, t) : t \in minutes})
            <= Count([metric |-> "rpd", key |-> k, window |-> d])
               + Cardinality(Midway) + Cardinality(WorkersOf(k)) * (outages + crashes)

\* The memory store is "for when Redis is not available", so an outage does not
\* lift the limits: without crashes, which empty it, a minute has the answers
\* that its limit allows once in Redis and, for each outage, once in that store
\* (service/ratelimit.go).
LimitedInOutage ==
  crashes = 0 => \A k \in Keys, t \in Windows :
    answered[k][t] <= (LimitsOf[k]["rpm"] - 1 + Cardinality(WorkersOf(k))) * (1 + outages)

=============================================================================
