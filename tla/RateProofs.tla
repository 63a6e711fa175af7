---------------------------- MODULE RateProofs ----------------------------
(***************************************************************************)
(* Proofs about RateLimit, for any keys, workers, limits, times to live    *)
(* and numbers of crashes and outages, with and without Redis.             *)
(***************************************************************************)
EXTENDS RateLimit, SumProofs, TLAPS

-----------------------------------------------------------------------------
(* Windows.                                                                *)

\* The day of a minute is a window, and later minutes are in no earlier day.
LEMMA DayLaws ==
  /\ \A t \in Nat : Day(t) \in Nat /\ Day(t) <= t
  /\ \A t, u \in Nat : t <= u => Day(t) <= Day(u)
<1> DEFINE n == MinutesPerDay
<1>1. n \in Nat /\ n > 0
  BY RateAssumption
<1>2. \A t \in Nat : Day(t) \in Int /\ n * Day(t) <= t /\ t < n * Day(t) + n
  BY <1>1 DEF Day
<1> HIDE DEF n
<1>3. \A a, b \in Int : a >= b => n * a >= n * b
  <2> SUFFICES ASSUME NEW a \in Int, NEW b \in Int, a >= b PROVE n * a >= n * b
    OBVIOUS
  <2>1. n * (a - b) >= 0
    BY <1>1
  <2>2. n * (a - b) = n * a - n * b
    BY <1>1
  <2>3. n * a \in Int /\ n * b \in Int
    BY <1>1
  <2> QED  BY <2>1, <2>2, <2>3
<1>4. ASSUME NEW t \in Nat PROVE Day(t) \in Nat /\ Day(t) <= t
  <2>1. Day(t) \in Int /\ n * Day(t) <= t /\ t < n * Day(t) + n /\ n * Day(t) \in Int
    BY <1>1, <1>2
  <2>2. Day(t) >= 0
    <3> SUFFICES ASSUME -1 >= Day(t) PROVE FALSE
      BY <2>1
    <3>1. n * (-1) >= n * Day(t) /\ n * (-1) = -n
      BY <1>1, <1>3, <2>1
    <3> QED  BY <1>1, <2>1, <3>1
  <2>3. n * Day(t) >= Day(t)
    <3>1. (n - 1) * Day(t) >= 0
      BY <1>1, <2>1, <2>2
    <3>2. (n - 1) * Day(t) = n * Day(t) - Day(t)
      BY <1>1, <2>1
    <3> QED  BY <2>1, <3>1, <3>2
  <2> QED  BY <2>1, <2>2, <2>3
<1>5. ASSUME NEW t \in Nat, NEW u \in Nat, t <= u PROVE Day(t) <= Day(u)
  <2>1. /\ Day(t) \in Int /\ Day(u) \in Int /\ n * Day(t) \in Int /\ n * Day(u) \in Int
        /\ n * Day(t) <= t /\ u < n * Day(u) + n
    BY <1>1, <1>2
  <2> SUFFICES ASSUME Day(t) >= Day(u) + 1 PROVE FALSE
    BY <2>1
  <2>2. n * Day(t) >= n * (Day(u) + 1)
    BY <1>3, <2>1
  <2>3. n * (Day(u) + 1) = n * Day(u) + n
    BY <1>1, <2>1
  <2> QED  BY <1>5, <1>1, <2>1, <2>2, <2>3
<1> QED  BY <1>4, <1>5

LEMMA WindowLaws ==
  ASSUME NEW m \in Metrics
  PROVE  /\ \A t \in Windows : WindowOf(m, t) \in Windows
         /\ \A t, u \in Windows : t <= u => WindowOf(m, t) <= WindowOf(m, u)
BY DayLaws, RateAssumption DEF WindowOf, Windows

LEMMA CounterKeyTypes ==
  ASSUME NEW m \in Metrics, NEW k \in Keys, NEW t \in Windows
  PROVE  /\ CounterKey(m, k, t) \in Counters
         /\ CounterKey(m, k, t).metric = m
         /\ CounterKey(m, k, t).key = k
         /\ CounterKey(m, k, t).window = WindowOf(m, t)
BY WindowLaws DEF CounterKey, Counters

\* Where a metric stands in Order.
Place == [rpm |-> 1, tpm |-> 2, rpd |-> 3, tpd |-> 4]

LEMMA OrderLaws ==
  /\ \A i \in Steps : Order[i] \in Metrics /\ Place[Order[i]] = i
  /\ \A m \in Metrics : Place[m] \in Steps /\ Order[Place[m]] = m
BY DEF Order, Steps, Metrics, Place

-----------------------------------------------------------------------------
(* What a check and a count do to a worker.                                *)

\* A stage with the worker's progress written over.
LEMMA StageUpdate ==
  ASSUME RateTypeOK, NEW w \in Workers, stage[w].doing \in {"checking", "counting"}
  PROVE  /\ stage[w].next \in Steps
         /\ \A i : [stage[w] EXCEPT !.next = i] = [doing |-> stage[w].doing, next |-> i]
BY DEF RateTypeOK, Stages

\* The counter a worker is at.
CounterAt(w) == CounterKey(Order[stage[w].next], KeyOf[w], at[w])

LEMMA CounterAtTypes ==
  ASSUME RateTypeOK, NEW w \in Workers, stage[w].doing \in {"checking", "counting"}
  PROVE  /\ CounterAt(w) \in Counters
         /\ CounterAt(w).metric = Order[stage[w].next]
         /\ CounterAt(w).key = KeyOf[w]
         /\ CounterAt(w).window = WindowOf(Order[stage[w].next], at[w])
<1>1. Order[stage[w].next] \in Metrics
  BY StageUpdate, OrderLaws
<1>2. KeyOf[w] \in Keys /\ at[w] \in Windows
  BY RateAssumption DEF RateTypeOK
<1> QED  BY <1>1, <1>2, CounterKeyTypes DEF CounterAt

\* A check moves on only below the limit, and passes only after the fourth.
LEMMA CheckMoves ==
  ASSUME RateTypeOK, NEW w \in Workers, NEW limits, CheckCounter(w, limits)
  PROVE  /\ stage[w].doing = "checking" /\ stage[w].next \in Steps
         /\ \/ /\ stage' = [stage EXCEPT ![w] = [doing |-> "checking", next |-> stage[w].next + 1]]
               /\ stage[w].next # 4
               /\ ~Exceeded(getCount(CounterAt(w)), limits[Order[stage[w].next]])
               /\ at' = at
            \/ /\ stage' = [stage EXCEPT ![w] = Passed]
               /\ stage[w].next = 4
               /\ ~Exceeded(getCount(CounterAt(w)), limits[Order[stage[w].next]])
               /\ at' = [at EXCEPT ![w] = 0]
            \/ /\ stage' = [stage EXCEPT ![w] = Idle]
               /\ at' = [at EXCEPT ![w] = 0]
         /\ UNCHANGED <<minute, storeVars, rateUp, tokens, outages, crashes, answered>>
<1>1. stage[w].doing = "checking" /\ stage[w].next \in Steps /\ stage \in [Workers -> Stages]
  BY StageUpdate DEF CheckCounter, RateTypeOK
<1>2. [stage EXCEPT ![w].next = stage[w].next + 1]
        = [stage EXCEPT ![w] = [doing |-> "checking", next |-> stage[w].next + 1]]
  BY <1>1, StageUpdate
<1>3. UNCHANGED <<minute, storeVars, rateUp, tokens, outages, crashes, answered>>
  BY DEF CheckCounter
<1> DEFINE exceeded == Exceeded(getCount(CounterAt(w)), limits[Order[stage[w].next]])
<1>4. IF ~exceeded /\ ~Last(stage[w].next)
        THEN stage' = [stage EXCEPT ![w].next = stage[w].next + 1] /\ UNCHANGED at
        ELSE /\ stage' = [stage EXCEPT ![w] = IF exceeded THEN Idle ELSE Passed]
             /\ at' = [at EXCEPT ![w] = 0]
  BY DEF CheckCounter, CounterAt
<1> HIDE DEF exceeded
<1>5. CASE ~exceeded /\ ~Last(stage[w].next)
  BY <1>1, <1>2, <1>3, <1>4, <1>5 DEF Last, exceeded
<1>6. CASE ~exceeded /\ Last(stage[w].next)
  BY <1>1, <1>3, <1>4, <1>6 DEF Last, exceeded
<1>7. CASE exceeded
  BY <1>1, <1>3, <1>4, <1>7
<1> QED  BY <1>5, <1>6, <1>7

\* A count adds to one counter and goes on to the next, or ends.
LEMMA CountMoves ==
  ASSUME RateTypeOK, NEW w \in Workers, CountNext(w)
  PROVE  /\ stage[w].doing = "counting" /\ stage[w].next \in Steps
         /\ increment(CounterAt(w), Amount(w, Order[stage[w].next]))
         /\ \/ /\ stage' = [stage EXCEPT ![w] = [doing |-> "counting", next |-> stage[w].next + 1]]
               /\ stage[w].next # 4
               /\ UNCHANGED <<at, tokens>>
            \/ /\ stage' = [stage EXCEPT ![w] = Idle]
               /\ stage[w].next = 4
               /\ at' = [at EXCEPT ![w] = 0]
               /\ tokens' = [tokens EXCEPT ![w] = 0]
         /\ UNCHANGED <<minute, rateUp, outages, crashes, answered>>
<1>1. stage[w].doing = "counting" /\ stage[w].next \in Steps /\ stage \in [Workers -> Stages]
  BY StageUpdate DEF CountNext, RateTypeOK
<1>2. [stage EXCEPT ![w].next = stage[w].next + 1]
        = [stage EXCEPT ![w] = [doing |-> "counting", next |-> stage[w].next + 1]]
  BY <1>1, StageUpdate
<1>3. increment(CounterAt(w), Amount(w, Order[stage[w].next]))
  BY DEF CountNext, CounterAt
<1>4. UNCHANGED <<minute, rateUp, outages, crashes, answered>>
  BY DEF CountNext
<1>5. CASE ~Last(stage[w].next)
  BY <1>1, <1>2, <1>3, <1>4, <1>5 DEF Last, CountNext
<1>6. CASE Last(stage[w].next)
  BY <1>1, <1>3, <1>4, <1>6 DEF Last, CountNext
<1> QED  BY <1>5, <1>6

LEMMA AmountTypes ==
  ASSUME RateTypeOK, NEW w \in Workers, NEW m \in Metrics
  PROVE  Amount(w, m) \in Nat /\ Weight(m) \in Nat /\ Amount(w, m) <= Weight(m)
<1>1. tokens[w] \in Nat /\ tokens[w] <= MaxTokens /\ MaxTokens \in Nat
  <2>1. tokens[w] \in TokenCounts \cup {0} /\ 0 \in 0 .. MaxTokens /\ MaxTokens \in Nat
    BY RateAssumption DEF RateTypeOK
  <2>2. tokens[w] \in 0 .. MaxTokens
    BY <2>1, RateAssumption
  <2> QED  BY <2>1, <2>2
<1> QED  BY <1>1 DEF Amount, Weight

\* An increment keeps the stores well formed.
LEMMA IncrementTypes ==
  ASSUME RateTypeOK, NEW ctr \in Counters, NEW value \in Nat, increment(ctr, value)
  PROVE  /\ redis' \in [Counters -> Nat]
         /\ expiresAt' \in [Counters -> Nat]
         /\ memory' \in [Counters -> Nat]
<1>1. minute + TTL(ctr.metric) \in Nat
  BY RateAssumption DEF RateTypeOK, Windows, TTL
<1> QED  BY <1>1 DEF RateTypeOK, increment

-----------------------------------------------------------------------------
(* Type correctness.                                                       *)

LEMMA RateTypeInit == RateInit => RateTypeOK
BY RateAssumption DEF RateInit, RateTypeOK, Windows, Stages, Idle

\* A worker's step, whatever limits its check is given.
LEMMA WorkerTypes ==
  ASSUME RateTypeOK, NEW w \in Workers,
         \/ BeginCheck(w)
         \/ \E limits : CheckCounter(w, limits)
         \/ \E n \in TokenCounts : BeginCount(w, n)
         \/ CountNext(w)
         \/ EndUncounted(w)
  PROVE  RateTypeOK'
<1> USE DEF RateTypeOK
<1>a. /\ Idle \in Stages /\ Passed \in Stages
      /\ \A doing \in {"checking", "counting"}, i \in Steps : [doing |-> doing, next |-> i] \in Stages
      /\ 1 \in Steps /\ \A i \in Steps : i # 4 => i + 1 \in Steps
      /\ 0 \in Windows
  BY RateAssumption DEF Stages, Idle, Passed, Steps, Windows
<1>1. CASE BeginCheck(w)
  BY <1>1, <1>a DEF BeginCheck, storeVars
<1>2. ASSUME NEW limits, CheckCounter(w, limits) PROVE RateTypeOK'
  <2>1. stage' \in [Workers -> Stages] /\ at' \in [Workers -> Windows]
    BY <1>2, <1>a, CheckMoves
  <2>2. UNCHANGED <<minute, storeVars, rateUp, tokens, outages, crashes, answered>>
    BY <1>2, CheckMoves
  <2> QED  BY <2>1, <2>2 DEF storeVars
<1>3. ASSUME NEW n \in TokenCounts, BeginCount(w, n) PROVE RateTypeOK'
  <2>1. answered' \in [Keys -> [Windows -> Nat]]
    <3>1. KeyOf[w] \in Keys
      BY RateAssumption
    <3>2. [answered[KeyOf[w]] EXCEPT ![minute] = @ + 1] \in [Windows -> Nat]
      BY <3>1
    <3>3. answered' = [answered EXCEPT ![KeyOf[w]] = [answered[KeyOf[w]] EXCEPT ![minute] = @ + 1]]
      BY <1>3 DEF BeginCount
    <3> QED  BY <3>1, <3>2, <3>3
  <2> QED  BY <1>3, <1>a, <2>1 DEF BeginCount, storeVars
<1>4. CASE CountNext(w)
  <2>1. stage' \in [Workers -> Stages] /\ at' \in [Workers -> Windows] /\ tokens' \in [Workers -> TokenCounts \cup {0}]
    BY <1>4, <1>a, CountMoves
  <2>2. UNCHANGED <<minute, rateUp, outages, crashes, answered>>
    BY <1>4, CountMoves
  <2>3. CounterAt(w) \in Counters /\ Amount(w, Order[stage[w].next]) \in Nat
    BY <1>4, CountMoves, CounterAtTypes, AmountTypes, OrderLaws
  <2>4. /\ redis' \in [Counters -> Nat]
        /\ expiresAt' \in [Counters -> Nat]
        /\ memory' \in [Counters -> Nat]
    BY <1>4, <2>3, CountMoves, IncrementTypes
  <2> QED  BY <2>1, <2>2, <2>4
<1>5. CASE EndUncounted(w)
  BY <1>5, <1>a DEF EndUncounted, storeVars
<1> QED  BY <1>1, <1>2, <1>3, <1>4, <1>5

LEMMA RateTypeNext ==
  ASSUME RateTypeOK, [RateNext]_rateVars
  PROVE  RateTypeOK'
<1> USE DEF RateTypeOK
<1>1. ASSUME NEW w \in Workers, WorkerNext(w) PROVE RateTypeOK'
  <2> HIDE DEF RateTypeOK
  <2> QED  BY <1>1, WorkerTypes DEF WorkerNext
<1>2. ASSUME NEW ctr \in Counters, ExpireCounter(ctr) PROVE RateTypeOK'
  BY <1>2 DEF ExpireCounter, workerVars
<1>3. CASE Tick
  BY <1>3, RateAssumption DEF Tick, Windows, storeVars, workerVars
<1>4. CASE RateCrash
  BY <1>4, RateAssumption DEF RateCrash, Windows, Stages, Idle
<1>5. CASE RateRedisDown
  <2>1. outages' \in Nat
    BY <1>5 DEF RateRedisDown
  <2>2. rateUp' \in BOOLEAN
    BY <1>5, Zenon DEF RateRedisDown
  <2>3. UNCHANGED <<minute, storeVars, workerVars, crashes, answered>>
    BY <1>5 DEF RateRedisDown
  <2> QED  BY <2>1, <2>2, <2>3 DEF storeVars, workerVars
<1>6. CASE RateRedisBack
  BY <1>6 DEF RateRedisBack, storeVars, workerVars
<1>7. CASE UNCHANGED rateVars
  BY <1>7 DEF rateVars, storeVars, workerVars
<1> HIDE DEF RateTypeOK
<1> QED  BY <1>1, <1>2, <1>3, <1>4, <1>5, <1>6, <1>7 DEF RateNext

\* A step with any limits in the place of LimitsOf: checks only read them.
Works(w, limits) ==
  \/ BeginCheck(w)
  \/ CheckCounter(w, limits)
  \/ \E n \in TokenCounts : BeginCount(w, n)
  \/ CountNext(w)
  \/ EndUncounted(w)

Environment ==
  \/ \E c \in Counters : ExpireCounter(c)
  \/ Tick \/ RateCrash \/ RateRedisDown \/ RateRedisBack \/ UNCHANGED rateVars

LEMMA MoveTypes ==
  ASSUME RateTypeOK, NEW limits, (\E w \in Workers : Works(w, limits)) \/ Environment
  PROVE  RateTypeOK'
<1>1. ASSUME NEW w \in Workers, Works(w, limits) PROVE RateTypeOK'
  BY <1>1, WorkerTypes DEF Works
<1>2. CASE Environment
  BY <1>2, RateTypeNext DEF Environment, RateNext
<1> QED  BY <1>1, <1>2

LEMMA RateMoves ==
  ASSUME [RateNext]_rateVars
  PROVE  (\E w \in Workers : Works(w, LimitsOf[KeyOf[w]])) \/ Environment
BY DEF RateNext, WorkerNext, Works, Environment

\* The counters, their times to live and the workers' stages stay well formed:
\* in particular every counter that is read or written belongs to a window.
THEOREM RateTypeCorrect == RateSpec => []RateTypeOK
BY RateTypeInit, RateTypeNext, PTL DEF RateSpec

-----------------------------------------------------------------------------
(* How far a quota can be overshot.                                        *)

\* The counter of the window that the clock is in.
Running(ctr) == ctr.window = WindowOf(ctr.metric, minute)

\* The worker may still add to the counter and will not be checked against it
\* before: it is counting and has not come to it, or it was let in, or the
\* check it is in has passed this metric or looks at an earlier window.
Pends(w, ctr) ==
  /\ KeyOf[w] = ctr.key
  /\ \/ /\ stage[w].doing = "counting"
        /\ WindowOf(ctr.metric, at[w]) = ctr.window
        /\ stage[w].next <= Place[ctr.metric]
     \/ /\ stage[w].doing = "passed"
        /\ Running(ctr)
     \/ /\ stage[w].doing = "checking"
        /\ Running(ctr)
        /\ stage[w].next > Place[ctr.metric] \/ WindowOf(ctr.metric, at[w]) < ctr.window

Pending(ctr) == {w \in Workers : Pends(w, ctr)}

\* The limit less one, and n answers of every worker.
Slack(ctr, n) ==
  LimitsOf[ctr.key][ctr.metric] - 1 + Weight(ctr.metric) * Cardinality(WorkersOf(ctr.key)) * n

\* Who may still add has a place within the slack, as long as checks see the
\* counters.  In an outage every check passes, but nothing is added.
WithinQuota(ctr) ==
  IF rateUp
    THEN Count(ctr) + Weight(ctr.metric) * Cardinality(Pending(ctr)) <= Slack(ctr, outages + 1)
    ELSE Count(ctr) <= Slack(ctr, outages)

MemoryUnused == UseRedis => \A ctr \in Counters : memory[ctr] = 0

FutureEmpty == \A ctr \in Counters : ctr.window > WindowOf(ctr.metric, minute) => Count(ctr) = 0

AtPast == \A w \in Workers : at[w] <= minute

OutageCounted == ~rateUp => UseRedis /\ outages >= 1

\* What holds of the counters whatever the limits are.
StoreInv ==
  /\ RateTypeOK
  /\ MemoryUnused
  /\ FutureEmpty
  /\ AtPast
  /\ OutageCounted

QuotaInv == StoreInv /\ \A ctr \in Counters : WithinQuota(ctr)

LEMMA CountTypes ==
  ASSUME RateTypeOK, NEW ctr \in Counters
  PROVE  Count(ctr) \in Nat
BY DEF RateTypeOK, Count

LEMMA CounterFields ==
  ASSUME NEW ctr \in Counters
  PROVE  ctr.metric \in Metrics /\ ctr.key \in Keys /\ ctr.window \in Windows
BY DEF Counters

LEMMA PendingFinite ==
  ASSUME NEW ctr \in Counters
  PROVE  /\ IsFiniteSet(Pending(ctr))
         /\ Cardinality(Pending(ctr)) \in Nat
         /\ Cardinality(WorkersOf(ctr.key)) \in Nat
         /\ Cardinality(Pending(ctr)) <= Cardinality(WorkersOf(ctr.key))
<1>1. Pending(ctr) \subseteq WorkersOf(ctr.key) /\ WorkersOf(ctr.key) \subseteq Workers
  BY DEF Pending, Pends, WorkersOf
<1>2. IsFiniteSet(WorkersOf(ctr.key))
  BY <1>1, RateAssumption, FS_Subset
<1> QED  BY <1>1, <1>2, FS_Subset, FS_CardinalityType

LEMMA Products ==
  ASSUME NEW w \in Nat, NEW a \in Nat, NEW b \in Nat, a <= b
  PROVE  w * a \in Nat /\ w * a <= w * b
<1>1. w * (b - a) >= 0
  OBVIOUS
<1>2. w * (b - a) = w * b - w * a
  OBVIOUS
<1>3. w * a \in Nat /\ w * b \in Nat
  OBVIOUS
<1> QED  BY <1>1, <1>2, <1>3

LEMMA SlackLaws ==
  ASSUME NEW ctr \in Counters, NEW n \in Nat
  PROVE  /\ Weight(ctr.metric) \in Nat
         /\ LimitsOf[ctr.key][ctr.metric] \in Nat \ {0}
         /\ Slack(ctr, n) \in Int
         /\ Slack(ctr, n) >= LimitsOf[ctr.key][ctr.metric] - 1
         /\ Weight(ctr.metric) * Cardinality(WorkersOf(ctr.key)) \in Nat
         /\ Slack(ctr, n + 1) = Slack(ctr, n) + Weight(ctr.metric) * Cardinality(WorkersOf(ctr.key))
<1>1. Weight(ctr.metric) \in Nat
  BY RateAssumption DEF Weight
<1>2. LimitsOf[ctr.key][ctr.metric] \in Nat \ {0}
  BY CounterFields, RateAssumption
<1>3. Cardinality(WorkersOf(ctr.key)) \in Nat
  BY PendingFinite
<1> DEFINE P == Weight(ctr.metric) * Cardinality(WorkersOf(ctr.key))
<1>4. P \in Nat
  BY <1>1, <1>3
<1>5. Slack(ctr, n) = LimitsOf[ctr.key][ctr.metric] - 1 + P * n
  BY DEF Slack
<1>6. Slack(ctr, n + 1) = LimitsOf[ctr.key][ctr.metric] - 1 + P * (n + 1)
  BY DEF Slack
<1> HIDE DEF P
<1>7. P * n \in Nat /\ P * (n + 1) = P * n + P
  BY <1>4
<1>8. P = Weight(ctr.metric) * Cardinality(WorkersOf(ctr.key))
  BY DEF P
<1> QED  BY <1>1, <1>2, <1>4, <1>5, <1>6, <1>7, <1>8

\* What those who may still add can add at most.
LEMMA PendingShare ==
  ASSUME NEW ctr \in Counters
  PROVE  /\ Weight(ctr.metric) * Cardinality(Pending(ctr)) \in Nat
         /\ Weight(ctr.metric) * Cardinality(Pending(ctr))
              <= Weight(ctr.metric) * Cardinality(WorkersOf(ctr.key))
<1>1. Weight(ctr.metric) \in Nat
  BY RateAssumption DEF Weight
<1> QED  BY <1>1, PendingFinite, Products

\* A counter that is below its limit is within its quota, whoever may add.
LEMMA BelowLimit ==
  ASSUME NEW ctr \in Counters, NEW count \in Nat, NEW n \in Nat,
         NEW T \in SUBSET WorkersOf(ctr.key), count <= LimitsOf[ctr.key][ctr.metric] - 1
  PROVE  /\ count + Weight(ctr.metric) * Cardinality(T) <= Slack(ctr, n + 1)
         /\ count <= Slack(ctr, n)
<1>1. /\ Cardinality(T) \in Nat /\ Cardinality(WorkersOf(ctr.key)) \in Nat
      /\ Cardinality(T) <= Cardinality(WorkersOf(ctr.key))
  <2>1. IsFiniteSet(WorkersOf(ctr.key))
    BY RateAssumption, FS_Subset DEF WorkersOf
  <2> QED  BY <2>1, FS_Subset, FS_CardinalityType
<1> DEFINE share == Weight(ctr.metric) * Cardinality(T)
           most == Weight(ctr.metric) * Cardinality(WorkersOf(ctr.key))
<1>2. share \in Nat /\ share <= most /\ most \in Nat
  BY <1>1, Products, SlackLaws
<1>3. /\ Slack(ctr, n) \in Int
      /\ Slack(ctr, n) >= LimitsOf[ctr.key][ctr.metric] - 1
      /\ Slack(ctr, n + 1) = Slack(ctr, n) + most
      /\ LimitsOf[ctr.key][ctr.metric] \in Nat
  BY SlackLaws
<1>4. count + share <= Slack(ctr, n + 1) /\ count <= Slack(ctr, n)
  <2> HIDE DEF share, most
  <2> QED  BY <1>2, <1>3
<1> QED  BY <1>4

LEMMA FreshQuota ==
  ASSUME RateTypeOK', NEW ctr \in Counters, Count(ctr)' <= LimitsOf[ctr.key][ctr.metric] - 1
  PROVE  WithinQuota(ctr)'
<1>1. outages' \in Nat /\ Count(ctr)' \in Nat
  BY DEF RateTypeOK, Count
<1>2. Pending(ctr)' \in SUBSET WorkersOf(ctr.key)
  BY DEF Pending, Pends, WorkersOf
<1>3. Slack(ctr, outages)' = Slack(ctr, outages') /\ Slack(ctr, outages + 1)' = Slack(ctr, outages' + 1)
  BY DEF Slack
<1>4. /\ Count(ctr)' + Weight(ctr.metric) * Cardinality(Pending(ctr)') <= Slack(ctr, outages' + 1)
      /\ Count(ctr)' <= Slack(ctr, outages')
  BY <1>1, <1>2, BelowLimit
<1> QED  BY <1>3, <1>4 DEF WithinQuota

\* A step in which the counter does not grow and nobody else may add.
LEMMA QuietQuota ==
  ASSUME NEW ctr \in Counters, WithinQuota(ctr), RateTypeOK, RateTypeOK',
         Count(ctr)' <= Count(ctr), UNCHANGED <<rateUp, outages>>,
         rateUp => Pending(ctr)' \subseteq Pending(ctr)
  PROVE  WithinQuota(ctr)'
<1>1. outages \in Nat /\ Count(ctr) \in Nat /\ Count(ctr)' \in Nat
  BY CountTypes DEF RateTypeOK, Count
<1>2. Slack(ctr, outages)' = Slack(ctr, outages) /\ Slack(ctr, outages + 1)' = Slack(ctr, outages + 1)
  BY DEF Slack
<1>3. CASE ~rateUp
  BY <1>1, <1>2, <1>3, SlackLaws DEF WithinQuota
<1>4. CASE rateUp
  <2>1. /\ Cardinality(Pending(ctr)') \in Nat /\ Cardinality(Pending(ctr)) \in Nat
        /\ Cardinality(Pending(ctr)') <= Cardinality(Pending(ctr))
    BY <1>4, PendingFinite, FS_Subset, FS_CardinalityType
  <2> DEFINE share == Weight(ctr.metric) * Cardinality(Pending(ctr))
             after == Weight(ctr.metric) * Cardinality(Pending(ctr)')
  <2>2. share \in Nat /\ after \in Nat /\ after <= share
    BY <2>1, Products, SlackLaws, <1>1
  <2>3. Count(ctr) + share <= Slack(ctr, outages + 1)
    BY <1>4 DEF WithinQuota
  <2>4. Slack(ctr, outages + 1) \in Int
    BY <1>1, SlackLaws
  <2>5. Count(ctr)' + after <= Slack(ctr, outages + 1)
    <3> HIDE DEF share, after
    <3> QED  BY <1>1, <2>2, <2>3, <2>4
  <2> QED  BY <1>2, <1>4, <2>5 DEF WithinQuota
<1> QED  BY <1>3, <1>4

\* A worker that may add does, once.
LEMMA AddQuota ==
  ASSUME NEW ctr \in Counters, WithinQuota(ctr), RateTypeOK, RateTypeOK', rateUp,
         Count(ctr)' <= Count(ctr) + Weight(ctr.metric), UNCHANGED <<rateUp, outages>>,
         NEW w \in Pending(ctr), Pending(ctr)' \subseteq Pending(ctr) \ {w}
  PROVE  WithinQuota(ctr)'
<1>1. outages \in Nat /\ Count(ctr) \in Nat /\ Count(ctr)' \in Nat
  BY CountTypes DEF RateTypeOK, Count
<1>2. Slack(ctr, outages + 1)' = Slack(ctr, outages + 1)
  BY DEF Slack
<1>3. /\ Cardinality(Pending(ctr)') \in Nat /\ Cardinality(Pending(ctr)) \in Nat
      /\ Cardinality(Pending(ctr)') + 1 <= Cardinality(Pending(ctr))
  <2>1. IsFiniteSet(Pending(ctr)) /\ Cardinality(Pending(ctr)) \in Nat
    BY PendingFinite
  <2>2. IsFiniteSet(Pending(ctr) \ {w}) /\ Cardinality(Pending(ctr) \ {w}) = Cardinality(Pending(ctr)) - 1
    BY <2>1, FS_RemoveElement
  <2> QED  BY <2>1, <2>2, FS_Subset, FS_CardinalityType
<1> DEFINE share == Weight(ctr.metric) * Cardinality(Pending(ctr))
           after == Weight(ctr.metric) * Cardinality(Pending(ctr)')
<1>4. share \in Nat /\ after \in Nat /\ after + Weight(ctr.metric) <= share /\ Weight(ctr.metric) \in Nat
  <2>1. Weight(ctr.metric) \in Nat
    BY SlackLaws, <1>1
  <2>2. Weight(ctr.metric) * (Cardinality(Pending(ctr)') + 1) = after + Weight(ctr.metric)
    BY <1>3, <2>1
  <2>3. /\ Weight(ctr.metric) * (Cardinality(Pending(ctr)') + 1) <= share
        /\ share \in Nat /\ after \in Nat
    BY <1>3, <2>1, Products
  <2> QED  BY <2>1, <2>2, <2>3
<1>5. Count(ctr) + share <= Slack(ctr, outages + 1)
  BY DEF WithinQuota
<1>6. Slack(ctr, outages + 1) \in Int
  BY <1>1, SlackLaws
<1>7. Count(ctr)' + after <= Slack(ctr, outages + 1)
  <2> HIDE DEF share, after
  <2> QED  BY <1>1, <1>4, <1>5, <1>6
<1> QED  BY <1>2, <1>7 DEF WithinQuota

\* Only the worker that moves can begin to threaten a counter.
LEMMA PendingMove ==
  ASSUME NEW w \in Workers, UNCHANGED minute,
         \A v \in Workers \ {w} : stage'[v] = stage[v] /\ at'[v] = at[v],
         NEW ctr \in Counters
  PROVE  /\ (Pends(w, ctr)' => Pends(w, ctr)) => Pending(ctr)' \subseteq Pending(ctr)
         /\ ~Pends(w, ctr)' => Pending(ctr)' \subseteq Pending(ctr) \ {w}
<1>1. Running(ctr)' <=> Running(ctr)
  BY DEF Running, WindowOf, Day
<1>2. \A v \in Workers \ {w} : Pends(v, ctr)' <=> Pends(v, ctr)
  BY <1>1 DEF Pends, WindowOf, Day
<1> QED  BY <1>2 DEF Pending

\* While the counters can be read, a check sees what is counted.
LEMMA CheckSees ==
  ASSUME MemoryUnused, NEW ctr \in Counters, RateTypeOK, rateUp \/ ~UseRedis
  PROVE  getCount(ctr) = Count(ctr)
BY DEF MemoryUnused, getCount, Count, RateTypeOK

LEMMA QuotaInit == RateInit => StoreInv /\ QuotaInv
<1> SUFFICES ASSUME RateInit PROVE QuotaInv
  BY DEF QuotaInv
<1>1. RateTypeOK /\ OutageCounted
  BY RateTypeInit DEF RateInit, OutageCounted
<1>2. \A ctr \in Counters : Count(ctr) = 0 /\ memory[ctr] = 0
  BY DEF RateInit, Count
<1>3. AtPast
  BY RateAssumption DEF RateInit, AtPast, Windows
<1>4. \A ctr \in Counters : WithinQuota(ctr)
  <2> SUFFICES ASSUME NEW ctr \in Counters PROVE WithinQuota(ctr)
    OBVIOUS
  <2>1. Count(ctr) <= LimitsOf[ctr.key][ctr.metric] - 1 /\ Count(ctr) \in Nat /\ outages \in Nat
    BY <1>1, <1>2, CounterFields, RateAssumption DEF RateTypeOK
  <2>2. Pending(ctr) \in SUBSET WorkersOf(ctr.key)
    BY DEF Pending, Pends, WorkersOf
  <2> QED  BY <2>1, <2>2, BelowLimit DEF WithinQuota
<1> QED  BY <1>1, <1>2, <1>3, <1>4 DEF QuotaInv, StoreInv, MemoryUnused, FutureEmpty

LEMMA StoreNext ==
  ASSUME StoreInv, NEW limits, (\E w \in Workers : Works(w, limits)) \/ Environment
  PROVE  StoreInv'
<1> USE DEF StoreInv
<1>0. RateTypeOK /\ RateTypeOK'
  BY MoveTypes
<1>1. \A ctr \in Counters : /\ WindowOf(ctr.metric, minute)' = WindowOf(ctr.metric, minute')
                             /\ WindowOf(ctr.metric, minute) \in Windows
                             /\ ctr.window \in Windows
  BY <1>0, WindowLaws, CounterFields DEF RateTypeOK, WindowOf, Day
<1>2. MemoryUnused'
  <2>1. ASSUME NEW w \in Workers, CountNext(w), UseRedis PROVE UNCHANGED memory
    BY <2>1, <1>0, CountMoves DEF increment
  <2>2. ASSUME UseRedis PROVE UNCHANGED memory \/ memory' = [ctr \in Counters |-> 0]
    BY <2>1, <2>2 DEF Works, Environment, BeginCheck, CheckCounter, BeginCount, EndUncounted,
       ExpireCounter, Tick, RateCrash, RateRedisDown, RateRedisBack, rateVars, storeVars
  <2> QED  BY <2>2 DEF MemoryUnused
<1>3. FutureEmpty'
  <2>1. ASSUME NEW ctr \in Counters, Count(ctr)' <= Count(ctr), minute' >= minute,
               ctr.window > WindowOf(ctr.metric, minute)'
        PROVE  Count(ctr)' = 0
    <3>1. WindowOf(ctr.metric, minute) <= WindowOf(ctr.metric, minute')
      BY <1>0, <2>1, CounterFields, WindowLaws DEF RateTypeOK
    <3>2. WindowOf(ctr.metric, minute') \in Windows
      BY <1>0, CounterFields, WindowLaws DEF RateTypeOK
    <3>3. ctr.window > WindowOf(ctr.metric, minute)
      BY <1>1, <2>1, <3>1, <3>2 DEF Windows
    <3>4. Count(ctr) = 0 /\ Count(ctr)' \in Nat
      BY <1>0, <3>3, CountTypes DEF FutureEmpty, RateTypeOK, Count
    <3> QED  BY <2>1, <3>4
  <2>2. ASSUME NEW w \in Workers, CountNext(w) PROVE FutureEmpty'
    <3>1. /\ CounterAt(w) \in Counters
          /\ \A ctr \in Counters \ {CounterAt(w)} : Count(ctr)' = Count(ctr)
          /\ UNCHANGED minute
      BY <1>0, <2>2, CountMoves, CounterAtTypes DEF increment, Count, RateTypeOK
    <3>2. CounterAt(w).window <= WindowOf(CounterAt(w).metric, minute)
      <4>1. at[w] \in Windows /\ minute \in Windows /\ at[w] <= minute
        BY <1>0 DEF RateTypeOK, AtPast
      <4> QED  BY <1>0, <2>2, <4>1, CountMoves, CounterAtTypes, WindowLaws, OrderLaws
    <3>3. ~(CounterAt(w).window > WindowOf(CounterAt(w).metric, minute))
      BY <1>1, <3>1, <3>2 DEF Windows
    <3> QED  BY <1>1, <3>1, <3>3 DEF FutureEmpty
  <2>3. CASE \E w \in Workers : /\ Works(w, limits)
                                /\ ~CountNext(w)
    <3>1. UNCHANGED <<minute, redis, memory>>
      BY <2>3 DEF Works, BeginCheck, CheckCounter, BeginCount, EndUncounted, storeVars
    <3> QED  BY <3>1 DEF FutureEmpty, Count, WindowOf, Day
  <2>4. CASE \/ \E ctr \in Counters : ExpireCounter(ctr)
             \/ Tick \/ RateCrash \/ RateRedisDown \/ RateRedisBack \/ UNCHANGED rateVars
    <3>1. minute' >= minute
      BY <1>0, <2>4 DEF RateTypeOK, Windows, ExpireCounter, Tick, RateCrash, RateRedisDown,
                        RateRedisBack, rateVars
    <3>2. \A ctr \in Counters : Count(ctr)' <= Count(ctr)
      BY <1>0, <2>4 DEF RateTypeOK, Count, ExpireCounter, Tick, RateCrash, RateRedisDown,
                        RateRedisBack, rateVars, storeVars
    <3> QED  BY <2>1, <3>1, <3>2 DEF FutureEmpty
  <2> QED  BY <2>2, <2>3, <2>4 DEF Environment
<1>4. AtPast'
  <2>1. \A w \in Workers : at[w] \in Windows /\ minute \in Windows /\ at[w] <= minute
    BY <1>0 DEF RateTypeOK, AtPast
  <2>2. ASSUME NEW w \in Workers, Works(w, limits) PROVE AtPast'
    <3>1. /\ UNCHANGED minute
          /\ \/ at' = at
             \/ at' = [at EXCEPT ![w] = 0]
             \/ at' = [at EXCEPT ![w] = minute]
      <4>1. CASE BeginCheck(w) \/ EndUncounted(w) \/ \E n \in TokenCounts : BeginCount(w, n)
        BY <4>1 DEF BeginCheck, EndUncounted, BeginCount
      <4>2. CASE CheckCounter(w, limits)
        BY <1>0, <4>2, CheckMoves
      <4>3. CASE CountNext(w)
        BY <1>0, <4>3, CountMoves
      <4> QED  BY <2>2, <4>1, <4>2, <4>3 DEF Works
    <3>2. \A v \in Workers : at'[v] \in {at[v], 0, minute}
      BY <1>0, <3>1 DEF RateTypeOK
    <3> QED  BY <2>1, <3>1, <3>2 DEF AtPast, Windows
  <2>3. CASE Tick
    BY <2>1, <2>3 DEF AtPast, Tick, workerVars, Windows
  <2>4. CASE RateCrash
    BY <2>1, <2>4 DEF AtPast, RateCrash, Windows
  <2>5. CASE \/ \E ctr \in Counters : ExpireCounter(ctr)
             \/ RateRedisDown \/ RateRedisBack \/ UNCHANGED rateVars
    BY <2>1, <2>5 DEF AtPast, ExpireCounter, RateRedisDown, RateRedisBack, rateVars, workerVars
  <2> QED  BY <2>2, <2>3, <2>4, <2>5 DEF Environment
<1>5. OutageCounted'
  <2>1. CASE RateRedisDown
    BY <1>0, <2>1 DEF OutageCounted, RateRedisDown, RateTypeOK
  <2>2. CASE RateRedisBack
    BY <2>2 DEF OutageCounted, RateRedisBack
  <2>3. CASE UNCHANGED <<rateUp, outages>>
    BY <2>3 DEF OutageCounted
  <2> QED
    BY <2>1, <2>2, <2>3
    DEF Works, Environment, BeginCheck, CheckCounter, BeginCount, CountNext, EndUncounted,
        ExpireCounter, Tick, RateCrash, rateVars
<1> QED  BY <1>0, <1>2, <1>3, <1>4, <1>5

\* Each worker's step keeps every counter within its quota.
LEMMA QuotaWorker ==
  ASSUME QuotaInv, RateTypeOK', OutageCounted', NEW w \in Workers, WorkerNext(w), NEW ctr \in Counters
  PROVE  WithinQuota(ctr)'
<1> USE DEF QuotaInv, StoreInv
<1>0. /\ at[w] \in Windows /\ minute \in Windows /\ at[w] <= minute
      /\ stage \in [Workers -> Stages] /\ at \in [Workers -> Windows]
      /\ Count(ctr) \in Nat /\ outages \in Nat
  BY CountTypes DEF RateTypeOK, AtPast
<1>1. ctr.metric \in Metrics /\ ctr.key \in Keys /\ ctr.window \in Windows /\ Place[ctr.metric] \in Steps
  BY CounterFields, OrderLaws
<1>2. UNCHANGED minute => (Running(ctr)' <=> Running(ctr))
  BY DEF Running, WindowOf, Day
<1>3. CASE BeginCheck(w)
  <2>1. /\ UNCHANGED <<minute, redis, memory, rateUp, outages>>
        /\ stage' = [stage EXCEPT ![w] = [doing |-> "checking", next |-> 1]]
        /\ at' = [at EXCEPT ![w] = minute]
    BY <1>3 DEF BeginCheck, storeVars
  <2>2. /\ stage'[w].doing = "checking" /\ stage'[w].next = 1 /\ at'[w] = minute
        /\ \A v \in Workers \ {w} : stage'[v] = stage[v] /\ at'[v] = at[v]
    BY <1>0, <2>1
  <2>3. ~Pends(w, ctr)'
    BY <1>1, <2>1, <2>2 DEF Pends, Running, WindowOf, Day, Steps, Windows
  <2>4. Pending(ctr)' \subseteq Pending(ctr)
    BY <2>1, <2>2, <2>3, PendingMove
  <2>5. Count(ctr)' <= Count(ctr)
    BY <1>0, <2>1 DEF Count
  <2> QED  BY <2>1, <2>4, <2>5, QuietQuota
<1>4. CASE CheckCounter(w, LimitsOf[KeyOf[w]])
  <2>1. /\ stage[w].doing = "checking" /\ stage[w].next \in Steps
        /\ UNCHANGED <<minute, redis, memory, rateUp, outages>>
        /\ \A v \in Workers \ {w} : stage'[v] = stage[v] /\ at'[v] = at[v]
        /\ Count(ctr)' = Count(ctr)
    BY <1>0, <1>4, CheckMoves DEF storeVars, Count
  <2>2. CASE Pends(w, ctr)' => Pends(w, ctr)
    <3>1. Pending(ctr)' \subseteq Pending(ctr)
      BY <2>1, <2>2, PendingMove
    <3> QED  BY <1>0, <2>1, <3>1, QuietQuota
  <2>3. CASE Pends(w, ctr)' /\ ~Pends(w, ctr)
    <3>1. /\ KeyOf[w] = ctr.key /\ Running(ctr)
          /\ stage[w].next = Place[ctr.metric]
          /\ ~(WindowOf(ctr.metric, at[w]) < ctr.window)
          /\ ~Exceeded(getCount(CounterAt(w)), LimitsOf[KeyOf[w]][Order[stage[w].next]])
      <4>1. CASE /\ stage' = [stage EXCEPT ![w] = [doing |-> "checking", next |-> stage[w].next + 1]]
                 /\ ~Exceeded(getCount(CounterAt(w)), LimitsOf[KeyOf[w]][Order[stage[w].next]])
                 /\ at' = at
        <5>1. stage'[w].doing = "checking" /\ stage'[w].next = stage[w].next + 1 /\ at'[w] = at[w]
          BY <1>0, <4>1
        <5>2. /\ KeyOf[w] = ctr.key /\ Running(ctr)
              /\ stage[w].next + 1 > Place[ctr.metric] \/ WindowOf(ctr.metric, at[w]) < ctr.window
          BY <1>2, <2>1, <2>3, <5>1 DEF Pends, WindowOf, Day
        <5>3. ~(stage[w].next > Place[ctr.metric]) /\ ~(WindowOf(ctr.metric, at[w]) < ctr.window)
          BY <2>1, <2>3, <5>2 DEF Pends
        <5> QED  BY <1>1, <2>1, <4>1, <5>2, <5>3 DEF Steps
      <4>2. CASE /\ stage' = [stage EXCEPT ![w] = Passed]
                 /\ stage[w].next = 4
                 /\ ~Exceeded(getCount(CounterAt(w)), LimitsOf[KeyOf[w]][Order[stage[w].next]])
        <5>1. stage'[w].doing = "passed"
          BY <1>0, <4>2 DEF Passed
        <5>2. KeyOf[w] = ctr.key /\ Running(ctr)
          BY <1>2, <2>1, <2>3, <5>1 DEF Pends
        <5>3. ~(stage[w].next > Place[ctr.metric]) /\ ~(WindowOf(ctr.metric, at[w]) < ctr.window)
          BY <2>1, <2>3, <5>2 DEF Pends
        <5> QED  BY <1>1, <4>2, <5>2, <5>3 DEF Steps
      <4>3. CASE stage' = [stage EXCEPT ![w] = Idle]
        <5>1. stage'[w].doing = "idle"
          BY <1>0, <4>3 DEF Idle
        <5> QED  BY <2>3, <5>1 DEF Pends
      <4> QED  BY <1>4, <4>1, <4>2, <4>3, CheckMoves
    <3>2. ctr.window = WindowOf(ctr.metric, at[w])
      <4>1. WindowOf(ctr.metric, at[w]) \in Windows /\ WindowOf(ctr.metric, at[w]) <= WindowOf(ctr.metric, minute)
        BY <1>0, <1>1, WindowLaws
      <4> QED  BY <1>1, <3>1, <4>1 DEF Running, Windows
    <3>3. ctr = CounterAt(w)
      <4>1. Order[stage[w].next] = ctr.metric
        BY <1>1, <3>1, OrderLaws
      <4>2. CounterAt(w) = [metric |-> ctr.metric, key |-> ctr.key, window |-> ctr.window]
        BY <3>1, <3>2, <4>1 DEF CounterAt, CounterKey
      <4> QED  BY <4>2 DEF Counters
    <3>4. CASE rateUp
      <4>1. Count(ctr) < LimitsOf[ctr.key][ctr.metric]
        <5>1. getCount(ctr) = Count(ctr) /\ LimitsOf[ctr.key][ctr.metric] \in Nat
          BY <1>1, <3>4, CheckSees, RateAssumption
        <5>2. Order[stage[w].next] = ctr.metric
          BY <1>1, <3>1, OrderLaws
        <5> QED  BY <1>0, <3>1, <3>3, <5>1, <5>2 DEF Exceeded
      <4>2. Count(ctr)' <= LimitsOf[ctr.key][ctr.metric] - 1
        BY <1>0, <1>1, <2>1, <4>1, RateAssumption
      <4> QED  BY <4>2, FreshQuota
    <3>5. CASE ~rateUp
      BY <1>0, <2>1, <3>5, QuietQuota
    <3> QED  BY <3>4, <3>5
  <2> QED  BY <2>2, <2>3
<1>5. ASSUME NEW n \in TokenCounts, BeginCount(w, n) PROVE WithinQuota(ctr)'
  <2>1. /\ UNCHANGED <<minute, redis, memory, rateUp, outages>>
        /\ stage[w] = Passed
        /\ stage' = [stage EXCEPT ![w] = [doing |-> "counting", next |-> 1]]
        /\ at' = [at EXCEPT ![w] = minute]
    BY <1>5 DEF BeginCount, storeVars
  <2>2. /\ stage'[w].doing = "counting" /\ stage'[w].next = 1 /\ at'[w] = minute
        /\ stage[w].doing = "passed"
        /\ \A v \in Workers \ {w} : stage'[v] = stage[v] /\ at'[v] = at[v]
    BY <1>0, <2>1 DEF Passed
  <2>3. Pends(w, ctr)' => Pends(w, ctr)
    BY <1>1, <2>1, <2>2 DEF Pends, Running, WindowOf, Day
  <2>4. Pending(ctr)' \subseteq Pending(ctr)
    BY <2>1, <2>2, <2>3, PendingMove
  <2>5. Count(ctr)' <= Count(ctr)
    BY <1>0, <2>1 DEF Count
  <2> QED  BY <2>1, <2>4, <2>5, QuietQuota
<1>6. CASE CountNext(w)
  <2>1. /\ stage[w].doing = "counting" /\ stage[w].next \in Steps
        /\ UNCHANGED <<minute, rateUp, outages>>
        /\ increment(CounterAt(w), Amount(w, Order[stage[w].next]))
        /\ \A v \in Workers \ {w} : stage'[v] = stage[v] /\ at'[v] = at[v]
    BY <1>0, <1>6, CountMoves
  <2>2. \/ stage'[w].doing = "counting" /\ stage'[w].next = stage[w].next + 1 /\ at'[w] = at[w]
        \/ stage'[w].doing = "idle"
    BY <1>0, <1>6, CountMoves DEF Idle
  <2>3. Pends(w, ctr)' => Pends(w, ctr)
    BY <1>1, <2>1, <2>2 DEF Pends, WindowOf, Day, Steps
  <2>4. /\ CounterAt(w) \in Counters
        /\ CounterAt(w).metric = Order[stage[w].next] /\ CounterAt(w).key = KeyOf[w]
        /\ CounterAt(w).window = WindowOf(Order[stage[w].next], at[w])
        /\ Order[stage[w].next] \in Metrics /\ Place[Order[stage[w].next]] = stage[w].next
    BY <2>1, CounterAtTypes, OrderLaws
  <2>5. CASE Count(ctr)' = Count(ctr)
    <3>1. Pending(ctr)' \subseteq Pending(ctr)
      BY <2>1, <2>3, PendingMove
    <3> QED  BY <1>0, <2>1, <2>5, <3>1, QuietQuota
  <2>6. CASE Count(ctr)' # Count(ctr)
    <3>1. /\ ctr = CounterAt(w) /\ (UseRedis => rateUp)
          /\ Count(ctr)' = Count(ctr) + Amount(w, Order[stage[w].next])
      BY <2>1, <2>4, <2>6 DEF increment, Count, RateTypeOK
    <3>2. rateUp
      BY <3>1 DEF OutageCounted
    <3>3. w \in Pending(ctr) /\ ~Pends(w, ctr)'
      <4>1. Pends(w, ctr)
        BY <2>1, <2>4, <3>1 DEF Pends, Steps
      <4>2. ~Pends(w, ctr)'
        BY <2>1, <2>2, <2>4, <3>1 DEF Pends, Steps
      <4> QED  BY <4>1, <4>2 DEF Pending
    <3>4. Pending(ctr)' \subseteq Pending(ctr) \ {w}
      BY <2>1, <3>3, PendingMove
    <3>5. Count(ctr)' <= Count(ctr) + Weight(ctr.metric)
      BY <1>0, <2>4, <3>1, AmountTypes
    <3> QED  BY <2>1, <3>2, <3>3, <3>4, <3>5, AddQuota
  <2> QED  BY <2>5, <2>6
<1>7. CASE EndUncounted(w)
  <2>1. /\ UNCHANGED <<minute, redis, memory, rateUp, outages, at>>
        /\ stage' = [stage EXCEPT ![w] = Idle]
    BY <1>7 DEF EndUncounted, storeVars
  <2>2. /\ stage'[w].doing = "idle"
        /\ \A v \in Workers \ {w} : stage'[v] = stage[v] /\ at'[v] = at[v]
    BY <1>0, <2>1 DEF Idle
  <2>3. ~Pends(w, ctr)'
    BY <2>2 DEF Pends
  <2>4. Pending(ctr)' \subseteq Pending(ctr)
    BY <2>1, <2>2, <2>3, PendingMove
  <2>5. Count(ctr)' <= Count(ctr)
    BY <1>0, <2>1 DEF Count
  <2> QED  BY <2>1, <2>4, <2>5, QuietQuota
<1> QED  BY <1>3, <1>4, <1>5, <1>6, <1>7 DEF WorkerNext

\* So does everything around the workers.
LEMMA QuotaEnvironment ==
  ASSUME QuotaInv, RateTypeOK', OutageCounted', NEW ctr \in Counters,
         \/ \E c \in Counters : ExpireCounter(c)
         \/ Tick \/ RateCrash \/ RateRedisDown \/ RateRedisBack \/ UNCHANGED rateVars
  PROVE  WithinQuota(ctr)'
<1> USE DEF QuotaInv, StoreInv
<1>0. /\ minute \in Windows /\ Count(ctr) \in Nat /\ Count(ctr)' \in Nat /\ outages \in Nat
      /\ ctr.metric \in Metrics /\ ctr.window \in Windows
  BY CountTypes, CounterFields DEF RateTypeOK, Count
<1>1. ASSUME NEW c \in Counters, ExpireCounter(c) PROVE WithinQuota(ctr)'
  <2>1. UNCHANGED <<minute, stage, at, rateUp, outages>>
    BY <1>1 DEF ExpireCounter, workerVars
  <2>2. Count(ctr)' <= Count(ctr)
    BY <1>0, <1>1 DEF ExpireCounter, Count, RateTypeOK
  <2>3. Pending(ctr)' = Pending(ctr)
    BY <2>1 DEF Pending, Pends, Running, WindowOf, Day
  <2> QED  BY <2>1, <2>2, <2>3, QuietQuota
<1>2. CASE Tick
  <2>1. UNCHANGED <<redis, memory, stage, at, rateUp, outages>> /\ minute' = minute + 1 /\ minute' \in Windows
    BY <1>2 DEF Tick, storeVars, workerVars, RateTypeOK
  <2>2. Count(ctr)' = Count(ctr)
    BY <2>1 DEF Count
  <2>3. /\ WindowOf(ctr.metric, minute) \in Windows /\ WindowOf(ctr.metric, minute') \in Windows
        /\ WindowOf(ctr.metric, minute) <= WindowOf(ctr.metric, minute')
    BY <1>0, <2>1, WindowLaws DEF Windows
  <2>4. CASE ctr.window > WindowOf(ctr.metric, minute)
    <3>1. Count(ctr)' = 0
      BY <2>2, <2>4 DEF FutureEmpty
    <3>2. LimitsOf[ctr.key][ctr.metric] \in Nat \ {0}
      BY CounterFields, RateAssumption
    <3>3. Count(ctr)' <= LimitsOf[ctr.key][ctr.metric] - 1
      BY <3>1, <3>2
    <3> QED  BY <3>3, FreshQuota
  <2>5. CASE ~(ctr.window > WindowOf(ctr.metric, minute))
    <3>1. Running(ctr)' => Running(ctr)
      <4>1. WindowOf(ctr.metric, minute)' = WindowOf(ctr.metric, minute')
        BY DEF WindowOf, Day
      <4> QED  BY <1>0, <2>3, <2>5, <4>1 DEF Running, Windows
    <3>2. Pending(ctr)' \subseteq Pending(ctr)
      BY <2>1, <3>1 DEF Pending, Pends, WindowOf, Day
    <3> QED  BY <1>0, <2>1, <2>2, <3>2, QuietQuota
  <2> QED  BY <2>4, <2>5
<1>3. CASE RateCrash
  <2>1. UNCHANGED <<rateUp, outages, redis>> /\ \A w \in Workers : stage'[w].doing = "idle"
    BY <1>3 DEF RateCrash, Idle
  <2>2. Pending(ctr)' \subseteq Pending(ctr)
    BY <2>1 DEF Pending, Pends
  <2>3. Count(ctr)' <= Count(ctr)
    BY <1>0, <1>3 DEF RateCrash, Count
  <2> QED  BY <2>1, <2>2, <2>3, QuietQuota
<1>4. CASE RateRedisDown
  <2>1. /\ rateUp /\ ~rateUp' /\ outages' = outages + 1 /\ Count(ctr)' = Count(ctr)
    BY <1>4 DEF RateRedisDown, storeVars, Count
  <2>2. Count(ctr) <= Slack(ctr, outages + 1)
    <3>1. Weight(ctr.metric) * Cardinality(Pending(ctr)) \in Nat
      BY PendingShare
    <3>2. Slack(ctr, outages + 1) \in Int
      BY <1>0, SlackLaws
    <3>3. Count(ctr) + Weight(ctr.metric) * Cardinality(Pending(ctr)) <= Slack(ctr, outages + 1)
      BY <2>1 DEF WithinQuota
    <3> DEFINE share == Weight(ctr.metric) * Cardinality(Pending(ctr))
    <3> HIDE DEF share
    <3>4. share \in Nat /\ Count(ctr) + share <= Slack(ctr, outages + 1)
      BY <3>1, <3>3 DEF share
    <3> QED  BY <1>0, <3>2, <3>4
  <2>3. Slack(ctr, outages)' = Slack(ctr, outages + 1)
    BY <2>1 DEF Slack
  <2> QED  BY <2>1, <2>2, <2>3 DEF WithinQuota
<1>5. CASE RateRedisBack
  <2>1. /\ ~rateUp /\ rateUp' /\ UNCHANGED <<outages, stage, at, minute>> /\ Count(ctr)' = Count(ctr)
    BY <1>5 DEF RateRedisBack, storeVars, workerVars, Count
  <2>2. Pending(ctr)' = Pending(ctr) /\ Slack(ctr, outages + 1)' = Slack(ctr, outages + 1)
    BY <2>1 DEF Pending, Pends, Running, WindowOf, Day, Slack
  <2> DEFINE share == Weight(ctr.metric) * Cardinality(Pending(ctr))
             most == Weight(ctr.metric) * Cardinality(WorkersOf(ctr.key))
  <2>3. share \in Nat /\ share <= most /\ most \in Nat
    BY <1>0, PendingShare, SlackLaws
  <2>4. /\ Slack(ctr, outages) \in Int
        /\ Slack(ctr, outages + 1) = Slack(ctr, outages) + most
        /\ Count(ctr) <= Slack(ctr, outages)
    BY <1>0, <2>1, SlackLaws DEF WithinQuota
  <2>5. Count(ctr) + share <= Slack(ctr, outages + 1)
    <3> HIDE DEF share, most
    <3> QED  BY <1>0, <2>3, <2>4
  <2> QED  BY <2>1, <2>2, <2>5 DEF WithinQuota
<1>6. CASE UNCHANGED rateVars
  <2>1. UNCHANGED <<minute, stage, at, rateUp, outages, redis, memory>>
    BY <1>6 DEF rateVars, workerVars, storeVars
  <2>2. Pending(ctr)' = Pending(ctr) /\ Count(ctr)' = Count(ctr)
    BY <2>1 DEF Pending, Pends, Running, WindowOf, Day, Count
  <2> QED  BY <1>0, <2>1, <2>2, QuietQuota
<1> QED  BY <1>1, <1>2, <1>3, <1>4, <1>5, <1>6

LEMMA QuotaNext ==
  ASSUME QuotaInv, [RateNext]_rateVars
  PROVE  QuotaInv'
<1>1. StoreInv'
  <2>1. ASSUME NEW w \in Workers, WorkerNext(w) PROVE StoreInv'
    BY <2>1, StoreNext DEF QuotaInv, WorkerNext, Works
  <2>2. CASE Environment
    BY <2>2, StoreNext DEF QuotaInv
  <2> QED  BY <2>1, <2>2 DEF RateNext, Environment
<1>2. ASSUME NEW ctr \in Counters PROVE WithinQuota(ctr)'
  <2>1. ASSUME NEW w \in Workers, WorkerNext(w) PROVE WithinQuota(ctr)'
    BY <1>1, <2>1, QuotaWorker DEF StoreInv
  <2>2. CASE \/ \E c \in Counters : ExpireCounter(c)
             \/ Tick \/ RateCrash \/ RateRedisDown \/ RateRedisBack \/ UNCHANGED rateVars
    BY <1>1, <2>2, QuotaEnvironment DEF StoreInv
  <2> QED  BY <2>1, <2>2 DEF RateNext
<1> QED  BY <1>1, <1>2 DEF QuotaInv

LEMMA QuotaImplies == QuotaInv => OvershootBounded
<1> SUFFICES ASSUME QuotaInv, NEW ctr \in Counters
             PROVE  Count(ctr) <= Slack(ctr, 1 + outages)
  BY DEF OvershootBounded, Slack
<1>1. Count(ctr) \in Nat /\ outages \in Nat /\ 1 + outages = outages + 1 /\ WithinQuota(ctr)
  BY CountTypes DEF QuotaInv, StoreInv, RateTypeOK
<1> DEFINE share == Weight(ctr.metric) * Cardinality(Pending(ctr))
           most == Weight(ctr.metric) * Cardinality(WorkersOf(ctr.key))
<1>2. share \in Nat /\ most \in Nat
  BY <1>1, PendingShare, SlackLaws
<1>3. /\ Slack(ctr, outages) \in Int
      /\ Slack(ctr, outages + 1) = Slack(ctr, outages) + most
  BY <1>1, SlackLaws
<1>4. Count(ctr) + share <= Slack(ctr, outages + 1) \/ Count(ctr) <= Slack(ctr, outages)
  BY <1>1 DEF WithinQuota
<1> HIDE DEF share, most
<1> QED  BY <1>1, <1>2, <1>3, <1>4

\* However checks and counts interleave with the clock, with each other and with
\* crashes and outages, a counter passes its limit by no more than one answer
\* per worker, and as much again for each outage.
THEOREM QuotaOvershootBounded == RateSpec => []OvershootBounded
BY QuotaInit, QuotaNext, QuotaImplies, PTL DEF RateSpec

-----------------------------------------------------------------------------
(* The request counter of the running minute.                              *)

MinuteCounter(k, t) == CounterKey("rpm", k, t)

\* Workers that have taken the running minute and not yet counted in it.
Beginning(k) ==
  {w \in WorkersOf(k) : stage[w] = [doing |-> "counting", next |-> 1] /\ at[w] = minute}

NotYetAnswered == \A k \in Keys, t \in Windows : t > minute => answered[k][t] = 0

\* A counter that is in Redis stays there for longer than its minute.
Outlasts ==
  \A k \in Keys, t \in Windows :
    redis[MinuteCounter(k, t)] # 0 => expiresAt[MinuteCounter(k, t)] > t

ExactNow ==
  outages + crashes = 0 =>
    \A k \in Keys :
      Count(MinuteCounter(k, minute)) + Cardinality(Beginning(k)) = answered[k][minute]

ExactInv == StoreInv /\ NotYetAnswered /\ Outlasts /\ ExactNow

LEMMA MinuteCounters ==
  ASSUME NEW k \in Keys, NEW t \in Windows
  PROVE  /\ MinuteCounter(k, t) \in Counters
         /\ MinuteCounter(k, t).metric = "rpm"
         /\ MinuteCounter(k, t).key = k
         /\ MinuteCounter(k, t).window = t
         /\ MinuteCounter(k, t) = [metric |-> "rpm", key |-> k, window |-> t]
BY CounterKeyTypes DEF MinuteCounter, Metrics, WindowOf, CounterKey

\* A worker at its first counter is at that of its minute.
LEMMA FirstCounter ==
  ASSUME RateTypeOK, NEW w \in Workers, stage[w].doing \in {"checking", "counting"},
         NEW k \in Keys, NEW t \in Windows
  PROVE  CounterAt(w) = MinuteCounter(k, t) <=> stage[w].next = 1 /\ KeyOf[w] = k /\ at[w] = t
<1>1. /\ stage[w].next \in Steps /\ at[w] \in Windows
      /\ Order[stage[w].next] = "rpm" <=> stage[w].next = 1
  <2>1. stage[w].next \in Steps /\ at[w] \in Windows
    BY StageUpdate DEF RateTypeOK
  <2> QED  BY <2>1 DEF Order, Steps
<1>2. CounterAt(w) = [metric |-> Order[stage[w].next], key |-> KeyOf[w],
                      window |-> WindowOf(Order[stage[w].next], at[w])]
  BY DEF CounterAt, CounterKey
<1>3. MinuteCounter(k, t) = [metric |-> "rpm", key |-> k, window |-> t]
  BY MinuteCounters
<1>4. WindowOf("rpm", at[w]) = at[w]
  BY DEF WindowOf
<1> QED  BY <1>1, <1>2, <1>3, <1>4

LEMMA BeginningFinite ==
  ASSUME NEW k \in Keys
  PROVE  IsFiniteSet(Beginning(k)) /\ Cardinality(Beginning(k)) \in Nat
<1>1. Beginning(k) \subseteq Workers
  BY DEF Beginning, WorkersOf
<1> QED  BY <1>1, RateAssumption, FS_Subset, FS_CardinalityType

LEMMA ExactInit == RateInit => ExactInv
<1> SUFFICES ASSUME RateInit PROVE ExactInv
  OBVIOUS
<1>1. StoreInv /\ minute \in Windows
  BY QuotaInit DEF StoreInv, RateTypeOK
<1>2. \A k \in Keys, t \in Windows : answered[k][t] = 0 /\ redis[MinuteCounter(k, t)] = 0 /\ memory[MinuteCounter(k, t)] = 0
  BY MinuteCounters DEF RateInit
<1>3. \A k \in Keys : Beginning(k) = {}
  BY DEF RateInit, Beginning, Idle, WorkersOf
<1>4. NotYetAnswered /\ Outlasts
  BY <1>2 DEF NotYetAnswered, Outlasts
<1>5. ASSUME NEW k \in Keys PROVE Count(MinuteCounter(k, minute)) + Cardinality(Beginning(k)) = answered[k][minute]
  <2>1. Count(MinuteCounter(k, minute)) = 0 /\ answered[k][minute] = 0
    BY <1>1, <1>2 DEF Count
  <2>2. Cardinality(Beginning(k)) = 0
    BY <1>3, FS_EmptySet
  <2> QED  BY <2>1, <2>2
<1> QED  BY <1>1, <1>4, <1>5 DEF ExactInv, ExactNow

\* A step that leaves the answers, the counters and the workers that begin.
LEMMA ExactStutter ==
  ASSUME ExactInv, UNCHANGED <<minute, redis, memory, expiresAt, outages, crashes, answered>>,
         \A k \in Keys : Beginning(k)' = Beginning(k)
  PROVE  NotYetAnswered' /\ Outlasts' /\ ExactNow'
BY DEF ExactInv, NotYetAnswered, Outlasts, ExactNow, MinuteCounter, CounterKey, WindowOf, Day, Count

LEMMA BeginningMove ==
  ASSUME NEW w \in Workers, UNCHANGED minute,
         \A v \in Workers \ {w} : stage'[v] = stage[v] /\ at'[v] = at[v], NEW k \in Keys
  PROVE  Beginning(k)' \ {w} = Beginning(k) \ {w}
BY DEF Beginning, WorkersOf

LEMMA ExactWorker ==
  ASSUME ExactInv, StoreInv', NEW w \in Workers, NEW limits, Works(w, limits)
  PROVE  NotYetAnswered' /\ Outlasts' /\ ExactNow'
<1> USE DEF ExactInv, StoreInv
<1>0. /\ at[w] \in Windows /\ minute \in Windows /\ at[w] <= minute /\ KeyOf[w] \in Keys
      /\ stage \in [Workers -> Stages] /\ at \in [Workers -> Windows]
      /\ redis \in [Counters -> Nat] /\ memory \in [Counters -> Nat] /\ expiresAt \in [Counters -> Nat]
      /\ answered \in [Keys -> [Windows -> Nat]]
      /\ outages \in Nat /\ crashes \in Nat
  BY RateAssumption DEF RateTypeOK, AtPast
<1>1. CASE BeginCheck(w) \/ EndUncounted(w) \/ CheckCounter(w, limits)
  <2>1. /\ UNCHANGED <<minute, redis, memory, expiresAt, outages, crashes, answered>>
        /\ stage[w].doing # "counting" /\ stage'[w].doing # "counting"
        /\ \A v \in Workers \ {w} : stage'[v] = stage[v] /\ at'[v] = at[v]
    <3>1. CASE BeginCheck(w) \/ EndUncounted(w)
      BY <1>0, <3>1 DEF BeginCheck, EndUncounted, storeVars, Idle, Passed
    <3>2. CASE CheckCounter(w, limits)
      BY <1>0, <3>2, CheckMoves DEF storeVars, Idle, Passed
    <3> QED  BY <1>1, <3>1, <3>2
  <2>2. \A k \in Keys : Beginning(k)' \ {w} = Beginning(k) \ {w} /\ w \notin Beginning(k) /\ w \notin Beginning(k)'
    BY <2>1, BeginningMove DEF Beginning
  <2>3. \A k \in Keys : Beginning(k)' = Beginning(k)
    BY <2>2
  <2> QED  BY <2>1, <2>3, ExactStutter
<1>2. ASSUME NEW n \in TokenCounts, BeginCount(w, n) PROVE NotYetAnswered' /\ Outlasts' /\ ExactNow'
  <2> DEFINE k == KeyOf[w]
  <2>1. /\ UNCHANGED <<minute, redis, memory, expiresAt, outages, crashes>>
        /\ answered' = [answered EXCEPT ![k][minute] = @ + 1]
        /\ stage[w] = Passed
        /\ stage'[w] = [doing |-> "counting", next |-> 1] /\ at'[w] = minute
        /\ \A v \in Workers \ {w} : stage'[v] = stage[v] /\ at'[v] = at[v]
    BY <1>0, <1>2 DEF BeginCount, storeVars
  <2>2. /\ answered'[k][minute] = answered[k][minute] + 1
        /\ \A j \in Keys \ {k} : answered'[j] = answered[j]
        /\ \A t \in Windows \ {minute} : answered'[k][t] = answered[k][t]
    BY <1>0, <2>1
  <2>3. NotYetAnswered'
    BY <1>0, <2>1, <2>2 DEF NotYetAnswered, Windows
  <2>4. Outlasts'
    BY <2>1 DEF Outlasts, MinuteCounter, CounterKey, WindowOf, Day
  <2>5. /\ Beginning(k)' = Beginning(k) \cup {w} /\ w \notin Beginning(k)
        /\ \A j \in Keys \ {k} : Beginning(j)' = Beginning(j)
    <3>1. \A j \in Keys : Beginning(j)' \ {w} = Beginning(j) \ {w}
      BY <2>1, BeginningMove
    <3>2. /\ \A j \in Keys : w \notin Beginning(j)
          /\ \A j \in Keys : w \in Beginning(j)' <=> j = k
      BY <2>1 DEF Beginning, WorkersOf, Passed
    <3>3. k \in Keys
      BY <1>0
    <3> HIDE DEF k
    <3>4. Beginning(k)' = Beginning(k) \cup {w}
      BY <3>1, <3>2, <3>3
    <3>5. ASSUME NEW j \in Keys \ {k} PROVE Beginning(j)' = Beginning(j)
      BY <3>1, <3>2, <3>5
    <3> QED  BY <3>2, <3>3, <3>4, <3>5
  <2>6. Cardinality(Beginning(k)') = Cardinality(Beginning(k)) + 1 /\ Cardinality(Beginning(k)) \in Nat
    BY <1>0, <2>5, BeginningFinite, FS_AddElement
  <2>7. \A j \in Keys : /\ Count(MinuteCounter(j, minute))' = Count(MinuteCounter(j, minute))
                         /\ Count(MinuteCounter(j, minute)) \in Nat
    BY <1>0, <2>1, MinuteCounters DEF Count, MinuteCounter, CounterKey, WindowOf, Day
  <2> HIDE DEF k
  <2>8. ExactNow'
    <3> SUFFICES ASSUME outages + crashes = 0, NEW j \in Keys
                 PROVE  Count(MinuteCounter(j, minute))' + Cardinality(Beginning(j)') = answered'[j][minute]
      BY <2>1 DEF ExactNow
    <3>1. Count(MinuteCounter(j, minute)) + Cardinality(Beginning(j)) = answered[j][minute]
      BY DEF ExactNow
    <3>2. CASE j = k
      BY <2>2, <2>6, <2>7, <3>1, <3>2
    <3>3. CASE j # k
      BY <2>2, <2>5, <2>7, <3>1, <3>3
    <3> QED  BY <3>2, <3>3
  <2> QED  BY <2>3, <2>4, <2>8
<1>3. CASE CountNext(w)
  <2> DEFINE k == KeyOf[w]
             n == Amount(w, Order[stage[w].next])
  <2>1. /\ stage[w].doing = "counting" /\ stage[w].next \in Steps
        /\ UNCHANGED <<minute, rateUp, outages, crashes, answered>>
        /\ increment(CounterAt(w), n)
        /\ \A v \in Workers \ {w} : stage'[v] = stage[v] /\ at'[v] = at[v]
        /\ CounterAt(w) \in Counters /\ CounterAt(w).metric = Order[stage[w].next]
        /\ n \in Nat
    BY <1>0, <1>3, CountMoves, CounterAtTypes, AmountTypes, OrderLaws
  <2>2. \A j \in Keys, t \in Windows :
          CounterAt(w) = MinuteCounter(j, t) <=> stage[w].next = 1 /\ k = j /\ at[w] = t
    BY <2>1, FirstCounter
  <2>3. NotYetAnswered'
    BY <2>1 DEF NotYetAnswered
  <2>4. Outlasts'
    <3> SUFFICES ASSUME NEW j \in Keys, NEW t \in Windows, redis'[MinuteCounter(j, t)] # 0
                 PROVE  expiresAt'[MinuteCounter(j, t)] > t
      BY DEF Outlasts, MinuteCounter, CounterKey, WindowOf, Day
    <3>1. MinuteCounter(j, t) \in Counters /\ MinuteCounter(j, t).metric = "rpm"
      BY MinuteCounters
    <3>2. CASE UseRedis /\ rateUp /\ CounterAt(w) = MinuteCounter(j, t)
      <4>1. expiresAt'[MinuteCounter(j, t)] = minute + TTL("rpm")
        BY <1>0, <2>1, <3>1, <3>2 DEF increment
      <4>2. TTL("rpm") \in Nat \ {0}
        BY RateAssumption DEF TTL
      <4>3. at[w] = t
        BY <2>2, <3>2
      <4> QED  BY <1>0, <4>1, <4>2, <4>3 DEF Windows
    <3>3. CASE ~(UseRedis /\ rateUp /\ CounterAt(w) = MinuteCounter(j, t))
      <4>1. /\ redis'[MinuteCounter(j, t)] = redis[MinuteCounter(j, t)]
            /\ expiresAt'[MinuteCounter(j, t)] = expiresAt[MinuteCounter(j, t)]
        BY <1>0, <2>1, <3>1, <3>3 DEF increment
      <4> QED  BY <4>1 DEF Outlasts
    <3> QED  BY <3>2, <3>3
  <2>5. ExactNow'
    <3> SUFFICES ASSUME outages + crashes = 0, NEW j \in Keys
                 PROVE  Count(MinuteCounter(j, minute))' + Cardinality(Beginning(j)') = answered[j][minute]
      BY <2>1 DEF ExactNow
    <3>1. /\ Count(MinuteCounter(j, minute)) + Cardinality(Beginning(j)) = answered[j][minute]
          /\ rateUp
      BY <1>0 DEF ExactNow, OutageCounted
    <3>2. MinuteCounter(j, minute) \in Counters /\ MinuteCounter(j, minute)' = MinuteCounter(j, minute)
      BY <1>0, <2>1, MinuteCounters DEF MinuteCounter, CounterKey, WindowOf, Day
    <3>3. Count(MinuteCounter(j, minute)) \in Nat
      BY <1>0, <3>2 DEF Count
    <3>4. w \notin Beginning(j)' /\ Beginning(j)' \ {w} = Beginning(j) \ {w}
      <4>1. stage'[w] # [doing |-> "counting", next |-> 1]
        <5>1. CASE stage' = [stage EXCEPT ![w] = Idle]
          BY <1>0, <5>1 DEF Idle
        <5>2. CASE stage' = [stage EXCEPT ![w] = [doing |-> "counting", next |-> stage[w].next + 1]]
          <6>1. stage'[w].next = stage[w].next + 1
            BY <1>0, <5>2
          <6> QED  BY <2>1, <6>1 DEF Steps
        <5> QED  BY <1>3, <5>1, <5>2, CountMoves
      <4> QED  BY <2>1, <4>1, BeginningMove DEF Beginning
    <3>5. w \in Beginning(j) <=> CounterAt(w) = MinuteCounter(j, minute)
      <4>1. stage[w] = [doing |-> "counting", next |-> 1] <=> stage[w].next = 1
        BY <1>0, <2>1 DEF Stages
      <4> QED  BY <1>0, <2>2, <4>1 DEF Beginning, WorkersOf
    <3>6. CASE CounterAt(w) = MinuteCounter(j, minute)
      <4>1. Beginning(j)' = Beginning(j) \ {w} /\ w \in Beginning(j)
        BY <3>4, <3>5, <3>6
      <4>2. Cardinality(Beginning(j)') = Cardinality(Beginning(j)) - 1 /\ Cardinality(Beginning(j)) \in Nat
        BY <4>1, BeginningFinite, FS_RemoveElement
      <4>3. n = 1
        <5>1. stage[w].next = 1
          BY <1>0, <2>2, <3>6
        <5> QED  BY <5>1 DEF Order, Amount
      <4>4. Count(MinuteCounter(j, minute))' = Count(MinuteCounter(j, minute)) + 1
        BY <1>0, <2>1, <3>1, <3>2, <3>6, <4>3 DEF increment, Count
      <4> QED  BY <1>0, <3>1, <3>3, <4>2, <4>4
    <3>7. CASE CounterAt(w) # MinuteCounter(j, minute)
      <4>1. Beginning(j)' = Beginning(j)
        BY <3>4, <3>5, <3>7
      <4>2. Count(MinuteCounter(j, minute))' = Count(MinuteCounter(j, minute))
        BY <1>0, <2>1, <3>2, <3>7 DEF increment, Count
      <4> QED  BY <3>1, <4>1, <4>2
    <3> QED  BY <3>6, <3>7
  <2> QED  BY <2>3, <2>4, <2>5
<1> QED  BY <1>1, <1>2, <1>3 DEF Works

LEMMA ExactEnvironment ==
  ASSUME ExactInv, StoreInv', Environment
  PROVE  NotYetAnswered' /\ Outlasts' /\ ExactNow'
<1> USE DEF ExactInv, StoreInv
<1>0. /\ minute \in Windows /\ outages \in Nat /\ crashes \in Nat
      /\ redis \in [Counters -> Nat] /\ memory \in [Counters -> Nat] /\ expiresAt \in [Counters -> Nat]
  BY DEF RateTypeOK
<1>1. ASSUME NEW c \in Counters, ExpireCounter(c) PROVE NotYetAnswered' /\ Outlasts' /\ ExactNow'
  <2>1. /\ UNCHANGED <<minute, stage, at, memory, outages, crashes, answered>>
        /\ redis[c] # 0 /\ expiresAt[c] <= minute
        /\ redis' = [redis EXCEPT ![c] = 0]
        /\ expiresAt' = [expiresAt EXCEPT ![c] = 0]
    BY <1>1 DEF ExpireCounter, workerVars
  <2>2. NotYetAnswered'
    BY <2>1 DEF NotYetAnswered
  <2>3. Outlasts'
    <3> SUFFICES ASSUME NEW j \in Keys, NEW t \in Windows, redis'[MinuteCounter(j, t)] # 0
                 PROVE  expiresAt'[MinuteCounter(j, t)] > t
      BY DEF Outlasts, MinuteCounter, CounterKey, WindowOf, Day
    <3>1. MinuteCounter(j, t) \in Counters
      BY MinuteCounters
    <3> QED  BY <1>0, <2>1, <3>1 DEF Outlasts
  <2>4. \A j \in Keys : Beginning(j)' = Beginning(j)
    BY <2>1 DEF Beginning
  <2>5. \A j \in Keys : Count(MinuteCounter(j, minute))' = Count(MinuteCounter(j, minute))
    <3> SUFFICES ASSUME NEW j \in Keys
                 PROVE  Count(MinuteCounter(j, minute))' = Count(MinuteCounter(j, minute))
      OBVIOUS
    <3>1. MinuteCounter(j, minute) \in Counters /\ MinuteCounter(j, minute)' = MinuteCounter(j, minute)
      BY <1>0, <2>1, MinuteCounters DEF MinuteCounter, CounterKey, WindowOf, Day
    <3>2. c # MinuteCounter(j, minute)
      <4> SUFFICES ASSUME c = MinuteCounter(j, minute) PROVE FALSE
        OBVIOUS
      <4>1. expiresAt[c] > minute
        BY <1>0, <2>1 DEF Outlasts
      <4> QED  BY <1>0, <2>1, <4>1 DEF Windows
    <3> QED  BY <1>0, <2>1, <3>1, <3>2 DEF Count
  <2>6. ExactNow'
    BY <2>1, <2>4, <2>5 DEF ExactNow
  <2> QED  BY <2>2, <2>3, <2>6
<1>2. CASE Tick
  <2>1. /\ UNCHANGED <<redis, memory, expiresAt, stage, at, outages, crashes, answered>>
        /\ minute' = minute + 1 /\ minute' \in Windows
    BY <1>2 DEF Tick, storeVars, workerVars, RateTypeOK
  <2>2. NotYetAnswered'
    BY <1>0, <2>1 DEF NotYetAnswered, Windows
  <2>3. Outlasts'
    BY <2>1 DEF Outlasts, MinuteCounter, CounterKey, WindowOf, Day
  <2>4. ASSUME NEW k \in Keys
        PROVE  Count(MinuteCounter(k, minute))' + Cardinality(Beginning(k)') = answered'[k][minute']
    <3>1. answered'[k][minute'] = 0
      BY <1>0, <2>1 DEF NotYetAnswered, Windows
    <3>2. Beginning(k)' = {}
      <4>1. \A v \in Workers : at[v] \in Windows /\ at[v] <= minute
        BY DEF AtPast, RateTypeOK
      <4> QED  BY <1>0, <2>1, <4>1 DEF Beginning, WorkersOf, Windows
    <3>3. MinuteCounter(k, minute)' = MinuteCounter(k, minute')
      BY DEF MinuteCounter, CounterKey, WindowOf, Day
    <3>4. /\ MinuteCounter(k, minute') \in Counters
          /\ MinuteCounter(k, minute').window > WindowOf(MinuteCounter(k, minute').metric, minute)
      BY <1>0, <2>1, MinuteCounters DEF WindowOf, Windows
    <3>5. Count(MinuteCounter(k, minute')) = 0
      BY <3>4 DEF FutureEmpty
    <3>6. Count(MinuteCounter(k, minute))' = 0
      BY <2>1, <3>3, <3>5 DEF Count
    <3> QED  BY <3>1, <3>2, <3>6, FS_EmptySet
  <2> QED  BY <2>2, <2>3, <2>4 DEF ExactNow
<1>3. CASE RateCrash
  <2>1. UNCHANGED <<minute, redis, expiresAt, answered>> /\ outages' + crashes' # 0
    BY <1>0, <1>3 DEF RateCrash
  <2> QED  BY <2>1 DEF NotYetAnswered, Outlasts, ExactNow, MinuteCounter, CounterKey, WindowOf, Day
<1>4. CASE RateRedisDown \/ RateRedisBack
  <2>1. UNCHANGED <<minute, redis, expiresAt, answered>> /\ outages' + crashes' # 0
    BY <1>0, <1>4 DEF RateRedisDown, RateRedisBack, storeVars, OutageCounted
  <2> QED  BY <2>1 DEF NotYetAnswered, Outlasts, ExactNow, MinuteCounter, CounterKey, WindowOf, Day
<1>5. CASE UNCHANGED rateVars
  <2>1. UNCHANGED <<minute, redis, memory, expiresAt, stage, at, outages, crashes, answered>>
    BY <1>5 DEF rateVars, storeVars, workerVars
  <2>2. \A k \in Keys : Beginning(k)' = Beginning(k)
    BY <2>1 DEF Beginning
  <2> QED  BY <2>1, <2>2, ExactStutter
<1> QED  BY <1>1, <1>2, <1>3, <1>4, <1>5 DEF Environment

LEMMA ExactNext ==
  ASSUME ExactInv, NEW limits, (\E w \in Workers : Works(w, limits)) \/ Environment
  PROVE  ExactInv'
<1>1. StoreInv'
  BY StoreNext DEF ExactInv
<1>2. ASSUME NEW w \in Workers, Works(w, limits) PROVE NotYetAnswered' /\ Outlasts' /\ ExactNow'
  BY <1>1, <1>2, ExactWorker
<1>3. CASE Environment
  BY <1>1, <1>3, ExactEnvironment DEF ExactInv
<1> QED  BY <1>1, <1>2, <1>3 DEF ExactInv

LEMMA ExactImplies == ExactInv => CounterExact
BY DEF ExactInv, ExactNow, CounterExact, Beginning, MinuteCounter

\* As long as nothing fails, the request counter of the running minute is
\* exactly the answers of that minute that have got as far as counting.
THEOREM MinuteCounterExact == RateSpec => []CounterExact
<1>1. ASSUME ExactInv, [RateNext]_rateVars PROVE ExactInv'
  <2>1. ASSUME NEW w \in Workers, Works(w, LimitsOf[KeyOf[w]]) PROVE ExactInv'
    BY <1>1, <2>1, ExactNext
  <2>2. CASE Environment
    BY <1>1, <2>2, ExactNext
  <2> QED  BY <1>1, <2>1, <2>2, RateMoves
<1> QED  BY <1>1, ExactInit, ExactImplies, PTL DEF RateSpec

-----------------------------------------------------------------------------
(* The minutes of a day.                                                   *)

\* The counters of a key's minutes in a day, and that of the day.
MinutesOf(k, d) == {CounterKey("rpm", k, t) : t \in {u \in Windows : Day(u) = d}}

DayCounter(k, d) == [metric |-> "rpd", key |-> k, window |-> d]

\* Workers that may have counted a minute of the day and not yet the day.
Midway(k, d) ==
  {w \in WorkersOf(k) : stage[w].doing = "counting" /\ stage[w].next \in {2, 3} /\ Day(at[w]) = d}

\* The day's counter cannot have run out.
Lasting(d) == UseRedis => minute < d * MinutesPerDay + DayTTL

\* A day's counter in Redis is there until at least so long after the day's begin.
DayLasts ==
  \A k \in Keys, d \in Windows :
    redis[DayCounter(k, d)] # 0 => expiresAt[DayCounter(k, d)] >= d * MinutesPerDay + DayTTL

\* In an outage those between the two increments will not count the day, and
\* may come to the next counter after it: they have a share of the outage's.
DayFull ==
  \A k \in Keys, d \in Windows :
    Lasting(d) =>
      Total(MinutesOf(k, d))
        <= Count(DayCounter(k, d)) + (IF rateUp THEN Cardinality(Midway(k, d)) ELSE 0)
           + Cardinality(WorkersOf(k)) * (outages + crashes)

DayInv == StoreInv /\ DayLasts /\ DayFull

LEMMA DayCounters ==
  ASSUME NEW k \in Keys, NEW d \in Windows
  PROVE  /\ DayCounter(k, d) \in Counters
         /\ DayCounter(k, d).metric = "rpd"
         /\ DayCounter(k, d) \notin MinutesOf(k, d)
BY DEF DayCounter, Counters, Metrics, MinutesOf, CounterKey

\* MinutesOf(k, d) is finite, and made of counters.
LEMMA MinutesFinite ==
  ASSUME NEW k \in Keys, NEW d \in Windows
  PROVE  /\ IsFiniteSet(MinutesOf(k, d))
         /\ MinutesOf(k, d) \subseteq Counters
         /\ \A c \in MinutesOf(k, d) : c.metric = "rpm" /\ c.key = k /\ Day(c.window) = d
<1> DEFINE T == {u \in Windows : Day(u) = d}
           f == [t \in T |-> CounterKey("rpm", k, t)]
<1>1. IsFiniteSet(Windows)
  BY RateAssumption, FS_Interval DEF Windows
<1>2. IsFiniteSet(T)
  BY <1>1, FS_Subset
<1>3. f \in Surjection(T, MinutesOf(k, d))
  BY DEF MinutesOf, Surjection
<1>4. IsFiniteSet(MinutesOf(k, d))
  <2> HIDE DEF f, T
  <2> QED  BY <1>2, <1>3, FS_Surjection
<1>5. MinutesOf(k, d) \subseteq Counters
  BY CounterKeyTypes DEF MinutesOf, Metrics
<1>6. \A c \in MinutesOf(k, d) : c.metric = "rpm" /\ c.key = k /\ Day(c.window) = d
  BY DEF MinutesOf, CounterKey, WindowOf
<1> QED  BY <1>4, <1>5, <1>6

\* A sum of which one term changes.
LEMMA SumChange ==
  ASSUME NEW S, IsFiniteSet(S), NEW f \in [S -> Nat], NEW h \in [S -> Nat], NEW c \in S,
         \A x \in S \ {c} : h[x] = f[x]
  PROVE  /\ SumFunction(f) \in Nat /\ SumFunction(h) \in Nat
         /\ SumFunction(h) - h[c] = SumFunction(f) - f[c]
<1> DEFINE R == S \ {c}
<1>1. /\ SumFunction(f) = SumFunctionOnSet(f, S)
      /\ SumFunction(h) = SumFunctionOnSet(h, S)
  BY DEF SumFunction
<1>2. /\ SumFunctionOnSet(f, S) \in Nat /\ SumFunctionOnSet(f, R) \in Nat
      /\ SumFunctionOnSet(f, S) = f[c] + SumFunctionOnSet(f, R)
  BY SumLaws
<1>3. /\ SumFunctionOnSet(h, S) \in Nat /\ SumFunctionOnSet(h, R) \in Nat
      /\ SumFunctionOnSet(h, S) = h[c] + SumFunctionOnSet(h, R)
  BY SumLaws
<1>4. SumFunctionOnSet(f, R) = SumFunctionOnSet(h, R)
  <2>1. IsFiniteSet(R) /\ R \subseteq S
    BY FS_Subset
  <2> QED  BY <2>1, SumsAgree
<1>5. f[c] \in Nat /\ h[c] \in Nat
  OBVIOUS
<1> HIDE DEF R
<1> QED  BY <1>1, <1>2, <1>3, <1>4, <1>5

\* The counts of a set of counters in one state.
Counts(S, r, m) == [c \in S |-> IF UseRedis THEN r[c] ELSE m[c]]

LEMMA TotalIs ==
  ASSUME NEW S
  PROVE  /\ Total(S) = SumFunction(Counts(S, redis, memory))
         /\ Total(S)' = SumFunction(Counts(S, redis', memory'))
BY DEF Total, Counts, Count

LEMMA TotalTypes ==
  ASSUME RateTypeOK, NEW S \in SUBSET Counters, IsFiniteSet(S)
  PROVE  Total(S) \in Nat
<1> DEFINE f == Counts(S, redis, memory)
<1>1. f \in [S -> Nat] /\ DOMAIN f = S
  BY DEF Counts, RateTypeOK
<1>2. Total(S) = SumFunction(f)
  BY TotalIs
<1> HIDE DEF f
<1> QED  BY <1>1, <1>2, SumLaws DEF SumFunction

\* A counter outside leaves the total, and one inside moves it with itself.
LEMMA TotalMoves ==
  ASSUME RateTypeOK, RateTypeOK', NEW S \in SUBSET Counters, IsFiniteSet(S), NEW c \in Counters,
         \A x \in Counters \ {c} : Count(x)' = Count(x)
  PROVE  /\ Total(S) \in Nat /\ Total(S)' \in Nat
         /\ c \notin S => Total(S)' = Total(S)
         /\ c \in S => Total(S)' - Count(c)' = Total(S) - Count(c)
<1> DEFINE f == Counts(S, redis, memory)
           h == Counts(S, redis', memory')
<1>1. f \in [S -> Nat] /\ h \in [S -> Nat] /\ DOMAIN f = S /\ DOMAIN h = S
  BY DEF Counts, RateTypeOK
<1>2. \A x \in S : f[x] = Count(x) /\ h[x] = Count(x)'
  BY DEF Counts, Count
<1>3. Total(S) = SumFunction(f) /\ Total(S)' = SumFunction(h)
  BY TotalIs
<1> HIDE DEF f, h
<1>4. SumFunction(f) \in Nat /\ SumFunction(h) \in Nat
  BY <1>1, SumLaws DEF SumFunction
<1>5. CASE c \notin S
  <2>1. \A x \in S : f[x] = h[x]
    BY <1>2, <1>5
  <2>2. f = h
    BY <1>1, <2>1
  <2> QED  BY <1>3, <1>4, <1>5, <2>2
<1>6. CASE c \in S
  <2>1. \A x \in S \ {c} : h[x] = f[x]
    BY <1>2
  <2>2. SumFunction(h) - h[c] = SumFunction(f) - f[c]
    BY <1>1, <1>6, <2>1, SumChange
  <2> QED  BY <1>2, <1>3, <1>4, <1>6, <2>2
<1> QED  BY <1>5, <1>6

LEMMA TotalOfZeros ==
  ASSUME NEW S \in SUBSET Counters, IsFiniteSet(S)
  PROVE  /\ (\A c \in Counters : Count(c) = 0) => Total(S) = 0
         /\ (\A c \in Counters : Count(c)' = 0) => Total(S)' = 0
<1>1. ASSUME NEW r, NEW m, \A c \in S : (IF UseRedis THEN r[c] ELSE m[c]) = 0
      PROVE  SumFunction(Counts(S, r, m)) = 0
  <2>1. /\ Counts(S, r, m) \in [S -> Nat] /\ DOMAIN Counts(S, r, m) = S
        /\ \A c \in S : Counts(S, r, m)[c] = 0
    BY <1>1 DEF Counts
  <2> QED  BY <2>1, SumOfZeros DEF SumFunction
<1>2. (\A c \in Counters : Count(c) = 0) => Total(S) = 0
  BY <1>1, TotalIs DEF Count
<1>3. (\A c \in Counters : Count(c)' = 0) => Total(S)' = 0
  BY <1>1, TotalIs DEF Count
<1> QED  BY <1>2, <1>3

\* The workers between the two increments: finitely many, and one that moves
\* joins or leaves them alone.
LEMMA MidwayFinite ==
  ASSUME NEW k \in Keys, NEW d
  PROVE  /\ IsFiniteSet(Midway(k, d))
         /\ Cardinality(Midway(k, d)) \in Nat /\ Cardinality(WorkersOf(k)) \in Nat
         /\ Cardinality(Midway(k, d)) <= Cardinality(WorkersOf(k))
<1>1. Midway(k, d) \subseteq WorkersOf(k) /\ WorkersOf(k) \subseteq Workers
  BY DEF Midway, WorkersOf
<1>2. IsFiniteSet(WorkersOf(k))
  BY <1>1, RateAssumption, FS_Subset
<1> QED  BY <1>1, <1>2, FS_Subset, FS_CardinalityType

LEMMA MidwayMove ==
  ASSUME NEW w \in Workers, NEW k \in Keys, NEW d,
         \A v \in Workers \ {w} : stage'[v] = stage[v] /\ at'[v] = at[v]
  PROVE  Midway(k, d)' \ {w} = Midway(k, d) \ {w}
BY DEF Midway, WorkersOf

\* The part of the bound that grows with the faults.
LEMMA FaultShare ==
  ASSUME NEW k \in Keys, NEW n \in Nat
  PROVE  /\ Cardinality(WorkersOf(k)) * n \in Nat
         /\ Cardinality(WorkersOf(k)) * (n + 1) = Cardinality(WorkersOf(k)) * n + Cardinality(WorkersOf(k))
BY MidwayFinite

\* Where a counting worker is, among a day's counters.
LEMMA DaysCounters ==
  ASSUME RateTypeOK, NEW w \in Workers, stage[w].doing = "counting", NEW k \in Keys, NEW d \in Windows
  PROVE  /\ CounterAt(w) \in MinutesOf(k, d) <=> stage[w].next = 1 /\ KeyOf[w] = k /\ Day(at[w]) = d
         /\ CounterAt(w) = DayCounter(k, d) <=> stage[w].next = 3 /\ KeyOf[w] = k /\ Day(at[w]) = d
<1>1. stage[w].next \in Steps /\ at[w] \in Windows
  BY StageUpdate DEF RateTypeOK
<1>2. CounterAt(w) \in MinutesOf(k, d) <=> \E t \in Windows : Day(t) = d /\ CounterAt(w) = MinuteCounter(k, t)
  BY DEF MinutesOf, MinuteCounter
<1>3. CounterAt(w) = [metric |-> Order[stage[w].next], key |-> KeyOf[w],
                      window |-> WindowOf(Order[stage[w].next], at[w])]
  BY DEF CounterAt, CounterKey
<1>4. Order[stage[w].next] = "rpd" <=> stage[w].next = 3
  BY <1>1 DEF Order, Steps
<1>5. WindowOf("rpd", at[w]) = Day(at[w])
  BY DEF WindowOf
<1>6. CounterAt(w) = DayCounter(k, d) <=> stage[w].next = 3 /\ KeyOf[w] = k /\ Day(at[w]) = d
  BY <1>3, <1>4, <1>5 DEF DayCounter
<1> QED  BY <1>1, <1>2, <1>6, FirstCounter

LEMMA DayInit == RateInit => DayInv
<1> SUFFICES ASSUME RateInit PROVE DayInv
  OBVIOUS
<1>1. StoreInv
  BY QuotaInit
<1>2. \A c \in Counters : Count(c) = 0 /\ redis[c] = 0
  BY DEF RateInit, Count
<1>3. DayLasts
  BY <1>2, DayCounters DEF DayLasts
<1>4. DayFull
  <2> SUFFICES ASSUME NEW k \in Keys, NEW d \in Windows
               PROVE  Total(MinutesOf(k, d))
                        <= Count(DayCounter(k, d)) + (IF rateUp THEN Cardinality(Midway(k, d)) ELSE 0)
                           + Cardinality(WorkersOf(k)) * (outages + crashes)
    BY DEF DayFull
  <2>1. Total(MinutesOf(k, d)) = 0 /\ Count(DayCounter(k, d)) = 0
    BY <1>2, TotalOfZeros, MinutesFinite, DayCounters
  <2>2. outages + crashes \in Nat
    BY DEF RateInit
  <2>3. Cardinality(WorkersOf(k)) * (outages + crashes) \in Nat /\ Cardinality(Midway(k, d)) \in Nat
    BY <2>2, FaultShare, MidwayFinite
  <2> QED  BY <2>1, <2>3
<1> QED  BY <1>1, <1>3, <1>4 DEF DayInv

\* A day has begun by each of its minutes.
LEMMA DayBegins ==
  ASSUME NEW t \in Nat
  PROVE  Day(t) * MinutesPerDay \in Int /\ Day(t) * MinutesPerDay <= t
<1> DEFINE n == MinutesPerDay
<1>1. n \in Nat /\ n > 0
  BY RateAssumption
<1>2. Day(t) \in Int /\ n * Day(t) <= t
  BY <1>1 DEF Day
<1> HIDE DEF n
<1>3. Day(t) * n = n * Day(t) /\ n * Day(t) \in Int
  BY <1>1, <1>2
<1>4. Day(t) * n \in Int /\ Day(t) * n <= t
  BY <1>2, <1>3
<1> QED  BY <1>4 DEF n

\* Steps that leave the counters and the workers between the increments.
LEMMA DayStutter ==
  ASSUME DayInv, UNCHANGED <<redis, memory, expiresAt, rateUp, outages, crashes>>, minute' >= minute,
         minute \in Int, minute' \in Int,
         \A k \in Keys, d \in Windows : Midway(k, d)' = Midway(k, d)
  PROVE  DayLasts' /\ DayFull'
<1>1. DayLasts'
  BY DEF DayInv, DayLasts, DayCounter
<1>2. ASSUME NEW k \in Keys, NEW d \in Windows, Lasting(d)'
      PROVE  (Total(MinutesOf(k, d))
                <= Count(DayCounter(k, d)) + (IF rateUp THEN Cardinality(Midway(k, d)) ELSE 0)
                   + Cardinality(WorkersOf(k)) * (outages + crashes))'
  <2>1. Lasting(d)
    <3>1. d * MinutesPerDay + DayTTL \in Int
      BY RateAssumption DEF Windows
    <3> QED  BY <1>2, <3>1 DEF Lasting
  <2>2. Total(MinutesOf(k, d))' = Total(MinutesOf(k, d))
    BY TotalIs
  <2>3. Count(DayCounter(k, d))' = Count(DayCounter(k, d))
    BY DEF Count, DayCounter
  <2> QED  BY <2>1, <2>2, <2>3 DEF DayInv, DayFull
<1>3. DayFull'
  BY <1>2 DEF DayFull
<1> QED  BY <1>1, <1>3

\* A worker counts on: once for the minute, later once for its day.
LEMMA DayCount ==
  ASSUME DayInv, RateTypeOK', NEW w \in Workers, CountNext(w)
  PROVE  DayLasts' /\ DayFull'
<1> USE DEF DayInv, StoreInv
<1> DEFINE counted == UseRedis => rateUp
<1>0. PICK c \in Counters, n \in Nat : c = CounterAt(w) /\ n = Amount(w, Order[stage[w].next])
  BY CountMoves, CounterAtTypes, AmountTypes, OrderLaws
<1>1. /\ stage[w].doing = "counting" /\ stage[w].next \in Steps
      /\ UNCHANGED <<minute, rateUp, outages, crashes>>
      /\ increment(c, n)
  BY <1>0, CountMoves
<1>2. /\ at[w] \in Windows /\ minute \in Windows /\ at[w] <= minute /\ KeyOf[w] \in Keys
      /\ stage \in [Workers -> Stages] /\ at \in [Workers -> Windows]
      /\ redis \in [Counters -> Nat] /\ memory \in [Counters -> Nat] /\ expiresAt \in [Counters -> Nat]
      /\ outages + crashes \in Nat /\ UseRedis \in BOOLEAN /\ rateUp \in BOOLEAN
      /\ (~UseRedis => rateUp)
  BY RateAssumption DEF RateTypeOK, AtPast, OutageCounted
<1>3. DayLasts'
  <2> SUFFICES ASSUME NEW k \in Keys, NEW d \in Windows, redis'[DayCounter(k, d)] # 0
               PROVE  expiresAt'[DayCounter(k, d)] >= d * MinutesPerDay + DayTTL
    BY DEF DayLasts, DayCounter
  <2>1. CASE UseRedis /\ rateUp /\ c = DayCounter(k, d)
    <3>1. expiresAt'[c] = minute + TTL(c.metric)
      BY <1>1, <1>2, <2>1 DEF increment
    <3>2. TTL(c.metric) = DayTTL /\ DayTTL \in Nat
      BY <2>1, RateAssumption DEF DayCounter, TTL
    <3>3. Day(at[w]) = d
      <4>1. CounterAt(w) = DayCounter(k, d) /\ stage[w].doing = "counting" /\ RateTypeOK
        BY <1>0, <1>1, <2>1
      <4> HIDE DEF DayInv, StoreInv
      <4> QED  BY <4>1, DaysCounters
    <3>4. d * MinutesPerDay <= at[w] /\ d * MinutesPerDay \in Int
      BY <1>2, <3>3, DayBegins DEF Windows
    <3> QED  BY <1>2, <2>1, <3>1, <3>2, <3>4 DEF Windows
  <2>2. CASE ~(UseRedis /\ rateUp /\ c = DayCounter(k, d))
    <3>1. DayCounter(k, d) \in Counters
      BY DayCounters
    <3>2. /\ redis'[DayCounter(k, d)] = redis[DayCounter(k, d)]
          /\ expiresAt'[DayCounter(k, d)] = expiresAt[DayCounter(k, d)]
      BY <1>1, <1>2, <2>2, <3>1 DEF increment
    <3> QED  BY <3>2 DEF DayLasts
  <2> QED  BY <2>1, <2>2
<1>4. /\ \A x \in Counters \ {c} : Count(x)' = Count(x)
      /\ counted => Count(c)' = Count(c) + n
      /\ ~counted => Count(c)' = Count(c)
  BY <1>1, <1>2 DEF increment, Count
<1>5. \A v \in Workers \ {w} : stage'[v] = stage[v] /\ at'[v] = at[v]
  BY <1>2, CountMoves
<1>6. DayFull'
  <2> SUFFICES ASSUME NEW k \in Keys, NEW d \in Windows, Lasting(d)
               PROVE  (Total(MinutesOf(k, d))
                         <= Count(DayCounter(k, d)) + (IF rateUp THEN Cardinality(Midway(k, d)) ELSE 0)
                            + Cardinality(WorkersOf(k)) * (outages + crashes))'
    BY <1>1 DEF DayFull, Lasting
  <2> DEFINE b == Cardinality(WorkersOf(k)) * (outages + crashes)
             M == Midway(k, d)
             here == KeyOf[w] = k /\ Day(at[w]) = d
  <2>1. Total(MinutesOf(k, d)) <= Count(DayCounter(k, d)) + (IF rateUp THEN Cardinality(M) ELSE 0) + b
    BY DEF DayFull
  <2>2. b \in Nat /\ b' = b
    BY <1>1, <1>2, FaultShare
  <2>3. /\ Cardinality(M) \in Nat /\ IsFiniteSet(M)
        /\ Total(MinutesOf(k, d)) \in Nat /\ Total(MinutesOf(k, d))' \in Nat
        /\ c \notin MinutesOf(k, d) => Total(MinutesOf(k, d))' = Total(MinutesOf(k, d))
        /\ c \in MinutesOf(k, d) => Total(MinutesOf(k, d))' - Count(c)' = Total(MinutesOf(k, d)) - Count(c)
        /\ Count(c) \in Nat
    BY <1>1, <1>4, TotalMoves, MinutesFinite, MidwayFinite, CountTypes
  <2>4. /\ c \in MinutesOf(k, d) <=> stage[w].next = 1 /\ here
        /\ c = DayCounter(k, d) <=> stage[w].next = 3 /\ here
    BY <1>0, <1>1, DaysCounters
  <2>5. /\ DayCounter(k, d) \in Counters /\ DayCounter(k, d)' = DayCounter(k, d)
        /\ Count(DayCounter(k, d)) \in Nat
        /\ c # DayCounter(k, d) => Count(DayCounter(k, d))' = Count(DayCounter(k, d))
        /\ c = DayCounter(k, d) => Count(DayCounter(k, d))' = Count(c)'
    BY <1>4, DayCounters, CountTypes DEF DayCounter, Count
  <2>6. /\ w \in M <=> stage[w].next \in {2, 3} /\ here
        /\ w \in M' <=> stage[w].next \in {1, 2} /\ here
    <3>1. w \in M <=> stage[w].next \in {2, 3} /\ here
      BY <1>1 DEF Midway, WorkersOf
    <3>2. CASE stage' = [stage EXCEPT ![w] = [doing |-> "counting", next |-> stage[w].next + 1]]
               /\ stage[w].next # 4 /\ UNCHANGED <<at, tokens>>
      <4>1. stage'[w].doing = "counting" /\ stage'[w].next = stage[w].next + 1 /\ at'[w] = at[w]
        BY <1>2, <3>2
      <4>2. w \in M' <=> stage[w].next + 1 \in {2, 3} /\ here
        BY <4>1 DEF Midway, WorkersOf, Day
      <4> QED  BY <1>1, <3>1, <4>2 DEF Steps
    <3>3. CASE stage' = [stage EXCEPT ![w] = Idle] /\ stage[w].next = 4
      <4>1. stage'[w].doing # "counting"
        BY <1>2, <3>3 DEF Idle
      <4> QED  BY <3>1, <3>3, <4>1 DEF Midway
    <3> QED  BY <3>2, <3>3, CountMoves
  <2>7. M' \ {w} = M \ {w}
    BY <1>5, MidwayMove
  <2>8. /\ (w \in M <=> w \in M') => M' = M
        /\ w \notin M /\ w \in M' => Cardinality(M') = Cardinality(M) + 1
        /\ w \in M /\ w \notin M' => Cardinality(M') = Cardinality(M) - 1
    <3>1. (w \in M <=> w \in M') => M' = M
      BY <2>7
    <3>2. ASSUME w \notin M, w \in M' PROVE Cardinality(M') = Cardinality(M) + 1
      <4>1. M' = M \cup {w}
        BY <2>7, <3>2
      <4> QED  BY <2>3, <3>2, <4>1, FS_AddElement
    <3>3. ASSUME w \in M, w \notin M' PROVE Cardinality(M') = Cardinality(M) - 1
      <4>1. M' = M \ {w}
        BY <2>7, <3>3
      <4> QED  BY <2>3, <3>3, <4>1, FS_RemoveElement
    <3> QED  BY <3>1, <3>2, <3>3
  <2>9. stage[w].next \in {1, 3} => n = 1
    BY <1>0 DEF Order, Amount
  <2> DEFINE total == Total(MinutesOf(k, d))
             day == Count(DayCounter(k, d))
             size == Cardinality(M)
  <2> HIDE DEF total, day, size, M, b
  <2>10. CASE ~counted
    <3>1. total' = total /\ day' = day
      BY <1>4, <2>3, <2>5, <2>10 DEF total, day
    <3>2. ~rateUp /\ ~rateUp'
      BY <1>1, <2>10
    <3>3. total <= day + 0 + b
      BY <2>1, <3>2 DEF total, day
    <3>4. total' <= day' + 0 + b'
      BY <2>2, <3>1, <3>3
    <3> QED  BY <3>2, <3>4 DEF total, day, b
  <2>11. CASE counted
    <3>1. rateUp /\ rateUp'
      BY <1>1, <1>2, <2>11
    <3>2. total <= day + size + b /\ total \in Nat /\ total' \in Nat /\ day \in Nat /\ size \in Nat /\ b \in Nat
      BY <2>1, <2>2, <2>3, <2>5, <3>1 DEF total, day, size
    <3>3. total' <= day' + size' + b'
      <4>1. CASE ~here \/ stage[w].next \in {2, 4}
        <5>1. total' = total /\ day' = day
          BY <2>3, <2>4, <2>5, <4>1 DEF total, day
        <5>2. size' = size
          BY <2>6, <2>8, <4>1 DEF size
        <5> QED  BY <2>2, <3>2, <5>1, <5>2
      <4>2. CASE here /\ stage[w].next = 1
        <5>1. total' = total + 1
          BY <1>4, <2>3, <2>4, <2>9, <2>11, <4>2 DEF total
        <5>2. day' = day
          BY <2>4, <2>5, <4>2 DEF day
        <5>3. size' = size + 1
          BY <2>6, <2>8, <4>2 DEF size
        <5> QED  BY <2>2, <3>2, <5>1, <5>2, <5>3
      <4>3. CASE here /\ stage[w].next = 3
        <5>1. total' = total
          BY <2>3, <2>4, <4>3 DEF total
        <5>2. day' = day + 1
          BY <1>4, <2>3, <2>4, <2>5, <2>9, <2>11, <4>3 DEF day
        <5>3. size' = size - 1
          BY <2>6, <2>8, <4>3 DEF size
        <5> QED  BY <2>2, <3>2, <5>1, <5>2, <5>3
      <4> QED  BY <1>1, <4>1, <4>2, <4>3 DEF Steps
    <3> QED  BY <3>1, <3>3 DEF total, day, size, b, M
  <2> QED  BY <2>10, <2>11
<1> QED  BY <1>3, <1>6

LEMMA DayWorker ==
  ASSUME DayInv, RateTypeOK', NEW w \in Workers, NEW limits, Works(w, limits)
  PROVE  DayLasts' /\ DayFull'
<1> USE DEF DayInv, StoreInv
<1>0. /\ minute \in Nat
      /\ stage \in [Workers -> Stages] /\ at \in [Workers -> Windows]
  BY DEF RateTypeOK, Windows
<1>1. ASSUME UNCHANGED <<minute, redis, memory, expiresAt, rateUp, outages, crashes>>,
             \A v \in Workers \ {w} : stage'[v] = stage[v] /\ at'[v] = at[v],
             stage[w].doing # "counting", stage'[w].doing = "counting" => stage'[w].next = 1
      PROVE  DayLasts' /\ DayFull'
  <2>1. ASSUME NEW k \in Keys, NEW d \in Windows PROVE Midway(k, d)' = Midway(k, d)
    <3>1. Midway(k, d)' \ {w} = Midway(k, d) \ {w}
      BY <1>1, MidwayMove
    <3>2. w \notin Midway(k, d) /\ w \notin Midway(k, d)'
      BY <1>1 DEF Midway
    <3> QED  BY <3>1, <3>2
  <2> HIDE DEF DayInv
  <2> QED  BY <1>0, <1>1, <2>1, DayStutter
<1>2. CASE BeginCheck(w) \/ EndUncounted(w)
  <2>1. /\ UNCHANGED <<minute, redis, memory, expiresAt, rateUp, outages, crashes>>
        /\ \A v \in Workers \ {w} : stage'[v] = stage[v] /\ at'[v] = at[v]
        /\ stage[w].doing # "counting" /\ stage'[w].doing # "counting"
    BY <1>0, <1>2 DEF BeginCheck, EndUncounted, storeVars, Idle, Passed
  <2> QED  BY <1>1, <2>1
<1>3. CASE CheckCounter(w, limits)
  <2>1. /\ UNCHANGED <<minute, redis, memory, expiresAt, rateUp, outages, crashes>>
        /\ \A v \in Workers \ {w} : stage'[v] = stage[v] /\ at'[v] = at[v]
        /\ stage[w].doing # "counting" /\ stage'[w].doing # "counting"
    BY <1>0, <1>3, CheckMoves DEF storeVars, Idle, Passed
  <2> QED  BY <1>1, <2>1
<1>4. ASSUME NEW n \in TokenCounts, BeginCount(w, n) PROVE DayLasts' /\ DayFull'
  <2>1. /\ UNCHANGED <<minute, redis, memory, expiresAt, rateUp, outages, crashes>>
        /\ \A v \in Workers \ {w} : stage'[v] = stage[v] /\ at'[v] = at[v]
        /\ stage[w].doing # "counting" /\ stage'[w].next = 1
    BY <1>0, <1>4 DEF BeginCount, storeVars, Passed
  <2> QED  BY <1>1, <2>1
<1>5. CASE CountNext(w)
  <2> HIDE DEF DayInv, StoreInv
  <2> QED  BY <1>5, DayCount
<1> QED  BY <1>2, <1>3, <1>4, <1>5 DEF Works

\* With the day's counter still there, only counters of minutes run out.
LEMMA DayExpire ==
  ASSUME DayInv, RateTypeOK', NEW c \in Counters, ExpireCounter(c)
  PROVE  DayLasts' /\ DayFull'
<1> USE DEF DayInv, StoreInv
<1>1. /\ UNCHANGED <<minute, stage, at, memory, rateUp, outages, crashes>>
      /\ redis[c] # 0 /\ expiresAt[c] <= minute
      /\ redis' = [redis EXCEPT ![c] = 0]
      /\ expiresAt' = [expiresAt EXCEPT ![c] = 0]
  BY DEF ExpireCounter, workerVars
<1>2. /\ minute \in Nat /\ redis \in [Counters -> Nat] /\ expiresAt \in [Counters -> Nat]
      /\ outages + crashes \in Nat
  BY DEF RateTypeOK, Windows
<1>3. DayLasts'
  <2> SUFFICES ASSUME NEW k \in Keys, NEW d \in Windows, redis'[DayCounter(k, d)] # 0
               PROVE  expiresAt'[DayCounter(k, d)] >= d * MinutesPerDay + DayTTL
    BY DEF DayLasts, DayCounter
  <2>1. DayCounter(k, d) \in Counters
    BY DayCounters
  <2> QED  BY <1>1, <1>2, <2>1 DEF DayLasts
<1>4. /\ \A x \in Counters \ {c} : Count(x)' = Count(x)
      /\ Count(c)' <= Count(c) /\ Count(c) \in Nat /\ Count(c)' \in Nat
  BY <1>1, <1>2 DEF Count, RateTypeOK
<1>5. ASSUME NEW k \in Keys, NEW d \in Windows, Lasting(d)
      PROVE  (Total(MinutesOf(k, d))
                <= Count(DayCounter(k, d)) + (IF rateUp THEN Cardinality(Midway(k, d)) ELSE 0)
                   + Cardinality(WorkersOf(k)) * (outages + crashes))'
  <2> DEFINE b == (IF rateUp THEN Cardinality(Midway(k, d)) ELSE 0) + Cardinality(WorkersOf(k)) * (outages + crashes)
  <2>1. b' = b /\ b \in Nat
    <3>1. Cardinality(Midway(k, d))' = Cardinality(Midway(k, d))
      <4>1. Midway(k, d)' = Midway(k, d)
        BY <1>1 DEF Midway
      <4> QED  BY <4>1
    <3>2. (Cardinality(WorkersOf(k)) * (outages + crashes))' = Cardinality(WorkersOf(k)) * (outages + crashes)
      BY <1>1
    <3>3. b' = b
      BY <1>1, <3>1, <3>2
    <3>4. Cardinality(Midway(k, d)) \in Nat /\ Cardinality(WorkersOf(k)) * (outages + crashes) \in Nat
      BY <1>2, FaultShare, MidwayFinite
    <3> QED  BY <3>3, <3>4
  <2>2. Total(MinutesOf(k, d)) <= Count(DayCounter(k, d)) + b
    <3>1. Count(DayCounter(k, d)) \in Nat
      BY DayCounters, CountTypes
    <3>2. Cardinality(Midway(k, d)) \in Nat /\ Cardinality(WorkersOf(k)) * (outages + crashes) \in Nat
      BY <1>2, FaultShare, MidwayFinite
    <3> QED  BY <1>5, <3>1, <3>2 DEF DayFull
  <2>3. Total(MinutesOf(k, d))' <= Total(MinutesOf(k, d)) /\ Total(MinutesOf(k, d))' \in Nat /\ Total(MinutesOf(k, d)) \in Nat
    BY <1>4, TotalMoves, MinutesFinite
  <2>4. Count(DayCounter(k, d))' = Count(DayCounter(k, d)) /\ Count(DayCounter(k, d)) \in Nat
    <3>1. DayCounter(k, d) \in Counters /\ DayCounter(k, d)' = DayCounter(k, d)
      BY DayCounters DEF DayCounter
    <3>2. CASE UseRedis
      <4>1. c # DayCounter(k, d)
        <5> SUFFICES ASSUME c = DayCounter(k, d) PROVE FALSE
          OBVIOUS
        <5>1. expiresAt[c] >= d * MinutesPerDay + DayTTL
          BY <1>1 DEF DayLasts
        <5>2. d * MinutesPerDay + DayTTL \in Int /\ minute < d * MinutesPerDay + DayTTL
          BY <1>5, <3>2, RateAssumption DEF Lasting, Windows
        <5> QED  BY <1>1, <1>2, <5>1, <5>2
      <4> QED  BY <1>4, <3>1, <4>1, CountTypes DEF DayCounter
    <3>3. CASE ~UseRedis
      BY <1>1, <3>1, <3>3, CountTypes DEF Count, DayCounter
    <3> QED  BY <3>2, <3>3
  <2> HIDE DEF b
  <2>5. Total(MinutesOf(k, d))' <= Count(DayCounter(k, d))' + b'
    BY <2>1, <2>2, <2>3, <2>4
  <2>6. /\ Count(DayCounter(k, d))' \in Nat /\ Cardinality(Midway(k, d))' \in Nat
        /\ (Cardinality(WorkersOf(k)) * (outages + crashes))' \in Nat
    <3>1. Midway(k, d)' = Midway(k, d)
      BY <1>1 DEF Midway
    <3>2. Cardinality(Midway(k, d))' = Cardinality(Midway(k, d))
      BY <3>1
    <3>3. (Cardinality(WorkersOf(k)) * (outages + crashes))' = Cardinality(WorkersOf(k)) * (outages + crashes)
      BY <1>1
    <3> QED  BY <1>2, <2>4, <3>2, <3>3, FaultShare, MidwayFinite
  <2> QED  BY <2>5, <2>6 DEF b
<1>6. DayFull'
  BY <1>1, <1>5 DEF DayFull, Lasting
<1> QED  BY <1>3, <1>6

\* A crash or an outage catches at most every worker between the increments.
LEMMA DayFaults ==
  ASSUME DayInv, RateTypeOK', RateCrash \/ RateRedisDown \/ RateRedisBack
  PROVE  DayLasts' /\ DayFull'
<1> USE DEF DayInv, StoreInv
<1>1. UNCHANGED <<minute, redis, expiresAt>>
  BY DEF RateCrash, RateRedisDown, RateRedisBack, storeVars
<1>2. outages \in Nat /\ crashes \in Nat
  BY DEF RateTypeOK
<1>3. DayLasts'
  BY <1>1 DEF DayLasts, DayCounter
<1>4. ASSUME NEW k \in Keys, NEW d \in Windows, Lasting(d)
      PROVE  (Total(MinutesOf(k, d))
                <= Count(DayCounter(k, d)) + (IF rateUp THEN Cardinality(Midway(k, d)) ELSE 0)
                   + Cardinality(WorkersOf(k)) * (outages + crashes))'
  <2> DEFINE W == Cardinality(WorkersOf(k))
             total == Total(MinutesOf(k, d))
             day == Count(DayCounter(k, d))
             size == Cardinality(Midway(k, d))
             f == outages + crashes
  <2>0. f \in Nat /\ W' = W
    BY <1>2
  <2>1. /\ W \in Nat /\ size \in Nat /\ size <= W /\ W * f \in Nat /\ W * (f + 1) = W * f + W
        /\ day \in Nat /\ total \in Nat
    <3>1. total \in Nat
      BY DayCounters, TotalIs, MinutesFinite, TotalTypes
    <3> QED  BY <2>0, <3>1, MidwayFinite, FaultShare, DayCounters, CountTypes
  <2>2. total <= day + (IF rateUp THEN size ELSE 0) + W * f
    BY <1>4 DEF DayFull
  <2>3. size' \in Nat
    <3>1. Midway(k, d)' \subseteq Workers
      BY DEF Midway, WorkersOf
    <3> QED  BY <3>1, RateAssumption, FS_Subset, FS_CardinalityType
  <2> HIDE DEF W, total, day, size, f
  <2>4. CASE RateCrash
    <3>1. f' = f + 1
      BY <1>2, <2>4 DEF RateCrash, f
    <3>2. (total' = total /\ day' = day) \/ (total' = 0 /\ day' = 0)
      <4>1. CASE UseRedis
        <5>1. \A S : Counts(S, redis', memory') = Counts(S, redis, memory)
          BY <1>1, <4>1 DEF Counts
        <5>2. total' = total
          BY <5>1, TotalIs DEF total
        <5>3. day' = day
          BY <1>1, <4>1 DEF day, Count, DayCounter
        <5> QED  BY <5>2, <5>3
      <4>2. CASE ~UseRedis
        <5>1. \A x \in Counters : Count(x)' = 0
          BY <2>4, <4>2 DEF RateCrash, Count
        <5>2. total' = 0
          BY <5>1, TotalOfZeros, MinutesFinite DEF total
        <5>3. day' = 0
          <6>1. DayCounter(k, d) \in Counters /\ DayCounter(k, d)' = DayCounter(k, d)
            BY DayCounters DEF DayCounter
          <6> QED  BY <5>1, <6>1 DEF day, Count, DayCounter
        <5> QED  BY <5>2, <5>3
      <4> QED  BY <4>1, <4>2
    <3>3. (W * f)' = W * f + W
      <4>1. (W * f)' = W' * f'
        OBVIOUS
      <4> QED  BY <2>0, <2>1, <3>1, <4>1
    <3>4. total <= day + W * f + W
      BY <2>1, <2>2
    <3>5. /\ total' <= day' + 0 + (W * f)'
          /\ total' <= day' + size' + (W * f)'
      BY <2>1, <2>3, <3>2, <3>3, <3>4
    <3> QED  BY <3>5 DEF total, day, size, W, f
  <2>5. CASE RateRedisDown \/ RateRedisBack
    <3>1. total' = total /\ day' = day
      <4>1. UNCHANGED <<redis, memory>>
        BY <2>5 DEF RateRedisDown, RateRedisBack, storeVars
      <4>2. total' = total
        BY <4>1, TotalIs DEF total
      <4>3. day' = day
        BY <4>1 DEF day, Count, DayCounter
      <4> QED  BY <4>2, <4>3
    <3>2. CASE RateRedisDown
      <4>1. f' = f + 1 /\ ~rateUp'
        BY <1>2, <3>2 DEF RateRedisDown, f
      <4>2. (W * f)' = W * f + W
        <5>1. (W * f)' = W' * f'
          OBVIOUS
        <5> QED  BY <2>0, <2>1, <4>1, <5>1
      <4>3. total' <= day' + 0 + (W * f)'
        BY <2>1, <2>2, <3>1, <4>2
      <4> QED  BY <4>1, <4>3 DEF total, day, size, W, f
    <3>3. CASE RateRedisBack
      <4>1. f' = f /\ ~rateUp /\ rateUp'
        BY <3>3 DEF RateRedisBack, f
      <4>2. (W * f)' = W * f
        <5>1. (W * f)' = W' * f'
          OBVIOUS
        <5> QED  BY <2>0, <4>1, <5>1
      <4>3. total <= day + 0 + W * f
        BY <2>2, <4>1
      <4>4. total' <= day' + size' + (W * f)'
        BY <2>1, <2>3, <3>1, <4>2, <4>3
      <4> QED  BY <4>1, <4>4 DEF total, day, size, W, f
    <3> QED  BY <2>5, <3>2, <3>3
  <2> QED  BY <2>4, <2>5
<1>5. DayFull'
  BY <1>1, <1>4 DEF DayFull, Lasting
<1> QED  BY <1>3, <1>5

LEMMA DayNext ==
  ASSUME DayInv, NEW limits, (\E w \in Workers : Works(w, limits)) \/ Environment
  PROVE  DayInv'
<1>1. StoreInv' /\ RateTypeOK'
  BY StoreNext DEF DayInv, StoreInv
<1>2. ASSUME NEW w \in Workers, Works(w, limits) PROVE DayLasts' /\ DayFull'
  BY <1>1, <1>2, DayWorker
<1>3. ASSUME NEW c \in Counters, ExpireCounter(c) PROVE DayLasts' /\ DayFull'
  BY <1>1, <1>3, DayExpire
<1>4. ASSUME Tick \/ UNCHANGED rateVars PROVE DayLasts' /\ DayFull'
  <2>1. UNCHANGED <<redis, memory, expiresAt, rateUp, outages, crashes>> /\ UNCHANGED <<stage, at>>
    BY <1>4 DEF Tick, rateVars, storeVars, workerVars
  <2>2. minute \in Int /\ minute' \in Int /\ minute' >= minute
    BY <1>1, <1>4 DEF Tick, rateVars, DayInv, StoreInv, RateTypeOK, Windows
  <2>3. \A k \in Keys, d \in Windows : Midway(k, d)' = Midway(k, d)
    BY <2>1 DEF Midway
  <2> QED  BY <2>1, <2>2, <2>3, DayStutter
<1>5. ASSUME RateCrash \/ RateRedisDown \/ RateRedisBack PROVE DayLasts' /\ DayFull'
  BY <1>1, <1>5, DayFaults
<1> QED  BY <1>1, <1>2, <1>3, <1>4, <1>5 DEF DayInv, Environment

LEMMA DayImplies == DayInv => DayCoversMinutes
<1> SUFFICES ASSUME DayInv, NEW k \in Keys, NEW t \in Windows, Lasting(Day(t))
             PROVE  Total(MinutesOf(k, Day(t)))
                      <= Count(DayCounter(k, Day(t))) + Cardinality(Midway(k, Day(t)))
                         + Cardinality(WorkersOf(k)) * (outages + crashes)
  BY DEF DayCoversMinutes, MinutesOf, DayCounter, Midway, Lasting
<1> DEFINE d == Day(t)
<1>1. d \in Windows
  BY DayLaws, RateAssumption DEF Windows
<1> HIDE DEF d
<1>2. Total(MinutesOf(k, d)) <= Count(DayCounter(k, d)) + (IF rateUp THEN Cardinality(Midway(k, d)) ELSE 0)
                                + Cardinality(WorkersOf(k)) * (outages + crashes)
  BY <1>1 DEF DayInv, DayFull, d
<1>3. RateTypeOK /\ outages + crashes \in Nat
  BY DEF DayInv, StoreInv, RateTypeOK
<1>4. /\ Cardinality(Midway(k, d)) \in Nat /\ Count(DayCounter(k, d)) \in Nat
      /\ Cardinality(WorkersOf(k)) * (outages + crashes) \in Nat /\ Total(MinutesOf(k, d)) \in Nat
  BY <1>1, <1>3, MidwayFinite, MinutesFinite, DayCounters, CountTypes, FaultShare, TotalTypes
<1> QED  BY <1>2, <1>4 DEF d

\* A day counts at least what its minutes counted, but for the workers between
\* the two increments and those that a fault caught there.
THEOREM DayIncludesMinutes == RateSpec => []DayCoversMinutes
<1>1. ASSUME DayInv, [RateNext]_rateVars PROVE DayInv'
  <2>1. ASSUME NEW w \in Workers, Works(w, LimitsOf[KeyOf[w]]) PROVE DayInv'
    BY <1>1, <2>1, DayNext
  <2>2. CASE Environment
    BY <1>1, <2>2, DayNext
  <2> QED  BY <1>1, <2>1, <2>2, RateMoves
<1> QED  BY <1>1, DayInit, DayImplies, PTL DEF RateSpec

-----------------------------------------------------------------------------
(* All the days of a key, for the gateway.                                 *)

DaysOf(k) == {ctr \in Counters : ctr.metric = "rpd" /\ ctr.key = k}

\* No day's counter runs out before the first could.
DaysLast ==
  /\ minute >= StartMinute
  /\ \A ctr \in Counters :
       ctr.metric = "rpd" /\ redis[ctr] # 0 => expiresAt[ctr] >= StartMinute + DayTTL

LEMMA DaysFinite ==
  ASSUME NEW k \in Keys
  PROVE  IsFiniteSet(DaysOf(k)) /\ DaysOf(k) \in SUBSET Counters
<1> DEFINE f == [d \in Windows |-> DayCounter(k, d)]
<1>1. IsFiniteSet(Windows)
  BY RateAssumption, FS_Interval DEF Windows
<1>2. f \in Surjection(Windows, DaysOf(k))
  <2>1. \A d \in Windows : f[d] \in DaysOf(k)
    BY DayCounters DEF DaysOf, DayCounter
  <2>2. \A ctr \in DaysOf(k) : ctr.window \in Windows /\ f[ctr.window] = ctr
    BY DEF DaysOf, DayCounter, Counters
  <2> HIDE DEF f
  <2>3. f \in [Windows -> DaysOf(k)]
    <3>1. f = [d \in Windows |-> f[d]]
      BY DEF f
    <3> QED  BY <2>1, <3>1
  <2> QED  BY <2>2, <2>3 DEF Surjection
<1>3. IsFiniteSet(DaysOf(k))
  <2> HIDE DEF f
  <2> QED  BY <1>1, <1>2, FS_Surjection
<1> QED  BY <1>3 DEF DaysOf

LEMMA DaysTypes ==
  ASSUME RateTypeOK, NEW k \in Keys
  PROVE  Total(DaysOf(k)) \in Nat
BY DaysFinite, TotalTypes

\* A request is counted in the days of its key once, at its third counter.
LEMMA CountTally ==
  ASSUME RateTypeOK, RateTypeOK', UseRedis => rateUp, NEW w \in Workers, CountNext(w), NEW k \in Keys
  PROVE  /\ Total(DaysOf(k)) \in Nat
         /\ Total(DaysOf(k))' = Total(DaysOf(k)) + (IF KeyOf[w] = k /\ stage[w].next = 3 THEN 1 ELSE 0)
<1>0. PICK c \in Counters, n \in Nat : c = CounterAt(w) /\ n = Amount(w, Order[stage[w].next])
  BY CountMoves, CounterAtTypes, AmountTypes, OrderLaws
<1>1. /\ stage[w].doing = "counting" /\ stage[w].next \in Steps
      /\ increment(c, n)
      /\ redis \in [Counters -> Nat] /\ memory \in [Counters -> Nat]
  BY <1>0, CountMoves DEF RateTypeOK
<1>2. /\ \A x \in Counters \ {c} : Count(x)' = Count(x)
      /\ Count(c)' = Count(c) + n /\ Count(c) \in Nat
  BY <1>1 DEF increment, Count
<1>3. c \in DaysOf(k) <=> KeyOf[w] = k /\ stage[w].next = 3
  <2>1. c.metric = Order[stage[w].next] /\ c.key = KeyOf[w]
    BY <1>0, <1>1, CounterAtTypes
  <2>2. Order[stage[w].next] = "rpd" <=> stage[w].next = 3
    BY <1>1 DEF Order, Steps
  <2> QED  BY <2>1, <2>2 DEF DaysOf
<1>4. stage[w].next = 3 => n = 1
  BY <1>0 DEF Order, Amount
<1>5. /\ Total(DaysOf(k)) \in Nat /\ Total(DaysOf(k))' \in Nat
      /\ c \notin DaysOf(k) => Total(DaysOf(k))' = Total(DaysOf(k))
      /\ c \in DaysOf(k) => Total(DaysOf(k))' - Count(c)' = Total(DaysOf(k)) - Count(c)
  BY <1>2, DaysFinite, TotalMoves
<1>6. CASE c \in DaysOf(k)
  BY <1>2, <1>3, <1>4, <1>5, <1>6
<1>7. CASE c \notin DaysOf(k)
  BY <1>3, <1>5, <1>7
<1> QED  BY <1>6, <1>7

\* As long as none can have run out, the days keep their counts.
LEMMA ExpireTally ==
  ASSUME RateTypeOK, RateTypeOK', DaysLast, UseRedis => minute < StartMinute + DayTTL,
         NEW c \in Counters, ExpireCounter(c), NEW k \in Keys
  PROVE  Total(DaysOf(k))' = Total(DaysOf(k))
<1>1. /\ redis[c] # 0 /\ expiresAt[c] <= minute /\ minute \in Nat /\ expiresAt[c] \in Nat
      /\ redis' = [redis EXCEPT ![c] = 0] /\ memory' = memory
      /\ redis \in [Counters -> Nat]
      /\ StartMinute + DayTTL \in Nat
  BY RateAssumption DEF ExpireCounter, RateTypeOK, Windows
<1>2. \A x \in Counters \ {c} : Count(x)' = Count(x)
  BY <1>1 DEF Count
<1>3. CASE UseRedis
  <2>1. c.metric # "rpd"
    BY <1>1, <1>3 DEF DaysLast
  <2>2. c \notin DaysOf(k)
    BY <2>1 DEF DaysOf
  <2> QED  BY <1>2, <2>2, DaysFinite, TotalMoves
<1>4. CASE ~UseRedis
  <2>1. Counts(DaysOf(k), redis', memory') = Counts(DaysOf(k), redis, memory)
    BY <1>1, <1>4 DEF Counts
  <2>2. DaysOf(k)' = DaysOf(k)
    BY DEF DaysOf
  <2> QED  BY <2>1, <2>2, TotalIs
<1> QED  BY <1>3, <1>4

LEMMA StoreTally ==
  ASSUME UNCHANGED <<redis, memory>>, NEW k \in Keys
  PROVE  Total(DaysOf(k))' = Total(DaysOf(k))
BY TotalIs DEF DaysOf

\* Nothing but a count adds to the days: what runs out, a crash and whatever
\* leaves the counters alone lower the totals, if anything.
LEMMA TallyFalls ==
  ASSUME RateTypeOK, RateTypeOK', NEW k \in Keys,
         (\E c \in Counters : ExpireCounter(c)) \/ RateCrash \/ UNCHANGED <<redis, memory>>
  PROVE  /\ Total(DaysOf(k)) \in Nat /\ Total(DaysOf(k))' \in Nat
         /\ Total(DaysOf(k))' <= Total(DaysOf(k))
<1>0. Total(DaysOf(k)) \in Nat
  BY DaysFinite, TotalTypes
<1>1. CASE UNCHANGED <<redis, memory>>
  BY <1>0, <1>1, StoreTally
<1>2. ASSUME NEW c \in Counters, ExpireCounter(c)
      PROVE  Total(DaysOf(k))' \in Nat /\ Total(DaysOf(k))' <= Total(DaysOf(k))
  <2>1. redis' = [redis EXCEPT ![c] = 0] /\ memory' = memory /\ redis \in [Counters -> Nat]
    BY <1>2 DEF ExpireCounter, RateTypeOK
  <2>2. \A x \in Counters \ {c} : Count(x)' = Count(x)
    BY <2>1 DEF Count
  <2>3. Count(c)' <= Count(c) /\ Count(c) \in Nat /\ Count(c)' \in Nat
    BY <2>1, CountTypes DEF Count, RateTypeOK
  <2>4. /\ Total(DaysOf(k))' \in Nat
        /\ c \notin DaysOf(k) => Total(DaysOf(k))' = Total(DaysOf(k))
        /\ c \in DaysOf(k) => Total(DaysOf(k))' - Count(c)' = Total(DaysOf(k)) - Count(c)
    BY <2>2, DaysFinite, TotalMoves
  <2> QED  BY <1>0, <2>3, <2>4
<1>3. CASE RateCrash
  <2>1. CASE UseRedis
    <3>1. Counts(DaysOf(k), redis', memory') = Counts(DaysOf(k), redis, memory)
      BY <1>3, <2>1 DEF RateCrash, Counts
    <3>2. DaysOf(k)' = DaysOf(k)
      BY DEF DaysOf
    <3>3. Total(DaysOf(k))' = Total(DaysOf(k))
      BY <3>1, <3>2, TotalIs
    <3> QED  BY <1>0, <3>3
  <2>2. CASE ~UseRedis
    <3>1. \A c \in Counters : Count(c)' = 0
      BY <1>3, <2>2 DEF RateCrash, Count
    <3>2. Total(DaysOf(k))' = 0
      BY <3>1, DaysFinite, TotalOfZeros DEF DaysOf
    <3> QED  BY <1>0, <3>2
  <2> QED  BY <2>1, <2>2
<1> QED  BY <1>0, <1>1, <1>2, <1>3

\* A count adds one to the days at the most, and that at its third counter.
LEMMA TallyRises ==
  ASSUME RateTypeOK, RateTypeOK', NEW w \in Workers, CountNext(w), NEW k \in Keys
  PROVE  /\ Total(DaysOf(k)) \in Nat /\ Total(DaysOf(k))' \in Nat
         /\ Total(DaysOf(k))' <= Total(DaysOf(k)) + (IF KeyOf[w] = k /\ stage[w].next = 3 THEN 1 ELSE 0)
<1>1. CASE UseRedis => rateUp
  <2>1. /\ Total(DaysOf(k)) \in Nat
        /\ Total(DaysOf(k))' = Total(DaysOf(k)) + (IF KeyOf[w] = k /\ stage[w].next = 3 THEN 1 ELSE 0)
    BY <1>1, CountTally
  <2> QED  BY <2>1
<1>2. CASE UseRedis /\ ~rateUp
  <2>1. UNCHANGED <<redis, memory>>
    BY <1>2, CountMoves DEF increment
  <2>2. Total(DaysOf(k)) \in Nat /\ Total(DaysOf(k))' = Total(DaysOf(k))
    BY <2>1, StoreTally, DaysFinite, TotalTypes
  <2> QED  BY <2>2
<1> QED  BY <1>1, <1>2

LEMMA EmptyTally ==
  ASSUME RateInit, NEW k \in Keys
  PROVE  Total(DaysOf(k)) = 0
<1>1. \A c \in Counters : Count(c) = 0
  BY DEF RateInit, Count
<1> QED  BY <1>1, DaysFinite, TotalOfZeros

LEMMA DaysLastInit == RateInit => DaysLast
BY RateAssumption DEF RateInit, DaysLast, Windows

LEMMA DaysLastTypes ==
  ASSUME RateTypeOK, DaysLast
  PROVE  /\ minute \in Nat /\ minute >= StartMinute /\ StartMinute \in Nat /\ DayTTL \in Nat
         /\ redis \in [Counters -> Nat] /\ expiresAt \in [Counters -> Nat]
BY RateAssumption DEF RateTypeOK, DaysLast, Windows

LEMMA DaysLastWorker ==
  ASSUME RateTypeOK, DaysLast, NEW w \in Workers,
         \/ BeginCheck(w)
         \/ \E limits : CheckCounter(w, limits)
         \/ \E n \in TokenCounts : BeginCount(w, n)
         \/ CountNext(w)
         \/ EndUncounted(w)
  PROVE  DaysLast'
<1>0. /\ minute \in Nat /\ minute >= StartMinute /\ StartMinute \in Nat /\ DayTTL \in Nat
      /\ redis \in [Counters -> Nat] /\ expiresAt \in [Counters -> Nat]
  BY DaysLastTypes
<1>1. CASE CountNext(w)
  <2>1. PICK c \in Counters, n \in Nat : c = CounterAt(w) /\ n = Amount(w, Order[stage[w].next])
    BY <1>1, CountMoves, CounterAtTypes, AmountTypes, OrderLaws
  <2>2. increment(c, n) /\ minute' = minute
    BY <1>1, <2>1, CountMoves
  <2> SUFFICES ASSUME NEW ctr \in Counters, ctr.metric = "rpd", redis'[ctr] # 0
               PROVE  expiresAt'[ctr] >= StartMinute + DayTTL
    BY <1>0, <2>2 DEF DaysLast
  <2>3. CASE UseRedis /\ rateUp /\ c = ctr
    <3>1. expiresAt'[ctr] = minute + TTL(ctr.metric)
      BY <1>0, <2>2, <2>3 DEF increment
    <3>2. TTL(ctr.metric) = DayTTL
      BY DEF TTL
    <3> QED  BY <1>0, <3>1, <3>2
  <2>4. CASE ~(UseRedis /\ rateUp /\ c = ctr)
    <3>1. redis'[ctr] = redis[ctr] /\ expiresAt'[ctr] = expiresAt[ctr]
      BY <1>0, <2>2, <2>4 DEF increment
    <3> QED  BY <3>1 DEF DaysLast
  <2> QED  BY <2>3, <2>4
<1>2. CASE \/ BeginCheck(w)
           \/ \E limits : CheckCounter(w, limits)
           \/ \E n \in TokenCounts : BeginCount(w, n)
           \/ EndUncounted(w)
  <2>1. UNCHANGED <<minute, redis, expiresAt>>
    BY <1>2 DEF BeginCheck, CheckCounter, BeginCount, EndUncounted, storeVars
  <2> QED  BY <2>1 DEF DaysLast
<1> QED  BY <1>1, <1>2

LEMMA DaysLastNext ==
  ASSUME RateTypeOK, DaysLast,
         \/ \E ctr \in Counters : ExpireCounter(ctr)
         \/ Tick \/ RateCrash \/ RateRedisDown \/ RateRedisBack
  PROVE  DaysLast'
<1>0. /\ minute \in Nat /\ minute >= StartMinute /\ StartMinute \in Nat /\ DayTTL \in Nat
      /\ redis \in [Counters -> Nat] /\ expiresAt \in [Counters -> Nat]
  BY DaysLastTypes
<1>1. ASSUME NEW c \in Counters, ExpireCounter(c) PROVE DaysLast'
  <2>1. /\ redis' = [redis EXCEPT ![c] = 0] /\ expiresAt' = [expiresAt EXCEPT ![c] = 0] /\ minute' = minute
    BY <1>1 DEF ExpireCounter
  <2> QED  BY <1>0, <2>1 DEF DaysLast
<1>2. CASE Tick \/ RateCrash \/ RateRedisDown \/ RateRedisBack
  <2>1. UNCHANGED <<redis, expiresAt>> /\ (minute' = minute \/ minute' = minute + 1)
    BY <1>2 DEF Tick, RateCrash, RateRedisDown, RateRedisBack, storeVars
  <2> QED  BY <1>0, <2>1 DEF DaysLast
<1> QED  BY <1>1, <1>2

=============================================================================
