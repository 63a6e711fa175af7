SPECIFICATION RateSpec

CONSTANTS
  Keys = {k1}
  Workers = {w1, w2}
  KeyOf <- OneKey
  LimitsOf <- SmallLimits
  TokenCounts = {2}
  MaxTokens = 2
  MinutesPerDay = 2
  UseRedis = TRUE
  MinuteTTL = 1
  DayTTL = 3
  StartMinute = 1
  MaxMinute = 2
  MaxFaults = 1
  MaxAnswers = 3
  k1 = k1
  w1 = w1
  w2 = w2
  w3 = w3

INVARIANT OvershootBounded
INVARIANT CounterExact
INVARIANT DayCoversMinutes
SYMMETRY Symmetry
