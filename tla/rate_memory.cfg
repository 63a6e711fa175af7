SPECIFICATION RateSpec

CONSTANTS
  Keys = {k1}
  Workers = {w1, w2}
  KeyOf <- OneKey
  LimitsOf <- SmallLimits
  TokenCounts = {0, 2}
  MaxTokens = 2
  MinutesPerDay = 2
  UseRedis = FALSE
  MinuteTTL = 2
  DayTTL = 3
  StartMinute = 0
  MaxMinute = 2
  MaxFaults = 1
  MaxAnswers = 4
  k1 = k1
  w1 = w1
  w2 = w2
  w3 = w3

INVARIANT RateTypeOK
INVARIANT OvershootBounded
INVARIANT CounterExact
INVARIANT DayCoversMinutes
SYMMETRY Symmetry
