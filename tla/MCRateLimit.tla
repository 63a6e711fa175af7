---------------------------- MODULE MCRateLimit ----------------------------
(* RateLimit on small instances: constants for TLC.                        *)
EXTENDS RateLimit, TLC

CONSTANTS k1, w1, w2, w3

OneKey == [w \in Workers |-> k1]

\* One request a minute, two a day; tokens in some large unit.
SmallLimits == [k \in Keys |-> [rpm |-> 1, tpm |-> 2, rpd |-> 2, tpd |-> 3]]

Symmetry == Permutations(Workers)

=============================================================================
