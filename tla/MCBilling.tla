----------------------------- MODULE MCBilling -----------------------------
(* Billing on small instances: constants for TLC.                          *)
EXTENDS Billing

CONSTANTS k1, c1, c2, c3

Small(n) == [m \in Metrics |-> n]

MCDefaultLimits == Small(2)

\* A body that sets nothing but the balance, and one that sets no balance.
MCCreateRequests == {[balance |-> 2, limits |-> Small(0), active |-> TRUE],
                     [balance |-> 0, limits |-> Small(1), active |-> FALSE]}

\* One update switches the key off, the other on with smaller limits.
MCUpdateRequests == {[limits |-> Small(0), active |-> FALSE],
                     [limits |-> Small(1), active |-> TRUE]}

MCUsages == {[input |-> 1, output |-> 1, total |-> 2]}

\* Every request presents the same key.
OneKey == [c \in Callers |-> k1]

=============================================================================
