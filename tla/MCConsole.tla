----------------------------- MODULE MCConsole -----------------------------
(* Console on small instances: constants for TLC.                          *)
EXTENDS Console, TLC

CONSTANTS p1, p2, t1, t2, b1, b2, bob, k1, k2, ch1

MCWorkload == <<[key |-> k1, input |-> 1, output |-> 1, cost |-> 1],
                [key |-> k2, input |-> 0, output |-> 2, cost |-> 0],
                [key |-> k1, input |-> 1, output |-> 0, cost |-> 2]>>

Table(admin, root, other) ==
  [n \in Users |-> CASE n = Admin -> admin [] n = Root -> root [] OTHER -> other]

Row(state, by) == [state |-> state, by |-> by]

Budget(s, n, q, c, e, d) ==
  [starts |-> s, entries |-> n, queries |-> q, crashes |-> c, edits |-> e, days |-> d]

Apart == {tabs \in [Clients -> Browsers] : tabs[t1] # tabs[t2]}

Together == [Clients -> Browsers] \ Apart

Situation(table, tabs, budget) ==
  [table |-> table, tabs |-> tabs, budget |-> budget, switches |-> 0, traffic |-> 0, visits |-> 0]

\* Two people: processes start on an empty database and on one whose admin
\* account an operator removed; they crash, queries fail, an operator edits
\* accounts, and a day passes.
Deploying ==
  LET empty == Table(NoRecord, NoRecord, NoRecord)
  IN  {Situation(empty, tabs, Budget(3, 4, 1, 1, 0, 0)) : tabs \in Apart}
        \cup {Situation(empty, tabs, Budget(2, 4, 0, 1, 1, 1)) : tabs \in Apart}
        \cup {Situation(Table(Row("deleted", Startup), NoRecord, NoRecord), tabs,
                        Budget(3, 4, 1, 1, 0, 0)) : tabs \in Apart}

\* Statistics are read while logs arrive, keys are switched, a query fails and
\* a day ends; all names but one are used up, so that one person logs in.
Watching ==
  UNION {LET start == Situation(Table(Row("active", Startup), Row("deleted", Startup), Row("deleted", tabs[t1])),
                                tabs, Budget(1, 1, 0, 0, 0, 0))
         IN  {[start EXCEPT !.switches = 2, !.traffic = 1, !.visits = 2, !.budget.queries = 1],
              [start EXCEPT !.traffic = 2, !.visits = 3, !.budget.days = 1],
              [start EXCEPT !.traffic = 3, !.visits = 4]} : tabs \in Apart}

\* One person with two tabs that share their tokens, of which one logs in,
\* refreshes or is refused while the other waits.
Sharing ==
  {Situation(Table(Row("active", Startup), Row("active", Startup), NoRecord), tabs,
             Budget(2, 3, 1, 0, 1, 1)) : tabs \in Together}

MCSituations == Deploying \cup Watching \cup Sharing

Symmetry == Permutations({p1, p2}) \cup Permutations({t1, t2}) \cup Permutations({b1, b2})

=============================================================================
