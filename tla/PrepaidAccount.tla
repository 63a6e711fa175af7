--------------------------- MODULE PrepaidAccount ---------------------------
(***************************************************************************)
(* What prepaid billing promises, without locks, copies and queries: an    *)
(* account with funds out of which requests reserve a fee.  A reservation  *)
(* is given back at most once, and only as long as it was not forfeited.   *)
(***************************************************************************)
EXTENDS Integers

CONSTANTS Accounts, Requests,
          AccountOf, \* the account a request draws on
          Fee        \* a positive amount

VARIABLES state,  \* "none", "open" or "closed"
          funds,
          hold    \* "none", "held", "given back" or "forfeited"

vars == <<state, funds, hold>>

Init ==
  /\ state = [k \in Accounts |-> "none"]
  /\ funds = [k \in Accounts |-> 0]
  /\ hold = [r \in Requests |-> "none"]

\* The funds of k become some other amount.
FundsChange(k) == funds'[k] \in Nat /\ funds' = [funds EXCEPT ![k] = funds'[k]]

Open(k) ==
  /\ state[k] = "none"
  /\ state' = [state EXCEPT ![k] = "open"]
  /\ FundsChange(k)
  /\ UNCHANGED hold

Deposit(k) ==
  /\ state[k] = "open"
  /\ FundsChange(k)
  /\ funds'[k] >= funds[k]
  /\ UNCHANGED <<state, hold>>

Close(k) ==
  /\ state[k] = "open"
  /\ state' = [state EXCEPT ![k] = "closed"]
  /\ UNCHANGED <<funds, hold>>

\* An administrator rewrites an account that has existed.
Overwrite(k) ==
  /\ state[k] # "none"
  /\ state' = [state EXCEPT ![k] = "open"]
  /\ FundsChange(k)
  /\ UNCHANGED hold

Reserve(r) ==
  /\ hold[r] = "none"
  /\ state[AccountOf[r]] = "open"
  /\ funds[AccountOf[r]] >= Fee
  /\ funds' = [funds EXCEPT ![AccountOf[r]] = @ - Fee]
  /\ hold' = [hold EXCEPT ![r] = "held"]
  /\ UNCHANGED state

GiveBack(r) ==
  /\ hold[r] = "held"
  /\ hold' = [hold EXCEPT ![r] = "given back"]
  /\ funds' = IF state[AccountOf[r]] = "open"
                THEN [funds EXCEPT ![AccountOf[r]] = @ + Fee] ELSE funds
  /\ UNCHANGED state

Forfeit(R) ==
  /\ R # {}
  /\ \A r \in R : hold[r] = "held"
  /\ hold' = [r \in Requests |-> IF r \in R THEN "forfeited" ELSE hold[r]]
  /\ UNCHANGED <<state, funds>>

Next ==
  \/ \E k \in Accounts : Open(k) \/ Deposit(k) \/ Close(k) \/ Overwrite(k)
  \/ \E r \in Requests : Reserve(r) \/ GiveBack(r)
  \/ \E R \in SUBSET Requests : Forfeit(R)

Spec == Init /\ [][Next]_vars

=============================================================================
