------------------------------ MODULE APIKeys ------------------------------
(***************************************************************************)
(* The table of tenant API keys and the administrator operations on it:    *)
(* handler/apikey.go over repository/apikey.go.  A row is soft-deleted, so *)
(* it stays in the table; an update reads the row in one query and writes  *)
(* the whole row back in a later one.                                      *)
(*                                                                         *)
(* Amounts of money are natural numbers of some smallest unit.             *)
(***************************************************************************)
EXTENDS Integers, FiniteSets

CONSTANTS Keys,           \* row ids the database hands out
          Admins,         \* concurrent PUT /admin/keys/:id requests
          NoDraft,        \* an administrator who has loaded no row
          DefaultLimits,  \* 60, 100000, 10000, 1000000 in the code
          CreateRequests, \* bodies of POST /admin/keys
          UpdateRequests, \* bodies of PUT /admin/keys/:id
          Recharges,      \* amounts of POST /admin/keys/:id/recharge
          MaxDeposits     \* bound on what is ever paid into one key

Metrics == {"rpm", "tpm", "rpd", "tpd"}

Limits == [Metrics -> Nat \ {0}]

\* A limit of 0 in a request body is a field that was left out.
RequestLimits == [Metrics -> Nat]

ASSUME LimitsAssumption == DefaultLimits \in Limits

\* The console's forms send no negative numbers; the handlers do not check.
ASSUME RequestsAssumption ==
  /\ CreateRequests \subseteq [balance : Nat, limits : RequestLimits, active : BOOLEAN]
  /\ UpdateRequests \subseteq [limits : RequestLimits, active : BOOLEAN]
  /\ Recharges \subseteq Nat \ {0}

LiveRows == [status : {"live"}, balance : Int, limits : Limits, active : BOOLEAN]

Drafts == [key : Keys, copy : LiveRows]

ASSUME AdminsAssumption == NoDraft \notin Drafts

VARIABLES row,       \* the table
          draft,     \* what each administrator's update has read and merged
          deposited, \* history: what was ever paid into a key
          clobbered  \* history: keys whose money a save has overwritten

keysVars == <<row, draft, deposited, clobbered>>

Rows == [status : {"absent", "live", "deleted"}, balance : Int,
         limits : Limits, active : BOOLEAN]

KeysTypeOK ==
  /\ row \in [Keys -> Rows]
  /\ draft \in [Admins -> Drafts \cup {NoDraft}]
  /\ deposited \in [Keys -> Nat]
  /\ clobbered \subseteq Keys

Absent == [status |-> "absent", balance |-> 0, limits |-> DefaultLimits, active |-> FALSE]

KeysInit ==
  /\ row = [k \in Keys |-> Absent]
  /\ draft = [a \in Admins |-> NoDraft]
  /\ deposited = [k \in Keys |-> 0]
  /\ clobbered = {}

Live(k) == row[k].status = "live"

-----------------------------------------------------------------------------
(* The repository's queries.                                               *)

\* Mutant of Recharge: it reaches soft-deleted rows.
RechargeUnscoped(k, amount) == [row EXCEPT ![k].balance = @ + amount]

\* UPDATE ... SET balance = balance + ? WHERE id = ? AND deleted_at IS NULL:
\* no matching row is no error.
Recharge(k, amount) ==
  IF Live(k) THEN [row EXCEPT ![k].balance = @ + amount] ELSE row

\* Mutant of Sufficient: DeductBalance without its condition on the balance.
SufficientIfLive(k, amount) == Live(k)

\* DeductBalance touches a row only WHERE balance >= amount.
Sufficient(k, amount) == Live(k) /\ row[k].balance >= amount

DeductBalance(k, amount) ==
  IF Sufficient(k, amount) THEN [row EXCEPT ![k].balance = @ - amount] ELSE row

\* Mutant of WithDefaults: a limit that is left out stays 0.
WithoutDefaults(limits) == limits

\* Zero limits are replaced, by Create in the handler and by gorm on insert.
WithDefaults(limits) ==
  [m \in Metrics |-> IF limits[m] = 0 THEN DefaultLimits[m] ELSE limits[m]]

\* gorm inserts the column default for a zero field that has one, so an
\* inserted key is active whatever IsActive says.
OnInsert(r) == [r EXCEPT !.active = TRUE, !.limits = WithDefaults(@)]

\* gorm's Save updates every column of a live row; when no live row matches
\* it inserts, and ON CONFLICT (id) overwrites the soft-deleted row.
Save(k, copy) == [row EXCEPT ![k] = IF Live(k) THEN copy ELSE OnInsert(copy)]

\* UpdateKeyRequest merged into the row that was read: limits that were left
\* out stay, is_active is always taken from the request.
Merge(r, req) ==
  [r EXCEPT !.active = req.active,
            !.limits = [m \in Metrics |-> IF req.limits[m] > 0 THEN req.limits[m] ELSE @[m]]]

-----------------------------------------------------------------------------
(* The administrator's requests.                                           *)

CreateKey(k, req) ==
  /\ row[k].status = "absent"
  /\ row' = [row EXCEPT ![k] = OnInsert([status |-> "live", balance |-> req.balance,
                                         limits |-> req.limits, active |-> req.active])]
  /\ deposited' = [deposited EXCEPT ![k] = req.balance]
  /\ UNCHANGED <<draft, clobbered>>

RechargeKey(k, amount) ==
  /\ row[k].status # "absent"
  /\ deposited[k] + amount <= MaxDeposits
  /\ row' = Recharge(k, amount)
  /\ deposited' = IF Live(k) THEN [deposited EXCEPT ![k] = @ + amount] ELSE deposited
  /\ UNCHANGED <<draft, clobbered>>

DeleteKey(k) ==
  /\ Live(k)
  /\ row' = [row EXCEPT ![k].status = "deleted"]
  /\ UNCHANGED <<draft, deposited, clobbered>>

UpdateLoad(a, k, req) ==
  /\ draft[a] = NoDraft
  /\ Live(k)
  /\ draft' = [draft EXCEPT ![a] = [key |-> k, copy |-> Merge(row[k], req)]]
  /\ UNCHANGED <<row, deposited, clobbered>>

UpdateSave(a) ==
  /\ draft[a] # NoDraft
  /\ LET k == draft[a].key
         copy == draft[a].copy
     IN  /\ row' = Save(k, copy)
         /\ clobbered' = IF Live(k) /\ copy.balance = row[k].balance
                           THEN clobbered ELSE clobbered \cup {k}
  /\ draft' = [draft EXCEPT ![a] = NoDraft]
  /\ UNCHANGED deposited

KeysNext ==
  \/ \E k \in Keys, req \in CreateRequests : CreateKey(k, req)
  \/ \E k \in Keys, amount \in Recharges : RechargeKey(k, amount)
  \/ \E k \in Keys : DeleteKey(k)
  \/ \E a \in Admins, k \in Keys, req \in UpdateRequests : UpdateLoad(a, k, req)
  \/ \E a \in Admins : UpdateSave(a)

=============================================================================
