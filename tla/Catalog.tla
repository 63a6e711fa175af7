------------------------------ MODULE Catalog ------------------------------
(***************************************************************************)
(* Provider channels and the models they serve, as administrators edit     *)
(* them (handler and service channel.go and model.go) and as the proxy     *)
(* looks them up (the repositories).  Creating a channel checks its name   *)
(* in one query and inserts it in a later one; updates read a row and save *)
(* all of it later; deletes are soft.  URLs, provider keys and display     *)
(* names are left out: a channel id stands for them.                       *)
(***************************************************************************)
EXTENDS Integers, FiniteSets

CONSTANTS Channels,    \* row ids of channels
          ModelRows,   \* row ids of models
          Names,       \* channel names
          ModelIDs,    \* names such as gpt-4o, which rows of several channels share
          Priorities,  \* a lower value is preferred
          Prices,      \* of the tokens of a model
          Editors,     \* concurrent administrator requests
          LookupMayFail, \* may the lookup of a channel's name fail?
          NoEdit,      \* an administrator between two requests
          NoRow        \* an id the table has no row for

Kinds == {"openai", "anthropic", "gemini"}

ChannelRequests == [name : Names, kind : Kinds, priority : Priorities, active : BOOLEAN]

ModelRequests == [channel : Channels, modelID : ModelIDs, price : Prices, active : BOOLEAN]

\* A row is what a request wrote and whether it is soft-deleted.
ChannelTable == [deleted : BOOLEAN, is : ChannelRequests] \cup {NoRow}

ModelTable == [deleted : BOOLEAN, is : ModelRequests] \cup {NoRow}

ASSUME CatalogAssumption ==
  /\ LookupMayFail \in BOOLEAN
  /\ ModelRows \subseteq Nat
  /\ Priorities \subseteq Int
  /\ Prices \subseteq [input : Nat, output : Nat]
  /\ NoRow \notin Channels \cup ModelRows \cup [deleted : BOOLEAN, is : ChannelRequests \cup ModelRequests]

VARIABLES channel, \* the channels table
          model,   \* the models table
          edit     \* what each administrator has read or checked and not yet written

catalogVars == <<channel, model, edit>>

Edits == [table : {"new channel"}, is : ChannelRequests]
           \cup [table : {"channel"}, id : Channels, is : ChannelRequests]
           \cup [table : {"model"}, id : ModelRows, is : ModelRequests]

CatalogTypeOK ==
  /\ channel \in [Channels -> ChannelTable]
  /\ model \in [ModelRows -> ModelTable]
  /\ edit \in [Editors -> Edits \cup {NoEdit}]

CatalogInit ==
  /\ channel = [i \in Channels |-> NoRow]
  /\ model = [m \in ModelRows |-> NoRow]
  /\ edit = [e \in Editors |-> NoEdit]

-----------------------------------------------------------------------------
(* Queries.                                                                *)

LiveRow(r) == r # NoRow /\ ~r.deleted

ActiveChannel(i) == LiveRow(channel[i]) /\ channel[i].is.active

\* GetByModelID: First takes the lowest id, whether the row is active or not.
GetByModelID(id) ==
  LET found == {m \in ModelRows : LiveRow(model[m]) /\ model[m].is.modelID = id}
  IN  IF found = {} THEN NoRow ELSE CHOOSE m \in found : \A n \in found : m <= n

\* The JOIN is written by hand: it sees the models that were deleted, too.
Joined(i, id) == {m \in ModelRows :
  model[m] # NoRow /\ model[m].is.active /\ model[m].is.channel = i /\ model[m].is.modelID = id}

GetAvailableByModel(id) == {i \in Channels : ActiveChannel(i) /\ Joined(i, id) # {}}

\* channels[0]: the database may return equal priorities in any order.
FirstChannels(available) ==
  {i \in available : \A j \in available : channel[i].is.priority <= channel[j].is.priority}

\* Active Gemini channels, in no particular order.
ListActiveGemini == {i \in Channels : ActiveChannel(i) /\ channel[i].is.kind = "gemini"}

\* Mutant of NameFree: the index covers live channels only.
LiveNameFree(name, others) == \A i \in others : LiveRow(channel[i]) => channel[i].is.name # name

\* The unique index covers the names of deleted channels as well.
NameFree(name, others) == \A i \in others : channel[i] # NoRow => channel[i].is.name # name

\* gorm stores is_active = false as the column's default on every insert.
Inserted(req) == [deleted |-> FALSE, is |-> [req EXCEPT !.active = TRUE]]

\* Mutant of Saved: the columns are written as they are.
SavedAsIs(r, req) == [deleted |-> FALSE, is |-> req]

\* gorm's Save updates a live row, and re-inserts over a deleted one.
Saved(r, req) == IF LiveRow(r) THEN [deleted |-> FALSE, is |-> req] ELSE Inserted(req)

-----------------------------------------------------------------------------
(* Channels.                                                               *)

Editing(e, table) == edit[e] # NoEdit /\ edit[e].table = table

Finish(e) == edit' = [edit EXCEPT ![e] = NoEdit]

\* service.Create looks for a live channel of that name, and takes a lookup
\* that fails for one that finds none ...
CheckName(e, req) ==
  /\ edit[e] = NoEdit
  /\ (\E i \in Channels : LiveRow(channel[i]) /\ channel[i].is.name = req.name) => LookupMayFail
  /\ edit' = [edit EXCEPT ![e] = [table |-> "new channel", is |-> req]]
  /\ UNCHANGED <<channel, model>>

\* ... and inserts, which the unique index may refuse.
InsertChannel(e, i) ==
  /\ Editing(e, "new channel")
  /\ channel[i] = NoRow
  /\ channel' = IF NameFree(edit[e].is.name, Channels)
                  THEN [channel EXCEPT ![i] = Inserted(edit[e].is)] ELSE channel
  /\ Finish(e)
  /\ UNCHANGED model

\* Mutant of Merged: a name that is left out is taken over, too.
MergedBlank(i, req) == {[req EXCEPT !.name = NoRow]}

\* Name and type may be left out of the body; priority and is_active are
\* taken from it even then.
Merged(i, req) ==
  {[req EXCEPT !.name = name, !.kind = kind] :
     name \in {req.name, channel[i].is.name}, kind \in {req.kind, channel[i].is.kind}}

LoadChannel(e, i, req) ==
  /\ edit[e] = NoEdit
  /\ LiveRow(channel[i])
  /\ \E r \in Merged(i, req) : edit' = [edit EXCEPT ![e] = [table |-> "channel", id |-> i, is |-> r]]
  /\ UNCHANGED <<channel, model>>

SaveChannel(e) ==
  /\ Editing(e, "channel")
  /\ LET i == edit[e].id
     IN  channel' = IF NameFree(edit[e].is.name, Channels \ {i})
                      THEN [channel EXCEPT ![i] = Saved(@, edit[e].is)] ELSE channel
  /\ Finish(e)
  /\ UNCHANGED model

DeleteChannel(i) ==
  /\ LiveRow(channel[i])
  /\ channel' = [channel EXCEPT ![i].deleted = TRUE]
  /\ UNCHANGED <<model, edit>>

-----------------------------------------------------------------------------
(* Models.                                                                 *)

\* Ids are handed out in order.  A foreign key asks for the channel's row,
\* which a soft delete leaves in the table.
CreateModel(m, req) ==
  /\ model[m] = NoRow
  /\ \A n \in ModelRows : n < m => model[n] # NoRow
  /\ channel[req.channel] # NoRow
  /\ model' = [model EXCEPT ![m] = Inserted(req)]
  /\ UNCHANGED <<channel, edit>>

LoadModel(e, m, req) ==
  /\ edit[e] = NoEdit
  /\ LiveRow(model[m])
  /\ edit' = [edit EXCEPT ![e] = [table |-> "model", id |-> m,
                is |-> [model[m].is EXCEPT !.price = req.price, !.active = req.active]]]
  /\ UNCHANGED <<channel, model>>

SaveModel(e) ==
  /\ Editing(e, "model")
  /\ model' = [model EXCEPT ![edit[e].id] = Saved(@, edit[e].is)]
  /\ Finish(e)
  /\ UNCHANGED channel

DeleteModel(m) ==
  /\ LiveRow(model[m])
  /\ model' = [model EXCEPT ![m].deleted = TRUE]
  /\ UNCHANGED <<channel, edit>>

CatalogNext ==
  \/ \E e \in Editors, req \in ChannelRequests : CheckName(e, req)
  \/ \E e \in Editors, i \in Channels : InsertChannel(e, i)
  \/ \E e \in Editors, i \in Channels, req \in ChannelRequests : LoadChannel(e, i, req)
  \/ \E e \in Editors : SaveChannel(e)
  \/ \E i \in Channels : DeleteChannel(i)
  \/ \E m \in ModelRows, req \in ModelRequests : CreateModel(m, req)
  \/ \E e \in Editors, m \in ModelRows, req \in ModelRequests : LoadModel(e, m, req)
  \/ \E e \in Editors : SaveModel(e)
  \/ \E m \in ModelRows : DeleteModel(m)

CatalogSpec == CatalogInit /\ [][CatalogNext]_catalogVars

-----------------------------------------------------------------------------
(* Properties.                                                             *)

\* Channel names stay unique, deleted channels included, when two
\* administrators create or rename channels at the same time and when a stale
\* update revives one: Create's own check cannot see to that, and Update has
\* none (service/channel.go).
NamesUnique ==
  \A i, j \in Channels : i # j /\ channel[i] # NoRow /\ channel[j] # NoRow =>
    channel[i].is.name # channel[j].is.name

\* A row that was deleted comes back only through an update that had read it
\* before, and then it is active, whatever that update asked for; no create,
\* and no edit of another row, revives it (Update in both handlers).
RevivedActive ==
  [][/\ \A i \in Channels : channel[i] # NoRow /\ channel[i].deleted /\ ~channel'[i].deleted =>
          /\ channel'[i].is.active
          /\ \E e \in Editors : Editing(e, "channel") /\ edit[e].id = i
     /\ \A m \in ModelRows : model[m] # NoRow /\ model[m].deleted /\ ~model'[m].deleted =>
          /\ model'[m].is.active
          /\ \E e \in Editors : Editing(e, "model") /\ edit[e].id = m]_catalogVars

\* "Define pricing and availability for each model": a channel is available
\* for a model that can be asked for only through a row that says so and that
\* is still there (GetAvailableByModel, repository/channel.go).
AvailableAsDefined ==
  \A id \in ModelIDs : GetByModelID(id) # NoRow =>
    \A i \in GetAvailableByModel(id) : \E m \in Joined(i, id) : LiveRow(model[m])

=============================================================================
