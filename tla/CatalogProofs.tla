--------------------------- MODULE CatalogProofs ---------------------------
(***************************************************************************)
(* Proofs about Catalog, for any channels, models, names and concurrent    *)
(* administrators.                                                         *)
(***************************************************************************)
EXTENDS Catalog, TLAPS

-----------------------------------------------------------------------------
(* Rows.                                                                   *)

\* A row that is inserted, or saved over another, is live and well formed; over
\* a deleted row it is active, too.
LEMMA ChannelRows ==
  ASSUME NEW req \in ChannelRequests
  PROVE  /\ Inserted(req) \in ChannelTable \ {NoRow}
         /\ Inserted(req).is.name = req.name
         /\ Inserted(req).is.active
         /\ \A r : Saved(r, req) \in ChannelTable \ {NoRow} /\ Saved(r, req).is.name = req.name
<1> DEFINE active == [req EXCEPT !.active = TRUE]
<1>1. active \in ChannelRequests /\ active.name = req.name /\ active.active
  BY Zenon DEF ChannelRequests
<1>2. Inserted(req) = [deleted |-> FALSE, is |-> active]
  BY DEF Inserted
<1> HIDE DEF active
<1>3. \A q \in ChannelRequests : [deleted |-> FALSE, is |-> q] \in [deleted : BOOLEAN, is : ChannelRequests]
  OBVIOUS
<1>4. \A r \in [deleted : BOOLEAN, is : ChannelRequests] : r \in ChannelTable \ {NoRow}
  BY CatalogAssumption DEF ChannelTable
<1>5. Inserted(req) \in ChannelTable \ {NoRow}
  BY <1>1, <1>2, <1>3, <1>4, Zenon
<1>7. Inserted(req).is = active
  <2>1. [deleted |-> FALSE, is |-> active].is = active
    BY Zenon
  <2> QED  BY <1>2, <2>1
<1>6. \A r : Saved(r, req) = [deleted |-> FALSE, is |-> req] \/ Saved(r, req) = Inserted(req)
  BY DEF Saved
<1>8. [deleted |-> FALSE, is |-> req] \in ChannelTable \ {NoRow}
  BY <1>3, <1>4, Zenon
<1>9. [deleted |-> FALSE, is |-> req].is = req
  BY Zenon
<1> QED  BY <1>1, <1>5, <1>6, <1>7, <1>8, <1>9, Zenon

LEMMA ModelRowsTyped ==
  ASSUME NEW req \in ModelRequests
  PROVE  /\ Inserted(req) \in ModelTable \ {NoRow}
         /\ Inserted(req).is.active
         /\ \A r : Saved(r, req) \in ModelTable \ {NoRow}
<1> DEFINE active == [req EXCEPT !.active = TRUE]
<1>1. active \in ModelRequests /\ active.active
  BY Zenon DEF ModelRequests
<1>2. Inserted(req) = [deleted |-> FALSE, is |-> active]
  BY DEF Inserted
<1> HIDE DEF active
<1>3. \A q \in ModelRequests : [deleted |-> FALSE, is |-> q] \in [deleted : BOOLEAN, is : ModelRequests]
  OBVIOUS
<1>4. \A r \in [deleted : BOOLEAN, is : ModelRequests] : r \in ModelTable \ {NoRow}
  BY CatalogAssumption DEF ModelTable
<1>5. Inserted(req) \in ModelTable \ {NoRow}
  BY <1>1, <1>2, <1>3, <1>4, Zenon
<1>7. Inserted(req).is = active
  <2>1. [deleted |-> FALSE, is |-> active].is = active
    BY Zenon
  <2> QED  BY <1>2, <2>1
<1>6. \A r : Saved(r, req) = [deleted |-> FALSE, is |-> req] \/ Saved(r, req) = Inserted(req)
  BY DEF Saved
<1>8. [deleted |-> FALSE, is |-> req] \in ModelTable \ {NoRow}
  BY <1>3, <1>4, Zenon
<1>9. [deleted |-> FALSE, is |-> req].is = req
  BY Zenon
<1> QED  BY <1>1, <1>5, <1>6, <1>7, <1>8, <1>9, Zenon

\* What an administrator has in hand is a request for the table it goes to.
LEMMA EditTypes ==
  ASSUME CatalogTypeOK, NEW e \in Editors
  PROVE  /\ Editing(e, "new channel") => edit[e].is \in ChannelRequests
         /\ Editing(e, "channel") => edit[e].id \in Channels /\ edit[e].is \in ChannelRequests
         /\ Editing(e, "model") => edit[e].id \in ModelRows /\ edit[e].is \in ModelRequests
BY DEF CatalogTypeOK, Editing, Edits

\* A body with fields left out, completed from the row, is still a request.
LEMMA MergedTypes ==
  ASSUME CatalogTypeOK, NEW i \in Channels, LiveRow(channel[i]), NEW req \in ChannelRequests,
         NEW r \in Merged(i, req)
  PROVE  r \in ChannelRequests
<1>1. channel[i].is \in ChannelRequests
  BY DEF CatalogTypeOK, LiveRow, ChannelTable
<1>2. PICK name \in {req.name, channel[i].is.name}, kind \in {req.kind, channel[i].is.kind} :
        r = [req EXCEPT !.name = name, !.kind = kind]
  BY DEF Merged
<1>3. name \in Names /\ kind \in Kinds
  BY <1>1 DEF ChannelRequests
<1> QED  BY <1>2, <1>3, Zenon DEF ChannelRequests

-----------------------------------------------------------------------------
(* Type correctness.                                                       *)

LEMMA CatalogTypeInit == CatalogInit => CatalogTypeOK
BY DEF CatalogInit, CatalogTypeOK, ChannelTable, ModelTable

LEMMA CatalogTypeNext ==
  ASSUME CatalogTypeOK, [CatalogNext]_catalogVars
  PROVE  CatalogTypeOK'
<1> USE DEF CatalogTypeOK
<1>1. ASSUME NEW e \in Editors, NEW req \in ChannelRequests, CheckName(e, req)
      PROVE  CatalogTypeOK'
  <2>1. [table |-> "new channel", is |-> req] \in Edits
    BY DEF Edits
  <2> QED  BY <1>1, <2>1 DEF CheckName
<1>2. ASSUME NEW e \in Editors, NEW i \in Channels, InsertChannel(e, i) PROVE CatalogTypeOK'
  BY <1>2, EditTypes, ChannelRows DEF InsertChannel, Finish
<1>3. ASSUME NEW e \in Editors, NEW i \in Channels, NEW req \in ChannelRequests,
             LoadChannel(e, i, req)
      PROVE  CatalogTypeOK'
  <2>1. PICK r \in Merged(i, req) :
          edit' = [edit EXCEPT ![e] = [table |-> "channel", id |-> i, is |-> r]]
    BY <1>3 DEF LoadChannel
  <2>2. [table |-> "channel", id |-> i, is |-> r] \in Edits
    BY <1>3, MergedTypes DEF LoadChannel, Edits
  <2> QED  BY <1>3, <2>1, <2>2 DEF LoadChannel
<1>4. ASSUME NEW e \in Editors, SaveChannel(e) PROVE CatalogTypeOK'
  BY <1>4, EditTypes, ChannelRows DEF SaveChannel, Finish
<1>5. ASSUME NEW i \in Channels, DeleteChannel(i) PROVE CatalogTypeOK'
  <2>1. [channel[i] EXCEPT !.deleted = TRUE] \in ChannelTable
    BY <1>5 DEF DeleteChannel, LiveRow, ChannelTable
  <2> QED  BY <1>5, <2>1 DEF DeleteChannel
<1>6. ASSUME NEW m \in ModelRows, NEW req \in ModelRequests, CreateModel(m, req)
      PROVE  CatalogTypeOK'
  BY <1>6, ModelRowsTyped DEF CreateModel
<1>7. ASSUME NEW e \in Editors, NEW m \in ModelRows, NEW req \in ModelRequests,
             LoadModel(e, m, req)
      PROVE  CatalogTypeOK'
  <2>1. [model[m].is EXCEPT !.price = req.price, !.active = req.active] \in ModelRequests
    <3>1. model[m].is \in ModelRequests
      BY <1>7 DEF LoadModel, LiveRow, ModelTable
    <3>2. req.price \in Prices /\ req.active \in BOOLEAN
      BY DEF ModelRequests
    <3> QED  BY <3>1, <3>2, Zenon DEF ModelRequests
  <2>2. [table |-> "model", id |-> m,
         is |-> [model[m].is EXCEPT !.price = req.price, !.active = req.active]] \in Edits
    BY <2>1 DEF Edits
  <2> QED  BY <1>7, <2>2 DEF LoadModel
<1>8. ASSUME NEW e \in Editors, SaveModel(e) PROVE CatalogTypeOK'
  BY <1>8, EditTypes, ModelRowsTyped DEF SaveModel, Finish
<1>9. ASSUME NEW m \in ModelRows, DeleteModel(m) PROVE CatalogTypeOK'
  <2>1. [model[m] EXCEPT !.deleted = TRUE] \in ModelTable
    BY <1>9 DEF DeleteModel, LiveRow, ModelTable
  <2> QED  BY <1>9, <2>1 DEF DeleteModel
<1>10. CASE UNCHANGED catalogVars
  BY <1>10 DEF catalogVars
<1> HIDE DEF CatalogTypeOK
<1> QED
  BY <1>1, <1>2, <1>3, <1>4, <1>5, <1>6, <1>7, <1>8, <1>9, <1>10 DEF CatalogNext

\* The tables hold rows of their own kind and every administrator works on a
\* request of the table it was read for, through creates, stale saves, revived
\* rows and deletes.
THEOREM CatalogTypeCorrect == CatalogSpec => []CatalogTypeOK
BY CatalogTypeInit, CatalogTypeNext, PTL DEF CatalogSpec

-----------------------------------------------------------------------------
(* Channel names.                                                          *)

LEMMA NamesInit == CatalogInit => NamesUnique
BY DEF CatalogInit, NamesUnique

\* Writing a row whose name no other row has keeps the names apart.
LEMMA WriteUnique ==
  ASSUME NamesUnique, CatalogTypeOK, NEW i \in Channels, NEW r,
         NameFree(r.is.name, Channels \ {i}), channel' = [channel EXCEPT ![i] = r]
  PROVE  NamesUnique'
BY DEF NamesUnique, CatalogTypeOK, NameFree

LEMMA NamesNext ==
  ASSUME CatalogTypeOK, NamesUnique, [CatalogNext]_catalogVars
  PROVE  NamesUnique'
<1>1. ASSUME NEW e \in Editors, NEW i \in Channels, InsertChannel(e, i) PROVE NamesUnique'
  <2>1. CASE UNCHANGED channel
    BY <2>1 DEF NamesUnique
  <2>2. CASE /\ NameFree(edit[e].is.name, Channels)
             /\ channel' = [channel EXCEPT ![i] = Inserted(edit[e].is)]
    <3>1. edit[e].is \in ChannelRequests
      BY <1>1, EditTypes DEF InsertChannel
    <3>2. Inserted(edit[e].is).is.name = edit[e].is.name
      BY <3>1, ChannelRows
    <3>3. NameFree(edit[e].is.name, Channels \ {i})
      BY <2>2 DEF NameFree
    <3> QED  BY <2>2, <3>2, <3>3, WriteUnique
  <2> QED  BY <1>1, <2>1, <2>2 DEF InsertChannel
<1>2. ASSUME NEW e \in Editors, SaveChannel(e) PROVE NamesUnique'
  <2>0. PICK i \in Channels : i = edit[e].id
    BY <1>2, EditTypes DEF SaveChannel
  <2>1. CASE UNCHANGED channel
    BY <2>1 DEF NamesUnique
  <2>2. CASE /\ NameFree(edit[e].is.name, Channels \ {i})
             /\ channel' = [channel EXCEPT ![i] = Saved(channel[i], edit[e].is)]
    <3>1. edit[e].is \in ChannelRequests
      BY <1>2, EditTypes DEF SaveChannel
    <3>2. Saved(channel[i], edit[e].is).is.name = edit[e].is.name
      BY <3>1, ChannelRows
    <3> QED  BY <2>2, <3>2, WriteUnique
  <2> QED  BY <1>2, <2>0, <2>1, <2>2 DEF SaveChannel
<1>3. ASSUME NEW i \in Channels, DeleteChannel(i) PROVE NamesUnique'
  <2>1. /\ channel[i] # NoRow
        /\ channel'[i].is = channel[i].is
        /\ \A j \in Channels \ {i} : channel'[j] = channel[j]
    BY <1>3 DEF DeleteChannel, LiveRow, CatalogTypeOK, ChannelTable
  <2> QED  BY <2>1 DEF NamesUnique
<1>4. CASE UNCHANGED channel
  BY <1>4 DEF NamesUnique
<1> QED
  BY <1>1, <1>2, <1>3, <1>4
  DEF CatalogNext, CheckName, LoadChannel, CreateModel, LoadModel, SaveModel, DeleteModel,
      catalogVars

\* No two channels, deleted ones included, ever share a name, although the check
\* and the insert are two queries and an update checks nothing.
THEOREM ChannelNamesUnique == CatalogSpec => []NamesUnique
<1>1. CatalogInit => CatalogTypeOK /\ NamesUnique
  BY CatalogTypeInit, NamesInit
<1>2. CatalogTypeOK /\ NamesUnique /\ [CatalogNext]_catalogVars => (CatalogTypeOK /\ NamesUnique)'
  BY CatalogTypeNext, NamesNext
<1> QED  BY <1>1, <1>2, PTL DEF CatalogSpec

-----------------------------------------------------------------------------
(* Deleted rows.                                                           *)

ChannelsRevived ==
  \A i \in Channels : channel[i] # NoRow /\ channel[i].deleted /\ ~channel'[i].deleted =>
    /\ channel'[i].is.active
    /\ \E e \in Editors : Editing(e, "channel") /\ edit[e].id = i

ModelsRevived ==
  \A m \in ModelRows : model[m] # NoRow /\ model[m].deleted /\ ~model'[m].deleted =>
    /\ model'[m].is.active
    /\ \E e \in Editors : Editing(e, "model") /\ edit[e].id = m

LEMMA ChannelsRevivedNext ==
  ASSUME CatalogTypeOK, [CatalogNext]_catalogVars
  PROVE  ChannelsRevived
<1> SUFFICES ASSUME NEW i \in Channels,
                    channel[i] # NoRow, channel[i].deleted, ~channel'[i].deleted
             PROVE  /\ channel'[i].is.active
                    /\ \E e \in Editors : Editing(e, "channel") /\ edit[e].id = i
  BY DEF ChannelsRevived
<1>0. channel'[i] # channel[i] /\ channel \in [Channels -> ChannelTable]
  BY DEF CatalogTypeOK
<1>1. ASSUME NEW e \in Editors, NEW j \in Channels, InsertChannel(e, j) PROVE FALSE
  BY <1>0, <1>1 DEF InsertChannel
<1>2. ASSUME NEW e \in Editors, SaveChannel(e)
      PROVE  channel'[i].is.active /\ Editing(e, "channel") /\ edit[e].id = i
  <2>1. Editing(e, "channel") /\ edit[e].id \in Channels /\ edit[e].is \in ChannelRequests
    BY <1>2, EditTypes DEF SaveChannel
  <2>2. edit[e].id = i /\ channel'[i] = Saved(channel[i], edit[e].is)
    BY <1>0, <1>2, <2>1 DEF SaveChannel
  <2>3. channel'[i] = Inserted(edit[e].is)
    BY <2>2 DEF Saved, LiveRow
  <2> QED  BY <2>1, <2>2, <2>3, ChannelRows
<1>3. ASSUME NEW j \in Channels, DeleteChannel(j) PROVE FALSE
  BY <1>0, <1>3 DEF DeleteChannel, LiveRow
<1> QED
  BY <1>0, <1>1, <1>2, <1>3
  DEF CatalogNext, CheckName, LoadChannel, CreateModel, LoadModel, SaveModel, DeleteModel,
      catalogVars

LEMMA ModelsRevivedNext ==
  ASSUME CatalogTypeOK, [CatalogNext]_catalogVars
  PROVE  ModelsRevived
<1> SUFFICES ASSUME NEW m \in ModelRows, model[m] # NoRow, model[m].deleted, ~model'[m].deleted
             PROVE  /\ model'[m].is.active
                    /\ \E e \in Editors : Editing(e, "model") /\ edit[e].id = m
  BY DEF ModelsRevived
<1>0. model'[m] # model[m] /\ model \in [ModelRows -> ModelTable]
  BY DEF CatalogTypeOK
<1>1. ASSUME NEW n \in ModelRows, NEW req \in ModelRequests, CreateModel(n, req) PROVE FALSE
  BY <1>0, <1>1 DEF CreateModel
<1>2. ASSUME NEW e \in Editors, SaveModel(e)
      PROVE  model'[m].is.active /\ Editing(e, "model") /\ edit[e].id = m
  <2>1. Editing(e, "model") /\ edit[e].id \in ModelRows /\ edit[e].is \in ModelRequests
    BY <1>2, EditTypes DEF SaveModel
  <2>2. edit[e].id = m /\ model'[m] = Saved(model[m], edit[e].is)
    BY <1>0, <1>2, <2>1 DEF SaveModel
  <2>3. model'[m] = Inserted(edit[e].is)
    BY <2>2 DEF Saved, LiveRow
  <2> QED  BY <2>1, <2>2, <2>3, ModelRowsTyped
<1>3. ASSUME NEW n \in ModelRows, DeleteModel(n) PROVE FALSE
  BY <1>0, <1>3 DEF DeleteModel, LiveRow
<1> QED
  BY <1>0, <1>1, <1>2, <1>3
  DEF CatalogNext, CheckName, InsertChannel, LoadChannel, SaveChannel, DeleteChannel, LoadModel,
      catalogVars

\* Only an update that had read the row before it was deleted brings a channel
\* or a model back, and it brings it back active.
THEOREM OnlyStaleUpdatesRevive == CatalogSpec => RevivedActive
<1>1. CatalogTypeOK /\ [CatalogNext]_catalogVars => [ChannelsRevived /\ ModelsRevived]_catalogVars
  BY ChannelsRevivedNext, ModelsRevivedNext
<1> QED  BY <1>1, CatalogTypeInit, CatalogTypeNext, PTL
         DEF CatalogSpec, RevivedActive, ChannelsRevived, ModelsRevived

=============================================================================
