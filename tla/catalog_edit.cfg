SPECIFICATION CatalogSpec

CONSTANTS
  Channels = {ch1, ch2}
  ModelRows = {1}
  Names = {n1, n2}
  ModelIDs = {gpt}
  Priorities = {0}
  Prices <- OnePrice
  Editors = {e1, e2}
  LookupMayFail = TRUE
  NoEdit = NoEdit
  NoRow = NoRow

SYMMETRY Symmetry

INVARIANT CatalogTypeOK
INVARIANT NamesUnique
PROPERTY RevivedActive

\* Ids are used up, and with them the inserts.
CHECK_DEADLOCK FALSE
