SPECIFICATION CatalogSpec
CONSTANTS
  Channels = {ch1, ch2}
  ModelRows = {1, 2}
  Names = {n1, n2}
  ModelIDs = {gpt}
  Priorities = {0}
  Prices <- OnePrice
  Editors = {e1, e2}
  LookupMayFail = FALSE
  NoEdit = NoEdit
  NoRow = NoRow
INVARIANT AvailableAsDefined
\* Ids are used up, and with them the inserts.
CHECK_DEADLOCK FALSE
