SPECIFICATION Spec

CONSTANTS
  a = a
  b = b
  c = c
  none = none
  some = some
  Titles <- MCTitles
  Synopses <- MCSynopses
  Empty = none
  FromCsv = FromCsv
  InitialCsv <- MCInitialCsv
  Addable <- MCTitles
  Removable <- MCTitles
  Editable <- MCTitles
  SaveTargets <- BothFiles
  Restarts = TRUE

INVARIANTS
  SavingLeavesPrefix

PROPERTIES
  SaveRoundTrip
  LoadRoundTrip
  OnlyTheClientChanges
