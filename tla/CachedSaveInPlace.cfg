SPECIFICATION UsageSpec

CONSTANTS
  a = a
  b = b
  c = c
  none = none
  some = some
  Titles <- MCTitles
  Synopses <- MCSynopses
  Empty = none
  FromCsv = FromCsv
  InitialCsv <- AllTexts
  Addable <- NoTitles
  Removable <- NoTitles
  Editable <- NoTitles
  SaveTargets <- OwnFile
  Restarts = TRUE
  NotCached = NotCached
  CacheSizes <- UpToTwo
  MaxStale = 1

PROPERTIES
  SavedRowsAreOriginal
