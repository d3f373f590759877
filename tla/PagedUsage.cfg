SPECIFICATION UsageSpec

CONSTANTS
  a = a
  b = b
  c = c
  none = none
  some = some
  Titles <- ThreeTitles
  Synopses <- TwoSynopses
  Empty = none
  FromCsv = FromCsv
  InitialCsv <- MCInitialCsv
  Addable <- AddedTitles
  Removable <- ThreeTitles
  Editable <- EditedTitles
  SaveTargets <- BothFiles
  Restarts = TRUE
  CacheSizes <- UpToTwo
  PageSize = 2

INVARIANTS
  RecordsAgree
  FaultOnlyWhenZero
  WithinCapacity

PROPERTIES
  CopyIsExact
  ServesStore
