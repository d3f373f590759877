SPECIFICATION UsageSpec

CONSTANTS
  a = a
  b = b
  c = c
  none = none
  some = some
  Titles <- MCTitles
  Synopses <- MCSynopses
  Empty = none
  FromCsv = FromCsv
  InitialCsv <- MCInitialCsv
  Addable <- AddedTitles
  Removable <- RemovedTitles
  Editable <- EditedTitles
  SaveTargets <- BothFiles
  Restarts = TRUE
  NotCached = NotCached
  CacheSizes <- UpToTwo
  MaxStale = 1

INVARIANTS
  RecordsAgree
  FaultOnlyWhenZero
  WithinCapacity

PROPERTIES
  AddedSynopsisIsServed
  SetReachesBase
  SavedTitles
  EvictsLeastRecent
  CopyIsExact
  OnlyTheClientChanges
