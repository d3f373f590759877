SPECIFICATION Spec

CONSTANTS
  a = a
  b = b
  c = c
  none = none
  some = some
  p = p
  q = q
  Titles <- MCTitles
  Synopses <- MCSynopses
  Empty = none
  FromCsv = FromCsv
  InitialCsv <- MCInitialCsv
  Addable <- AddedTitles
  Removable <- RemovedTitles
  Editable <- EditedTitles
  SaveTargets <- OwnFile
  Restarts = TRUE
  Configs <- AllConfigs
  NotCached = NotCached
  CacheSizes <- OneCached
  MaxStale = 1
  PageSize = 2
  Slugs <- MCSlugs
  Slug <- MCSlug
  NoDoc = NoDoc

INVARIANT SearchNeverThrows
