CONSTANTS
  a = a
  b = b
  none = none
  some = some
  Titles <- MCTitles
  Synopses <- MCSynopses
  Empty = none
  NoFile = NoFile
  Header = Header
  BadHeader = BadHeader
  NoField = NoField
  InitialFiles <- AnyFile
  OpenErrors = TRUE
  ReadErrors = TRUE
  WriteErrors = TRUE
  ReplaceErrors = TRUE
SPECIFICATION FairSpec
PROPERTIES EditsTable ReturnMeansWritten CallsEnd
