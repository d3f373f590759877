SPECIFICATION FairSpec

CONSTANTS
  c1 = c1
  c2 = c2
  c3 = c3
  Conns <- MCConns
  None = None
  StartsTwice = TRUE
  MaxLeaked = 2

INVARIANTS
  StartedMeansRunning
  CallBackOnLiveServer
  ResponsesBalanced
  DescriptorsAccounted

PROPERTIES
  RequestsEnd
  StopReturns
