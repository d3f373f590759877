SPECIFICATION CoversSpec

CONSTANTS
  a = a
  b = b
  c = c
  Names <- MCNames
  Paths <- MCPaths
  PathOf <- Apart
  Resizes <- MCResizes
  Scales <- MCScales
  MaxInt = 127
  MaxFailures = 2

INVARIANTS
  CallsAccounted
  CoversHaveImages
