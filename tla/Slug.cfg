SPECIFICATION SlugSpec

CONSTANTS
  Characters <- MCCharacters
  Letter <- MCLetter
  MaxLength = 3

INVARIANTS
  SlugOfTitle

\* A slug that was returned ends the run.
CHECK_DEADLOCK FALSE
