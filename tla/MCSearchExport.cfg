SPECIFICATION FairSpec
CONSTANTS
  MaxKey = 5
  Asked <- MCAsked
  DefaultLimit = 2
  LargestLimit = 3
INVARIANT NoRowTwice
INVARIANT NothingSkipped
PROPERTY RebuildEnds
