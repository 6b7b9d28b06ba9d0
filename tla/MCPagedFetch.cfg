SPECIFICATION Spec
CONSTANTS
  MaxItem = 6
  Limit = 2
INVARIANT TypeOK
INVARIANT FeedIsSorted
INVARIANT WalkMissesNothing
INVARIANT RefreshMissesNothing
