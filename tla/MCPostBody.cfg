SPECIFICATION FairSpec
CONSTANTS
  Boundary = {"short", "long"}
  Width <- MCWidth
  Content <- MCContent
  Header <- MCHeader
  Final = 1
  Start <- MCStart
  BufferSize = {1, 4}
  MaxBodies = 3
INVARIANT TypeOK
INVARIANT DamageShows
PROPERTY IsByteSource
PROPERTY BodyEnds
