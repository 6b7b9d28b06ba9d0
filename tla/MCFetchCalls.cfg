SPECIFICATION Spec
CONSTANTS
  Call = {c1, c2}
  Account = {a1, a2}
  None = none
  Method <- EachKind
  Handler <- Handlers
  Block <- Blocks
SYMMETRY Symmetry
INVARIANT TypeOK
INVARIANT AnsweredOnce
INVARIANT OnlyOddAnswersRaise
PROPERTY IsRemoteCall
PROPERTY UsesExchange
PROPERTY RefusalCostsItsAccount
\* Every call may be over.
CHECK_DEADLOCK FALSE
