\* Keys of 2 bits, two value hashes, prior tries of up to 2 leaves, batches touching up to 2 keys.
CONSTANTS
  KeyBits = 2
  Vals <- MCVals
  NoValue = NoValue
  Untouched = Untouched
  MaxLeaves = 2
  MaxChanges = 2
  Batches <- MCBatches
SPECIFICATION Spec
\* verify_update returns: a finished call is a final state.
CHECK_DEADLOCK FALSE
INVARIANTS
  TypeOK
  NoPanic
  FrontierInv
  RootCorrect
  CheckSound
  FrontierAtFinish
PROPERTIES
  PendingIsLeftSibling
