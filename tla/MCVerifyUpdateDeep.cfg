\* Keys of 3 bits, one value hash, prior tries of up to 2 leaves, batches
\* touching up to 2 keys: paths down to depth 3 and frontier entries at
\* every layer.  The calls are the honest ones: the caller mistakes are
\* checked with 2-bit keys.
CONSTANTS
  KeyBits = 3
  Vals = {1}
  NoValue = NoValue
  Untouched = Untouched
  MaxLeaves = 2
  MaxChanges = 2
  Batches <- HonestBatches
SPECIFICATION Spec
\* verify_update returns: a finished call is a final state.
CHECK_DEADLOCK FALSE
INVARIANTS
  FrontierInv
  RootCorrect
  FrontierAtFinish
PROPERTIES
  PendingIsLeftSibling
