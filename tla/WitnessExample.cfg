\* One-bit keys, one value hash, every prior trie, every single write.
CONSTANTS
  KeyBits = 1
  Vals = {1}
  NoValue = NoValue
  Batches <- ExampleBatches
SPECIFICATION ExampleSpec
\* verify_update returns: a finished call is a final state.
CHECK_DEADLOCK FALSE
INVARIANT
  ExampleAssert
