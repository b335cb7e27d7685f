\* Keys of 2 bits, two value hashes, tries of up to 2 leaves, batches
\* reading any non-empty set of keys: paths with several reads, reads of
\* absent keys beside a leaf, and reads covered by a terminator.
CONSTANTS
  KeyBits = 2
  Vals = {1, 2}
  NoValue = NoValue
  MaxLeaves = 2
  MaxReads = 4
  Witnesses <- MCWitnesses
SPECIFICATION Spec
\* main returns: the end of the loop is a final state.
CHECK_DEADLOCK FALSE
INVARIANTS
  ReadsAllChecked
  ReadsVerified
