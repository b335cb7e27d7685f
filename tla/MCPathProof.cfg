\* Keys of 2 bits, two value hashes, tries of up to 2 leaves: leaves at
\* depth 0, 1 and 2, terminators beside them, and every adversarial proof
\* of up to 3 siblings built from the trie's nodes.
CONSTANTS
  KeyBits = 2
  Vals = {1, 2}
  NoValue = NoValue
  MaxLeaves = 2
SPECIFICATION Spec
\* verify returns: a client that has its answer is a final state.
CHECK_DEADLOCK FALSE
INVARIANTS
  VerifiedAnswersTrue
  HonestAccepted
