\* A torn Meta::write followed by one more sync: the second call reuses
\* the sync_seqn already committed on disk for its own data.
CONSTANTS
  MaxSyncs = 2
  PanicModes = {"None"}
  TornMetaWrite = TRUE
SPECIFICATION Spec
INVARIANTS
  SeqnIdentifiesData
