\* As MCSync.cfg, but Meta::write may also fail after the new meta page
\* reached disk.
CONSTANTS
  MaxSyncs = 4
  PanicModes = {"None", "PostWal", "PostMeta"}
  TornMetaWrite = TRUE
SPECIFICATION Spec
INVARIANTS
  CommitCovered
PROPERTIES
  SeqnStepProp
  DurableCommitSpec
