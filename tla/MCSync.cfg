\* Up to four calls of sync, with every panic_on_sync mode; Meta::write
\* fails only with the old meta on disk.
CONSTANTS
  MaxSyncs = 4
  PanicModes = {"None", "PostWal", "PostMeta"}
  TornMetaWrite = FALSE
SPECIFICATION Spec
INVARIANTS
  CommitCovered
  SeqnAgree
  SeqnIdentifiesData
PROPERTIES
  SeqnStepProp
