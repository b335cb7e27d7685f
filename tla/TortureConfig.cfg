\* Six features: both trickfs ones, Rollback and Read (the two that draw
\* ranges), a flag and a probability; two allocation sizes.
CONSTANTS
  Features = {"TrickfsENOSPC", "TrickfsLatencyInjection", "Rollback", "Read", "EnsureChangeset", "NewKeys"}
  AvailBytes = {8192, 40960000}
SPECIFICATION Spec
INVARIANTS TrickfsConsistent
CHECK_DEADLOCK FALSE
