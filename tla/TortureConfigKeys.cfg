\* The distribution of new keys is a constant of the configuration.
CONSTANTS
  Features = {"NewKeys"}
  AvailBytes = {8192}
SPECIFICATION Spec
INVARIANT NewKeyDistributionAsDocumented
CHECK_DEADLOCK FALSE
