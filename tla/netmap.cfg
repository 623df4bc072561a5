SPECIFICATION Spec
CONSTANTS
  Nodes = {n1, n2}
  Attributes = {a1}
  Contracts = {c1, c2}
  Alphabet = Alphabet
  Signers <- All
  ConfigKeys = {k1}
  ConfigValues = {v1}
  DefaultSnapshotCount = 1
  DefaultCleanupThreshold = 1
  MaxEpoch = 3
  MaxJump = 2
  MaxBlock = 2
  SnapshotCounts = {0, 1}
  Thresholds = {0}
SYMMETRY Symmetry
CONSTRAINT SettingsApart
INVARIANTS FlagAccurate HistoryFaithful RetentionRun BlockByTimeWithoutJumps
PROPERTIES ImplementsEpochMap TickKeepsPrevious CallsAsAsked
CHECK_DEADLOCK FALSE
