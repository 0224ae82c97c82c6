SPECIFICATION ValidatorsSpec
CONSTANTS
  s1 = s1
  s2 = s2
  s3 = s3
  k1 = k1
  k2 = k2
  Shareds <- MCShareds
  PubKeys <- MCTwoKeys
  StakeLevels = {0, 1, 2}
  MaxPending = 2
  EpochSeconds = 1
  MaxTime = 2

PROPERTIES
  SnapshotDatedNow
