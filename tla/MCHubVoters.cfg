SPECIFICATION MCSpec
CONSTANTS
  s1 = s1
  s2 = s2
  k1 = k1
  Shareds <- MCTwo
  PubKeys <- MCKeys
  StakeLevels = {0, 1}
  MaxPending = 1
  EpochSeconds = 1
  MaxTime = 1
  Events = {e1}
  Payloads <- MCOnePayload
  FlatFee = 3
  Emissions = 5
  Quorums <- MCOneQuorum
PROPERTIES
  VotersAreActive
