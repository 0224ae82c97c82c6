SPECIFICATION MCSpec
CONSTANTS
  s1 = s1
  s2 = s2
  k1 = k1
  Shareds <- MCTwo
  PubKeys <- MCKeys
  StakeLevels = {0, 2}
  MaxPending = 2
  EpochSeconds = 1
  MaxTime = 2
  Events = {e1, e2}
  Payloads <- MCPayloads
  FlatFee = 3
  Emissions = 5
  Quorums <- MCQuorums
SYMMETRY EventSymmetry
INVARIANTS
  SettledAtMostOnce
  WeightIsSumOfVotes
  
  FeesNotOverpaid
  
PROPERTIES
  VotesOnlyAccumulate
