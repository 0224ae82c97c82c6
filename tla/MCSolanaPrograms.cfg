SPECIFICATION MCSpec
CONSTANTS
  gold = gold
  silver = silver
  u1 = u1
  u2 = u2
  Users = {alice}
  Mints <- MCMints
  AllTokens = AllTokens
  Foreign <- MCForeign
  Cooldowns = {2}
  ClaimAmounts = {1, 2}
  Batches <- MCBatches
  MaxSupply = 4
  MaxTime = 4
  Holders = {u1, u2}
  Amounts = {0, 1, 2}
  Supplies = {0, 3}
  Chains = {"sui", "evm"}
  MaxU64 = 3
  MaxMinted = 7
INVARIANTS
  CooldownBetweenClaims
  TokensAccountedFor
PROPERTIES
  OnlyEnabledHandedOut
  OpensAfterCooldown
