SPECIFICATION MCSpec
CONSTANTS
  min = min
  bridgeMin = bridgeMin
  v1 = v1
  alice = alice
  bob = bob
  jupiter = jupiter
  usdc = usdc
  sol = sol
  mint1 = mint1
  mint2 = mint2
  lower = lower
  upper = upper
  Keys <- MCKeys
  MinKey = min
  BridgeMinKey = bridgeMin
  Data <- MCData
  Addresses <- MCAddresses
  GenesisTime = 1
  EpochDuration = 2
  LocalChain = 901
  VariableMessages <- MCVariables
  ValidatorMessages <- MCRotations
  OtherMessages <- MCOtherMessages
  OtherValidators <- MCOtherValidators
  OtherRegistries <- MCOtherRegistries
  MaxTime = 3
  MaxSignatures = 1
  MaxBuffers = 2
  Providers <- MCProviderNames
  Tokens <- MCTokens
  TokenMints <- MCTokenMints
  Mints <- MCMints
  Chains <- MCChains
  TokensMessages <- MCTokensMessages
  AddressMessages <- MCAddressMessages
  Users <- MCUsers
  Vaults <- MCVaults
  ProviderOf <- MCProviderOf
  WithdrawMessages <- MCWithdrawMessages
  DepositAmounts = {2}
  Purse = 2
  DefaultRange <- MCDefaultRange
  Ranges <- MCRanges
  YieldDenominator = 2
  MaxAmount = 5
  MaxProduct = 11
  Deployed <- MCDeployed
INVARIANTS
  VaultTypeOK
  ProvidersTypeOK
  ListsAgree
  AppliedAtMostOnce
  ClaimsAccountedFor
  PaidAtMostOnce
PROPERTIES
  RevocationIsFinal
  WithdrawalsStayPossible
