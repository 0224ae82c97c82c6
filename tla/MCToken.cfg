SPECIFICATION MCSpec
CONSTANTS
  min = min
  bridgeMin = bridgeMin
  burnFee = burnFee
  burnMinimal = burnMinimal
  bridgeTax = bridgeTax
  receiver = receiver
  unset = unset
  v1 = v1
  Keys <- MCKeys
  MinKey = min
  BridgeMinKey = bridgeMin
  Data <- MCData
  Addresses <- MCAddresses
  GenesisTime = 1
  EpochDuration = 1
  LocalChain = 901
  VariableMessages <- MCVariableMessages
  ValidatorMessages <- NoMessages
  OtherMessages <- MCMintMessages
  OtherValidators <- MCOtherValidators
  OtherRegistries <- MCOtherRegistries
  MaxTime = 2
  MaxSignatures = 1
  MaxBuffers = 1
  FeeDenominator = 7
  MinimumThreshold = 4
  MinimumScale = 2
  WordBytes = 2
  WideBytes = 3
  Wallets <- MCWallets
  Authority <- Alice
  MintMessages <- MCMintMessages
  Amounts = {1, 3}
  InitialSupply = 3
  MaxSupply = 6
  ConfigChain = 901
  ConfigBump = 255
  MintBump = 255
  BurnFee = burnFee
  BurnIncrease = unset
  BurnFeeMaximal = unset
  BurnFeeMinimal = burnMinimal
  BridgeTaxFee = bridgeTax
  FeeReceivers <- MCReceivers
  DeployedRegistry <- MCRegistry
  DeployedValidators <- MCValidators
  Rates <- MCRates
  Minimals <- MCMinimals
  Epochs = {0, 1, 3}
  QuotedAmounts = {0, 1, 2, 3, 5, 6, 7, 8, 13, 14, 20}
INVARIANTS
  TokenTypeOK
  SupplyAccountedFor
  MintedAtMostOnce
  FeesAgreeAcrossChains
  MoreDeliversMore

