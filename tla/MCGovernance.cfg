SPECIFICATION MCSpec
CONSTANTS
  min = min
  bridgeMin = bridgeMin
  v1 = v1
  v2 = v2
  Keys <- MCKeys
  MinKey = min
  BridgeMinKey = bridgeMin
  Data <- MCData
  Addresses <- MCAddresses
  GenesisTime = 6
  EpochDuration = 1
  LocalChain = 901
  VariableMessages <- MCVariableMessages
  ValidatorMessages <- MCValidatorMessages
  OtherMessages <- NoMessages
  OtherValidators <- MCOtherValidators
  OtherRegistries <- MCOtherRegistries
  MaxTime = 8
  MaxSignatures = 2
  MaxBuffers = 2
PROPERTIES
  ValidatorsAreRegisters
  
  BuffersStayUsable
  VariablesAreRegisters
  LockIsFinal
