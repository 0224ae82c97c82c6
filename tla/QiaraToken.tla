----------------------------- MODULE QiaraToken -------------------------------
(***************************************************************************)
(* The Qiara token on Solana (token.rs), on top of the governance of the   *)
(* same program: fees, taxes and their recipients are variables of the     *)
(* registry, and mints are authorised by the validators.  Every wallet     *)
(* holds one token account.  A wallet is named by the bytes of its key.    *)
(* No wallet is ever exempt from fees: set_fee_exempt writes its record    *)
(* behind a second discriminator, for which the account has no room, and   *)
(* fails.                                                                  *)
(***************************************************************************)
EXTENDS QiaraGovernance, TokenFees

CONSTANTS
  Wallets,             \* wallets: byte strings of WideBytes bytes
  Authority,           \* TokenConfig.authority, the deployer
  MintMessages,        \* MintPayloads the validators may sign
  Amounts,             \* the amounts users ask to move
  InitialSupply,       \* minted to the authority by initialize_token
  MaxSupply,           \* the largest supply the mint can hold, u64::MAX
  ConfigChain,         \* TokenConfig.chain_id
  ConfigBump,          \* canonical bump of the "token_config" address
  MintBump,            \* canonical bump of the "mint-authority" address
  BurnFee, BurnIncrease, BurnFeeMaximal, BurnFeeMinimal, BridgeTaxFee,
  FeeReceivers,        \* <<SOLANA_BRIDGE_TAX_FEE_RECEIVER, BRIDGE_TAX_FEE_RECEIVER>>
  DeployedRegistry,    \* the registry and the validators when users arrive
  DeployedValidators

ASSUME TokenAssumption ==
  /\ Authority \in Wallets /\ IsFiniteSet(Wallets)
  /\ MintMessages \subseteq
       [recipient : Wallets, amount : Nat, nonce : Nat, chain : Nat]
  /\ MintMessages \subseteq OtherMessages
  /\ Amounts \subseteq Nat
  /\ InitialSupply \in Nat /\ MaxSupply \in Nat /\ InitialSupply <= MaxSupply
  /\ IsTimedTable(DeployedRegistry, Keys, Data)
  /\ IsTimedTable(DeployedValidators, Addresses, BOOLEAN)

VARIABLES
  balances,       \* the token account of each wallet
  supply,         \* Mint.supply
  feeRecipient,   \* TokenConfig.fee_recipient, a set of at most one wallet
  nullifiers,     \* messages with a NullifierRecord
  minted,         \* history: how often each message was minted
  burnt, bridged  \* history: tokens burnt as fees, and sent to another chain

tokenVars ==
  <<balances, supply, feeRecipient, nullifiers, minted, burnt, bridged>>
allVars == <<vars, tokenVars>>

TokenTypeOK ==
  /\ TypeOK
  /\ balances \in [Wallets -> Nat]
  /\ supply \in 0 .. MaxSupply
  /\ feeRecipient \in SUBSET Wallets /\ Cardinality(feeRecipient) <= 1
  /\ nullifiers \subseteq MintMessages
  /\ minted \in [MintMessages -> Nat]
  /\ burnt \in Nat /\ bridged \in Nat

InitializeToken ==
  /\ balances = [w \in Wallets |-> IF w = Authority THEN InitialSupply ELSE 0]
  /\ supply = InitialSupply
  /\ feeRecipient = {} /\ nullifiers = {}
  /\ minted = [m \in MintMessages |-> 0]
  /\ burnt = 0 /\ bridged = 0

\* Users arrive when the administrator has set up variables and validators.
TokenInit ==
  /\ InitializeEpoch
  /\ registry = DeployedRegistry /\ isLocked = FALSE
  /\ validators = DeployedValidators
  /\ sigBuffer = <<>>
  /\ InitializeToken

-------------------------------------------------------------------------------
(* What the token reads of the registry it is shown, in the current epoch *)

Bytes(reg, k) ==
  IF k \in DOMAIN reg THEN GetActiveVariable(reg, Epoch, k) ELSE <<>>

FeeSettings(reg) ==
  SolanaFees([base |-> Bytes(reg, BurnFee), increase |-> Bytes(reg, BurnIncrease),
              maximal |-> Bytes(reg, BurnFeeMaximal),
              minimal |-> Bytes(reg, BurnFeeMinimal)])

CalculateTransferFee(reg, amount) == TransferFee(FeeSettings(reg), Epoch, amount)

CalculateBridgeTax(reg, amount) ==
  BridgeTax(ReadU64(Bytes(reg, BridgeTaxFee)), amount)

\* The key in the first of two variables that holds one, or the fallback.
ReadPubkey(reg, ks, fallback) ==
  IF Len(Bytes(reg, ks[1])) = WideBytes THEN Bytes(reg, ks[1])
  ELSE IF Len(Bytes(reg, ks[2])) = WideBytes THEN Bytes(reg, ks[2])
  ELSE fallback

GetFeeRecipient(reg) ==
  ReadPubkey(reg, FeeReceivers,
             IF feeRecipient # {} THEN CHOOSE w \in feeRecipient : TRUE
                                  ELSE Authority)

-------------------------------------------------------------------------------
(* Instructions *)

Taken(accounts, from, amount) == [accounts EXCEPT ![from] = @ - amount]

Given(accounts, to, amount) == [accounts EXCEPT ![to] = @ + amount]

Moved(from, to, amount) == Given(Taken(balances, from, amount), to, amount)

\* The tax is paid to the recipient in force, then the rest is burnt here and
\* named in the event that the validators sign for the other chain.
RequestBridge(user, amount, reg) ==
  LET tax == CalculateBridgeTax(reg, amount)
      recipient == IF tax > 0 THEN GetFeeRecipient(reg) ELSE user
      taxed == Moved(user, recipient, tax)
  IN  /\ amount - tax > 0
      /\ recipient \in Wallets
      /\ balances[user] >= tax
      /\ taxed[user] >= amount - tax
      /\ balances' = Taken(taxed, user, amount - tax)
      /\ supply' = supply - (amount - tax)
      /\ bridged' = bridged + (amount - tax)
      /\ UNCHANGED <<vars, feeRecipient, nullifiers, minted, burnt>>

ConsensusMintAgain(m, to) ==                \* mutant: nullifier not looked at
  /\ Accepted(m)
  /\ ConfigChain # 0 => m.chain = ConfigChain
  /\ supply + m.amount <= MaxSupply
  /\ nullifiers' = nullifiers \union {m}
  /\ balances' = Given(balances, to, m.amount)
  /\ supply' = supply + m.amount
  /\ minted' = [minted EXCEPT ![m] = @ + 1]
  /\ CloseBuffer(m)
  /\ UNCHANGED <<now, registry, isLocked, validators>>
  /\ UNCHANGED <<feeRecipient, burnt, bridged>>

\* The nullifier record is created by the instruction, which fails if it is
\* there already; a mint beyond u64 fails in the token program.  The wallet
\* that holds the token account shown is not compared with the recipient.
ConsensusMint(m, to) ==
  /\ m \notin nullifiers
  /\ Accepted(m)
  /\ ConfigChain # 0 => m.chain = ConfigChain
  /\ supply + m.amount <= MaxSupply
  /\ nullifiers' = nullifiers \union {m}
  /\ balances' = Given(balances, to, m.amount)
  /\ supply' = supply + m.amount
  /\ minted' = [minted EXCEPT ![m] = @ + 1]
  /\ CloseBuffer(m)
  /\ UNCHANGED <<now, registry, isLocked, validators>>
  /\ UNCHANGED <<feeRecipient, burnt, bridged>>

\* The instructions that find the configuration by the bump of the mint's
\* authority; they fail unless the two addresses have the same bump.
ConfigFound == ConfigBump = MintBump

TransferBurningNothing(from, to, amount, reg) ==     \* mutant: fee kept back, not burnt
  LET fee == CalculateTransferFee(reg, amount)
      sent == Moved(from, to, amount - fee)
  IN  /\ ConfigFound
      /\ balances[from] >= amount - fee
      /\ sent[from] >= fee
      /\ balances' = Taken(sent, from, fee)
      /\ burnt' = burnt + fee
      /\ UNCHANGED <<vars, supply, feeRecipient, nullifiers, minted, bridged>>

\* The rest of the amount is sent first, then the fee is burnt.
TransferWithFee(from, to, amount, reg) ==
  LET fee == CalculateTransferFee(reg, amount)
      sent == Moved(from, to, amount - fee)
  IN  /\ ConfigFound
      /\ balances[from] >= amount - fee
      /\ sent[from] >= fee
      /\ balances' = Taken(sent, from, fee)
      /\ supply' = supply - fee
      /\ burnt' = burnt + fee
      /\ UNCHANGED <<vars, feeRecipient, nullifiers, minted, bridged>>

\* Signed by the authority.
SetFeeRecipient(recipient) ==
  /\ ConfigFound
  /\ feeRecipient' = {recipient}
  /\ UNCHANGED <<vars, balances, supply, nullifiers, minted, burnt, bridged>>

-------------------------------------------------------------------------------
GovernanceStep == Next /\ UNCHANGED tokenVars

TokenNext ==
  \/ GovernanceStep
  \/ \E w \in Wallets, amount \in Amounts, reg \in ShownRegistries :
       RequestBridge(w, amount, reg)
  \/ \E m \in MintMessages, to \in Wallets : ConsensusMint(m, to)
  \/ \E from, to \in Wallets, amount \in Amounts, reg \in ShownRegistries :
       TransferWithFee(from, to, amount, reg)
  \/ \E w \in Wallets : SetFeeRecipient(w)

TokenSpec == TokenInit /\ [][TokenNext]_allVars

-------------------------------------------------------------------------------
(* Properties *)

\* Every token in circulation is held in an account and is accounted for:
\* minted at first or by a message, and neither burnt nor bridged since.
SupplyAccountedFor ==
  /\ supply = SumFunction(balances)
  /\ supply + burnt + bridged =
       InitialSupply + SumFunction([m \in nullifiers |-> m.amount])

\* A message is minted at most once, although the buffer of its signatures
\* can be staged again as soon as it is consumed.
MintedAtMostOnce == \A m \in MintMessages : minted[m] <= 1
===============================================================================
