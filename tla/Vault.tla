-------------------------------- MODULE Vault ---------------------------------
(***************************************************************************)
(* The vault program on Solana (vault/src/lib.rs): deposits, stakes and    *)
(* withdrawals of the tokens that the provider registry of the program     *)
(* `qiara` supports; withdrawals are authorised by the validators of that  *)
(* program, whose accounts the vault reads and never writes.               *)
(*                                                                         *)
(* A vault is named by the spelling of its provider's name, and the        *)
(* registry ignores case: a provider may have several vaults.  A pot is a  *)
(* vault and a mint: it has one SupportedToken.  Users and vaults have one *)
(* token account for each mint; the account that receives a deposit or a   *)
(* withdrawal is the caller's to name, as long as its mint is the pot's.   *)
(***************************************************************************)
EXTENDS ProviderRegistry

CONSTANTS
  Users,
  Vaults,              \* spellings of provider names
  ProviderOf,          \* the provider a spelling stands for
  WithdrawMessages,    \* DirectWithdrawPayloads the validators may sign
  DepositAmounts,      \* amounts users deposit and stake
  Purse,               \* tokens of each mint a user starts with
  DefaultRange,        \* [min, max] of a new vault's rate
  Ranges,              \* the ranges an authority may ask for
  YieldDenominator,
  MaxAmount,           \* u64::MAX
  MaxProduct,          \* u128::MAX
  Deployed             \* provided, tokenAddresses, isLocked and devRevoked when
                       \* users arrive

Pots == Vaults \X Mints

\* Token accounts, by owner and mint; that of a pot is the pot's own name.
TokenAccounts == (Users \union Vaults) \X Mints

ASSUME VaultAssumption ==
  /\ IsFiniteSet(Users)                     \* public keys
  /\ Users \intersect Vaults = {}
  /\ ProviderOf \in [Vaults -> Providers]
  /\ WithdrawMessages \subseteq
       [ user : Users, provider : Providers, token : Tokens, amount : Nat,
         nonce : Nat, chain : Nat ]
  /\ WithdrawMessages \subseteq OtherMessages
  /\ DepositAmounts \subseteq Nat /\ Purse \in Nat
  /\ MaxAmount \in Nat /\ MaxProduct \in Nat
  /\ Ranges \union {DefaultRange} \subseteq [min : 0 .. MaxAmount, max : 0 .. MaxAmount]
  /\ DefaultRange.min <= DefaultRange.max
  /\ YieldDenominator \in Nat \ {0}
  /\ Deployed.isLocked \in BOOLEAN /\ Deployed.devRevoked \in BOOLEAN

VARIABLES
  ranges,          \* Vault accounts that exist: min_rate and max_rate
  pots,            \* SupportedToken accounts that exist: name and reserves
  tokens,          \* what each token account holds
  userStates,      \* UserState, zero where the account does not exist yet
  nullifierRecords, \* messages with a NullifierRecord
  paid,            \* history: how often each message was paid
  yields,          \* history, by pot: yields credited,
  shortfalls,      \*   withdrawals beyond the balance they were taken from,
  astray           \*   and deposits counted but received by another account

vaultVars ==
  <<ranges, pots, tokens, userStates, nullifierRecords, paid, yields, shortfalls, astray>>

allVars == <<vars, providerVars, vaultVars>>

NoState == [balance |-> 0, last |-> 0]

VaultTypeOK ==
  /\ DOMAIN ranges \subseteq Vaults
  /\ \A v \in DOMAIN ranges : ranges[v].min <= ranges[v].max
  /\ DOMAIN pots \subseteq { p \in Pots : p[1] \in DOMAIN ranges }
  /\ \A p \in DOMAIN pots :
       pots[p].name \in Tokens /\ pots[p].reserves \in 0 .. MaxAmount
  /\ tokens \in [TokenAccounts -> Nat]
  /\ userStates \in [Users -> [Pots -> [balance : 0 .. MaxAmount, last : 0 .. now]]]
  /\ nullifierRecords \subseteq WithdrawMessages
  /\ paid \in [WithdrawMessages -> Nat]

\* No vault exists yet.
VaultsInit ==
  /\ ranges = <<>> /\ pots = <<>>
  /\ tokens = [a \in TokenAccounts |-> IF a[1] \in Users THEN Purse ELSE 0]
  /\ userStates = [u \in Users |-> [p \in Pots |-> NoState]]
  /\ nullifierRecords = {}
  /\ paid = [m \in WithdrawMessages |-> 0]
  /\ yields = [p \in Pots |-> 0] /\ shortfalls = [p \in Pots |-> 0]
  /\ astray = [p \in Pots |-> 0]

VaultInit ==
  /\ InitializeEpoch
  /\ registry = <<>> /\ isLocked = Deployed.isLocked
  /\ validators = [a \in Addresses |->
                     [active |-> TRUE, pending |-> FALSE, effective |-> 0]]
  /\ sigBuffer = <<>>
  /\ provided = Deployed.provided
  /\ providers = DOMAIN provided
  /\ tokenAddresses = Deployed.tokenAddresses
  /\ chain \in Chains /\ devRevoked = Deployed.devRevoked /\ actionRecords = {}
  /\ applied = [m \in UpdateMessages |-> 0]
  /\ VaultsInit

-------------------------------------------------------------------------------
(* Setting up *)

CreateVault(v) ==
  /\ IsProviderSupported(ProviderOf[v])
  /\ v \notin DOMAIN ranges
  /\ ranges' = Put(ranges, v, DefaultRange)
  /\ UNCHANGED <<vars, providerVars, pots, tokens, userStates>>
  /\ UNCHANGED <<nullifierRecords, paid, yields, shortfalls, astray>>

SetAnyRange(v, range) ==                    \* mutant: max >= min not required
  /\ v \in DOMAIN ranges
  /\ ranges' = [ranges EXCEPT ![v] = range]
  /\ UNCHANGED <<vars, providerVars, pots, tokens, userStates>>
  /\ UNCHANGED <<nullifierRecords, paid, yields, shortfalls, astray>>

\* Signed by the vault's authority, its creator.
SetProviderRange(v, range) ==
  /\ v \in DOMAIN ranges
  /\ range.max >= range.min
  /\ ranges' = [ranges EXCEPT ![v] = range]
  /\ UNCHANGED <<vars, providerVars, pots, tokens, userStates>>
  /\ UNCHANGED <<nullifierRecords, paid, yields, shortfalls, astray>>

ListNewToken(p, t) ==
  /\ p[1] \in DOMAIN ranges
  /\ IsProviderSupported(ProviderOf[p[1]])
  /\ IsTokenSupported(ProviderOf[p[1]], t)
  /\ MintMatches(t, p[2])
  /\ p \notin DOMAIN pots
  /\ pots' = Put(pots, p, [name |-> t, reserves |-> 0])
  /\ UNCHANGED <<vars, providerVars, ranges, tokens, userStates>>
  /\ UNCHANGED <<nullifierRecords, paid, yields, shortfalls, astray>>

-------------------------------------------------------------------------------
(* Deposits, stakes and withdrawals *)

\* Time has passed over a balance since the user's last interaction.
Earning(s) == s.balance > 0 /\ s.last > 0 /\ now > s.last

\* The yield of a user's balance at some rate since the last interaction,
\* cut off to 64 bits.
CalculateYield(s, rate) ==
  IF Earning(s)
    THEN ((s.balance * rate * (now - s.last)) \div YieldDenominator)
           % (MaxAmount + 1)
    ELSE 0

\* The yield is computed within 128 bits and the balance can take it.
YieldFits(s, rate) ==
  /\ Earning(s) => s.balance * rate * (now - s.last) <= MaxProduct
  /\ s.balance + CalculateYield(s, rate) <= MaxAmount

\* What the rate that a hash picks can be: none when the width of the range,
\* max - min + 1, does not fit 64 bits.
PseudoRandomRange(v) ==
  { rate \in ranges[v].min .. ranges[v].max : ranges[v].max - ranges[v].min < MaxAmount }

Transfer(from, to, amount) ==
  /\ from[2] = to[2]
  /\ tokens[from] >= amount
  /\ tokens' = [tokens EXCEPT ![from] = @ - amount, ![to] = @ + amount]

\* The pot takes tokens of a token that its provider supports.
Accepts(p, t) ==
  /\ p \in DOMAIN pots
  /\ IsProviderSupported(ProviderOf[p[1]])
  /\ IsTokenSupported(ProviderOf[p[1]], t)
  /\ pots[p].name = t

\* Tokens go from the user's account to the account named, and are counted as
\* the pot's.
Receive(u, p, amount, to) ==
  /\ amount > 0
  /\ Transfer(<<u, p[2]>>, to, amount)
  /\ pots[p].reserves + amount <= MaxAmount
  /\ pots' = [pots EXCEPT ![p].reserves = @ + amount]
  /\ astray' = [astray EXCEPT ![p] = @ + IF to = p THEN 0 ELSE amount]

Deposit(u, p, t, amount, to, rate) ==
  LET s == userStates[u][p]
      rewards == CalculateYield(s, rate)
  IN  /\ Accepts(p, t)
      /\ MintMatches(t, p[2])
      /\ Receive(u, p, amount, to)
      /\ rate \in PseudoRandomRange(p[1]) /\ YieldFits(s, rate)
      /\ s.balance + amount + rewards <= MaxAmount
      /\ userStates' = [userStates EXCEPT ![u][p] =
                          [balance |-> s.balance + amount + rewards, last |-> now]]
      /\ yields' = [yields EXCEPT ![p] = @ + rewards]
      /\ UNCHANGED <<vars, providerVars, ranges, nullifierRecords, paid, shortfalls>>

StakeUncounted(u, p, t, amount, to) ==      \* mutant: reserves not increased
  LET s == userStates[u][p]
  IN  /\ amount > 0
      /\ Accepts(p, t)
      /\ Transfer(<<u, p[2]>>, to, amount)
      /\ s.balance + amount <= MaxAmount
      /\ userStates' = [userStates EXCEPT ![u][p] =
                          [balance |-> s.balance + amount, last |-> s.last]]
      /\ UNCHANGED <<vars, providerVars, pots, ranges>>
      /\ UNCHANGED <<nullifierRecords, paid, yields, shortfalls, astray>>

\* A stake credits no yield and leaves the time of the last interaction.
Stake(u, p, t, amount, to) ==
  LET s == userStates[u][p]
  IN  /\ Accepts(p, t)
      /\ Receive(u, p, amount, to)
      /\ s.balance + amount <= MaxAmount
      /\ userStates' = [userStates EXCEPT ![u][p] =
                          [balance |-> s.balance + amount, last |-> s.last]]
      /\ UNCHANGED <<vars, providerVars, ranges, nullifierRecords, paid, yields, shortfalls>>

ServesSupported(m, p) ==                    \* mutant: asks the provider registry
  /\ p \in DOMAIN pots
  /\ m.provider = ProviderOf[p[1]] /\ m.token = pots[p].name
  /\ IsTokenSupported(m.provider, m.token)
  /\ ForThisChain(m)
  /\ m.amount \in 1 .. MaxAmount
  /\ pots[p].reserves >= m.amount
  /\ tokens[p] >= m.amount

\* The message names the provider and the token of the pot, and its amount
\* fits 64 bits, is within the reserves and is there.
Serves(m, p) ==
  /\ p \in DOMAIN pots
  /\ m.provider = ProviderOf[p[1]] /\ m.token = pots[p].name
  /\ ForThisChain(m)
  /\ m.amount \in 1 .. MaxAmount
  /\ pots[p].reserves >= m.amount
  /\ tokens[p] >= m.amount

\* The balance does not limit what the validators signed: it ends at zero.
Pay(m, p, to, rate) ==
  LET s == userStates[m.user][p]
      available == s.balance + CalculateYield(s, rate)
  IN  /\ Accepted(m)
      /\ Serves(m, p)
      /\ rate \in PseudoRandomRange(p[1]) /\ YieldFits(s, rate)
      /\ nullifierRecords' = nullifierRecords \union {m}
      /\ pots' = [pots EXCEPT ![p].reserves = @ - m.amount]
      /\ userStates' = [userStates EXCEPT ![m.user][p] =
           [ balance |-> IF available >= m.amount THEN available - m.amount ELSE 0,
             last |-> now ]]
      /\ Transfer(p, to, m.amount)
      /\ paid' = [paid EXCEPT ![m] = @ + 1]
      /\ yields' = [yields EXCEPT ![p] = @ + (available - s.balance)]
      /\ shortfalls' = [shortfalls EXCEPT ![p] =
           @ + IF available >= m.amount THEN 0 ELSE m.amount - available]
      /\ UNCHANGED <<vars, providerVars, ranges, astray>>

\* The buffer of the signatures belongs to the other program and stays; the
\* nullifier record is created, and only once.
DirectWithdraw(m, p, to, rate) ==
  /\ m \notin nullifierRecords
  /\ Pay(m, p, to, rate)

-------------------------------------------------------------------------------
QiaraStep == ProvidersNext /\ UNCHANGED vaultVars

UserStep(u, p) ==
  \E t \in Tokens, amount \in DepositAmounts, to \in TokenAccounts :
    \/ \E rate \in PseudoRandomRange(p[1]) : Deposit(u, p, t, amount, to, rate)
    \/ Stake(u, p, t, amount, to)

Withdrawal ==
  \E m \in WithdrawMessages, p \in DOMAIN pots, to \in TokenAccounts :
    \E rate \in PseudoRandomRange(p[1]) : DirectWithdraw(m, p, to, rate)

VaultNext ==
  \/ QiaraStep
  \/ \E v \in Vaults : CreateVault(v)
  \/ \E v \in Vaults, range \in Ranges : SetProviderRange(v, range)
  \/ \E p \in Pots, t \in Tokens : ListNewToken(p, t)
  \/ \E u \in Users, p \in DOMAIN pots : UserStep(u, p)
  \/ Withdrawal

VaultSpec == VaultInit /\ [][VaultNext]_allVars

-------------------------------------------------------------------------------
(* Properties *)

PotOf(p) == IF p \in DOMAIN pots THEN pots[p].reserves ELSE 0

\* A pot lacks no more of its reserves than its depositors sent elsewhere, so
\* that as long as they name the pot's own account a withdrawal within the
\* reserves is never refused by the token program; and what its users may
\* claim is the reserves, the yields credited, and what was withdrawn beyond
\* the balances it came from (the books kept by deposit, stake and
\* direct_withdraw in lib.rs).
ClaimsAccountedFor ==
  \A p \in Pots :
    /\ PotOf(p) <= tokens[p] + astray[p]
    /\ SumFunction([u \in Users |-> userStates[u][p].balance]) =
         PotOf(p) + yields[p] + shortfalls[p]

\* A message is paid at most once, by one vault of its provider, although
\* its buffer stays open and every vault and mint of the provider may serve it
\* (the NullifierRecord of direct_withdraw).
PaidAtMostOnce == \A m \in WithdrawMessages : paid[m] <= 1

\* Whatever rate the hash picks, the yield can be computed and added.
Computable(u, p) ==
  /\ PseudoRandomRange(p[1]) # {}
  /\ \A rate \in PseudoRandomRange(p[1]) : YieldFits(userStates[u][p], rate)

\* Nothing refuses the withdrawal: its signatures suffice for the accounts of
\* this deployment, the pot can pay and the arithmetic goes through.
Payable(m, p) ==
  /\ m \in DOMAIN sigBuffer /\ sigBuffer[m] # <<>>
  /\ Authorised(m)
  /\ Serves(m, p)
  /\ Computable(m.user, p)

\* A withdrawal that can be paid can be paid until it is, or its pot is drawn
\* on, or the epoch turns, or the administrator intervenes.  Only time, the
\* vault's authority and the user's own deposits can make its yield too large
\* to compute.  No change of the provider registry, no rotation or staging of
\* variables, and no other user's deposit or stake, whatever account receives
\* it, stands in its way (the checks of direct_withdraw in lib.rs).
WithdrawalsStayPossible ==
  [][ \A m \in WithdrawMessages \ nullifierRecords, p \in Pots :
        Payable(m, p) /\ ~Payable(m, p)' =>
          \/ Epoch' # Epoch \/ Administrator
          \/ PotOf(p)' < PotOf(p)
          \/ /\ ~Computable(m.user, p)'
             /\ \/ AdvanceClock
                \/ \E range \in Ranges : SetProviderRange(p[1], range)
                \/ UserStep(m.user, p) ]_allVars
===============================================================================
