------------------------------- MODULE Faucet --------------------------------
(***************************************************************************)
(* The faucet on Solana (minter/src/lib.rs).  A user claims one token, or  *)
(* a list of tokens at once; each way of claiming has a record of its own  *)
(* with the time of the last claim, and one cooldown rules them all.  An   *)
(* administrator creates tokens or adds mints that exist, whose authority  *)
(* may still be somebody else's.  A transaction that fails changes nothing.*)
(***************************************************************************)
EXTENDS Integers, Sequences, FiniteSets

CONSTANTS
  Users, Mints,
  AllTokens,       \* stands for the record of claim_all in a user's records
  Foreign,         \* mints that exist without the faucet
  Cooldowns,       \* cooldown_seconds the faucet may be initialised with
  ClaimAmounts,
  Batches,         \* remaining accounts of claim_all: lists of chunks
  MaxSupply,       \* u64::MAX
  MaxTime          \* bound on the clock

Lanes == Mints \union {AllTokens}
Chunks == [mint : Mints, config : Mints]

ASSUME FaucetAssumption ==
  /\ AllTokens \notin Mints /\ Foreign \subseteq Mints
  /\ Cooldowns \subseteq Int /\ ClaimAmounts \subseteq Nat
  /\ Batches \subseteq Seq(Chunks)
  /\ MaxSupply \in Nat /\ MaxTime \in Nat

VARIABLES
  now,             \* Clock::unix_timestamp
  faucetConfig,    \* the cooldown, in a set that is empty before initialize
  authority,       \* mints that exist: is a token_config their authority?
  tokenConfigs,    \* TokenConfig accounts that exist
  lastClaim,       \* UserClaim.last_claim_timestamp, 0 where there is none
  supply,          \* tokens minted
  claims           \* history: when a user claimed, by record

vars == <<now, faucetConfig, authority, tokenConfigs, lastClaim, supply, claims>>

TokenConfig == [claimAmount : ClaimAmounts, enabled : BOOLEAN]

FaucetTypeOK ==
  /\ now \in 1 .. MaxTime + 1
  /\ faucetConfig \in SUBSET Cooldowns
  /\ DOMAIN authority \subseteq Mints
  /\ \A m \in DOMAIN authority : authority[m] \in BOOLEAN
  /\ DOMAIN tokenConfigs \subseteq DOMAIN authority
  /\ \A m \in DOMAIN tokenConfigs : tokenConfigs[m] \in TokenConfig
  /\ lastClaim \in [Users -> [Lanes -> 0 .. now]]
  /\ supply \in [Mints -> 0 .. MaxSupply]
  /\ claims \in [Users -> [Lanes -> Seq(1 .. now)]]

Init ==
  /\ now = 1
  /\ faucetConfig = {}
  /\ authority = [m \in Foreign |-> FALSE]
  /\ tokenConfigs = <<>>
  /\ lastClaim = [u \in Users |-> [l \in Lanes |-> 0]]
  /\ supply = [m \in Mints |-> 0]
  /\ claims = [u \in Users |-> [l \in Lanes |-> <<>>]]

Tick ==
  /\ now < MaxTime
  /\ now' = now + 1
  /\ UNCHANGED <<faucetConfig, authority, tokenConfigs, lastClaim, supply, claims>>

-------------------------------------------------------------------------------
(* The administrator *)

Put(f, k, v) == [x \in DOMAIN f \union {k} |-> IF x = k THEN v ELSE f[x]]

\* The accounts of the instructions: the configuration of the faucet is
\* created once, a mint is new or exists, and has one configuration.
NotInitialized == faucetConfig = {}
Initialized == faucetConfig # {}
AdminOf(m) == Initialized /\ m \in DOMAIN tokenConfigs
NewMint(m) == Initialized /\ m \notin DOMAIN authority
NewToken(m) == Initialized /\ m \in DOMAIN authority \ DOMAIN tokenConfigs

InitializeFaucet(cooldown) ==
  /\ NotInitialized
  /\ faucetConfig' = {cooldown}
  /\ UNCHANGED <<now, authority, tokenConfigs, lastClaim, supply, claims>>

\* The mint is created with its configuration as its authority.
CreateTokenMint(m, amount) ==
  /\ NewMint(m)
  /\ authority' = Put(authority, m, TRUE)
  /\ tokenConfigs' = Put(tokenConfigs, m, [claimAmount |-> amount, enabled |-> TRUE])
  /\ UNCHANGED <<now, faucetConfig, lastClaim, supply, claims>>

\* A mint that exists is added whoever may mint it.
AddToken(m, amount) ==
  /\ NewToken(m)
  /\ tokenConfigs' = Put(tokenConfigs, m, [claimAmount |-> amount, enabled |-> TRUE])
  /\ UNCHANGED <<now, faucetConfig, authority, lastClaim, supply, claims>>

\* The owner of a foreign mint hands it to the faucet (token program).
HandOverAuthority(m) ==
  /\ m \in DOMAIN authority /\ ~authority[m]
  /\ authority' = [authority EXCEPT ![m] = TRUE]
  /\ UNCHANGED <<now, faucetConfig, tokenConfigs, lastClaim, supply, claims>>

SetClaimAmount(m, amount) ==
  /\ AdminOf(m)
  /\ tokenConfigs' = [tokenConfigs EXCEPT ![m].claimAmount = amount]
  /\ UNCHANGED <<now, faucetConfig, authority, lastClaim, supply, claims>>

SetTokenEnabled(m, enabled) ==
  /\ AdminOf(m)
  /\ tokenConfigs' = [tokenConfigs EXCEPT ![m].enabled = enabled]
  /\ UNCHANGED <<now, faucetConfig, authority, lastClaim, supply, claims>>

-------------------------------------------------------------------------------
(* Claims *)

CooldownOver(u, lane) ==                    \* mutant: waits a second longer
  lastClaim[u][lane] > 0 =>
    \A c \in faucetConfig : now - lastClaim[u][lane] > c

\* A record that has no claim yet (a time of 0) is not held up.
CooldownMet(u, lane) ==
  lastClaim[u][lane] > 0 =>
    \A c \in faucetConfig : now - lastClaim[u][lane] >= c

RecordFirstClaim(u, lane) ==                \* mutant: set with the bump only
  /\ lastClaim' = IF lastClaim[u][lane] = 0
                    THEN [lastClaim EXCEPT ![u] = [lastClaim[u] EXCEPT ![lane] = now]]
                    ELSE lastClaim
  /\ claims' = [claims EXCEPT ![u] =
                  [claims[u] EXCEPT ![lane] = Append(claims[u][lane], now)]]

RecordClaim(u, lane) ==
  /\ lastClaim' = [lastClaim EXCEPT ![u] = [lastClaim[u] EXCEPT ![lane] = now]]
  /\ claims' = [claims EXCEPT ![u] =
                  [claims[u] EXCEPT ![lane] = Append(claims[u][lane], now)]]

\* The mint has a configuration, which is its authority in token::mint_to.
Mintable(m) == m \in DOMAIN tokenConfigs /\ authority[m]

ClaimToken(u, m) ==
  /\ Initialized
  /\ Mintable(m)
  /\ tokenConfigs[m].enabled
  /\ CooldownMet(u, m)
  /\ RecordClaim(u, m)
  /\ supply[m] + tokenConfigs[m].claimAmount <= MaxSupply
  /\ supply' = [supply EXCEPT ![m] = @ + tokenConfigs[m].claimAmount]
  /\ UNCHANGED <<now, faucetConfig, authority, tokenConfigs>>

ChunkOfAnyToken(chunk) ==                   \* mutant: a disabled token is given
  /\ chunk.config \in DOMAIN tokenConfigs
  /\ chunk.config = chunk.mint
  /\ authority[chunk.mint]

\* A chunk names a mint and a configuration, which must be the mint's own.
ChunkOK(chunk) ==
  /\ chunk.config \in DOMAIN tokenConfigs
  /\ tokenConfigs[chunk.config].enabled
  /\ chunk.config = chunk.mint
  /\ Mintable(chunk.mint)

\* What a list of chunks hands out of a mint; a mint may be named repeatedly.
HandedOut(batch, m) ==
  LET chunks == { i \in DOMAIN batch : batch[i].mint = m }
  IN  IF chunks = {} THEN 0
      ELSE tokenConfigs[m].claimAmount * Cardinality(chunks)

\* One chunk that fails undoes them all, and the time of the claim.
ClaimAll(u, batch) ==
  /\ Initialized
  /\ CooldownMet(u, AllTokens)
  /\ RecordClaim(u, AllTokens)
  /\ batch # <<>>
  /\ \A i \in DOMAIN batch : ChunkOK(batch[i])
  /\ \A m \in Mints : supply[m] + HandedOut(batch, m) <= MaxSupply
  /\ supply' = [m \in Mints |-> supply[m] + HandedOut(batch, m)]
  /\ UNCHANGED <<now, faucetConfig, authority, tokenConfigs>>

-------------------------------------------------------------------------------
Administer ==
  \/ \E c \in Cooldowns : InitializeFaucet(c)
  \/ \E m \in Mints, amount \in ClaimAmounts :
       \/ CreateTokenMint(m, amount)
       \/ AddToken(m, amount)
       \/ SetClaimAmount(m, amount)
  \/ \E m \in Mints, enabled \in BOOLEAN : SetTokenEnabled(m, enabled)

Next ==
  \/ Tick
  \/ Administer
  \/ \E m \in Mints : HandOverAuthority(m)
  \/ \E u \in Users, m \in Mints : ClaimToken(u, m)
  \/ \E u \in Users, batch \in Batches : ClaimAll(u, batch)

Spec == Init /\ [][Next]_vars

\* Time passes; nothing else has to happen.
FairSpec == Spec /\ WF_vars(Tick)

-------------------------------------------------------------------------------
(* Properties *)

\* Two claims of a user through the same record (of a mint, or of claim_all)
\* are a cooldown apart, whatever is enabled, disabled, added or claimed
\* through the other records in between.
CooldownBetweenClaims ==
  \A u \in Users, l \in Lanes, c \in faucetConfig :
    \A i \in 1 .. Len(claims[u][l]) - 1 :
      claims[u][l][i + 1] - claims[u][l][i] >= c

\* Neither of the two ways to claim hands out a token that is disabled or
\* whose mint the faucet may not mint.
OnlyEnabledHandedOut ==
  [][ \A m \in Mints : supply'[m] # supply[m] =>
        m \in DOMAIN tokenConfigs /\ tokenConfigs[m].enabled /\ authority[m] ]_vars

\* A record opens again as soon as the cooldown after its latest claim is
\* over: nothing that happens meanwhile puts the claimant off any longer.
LatestClaim(u, l) == IF claims[u][l] = <<>> THEN 0 ELSE claims[u][l][Len(claims[u][l])]

OpensAfterCooldown ==
  \A u \in Users, l \in Lanes, c \in Cooldowns, t \in 1 .. MaxTime :
    ( t + c <= MaxTime /\ faucetConfig = {c} /\ LatestClaim(u, l) = t /\ now < t + c )
      ~> ( now <= t + c /\ (CooldownMet(u, l) \/ LatestClaim(u, l) # t) )
===============================================================================
