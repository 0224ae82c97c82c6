------------------------- MODULE SolanaProgramsProofs -------------------------
(* Theorems about Faucet, for every set of users, mints and batches, and about *)
(* SplToken, for every finite set of holders and destinations.                 *)
EXTENDS Faucet, SplToken, SequenceTheorems, SumTheorems

-------------------------------------------------------------------------------
(* The faucet *)

USE FaucetAssumption

(***************************************************************************)
(* The time in a record is the time of the latest claim through it, and a  *)
(* claim is appended only when the cooldown since that time is over; the   *)
(* cooldown is set before the first claim.                                 *)
(***************************************************************************)
RecordsAreLatest ==
  \A u \in Users, l \in Lanes : lastClaim[u][l] = LatestClaim(u, l)

NoClaimsBefore ==
  faucetConfig = {} => \A u \in Users, l \in Lanes : claims[u][l] = <<>>

Inv == FaucetTypeOK /\ RecordsAreLatest /\ NoClaimsBefore /\ CooldownBetweenClaims

(***************************************************************************)
(* What a list of chunks hands out of a mint is a natural number, and      *)
(* nothing of a mint that no chunk names.                                  *)
(***************************************************************************)
LEMMA HandedOutIsNat ==
  ASSUME FaucetTypeOK, NEW batch \in Seq(Chunks), NEW m \in Mints,
         \A i \in DOMAIN batch : ChunkOK(batch[i])
  PROVE  HandedOut(batch, m) \in Nat
<1> DEFINE chunks == { i \in DOMAIN batch : batch[i].mint = m }
<1>1. CASE chunks = {}
  BY <1>1 DEF HandedOut
<1>2. CASE chunks # {}
  <2>1. PICK i \in DOMAIN batch : batch[i].mint = m
    BY <1>2
  <2>2. m \in DOMAIN tokenConfigs
    BY <2>1 DEF ChunkOK, Mintable
  <2>3. tokenConfigs[m].claimAmount \in Nat
    BY <2>2 DEF FaucetTypeOK, TokenConfig
  <2>4. IsFiniteSet(DOMAIN batch)
    BY FS_Interval
  <2>5. IsFiniteSet(chunks)
    BY <2>4, FS_Subset
  <2>6. Cardinality(chunks) \in Nat
    BY <2>5, FS_CardinalityType
  <2>7. HandedOut(batch, m) = tokenConfigs[m].claimAmount * Cardinality(chunks)
    BY <1>2 DEF HandedOut
  <2> QED  BY <2>3, <2>6, <2>7
<1> QED  BY <1>1, <1>2

(***************************************************************************)
(* A claim through one record: the types, the record and the distances.    *)
(***************************************************************************)
LEMMA ClaimKeepsRecords ==
  ASSUME Inv, NEW u \in Users, NEW l \in Lanes,
         faucetConfig # {}, faucetConfig' = faucetConfig, now' = now,
         CooldownMet(u, l), RecordClaim(u, l)
  PROVE  /\ lastClaim' \in [Users -> [Lanes -> 0 .. now']]
         /\ claims' \in [Users -> [Lanes -> Seq(1 .. now')]]
         /\ RecordsAreLatest'
         /\ CooldownBetweenClaims'
<1>0. /\ now \in Nat /\ now >= 1
      /\ lastClaim \in [Users -> [Lanes -> 0 .. now]]
      /\ claims \in [Users -> [Lanes -> Seq(1 .. now)]]
      /\ faucetConfig \subseteq Int
  BY DEF Inv, FaucetTypeOK
<1> DEFINE old == claims[u][l]
           new == Append(old, now)
<1>1. old \in Seq(1 .. now) /\ new \in Seq(1 .. now)
  BY <1>0
<1>2. /\ lastClaim' \in [Users -> [Lanes -> 0 .. now]]
      /\ claims' \in [Users -> [Lanes -> Seq(1 .. now)]]
  BY <1>0, <1>1 DEF RecordClaim
<1>3. /\ claims'[u][l] = new
      /\ lastClaim'[u][l] = now
      /\ \A v \in Users, k \in Lanes : (v # u \/ k # l) =>
           claims'[v][k] = claims[v][k] /\ lastClaim'[v][k] = lastClaim[v][k]
  BY <1>0 DEF RecordClaim
<1>4. Len(new) = Len(old) + 1 /\ new[Len(new)] = now /\ new # <<>>
  <2>1. now \in 1 .. now /\ Len(old) + 1 \in Nat
    BY <1>0, <1>1
  <2> HIDE DEF old, new
  <2>2. Append(old, now) # <<>> /\ Len(Append(old, now)) = Len(old) + 1
        /\ Append(old, now)[Len(old) + 1] = now
    BY <1>1, <2>1, AppendProperties
  <2> QED  BY <2>2 DEF new
<1>5. ASSUME NEW v \in Users, NEW k \in Lanes
      PROVE  lastClaim'[v][k] = LatestClaim(v, k)'
  <2>1. CASE v = u /\ k = l
    BY <1>3, <1>4, <2>1 DEF LatestClaim
  <2>2. CASE v # u \/ k # l
    BY <1>3, <2>2 DEF LatestClaim, Inv, RecordsAreLatest
  <2> QED  BY <2>1, <2>2
<1>6. ASSUME NEW v \in Users, NEW k \in Lanes, NEW c \in faucetConfig,
             NEW i \in 1 .. Len(claims'[v][k]) - 1
      PROVE  claims'[v][k][i + 1] - claims'[v][k][i] >= c
  <2>1. CASE v # u \/ k # l
    BY <1>3, <2>1 DEF Inv, CooldownBetweenClaims
  <2>2. CASE v = u /\ k = l
    <3>1. i \in 1 .. Len(old) /\ Len(old) \in Nat
      <4>1. claims'[v][k] = new
        BY <1>3, <2>2
      <4>2. Len(old) \in Nat
        BY <1>1
      <4> HIDE DEF old, new
      <4> QED BY <1>4, <4>1, <4>2
    <3>2. new[i] = old[i] /\ old[i] \in 1 .. now
      <4>1. old[i] \in 1 .. now
        <5> HIDE DEF old
        <5> QED BY <1>1, <3>1
      <4>2. new[i] = old[i]
        <5> HIDE DEF old
        <5>1. now \in 1 .. now
          BY <1>0
        <5>2. Append(old, now)[i] = old[i]
          BY <1>1, <3>1, <5>1, AppendProperties
        <5> QED BY <5>2
      <4> QED BY <4>1, <4>2
    <3>3. CASE i < Len(old)
      <4>1. new[i + 1] = old[i + 1]
        BY <1>1, <3>1, <3>3, <1>0
      <4>2. old[i + 1] - old[i] >= c
        BY <3>1, <3>3 DEF Inv, CooldownBetweenClaims
      <4> QED  BY <1>3, <2>2, <3>2, <4>1, <4>2
    <3>4. CASE i = Len(old)
      <4>1. new[i + 1] = now
        BY <1>4, <3>4
      <4>2. lastClaim[u][l] = old[i]
        BY <3>1, <3>4, <1>1 DEF Inv, RecordsAreLatest, LatestClaim
      <4>3. now - old[i] >= c
        BY <3>2, <4>2 DEF CooldownMet
      <4> QED  BY <1>3, <2>2, <3>2, <4>1, <4>3
    <3> QED  BY <3>1, <3>3, <3>4
  <2> QED  BY <2>1, <2>2
<1>7. RecordsAreLatest'
  BY <1>5 DEF RecordsAreLatest
<1>8. CooldownBetweenClaims'
  BY <1>6 DEF CooldownBetweenClaims
<1> QED  BY <1>2, <1>7, <1>8

LEMMA InvInit == ASSUME Init PROVE Inv
<1>1. FaucetTypeOK
  BY DEF Init, FaucetTypeOK
<1>2. RecordsAreLatest /\ NoClaimsBefore /\ CooldownBetweenClaims
  BY DEF Init, RecordsAreLatest, NoClaimsBefore, LatestClaim, CooldownBetweenClaims
<1> QED  BY <1>1, <1>2 DEF Inv

(***************************************************************************)
(* The administrator, the owner of a mint and the clock leave records and  *)
(* supplies alone, and keep the configurations well typed.                 *)
(***************************************************************************)
LEMMA PutIsTyped ==
  ASSUME NEW f, NEW k, NEW v, NEW T, v \in T, \A x \in DOMAIN f : f[x] \in T
  PROVE  /\ DOMAIN Put(f, k, v) = DOMAIN f \union {k}
         /\ \A x \in DOMAIN f \union {k} : Put(f, k, v)[x] \in T
BY DEF Put

LEMMA AdministerKeepsTypes ==
  ASSUME Inv, Administer \/ \E m \in Mints : HandOverAuthority(m)
  PROVE  FaucetTypeOK'
<1> DEFINE Typed(authority_, configs) ==
             /\ DOMAIN authority_ \subseteq Mints
             /\ \A m \in DOMAIN authority_ : authority_[m] \in BOOLEAN
             /\ DOMAIN configs \subseteq DOMAIN authority_
             /\ \A m \in DOMAIN configs : configs[m] \in TokenConfig
<1>0. Typed(authority, tokenConfigs)
  BY DEF Inv, FaucetTypeOK
<1>1. ASSUME NEW amount \in ClaimAmounts, NEW enabled \in BOOLEAN
      PROVE  [claimAmount |-> amount, enabled |-> enabled] \in TokenConfig
  BY <1>1 DEF TokenConfig
<1>2. ASSUME NEW c \in Cooldowns, InitializeFaucet(c)
      PROVE  FaucetTypeOK'
  BY <1>2 DEF Inv, FaucetTypeOK, InitializeFaucet, NotInitialized
<1>3. ASSUME NEW m \in Mints, NEW amount \in ClaimAmounts, CreateTokenMint(m, amount)
      PROVE  FaucetTypeOK'
  <2> DEFINE config == [claimAmount |-> amount, enabled |-> TRUE]
  <2>1. config \in TokenConfig
    BY <1>1
  <2> HIDE DEF config
  <2>2. /\ DOMAIN Put(authority, m, TRUE) = DOMAIN authority \union {m}
        /\ \A x \in DOMAIN authority \union {m} : Put(authority, m, TRUE)[x] \in BOOLEAN
    BY <1>0, PutIsTyped, Zenon
  <2>3. /\ DOMAIN Put(tokenConfigs, m, config) = DOMAIN tokenConfigs \union {m}
        /\ \A x \in DOMAIN tokenConfigs \union {m} :
             Put(tokenConfigs, m, config)[x] \in TokenConfig
    BY <1>0, <2>1, PutIsTyped, Zenon
  <2>4. authority' = Put(authority, m, TRUE) /\ tokenConfigs' = Put(tokenConfigs, m, config)
    BY <1>3 DEF CreateTokenMint, NewMint, config
  <2>5. Typed(authority', tokenConfigs')
    BY <1>0, <2>2, <2>3, <2>4
  <2> QED  BY <1>3, <2>5 DEF Inv, FaucetTypeOK, CreateTokenMint
<1>4. ASSUME NEW m \in Mints, NEW amount \in ClaimAmounts, AddToken(m, amount)
      PROVE  FaucetTypeOK'
  <2> DEFINE config == [claimAmount |-> amount, enabled |-> TRUE]
  <2>1. config \in TokenConfig
    BY <1>1
  <2> HIDE DEF config
  <2>2. /\ DOMAIN Put(tokenConfigs, m, config) = DOMAIN tokenConfigs \union {m}
        /\ \A x \in DOMAIN tokenConfigs \union {m} :
             Put(tokenConfigs, m, config)[x] \in TokenConfig
    BY <1>0, <2>1, PutIsTyped, Zenon
  <2>3. tokenConfigs' = Put(tokenConfigs, m, config) /\ m \in DOMAIN authority
    BY <1>4 DEF AddToken, NewToken, config
  <2>4. Typed(authority, tokenConfigs')
    BY <1>0, <2>2, <2>3
  <2> QED  BY <1>4, <2>4 DEF Inv, FaucetTypeOK, AddToken
<1>5. ASSUME NEW m \in Mints, NEW amount \in ClaimAmounts, SetClaimAmount(m, amount)
      PROVE  FaucetTypeOK'
  <2>1. [tokenConfigs[m] EXCEPT !.claimAmount = amount] \in TokenConfig
    BY <1>0, <1>5 DEF SetClaimAmount, AdminOf, TokenConfig
  <2>2. Typed(authority, tokenConfigs')
    BY <1>0, <1>5, <2>1 DEF SetClaimAmount, AdminOf
  <2> QED  BY <1>5, <2>2 DEF Inv, FaucetTypeOK, SetClaimAmount
<1>6. ASSUME NEW m \in Mints, NEW enabled \in BOOLEAN, SetTokenEnabled(m, enabled)
      PROVE  FaucetTypeOK'
  <2>1. [tokenConfigs[m] EXCEPT !.enabled = enabled] \in TokenConfig
    BY <1>0, <1>6 DEF SetTokenEnabled, AdminOf, TokenConfig
  <2>2. Typed(authority, tokenConfigs')
    BY <1>0, <1>6, <2>1 DEF SetTokenEnabled, AdminOf
  <2> QED  BY <1>6, <2>2 DEF Inv, FaucetTypeOK, SetTokenEnabled
<1>7. ASSUME NEW m \in Mints, HandOverAuthority(m)
      PROVE  FaucetTypeOK'
  <2>1. Typed(authority', tokenConfigs)
    BY <1>0, <1>7 DEF HandOverAuthority
  <2> QED  BY <1>7, <2>1 DEF Inv, FaucetTypeOK, HandOverAuthority
<1> QED  BY <1>2, <1>3, <1>4, <1>5, <1>6, <1>7 DEF Administer

LEMMA AdministerKeepsRecords ==
  ASSUME Inv, Administer \/ \E m \in Mints : HandOverAuthority(m)
  PROVE  RecordsAreLatest' /\ NoClaimsBefore' /\ CooldownBetweenClaims'
<1>1. UNCHANGED <<lastClaim, claims>>
  BY DEF Administer, InitializeFaucet, CreateTokenMint, AddToken, SetClaimAmount,
         SetTokenEnabled, HandOverAuthority
<1>2. CASE UNCHANGED faucetConfig
  BY <1>1, <1>2 DEF Inv, RecordsAreLatest, LatestClaim, NoClaimsBefore, CooldownBetweenClaims
<1>3. CASE faucetConfig = {} /\ faucetConfig' # {}
  <2>1. \A u \in Users, l \in Lanes : claims'[u][l] = <<>>
    BY <1>1, <1>3 DEF Inv, NoClaimsBefore
  <2> QED  BY <1>1, <1>3, <2>1
             DEF Inv, RecordsAreLatest, LatestClaim, NoClaimsBefore, CooldownBetweenClaims
<1>4. UNCHANGED faucetConfig \/ (faucetConfig = {} /\ faucetConfig' # {})
  BY DEF Administer, InitializeFaucet, NotInitialized, CreateTokenMint, AddToken, SetClaimAmount,
         SetTokenEnabled, HandOverAuthority
<1> QED  BY <1>2, <1>3, <1>4

LEMMA TickKeepsInv == ASSUME Inv, Tick PROVE Inv'
<1>1. now \in Nat /\ now < MaxTime /\ now' = now + 1
  BY DEF Inv, FaucetTypeOK, Tick
<1>2. lastClaim' \in [Users -> [Lanes -> 0 .. now']]
  BY <1>1 DEF Inv, FaucetTypeOK, Tick
<1>3. \A s \in Seq(1 .. now) : s \in Seq(1 .. now')
  <2>1. SUFFICES ASSUME NEW s \in Seq(1 .. now) PROVE s \in Seq(1 .. now')
    OBVIOUS
  <2>2. 1 .. now \subseteq 1 .. now'
    BY <1>1
  <2> QED  BY <2>2, SeqMonotonic
<1>4. claims' \in [Users -> [Lanes -> Seq(1 .. now')]]
  BY <1>3 DEF Inv, FaucetTypeOK, Tick
<1>5. FaucetTypeOK'
  BY <1>1, <1>2, <1>4 DEF Inv, FaucetTypeOK, Tick
<1>6. RecordsAreLatest' /\ NoClaimsBefore' /\ CooldownBetweenClaims'
  BY DEF Inv, Tick, RecordsAreLatest, LatestClaim, NoClaimsBefore, CooldownBetweenClaims
<1> QED  BY <1>5, <1>6 DEF Inv

LEMMA ClaimKeepsInv ==
  ASSUME Inv,
         \/ \E u \in Users, m \in Mints : ClaimToken(u, m)
         \/ \E u \in Users, batch \in Batches : ClaimAll(u, batch)
  PROVE  Inv'
<1>1. ASSUME NEW u \in Users, NEW m \in Mints, ClaimToken(u, m)
      PROVE  Inv'
  <2>1. m \in Lanes
    BY DEF Lanes
  <2>2. /\ lastClaim' \in [Users -> [Lanes -> 0 .. now']]
        /\ claims' \in [Users -> [Lanes -> Seq(1 .. now')]]
        /\ RecordsAreLatest' /\ CooldownBetweenClaims'
    BY <1>1, <2>1, ClaimKeepsRecords DEF ClaimToken, Initialized
  <2>3. tokenConfigs[m].claimAmount \in Nat
    BY <1>1 DEF Inv, FaucetTypeOK, TokenConfig, ClaimToken, Mintable
  <2>4. supply' \in [Mints -> 0 .. MaxSupply]
    BY <1>1, <2>3 DEF Inv, FaucetTypeOK, ClaimToken
  <2>5. FaucetTypeOK' /\ NoClaimsBefore'
    BY <1>1, <2>2, <2>4 DEF Inv, FaucetTypeOK, NoClaimsBefore, ClaimToken, Initialized
  <2> QED  BY <2>2, <2>5 DEF Inv
<1>2. ASSUME NEW u \in Users, NEW batch \in Batches, ClaimAll(u, batch)
      PROVE  Inv'
  <2>1. AllTokens \in Lanes
    BY DEF Lanes
  <2>2. /\ lastClaim' \in [Users -> [Lanes -> 0 .. now']]
        /\ claims' \in [Users -> [Lanes -> Seq(1 .. now')]]
        /\ RecordsAreLatest' /\ CooldownBetweenClaims'
    BY <1>2, <2>1, ClaimKeepsRecords DEF ClaimAll, Initialized
  <2>3. \A m \in Mints : HandedOut(batch, m) \in Nat
    BY <1>2, HandedOutIsNat DEF Inv, ClaimAll
  <2>4. \A m \in Mints : supply[m] + HandedOut(batch, m) \in 0 .. MaxSupply
    BY <1>2, <2>3 DEF Inv, FaucetTypeOK, ClaimAll
  <2>5. supply' \in [Mints -> 0 .. MaxSupply]
    BY <1>2, <2>4 DEF ClaimAll
  <2>6. FaucetTypeOK' /\ NoClaimsBefore'
    BY <1>2, <2>2, <2>5 DEF Inv, FaucetTypeOK, NoClaimsBefore, ClaimAll, Initialized
  <2> QED  BY <2>2, <2>6 DEF Inv
<1> QED  BY <1>1, <1>2

LEMMA InvHolds == Spec => []Inv
<1>1. Inv /\ [Next]_vars => Inv'
  <2>1. Inv /\ UNCHANGED vars => Inv'
    BY DEF Inv, FaucetTypeOK, RecordsAreLatest, LatestClaim, NoClaimsBefore,
           CooldownBetweenClaims, vars
  <2>2. Inv /\ (Administer \/ \E m \in Mints : HandOverAuthority(m)) => Inv'
    BY AdministerKeepsTypes, AdministerKeepsRecords DEF Inv
  <2> QED  BY <2>1, <2>2, TickKeepsInv, ClaimKeepsInv DEF Next
<1> QED  BY InvInit, <1>1, PTL DEF Spec

(***************************************************************************)
(* The state of the faucet is well typed, and no mint grows past its limit *)
(***************************************************************************)
THEOREM FaucetTypeCorrect == Spec => []FaucetTypeOK
<1>1. Inv => FaucetTypeOK  BY DEF Inv
<1> QED  BY InvHolds, <1>1, PTL

(***************************************************************************)
(* Claims through one record are a cooldown apart, for all users, tokens,  *)
(* lists and cooldowns, negative ones included.                            *)
(***************************************************************************)
THEOREM CooldownKept == Spec => []CooldownBetweenClaims
<1>1. Inv => CooldownBetweenClaims  BY DEF Inv
<1> QED  BY InvHolds, <1>1, PTL

(***************************************************************************)
(* Whatever grows was enabled and mintable, through either way to claim.   *)
(***************************************************************************)
THEOREM EnabledOnly == Spec => OnlyEnabledHandedOut
<1> DEFINE Ready(m) ==
             m \in DOMAIN tokenConfigs /\ tokenConfigs[m].enabled /\ authority[m]
<1>1. ASSUME Inv, [Next]_vars, NEW m \in Mints, supply'[m] # supply[m]
      PROVE  Ready(m)
  <2>1. CASE \E u \in Users, k \in Mints : ClaimToken(u, k)
    <3>1. PICK u \in Users, k \in Mints : ClaimToken(u, k)
      BY <2>1
    <3>2. k = m
      BY <1>1, <3>1 DEF Inv, FaucetTypeOK, ClaimToken
    <3> QED  BY <3>1, <3>2, Zenon DEF ClaimToken, Mintable
  <2>2. CASE \E u \in Users, batch \in Batches : ClaimAll(u, batch)
    <3>1. PICK u \in Users, batch \in Batches : ClaimAll(u, batch)
      BY <2>2
    <3>2. supply'[m] = supply[m] + HandedOut(batch, m)
      BY <3>1 DEF ClaimAll
    <3>0. supply[m] \in 0 .. MaxSupply
      BY <1>1 DEF Inv, FaucetTypeOK
    <3>3. HandedOut(batch, m) # 0
      BY <1>1, <3>2, <3>0
    <3>4. PICK i \in DOMAIN batch : batch[i].mint = m
      BY <3>3 DEF HandedOut
    <3>5. ChunkOK(batch[i])
      BY <3>1 DEF ClaimAll
    <3> QED  BY <3>4, <3>5, Zenon DEF ChunkOK, Mintable
  <2>3. UNCHANGED supply => FALSE
    BY <1>1
  <2> QED  BY <1>1, <2>1, <2>2, <2>3
       DEF Next, vars, Tick, Administer, InitializeFaucet, CreateTokenMint, AddToken,
           SetClaimAmount, SetTokenEnabled, HandOverAuthority
<1>2. Inv /\ [Next]_vars => [\A m \in Mints : supply'[m] # supply[m] => Ready(m)]_vars
  BY <1>1
<1> QED  BY InvHolds, <1>2, PTL DEF Spec, OnlyEnabledHandedOut

-------------------------------------------------------------------------------
(* The token program *)

HIDE FaucetAssumption
USE SplAssumption

(***************************************************************************)
(* What TokensAccountedFor needs of the types: nothing is negative.        *)
(***************************************************************************)
SplInv ==
  /\ circulating \in Nat /\ minted \in Nat /\ burned \in Nat
  /\ balance \in [Holders -> Nat] /\ asked \in [Chains -> Nat]
  /\ TokensAccountedFor

\* New tokens are in circulation and in a balance.
LEMMA MintToCounts ==
  ASSUME SplInv, NEW to \in Holders, NEW amount \in Nat,
         MintTo(to, amount), minted' = minted + amount, UNCHANGED <<asked, burned>>
  PROVE  SplInv'
<1>1. balance[to] \in Nat
  BY DEF SplInv
<1>2. balance[to] + amount \in Nat
  BY <1>1
<1>3. /\ balance \in [Holders -> Nat] /\ balance' \in [Holders -> Nat]
      /\ balance'[to] = balance[to] + amount
      /\ \A u \in Holders \ {to} : balance'[u] = balance[u]
  BY <1>2 DEF MintTo, SplInv
<1>4. SumFunctionOnSet(balance', Holders)
        = SumFunctionOnSet(balance, Holders) + balance'[to] - balance[to]
  BY <1>3, ValueChanges
<1>5. SumFunctionOnSet(asked, Chains) \in Nat
  BY SumIsNatural DEF SplInv, NaturalOn
<1>6. /\ circulating' = circulating + amount /\ circulating' <= MaxU64
      /\ circulating = SumFunctionOnSet(balance, Holders)
      /\ minted = circulating + SumFunctionOnSet(asked, Chains) + burned
      /\ circulating \in Nat /\ minted \in Nat /\ burned \in Nat
  BY DEF MintTo, SplInv, TokensAccountedFor
<1>7. circulating' \in 0 .. MaxU64 /\ minted' \in Nat
  BY <1>6
<1>8. circulating' = SumFunctionOnSet(balance', Holders)
  BY <1>1, <1>3, <1>4, <1>6
<1>9. minted' = circulating' + SumFunctionOnSet(asked, Chains) + burned
  BY <1>5, <1>6
<1>10. TokensAccountedFor'
  BY <1>7, <1>8, <1>9 DEF TokensAccountedFor
<1>. QED
  BY <1>3, <1>6, <1>7, <1>10 DEF SplInv

\* Burned tokens leave circulation and a balance.
LEMMA BurnCounts ==
  ASSUME SplInv, NEW from \in Holders, NEW amount \in Nat, Burn(from, amount)
  PROVE  /\ circulating' \in 0 .. MaxU64 /\ circulating' = circulating - amount
         /\ balance' \in [Holders -> Nat]
         /\ circulating' = SumFunctionOnSet(balance', Holders)
<1>1. balance[from] \in Nat /\ amount <= balance[from]
  BY DEF SplInv, Burn
<1>2. balance[from] - amount \in Nat
  BY <1>1
<1>3. /\ balance \in [Holders -> Nat] /\ balance' \in [Holders -> Nat]
      /\ balance'[from] = balance[from] - amount
      /\ \A u \in Holders \ {from} : balance'[u] = balance[u]
  BY <1>2 DEF Burn, SplInv
<1>4. SumFunctionOnSet(balance', Holders)
        = SumFunctionOnSet(balance, Holders) + balance'[from] - balance[from]
  BY <1>3, ValueChanges
<1>5. /\ circulating = SumFunctionOnSet(balance, Holders) /\ circulating \in 0 .. MaxU64
      /\ circulating' = circulating - amount
  BY DEF SplInv, TokensAccountedFor, Burn
<1>6. SumFunctionOnSet(balance', Holders) \in Nat
  BY <1>3, SumIsNatural DEF NaturalOn
<1>7. circulating' = SumFunctionOnSet(balance', Holders)
  BY <1>1, <1>3, <1>4, <1>5
<1>8. circulating' \in 0 .. MaxU64
  BY <1>5, <1>6, <1>7
<1>. QED
  BY <1>3, <1>5, <1>7, <1>8

\* A transfer gives what it takes.
LEMMA TransferCounts ==
  ASSUME SplInv, NEW from \in Holders, NEW to \in Holders,
         NEW amount \in Nat, Transfer(from, to, amount)
  PROVE  SplInv'
<1>. DEFINE less == [balance EXCEPT ![from] = balance[from] - amount]
<1>1. /\ IsFiniteSet(Holders) /\ from # to
      /\ balance \in [Holders -> Nat] /\ amount <= balance[from]
      /\ balance' = [balance EXCEPT ![from] = balance[from] - amount,
                                    ![to] = balance[to] + amount]
  BY DEF SplInv, Transfer
<1>2. balance[from] \in Nat /\ balance[to] \in Nat
      /\ balance[from] - amount \in Nat /\ balance[to] + amount \in Nat
  <2>1. balance[from] \in Nat /\ balance[to] \in Nat
    BY <1>1
  <2>. QED
    BY <1>1, <2>1
<1>3. less \in [Holders -> Nat] /\ less[from] = balance[from] - amount
      /\ \A v \in Holders \ {from} : less[v] = balance[v]
  BY <1>1, <1>2
<1>4. balance' \in [Holders -> Nat] /\ balance'[to] = balance[to] + amount
      /\ \A v \in Holders \ {to} : balance'[v] = less[v]
  BY <1>1, <1>2
<1>5. less[to] = balance[to] /\ less[from] \in Nat
  BY <1>1, <1>2, <1>3
<1>. HIDE DEF less
<1>6. SumFunctionOnSet(less, Holders)
        = SumFunctionOnSet(balance, Holders) + less[from] - balance[from]
  <2>1. IsFiniteSet(Holders) /\ balance \in [Holders -> Nat]
    BY <1>1
  <2>. QED
    BY <1>3, <2>1, ValueChanges
<1>7. SumFunctionOnSet(balance', Holders)
        = SumFunctionOnSet(less, Holders) + balance'[to] - less[to]
  BY <1>3, <1>4, ValueChanges
<1>8. SumFunctionOnSet(balance, Holders) \in Nat
  BY <1>1, SumIsNatural DEF NaturalOn
<1>9. SumFunctionOnSet(balance', Holders) = SumFunctionOnSet(balance, Holders)
  BY <1>2, <1>3, <1>4, <1>5, <1>6, <1>7, <1>8
<1>. QED
  BY <1>4, <1>9 DEF SplInv, TokensAccountedFor, Transfer

LEMMA BurnOwnCounts ==
  ASSUME SplInv, NEW u \in Holders, NEW amount \in Nat, BurnOwn(u, amount)
  PROVE  SplInv'
<1>1. /\ circulating' \in 0 .. MaxU64 /\ circulating' = circulating - amount
      /\ balance' \in [Holders -> Nat]
      /\ circulating' = SumFunctionOnSet(balance', Holders)
  BY BurnCounts DEF BurnOwn
<1>2. SumFunctionOnSet(asked, Chains) \in Nat
  BY SumIsNatural DEF SplInv, NaturalOn
<1>3. /\ burned' = burned + amount /\ asked' = asked /\ minted' = minted
      /\ minted = circulating + SumFunctionOnSet(asked, Chains) + burned
      /\ circulating \in Nat /\ minted \in Nat /\ burned \in Nat /\ asked \in [Chains -> Nat]
  BY DEF BurnOwn, SplInv, TokensAccountedFor
<1>4. minted' = circulating' + SumFunctionOnSet(asked', Chains) + burned'
  BY <1>1, <1>2, <1>3
<1>5. circulating' \in Nat /\ burned' \in Nat
  BY <1>1, <1>3
<1>. QED
  BY <1>1, <1>3, <1>4, <1>5 DEF SplInv, TokensAccountedFor

\* A request asks another chain for what it burns here.
LEMMA RequestCounts ==
  ASSUME SplInv, NEW u \in Holders, NEW c \in Chains, NEW amount \in Nat,
         request_bridge(u, c, amount)
  PROVE  SplInv'
<1>1. /\ circulating' \in 0 .. MaxU64 /\ circulating' = circulating - amount
      /\ balance' \in [Holders -> Nat]
      /\ circulating' = SumFunctionOnSet(balance', Holders)
  BY BurnCounts DEF request_bridge, RequestBridge
<1>2. /\ asked' = [asked EXCEPT ![c] = asked[c] + amount] /\ burned' = burned
      /\ minted' = minted
      /\ minted = circulating + SumFunctionOnSet(asked, Chains) + burned
      /\ circulating \in Nat /\ minted \in Nat /\ burned \in Nat /\ asked \in [Chains -> Nat]
  BY DEF request_bridge, SplInv, TokensAccountedFor
<1>3. asked[c] \in Nat /\ asked[c] + amount \in Nat
  <2>1. asked[c] \in Nat
    BY <1>2
  <2>. QED
    BY <2>1
<1>4. /\ asked \in [Chains -> Nat] /\ asked' \in [Chains -> Nat] /\ asked'[c] = asked[c] + amount
      /\ \A d \in Chains \ {c} : asked'[d] = asked[d]
  BY <1>2, <1>3
<1>5. SumFunctionOnSet(asked', Chains)
        = SumFunctionOnSet(asked, Chains) + asked'[c] - asked[c]
  BY <1>4, ValueChanges
<1>6. SumFunctionOnSet(asked, Chains) \in Nat
  BY SumIsNatural DEF SplInv, NaturalOn
<1>7. minted' = circulating' + SumFunctionOnSet(asked', Chains) + burned'
  BY <1>1, <1>2, <1>3, <1>4, <1>5, <1>6
<1>8. circulating' \in Nat
  BY <1>1
<1>. QED
  BY <1>1, <1>2, <1>4, <1>7, <1>8 DEF SplInv, TokensAccountedFor

LEMMA SplInvInit == ASSUME SplInit PROVE SplInv
<1>1. /\ circulating = 0 /\ minted = 0 /\ burned = 0
      /\ balance \in [Holders -> Nat] /\ asked \in [Chains -> Nat]
      /\ \A u \in Holders : balance[u] = 0
      /\ \A c \in Chains : asked[c] = 0
  BY DEF SplInit
<1>2. SumFunctionOnSet(balance, Holders) = 0 /\ SumFunctionOnSet(asked, Chains) = 0
  BY <1>1, SumOfZeros
<1>3. circulating \in 0 .. MaxU64
  BY <1>1
<1>. QED
  BY <1>1, <1>2, <1>3 DEF SplInv, TokensAccountedFor

LEMMA SplInvKept == ASSUME SplInv, [SplNext]_splVars PROVE SplInv'
<1>1. Amounts \subseteq Nat /\ Supplies \subseteq Nat
  OBVIOUS
<1>2. ASSUME NEW u \in Holders, NEW amount \in Supplies, initialize(u, amount)
      PROVE  SplInv'
  BY <1>1, <1>2, MintToCounts DEF initialize
<1>3. ASSUME NEW u \in Holders, NEW amount \in Amounts,
             \/ mint_more(u, amount) \/ BurnOwn(u, amount)
             \/ \E v \in Holders : Transfer(u, v, amount)
             \/ \E chain \in Chains : request_bridge(u, chain, amount)
      PROVE  SplInv'
  <2>1. amount \in Nat
    BY <1>1
  <2>2. CASE mint_more(u, amount)
    BY <2>1, <2>2, MintToCounts DEF mint_more
  <2>3. CASE BurnOwn(u, amount)
    BY <2>1, <2>3, BurnOwnCounts
  <2>4. CASE \E v \in Holders : Transfer(u, v, amount)
    BY <2>1, <2>4, TransferCounts
  <2>5. CASE \E chain \in Chains : request_bridge(u, chain, amount)
    BY <2>1, <2>5, RequestCounts
  <2>. QED
    BY <1>3, <2>2, <2>3, <2>4, <2>5
<1>4. CASE UNCHANGED splVars
  BY <1>4 DEF splVars, SplInv, TokensAccountedFor
<1>. QED
  BY <1>2, <1>3, <1>4 DEF SplNext

(***************************************************************************)
(* Tokens asked for on other chains were taken out of circulation here,    *)
(* and the supply is what the holders have, for any holders and amounts    *)
(* (token/src/lib.rs:61, 90-101).                                          *)
(***************************************************************************)
THEOREM TokensAlwaysAccountedFor == SplSpec => []TokensAccountedFor
<1>1. SplInit => SplInv
  BY SplInvInit
<1>2. SplInv /\ [SplNext]_splVars => SplInv'
  BY SplInvKept
<1>3. SplInv => TokensAccountedFor
  BY DEF SplInv
<1>. QED
  BY <1>1, <1>2, <1>3, PTL DEF SplSpec
===============================================================================
