------------------------ MODULE ProviderRegistryProofs ------------------------
(***************************************************************************)
(* Theorems about ProviderRegistry, for all providers, tokens, messages    *)
(* and validator sets.                                                     *)
(***************************************************************************)
EXTENDS ProviderRegistry, QiaraGovernanceProofs

\* The records of consumed messages count the updates exactly.
AppliedByRecords ==
  /\ applied \in [UpdateMessages -> Nat]
  /\ \A m \in UpdateMessages : applied[m] = IF m \in actionRecords THEN 1 ELSE 0

ProviderInv == ListsAgree /\ AppliedByRecords

LEMMA InsertKeepsAgreement ==
  ASSUME ListsAgree, NEW p, NEW ts, InternalInsertTokens(p, ts)
  PROVE  ListsAgree'
BY DEF ListsAgree, InternalInsertTokens, Put

LEMMA RemoveKeepsAgreement ==
  ASSUME ListsAgree, NEW p, NEW ts, InternalRemoveTokens(p, ts)
  PROVE  ListsAgree'
BY DEF ListsAgree, InternalRemoveTokens

LEMMA ConsumeCounts ==
  ASSUME AppliedByRecords, NEW m \in UpdateMessages, Consume(m)
  PROVE  AppliedByRecords'
BY DEF AppliedByRecords, Consume

LEMMA DeveloperKeeps ==
  ASSUME ProviderInv, Developer
  PROVE  ProviderInv'
<1>1. AppliedByRecords'
  BY DEF ProviderInv, AppliedByRecords, Developer, DevAddTokens,
     DevSetTokenAddress, RevokeDevAccess, SetChain
<1>2. ListsAgree'
  <2>1. ASSUME NEW p \in Providers, NEW ts \in SUBSET Tokens, DevAddTokens(p, ts)
        PROVE  ListsAgree'
    BY <2>1, InsertKeepsAgreement DEF ProviderInv, DevAddTokens
  <2>2. ASSUME NEW t \in Tokens, NEW mint \in TokenMints, DevSetTokenAddress(t, mint)
        PROVE  ListsAgree'
    BY <2>2 DEF ProviderInv, ListsAgree, DevSetTokenAddress, InternalSetTokenAddress
  <2>3. CASE RevokeDevAccess
    BY <2>3 DEF ProviderInv, ListsAgree, RevokeDevAccess, lists
  <2>4. ASSUME NEW c \in Chains, SetChain(c)
        PROVE  ListsAgree'
    BY <2>4 DEF ProviderInv, ListsAgree, SetChain, lists
  <2> QED BY <2>1, <2>2, <2>3, <2>4 DEF Developer
<1> QED BY <1>1, <1>2 DEF ProviderInv

LEMMA UpdateKeeps ==
  ASSUME ProviderInv, ProviderUpdate
  PROVE  ProviderInv'
<1>1. ASSUME NEW m \in TokensMessages, UpdateTokens(m)
      PROVE  ProviderInv'
  <2>1. AppliedByRecords'
    BY <1>1, ConsumeCounts DEF UpdateTokens, ProviderInv, UpdateMessages
  <2>2. CASE m.isAdd
    BY <1>1, <2>1, <2>2, InsertKeepsAgreement DEF UpdateTokens, ProviderInv
  <2>3. CASE ~m.isAdd
    BY <1>1, <2>1, <2>3, RemoveKeepsAgreement DEF UpdateTokens, ProviderInv
  <2> QED BY <2>2, <2>3
<1>2. ASSUME NEW m \in AddressMessages, UpdateTokenAddress(m)
      PROVE  ProviderInv'
  <2>1. AppliedByRecords'
    BY <1>2, ConsumeCounts DEF UpdateTokenAddress, ProviderInv, UpdateMessages
  <2>2. ListsAgree'
    BY <1>2 DEF ProviderInv, ListsAgree, UpdateTokenAddress, InternalSetTokenAddress
  <2> QED BY <2>1, <2>2 DEF ProviderInv
<1> QED BY <1>1, <1>2 DEF ProviderUpdate

LEMMA ProviderInvHolds == ProvidersSpec => []ProviderInv
<1>1. ProvidersInit => ProviderInv
  BY DEF ProvidersInit, InitializeProviders, ProviderInv, ListsAgree, AppliedByRecords
<1>2. ProviderInv /\ [ProvidersNext]_<<vars, providerVars>> => ProviderInv'
  <2>1. ProviderInv /\ UNCHANGED providerVars => ProviderInv'
    BY DEF ProviderInv, ListsAgree, AppliedByRecords, providerVars, lists
  <2> QED BY <2>1, DeveloperKeeps, UpdateKeeps DEF ProvidersNext
<1> QED BY <1>1, <1>2, PTL DEF ProvidersSpec

\* A provider with a list of tokens is a supported one, and the reverse,
\* whoever inserted or removed tokens, in whatever order.
THEOREM ListsAlwaysAgree == ProvidersSpec => []ListsAgree
<1>1. ProviderInv => ListsAgree
  BY DEF ProviderInv
<1> QED BY <1>1, ProviderInvHolds, PTL

\* No update is applied twice, however often its signatures are staged.
THEOREM AppliedOnce == ProvidersSpec => []AppliedAtMostOnce
<1>1. ProviderInv => AppliedAtMostOnce
  BY DEF ProviderInv, AppliedByRecords, AppliedAtMostOnce
<1> QED BY <1>1, ProviderInvHolds, PTL

\* The lists as tables: tokens of the set, and mints, for names of the sets.
ListsTyped ==
  /\ DOMAIN provided \subseteq Providers
  /\ provided \in [DOMAIN provided -> SUBSET Tokens]
  /\ DOMAIN tokenAddresses \subseteq Tokens
  /\ tokenAddresses \in [DOMAIN tokenAddresses -> TokenMints]

RecordsTyped ==
  chain \in Chains /\ devRevoked \in BOOLEAN /\ actionRecords \subseteq UpdateMessages

LEMMA InsertKeepsTypes ==
  ASSUME ListsTyped, NEW p \in Providers, NEW ts \in SUBSET Tokens,
         InternalInsertTokens(p, ts)
  PROVE  ListsTyped'
<1>1. DOMAIN provided' = DOMAIN provided \union {p}
      /\ provided' \in [DOMAIN provided' -> SUBSET Tokens]
  BY DEF InternalInsertTokens, Put, ListsTyped
<1> QED BY <1>1 DEF InternalInsertTokens, ListsTyped

LEMMA RemoveKeepsTypes ==
  ASSUME ListsTyped, NEW p, NEW ts, InternalRemoveTokens(p, ts)
  PROVE  ListsTyped'
BY DEF InternalRemoveTokens, ListsTyped

LEMMA AddressKeepsTypes ==
  ASSUME ListsTyped, NEW t \in Tokens, NEW mint \in TokenMints,
         InternalSetTokenAddress(t, mint)
  PROVE  ListsTyped'
<1>1. DOMAIN tokenAddresses' = DOMAIN tokenAddresses \union {t}
      /\ tokenAddresses' \in [DOMAIN tokenAddresses' -> TokenMints]
  BY DEF InternalSetTokenAddress, Put, ListsTyped
<1> QED BY <1>1 DEF InternalSetTokenAddress, ListsTyped

\* The lists and records of the provider registry are well typed: whoever
\* updates it, a list holds tokens and an address stands for a token.
THEOREM ProvidersTyped == ProvidersSpec => []ProvidersTypeOK
<1>. DEFINE Typed == ListsTyped /\ RecordsTyped
<1>1. ProvidersInit => Typed
  <2>1. DOMAIN <<>> = {} /\ \A V : <<>> \in [{} -> V]
    OBVIOUS
  <2> QED BY <2>1 DEF ProvidersInit, InitializeProviders, ListsTyped, RecordsTyped
<1>2. Typed /\ [ProvidersNext]_<<vars, providerVars>> => Typed'
  <2> SUFFICES ASSUME ListsTyped, RecordsTyped, [ProvidersNext]_<<vars, providerVars>>
               PROVE  ListsTyped' /\ RecordsTyped'
    OBVIOUS
  <2>1. CASE UNCHANGED providerVars
    BY <2>1 DEF providerVars, lists, ListsTyped, RecordsTyped
  <2>2. CASE Developer
    <3>1. UNCHANGED lists => ListsTyped'
      BY DEF ListsTyped, lists
    <3> QED BY <2>2, <3>1, InsertKeepsTypes, AddressKeepsTypes
            DEF Developer, DevAddTokens, DevSetTokenAddress, RevokeDevAccess, SetChain,
                RecordsTyped
  <2>3. ASSUME NEW m \in TokensMessages, UpdateTokens(m)
        PROVE  ListsTyped' /\ RecordsTyped'
    <3>1. m.provider \in Providers /\ m.tokens \in SUBSET Tokens
      BY ProvidersAssumption
    <3>2. RecordsTyped'
      BY <2>3 DEF UpdateTokens, Consume, RecordsTyped, UpdateMessages
    <3> QED BY <2>3, <3>1, <3>2, InsertKeepsTypes, RemoveKeepsTypes DEF UpdateTokens
  <2>4. ASSUME NEW m \in AddressMessages, UpdateTokenAddress(m)
        PROVE  ListsTyped' /\ RecordsTyped'
    <3>1. m.token \in Tokens /\ m.mint \in TokenMints
      BY ProvidersAssumption
    <3>2. RecordsTyped'
      BY <2>4 DEF UpdateTokenAddress, Consume, RecordsTyped, UpdateMessages
    <3> QED BY <2>4, <3>1, <3>2, AddressKeepsTypes DEF UpdateTokenAddress
  <2> QED BY <2>1, <2>2, <2>3, <2>4 DEF ProvidersNext, ProviderUpdate
<1>3. Typed /\ ProviderInv => ProvidersTypeOK
  BY DEF ListsTyped, RecordsTyped, ProviderInv, ListsAgree, AppliedByRecords,
         ProvidersTypeOK
<1>. HIDE DEF Typed
<1> QED BY <1>1, <1>2, <1>3, ProviderInvHolds, PTL DEF ProvidersSpec

\* After the developer revoked its access, only a message that was never
\* consumed before changes the lists.
THEOREM RevokedForGood == ProvidersSpec => RevocationIsFinal
<1> DEFINE Final == devRevoked =>
                      /\ devRevoked'
                      /\ lists' # lists => actionRecords' \ actionRecords # {}
<1>1. [ProvidersNext]_<<vars, providerVars>> => Final
  <2>1. CASE UNCHANGED providerVars
    BY <2>1 DEF providerVars
  <2>2. CASE Developer
    BY <2>2 DEF Developer, DevAddTokens, DevSetTokenAddress, RevokeDevAccess, SetChain
  <2>3. CASE ProviderUpdate
    <3>1. PICK m : Consume(m)
      BY <2>3 DEF ProviderUpdate, UpdateTokens, UpdateTokenAddress
    <3> QED BY <3>1 DEF Consume
  <2> QED BY <2>1, <2>2, <2>3 DEF ProvidersNext
<1> QED BY <1>1, PTL DEF ProvidersSpec, RevocationIsFinal

-------------------------------------------------------------------------------
(* The governance that authorises the updates *)

\* An update consumes one buffer and leaves the rest of the governance alone.
LEMMA UpdateConsumes ==
  ASSUME ProviderUpdate
  PROVE  \E m \in UpdateMessages : Consume(m)
BY DEF ProviderUpdate, UpdateTokens, UpdateTokenAddress, UpdateMessages

LEMMA ConsumeKeepsGovernanceTypes ==
  ASSUME TypeOK, NEW m \in UpdateMessages, Consume(m)
  PROVE  TypeOK'
BY CloseTypes DEF Consume, TypeOK

\* The invariant of the governance goes through every step of this module.
LEMMA GovernanceServesProviders ==
  ASSUME Inv, [ProvidersNext]_<<vars, providerVars>>
  PROVE  Inv'
<1>1. CASE [Next]_vars
  BY <1>1, TypeStep, NothingBeyondStep DEF Inv
<1>2. CASE Developer
  <2>1. UNCHANGED vars
    BY <1>2 DEF Developer, DevAddTokens, DevSetTokenAddress, RevokeDevAccess, SetChain
  <2> QED BY <1>1, <2>1
<1>3. CASE ProviderUpdate
  <2>1. PICK m \in UpdateMessages : Consume(m)
    BY <1>3, UpdateConsumes
  <2>2. TypeOK'
    BY <2>1, ConsumeKeepsGovernanceTypes DEF Inv
  <2>3. UNCHANGED <<now, registry, validators>>
    BY <2>1 DEF Consume
  <2> QED BY <2>2, <2>3 DEF Inv, NothingBeyondNextEpoch, Epoch
<1> QED BY <1>1, <1>2, <1>3 DEF ProvidersNext
===============================================================================
