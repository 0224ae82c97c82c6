--------------------------- MODULE ProviderRegistry ---------------------------
(***************************************************************************)
(* The registry of providers, their tokens and the tokens' addresses of    *)
(* the Solana program `qiara` (registry.rs), on top of the governance that *)
(* authorises its updates.  The code compares names without regard to      *)
(* case; a name here stands for all its spellings.                         *)
(***************************************************************************)
EXTENDS QiaraGovernance

CONSTANTS
  Providers, Tokens,   \* names
  TokenMints,          \* the addresses a token may be given
  Mints,               \* keys of token mints; an address may be none of them
  Chains,              \* names the chain may be given
  TokensMessages,      \* UpdateTokensPayloads the validators may sign
  AddressMessages      \* UpdateTokenAddressPayloads the validators may sign

ASSUME ProvidersAssumption ==
  /\ TokensMessages \subseteq
       [ provider : Providers, tokens : SUBSET Tokens, isAdd : BOOLEAN,
         nonce : Nat, chain : Nat ]
  /\ AddressMessages \subseteq
       [token : Tokens, mint : TokenMints, nonce : Nat, chain : Nat]
  /\ TokensMessages \union AddressMessages \subseteq OtherMessages

VARIABLES
  provided,        \* ProviderRegistry.provider_tokens, by provider
  providers,       \* ProviderRegistry.providers
  tokenAddresses,  \* ProviderRegistry.token_addresses, by token
  chain,           \* ProviderRegistry.chain
  devRevoked,      \* ProviderRegistry.dev_access_revoked
  actionRecords,   \* messages with an ActionRecord
  applied          \* history: how often each message was applied

lists == <<provided, providers, tokenAddresses>>
providerVars == <<lists, chain, devRevoked, actionRecords, applied>>

UpdateMessages == TokensMessages \union AddressMessages

ProvidersTypeOK ==
  /\ providers \subseteq Providers
  /\ DOMAIN provided \subseteq Providers
  /\ \A p \in DOMAIN provided : provided[p] \subseteq Tokens
  /\ DOMAIN tokenAddresses \subseteq Tokens
  /\ \A t \in DOMAIN tokenAddresses : tokenAddresses[t] \in TokenMints
  /\ chain \in Chains
  /\ devRevoked \in BOOLEAN
  /\ actionRecords \subseteq UpdateMessages
  /\ applied \in [UpdateMessages -> Nat]

InitializeProviders ==
  /\ provided = <<>> /\ providers = {} /\ tokenAddresses = <<>>
  /\ chain \in Chains
  /\ devRevoked = FALSE
  /\ actionRecords = {}
  /\ applied = [m \in UpdateMessages |-> 0]

ProvidersInit == Init /\ InitializeProviders

-------------------------------------------------------------------------------
(* Queries of the vault program *)

IsProviderSupported(p) == p \in providers

IsTokenSupported(p, t) == p \in DOMAIN provided /\ t \in provided[p]

\* The mint registered for a token; a token without an address, or with one
\* that is no key, may have any mint.
MintMatches(t, mint) ==
  t \in DOMAIN tokenAddresses /\ tokenAddresses[t] \in Mints =>
    tokenAddresses[t] = mint

-------------------------------------------------------------------------------
(* Updates of the lists *)

InsertForgettingProvider(p, ts) ==          \* mutant: providers.push dropped
  /\ provided' = Put(provided, p, ts \union IF p \in DOMAIN provided
                                              THEN provided[p] ELSE {})
  /\ UNCHANGED <<providers, tokenAddresses>>

InternalInsertTokens(p, ts) ==
  /\ providers' = providers \union {p}
  /\ provided' = Put(provided, p, ts \union IF p \in DOMAIN provided
                                              THEN provided[p] ELSE {})
  /\ UNCHANGED tokenAddresses

\* The provider stays, even with no token left.
InternalRemoveTokens(p, ts) ==
  /\ provided' = IF p \in DOMAIN provided
                   THEN [provided EXCEPT ![p] = @ \ ts] ELSE provided
  /\ UNCHANGED <<providers, tokenAddresses>>

SetAddressSwapped(t, mint) ==               \* mutant: name and address swapped
  /\ tokenAddresses' = Put(tokenAddresses, mint, t)
  /\ UNCHANGED <<provided, providers>>

InternalSetTokenAddress(t, mint) ==
  /\ tokenAddresses' = Put(tokenAddresses, t, mint)
  /\ UNCHANGED <<provided, providers>>

-------------------------------------------------------------------------------
(* The developer, until it gives up its access *)

DevAddTokens(p, ts) ==
  /\ ~devRevoked
  /\ InternalInsertTokens(p, ts)
  /\ UNCHANGED <<vars, chain, devRevoked, actionRecords, applied>>

DevSetAddressAlways(t, mint) ==             \* mutant: dev_access_revoked not looked at
  /\ InternalSetTokenAddress(t, mint)
  /\ UNCHANGED <<vars, chain, devRevoked, actionRecords, applied>>

DevSetTokenAddress(t, mint) ==
  /\ ~devRevoked
  /\ InternalSetTokenAddress(t, mint)
  /\ UNCHANGED <<vars, chain, devRevoked, actionRecords, applied>>

RevokeDevAccess ==
  /\ ~devRevoked
  /\ devRevoked' = TRUE
  /\ UNCHANGED <<vars, lists, chain, actionRecords, applied>>

\* The chain's name may be set even after the access is revoked.
SetChain(c) ==
  /\ chain' = c
  /\ UNCHANGED <<vars, lists, devRevoked, actionRecords, applied>>

-------------------------------------------------------------------------------
(* The quorum *)

ConsumeAgain(m) ==                          \* mutant: action record not created
  /\ Accepted(m)
  /\ ForThisChain(m)
  /\ actionRecords' = actionRecords \union {m}
  /\ applied' = [applied EXCEPT ![m] = @ + 1]
  /\ CloseBuffer(m)
  /\ UNCHANGED <<now, registry, isLocked, validators, chain, devRevoked>>

\* The registry of providers has one address; the validators and the registry
\* of variables are those shown.  The action record is created with the update
\* and makes it the only one.
Consume(m) ==
  /\ m \notin actionRecords
  /\ Accepted(m)
  /\ ForThisChain(m)
  /\ actionRecords' = actionRecords \union {m}
  /\ applied' = [applied EXCEPT ![m] = @ + 1]
  /\ CloseBuffer(m)
  /\ UNCHANGED <<now, registry, isLocked, validators, chain, devRevoked>>

UpdateTokens(m) ==
  /\ Consume(m)
  /\ IF m.isAdd THEN InternalInsertTokens(m.provider, m.tokens)
                ELSE InternalRemoveTokens(m.provider, m.tokens)

UpdateTokenAddress(m) ==
  /\ Consume(m)
  /\ InternalSetTokenAddress(m.token, m.mint)

-------------------------------------------------------------------------------
Developer ==
  \/ \E p \in Providers, ts \in SUBSET Tokens : DevAddTokens(p, ts)
  \/ \E t \in Tokens, mint \in TokenMints : DevSetTokenAddress(t, mint)
  \/ RevokeDevAccess
  \/ \E c \in Chains : SetChain(c)

ProviderUpdate ==
  \/ \E m \in TokensMessages : UpdateTokens(m)
  \/ \E m \in AddressMessages : UpdateTokenAddress(m)

ProvidersNext ==
  \/ Next /\ UNCHANGED providerVars
  \/ Developer
  \/ ProviderUpdate

ProvidersSpec == ProvidersInit /\ [][ProvidersNext]_<<vars, providerVars>>

-------------------------------------------------------------------------------
(* Properties *)

\* Providers and their tokens are kept in two lists that never disagree: a
\* provider with an entry is supported, whoever inserted or removed tokens.
ListsAgree == DOMAIN provided = providers

\* An update is applied at most once, although its signatures can be staged
\* again as soon as it is consumed.
AppliedAtMostOnce == \A m \in UpdateMessages : applied[m] <= 1

\* Once the developer has given up its access, it is for good, and the lists
\* change only with the record of a message never consumed before
\* (dev_access_revoked in the developer's instructions of registry.rs).
RevocationIsFinal ==
  [][ devRevoked =>
        /\ devRevoked'
        /\ lists' # lists => actionRecords' \ actionRecords # {}
    ]_<<vars, providerVars>>
===============================================================================
