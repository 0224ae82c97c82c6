------------------------------- MODULE MCVault --------------------------------
(* Small instances of ProviderRegistry and Vault for TLC.  A behaviour is     *)
(* about the registry before there are vaults, about the claims on one vault, *)
(* or about two vaults under two spellings of a name.                         *)
EXTENDS Vault

CONSTANTS min, bridgeMin, v1, alice, bob, jupiter, usdc, sol, mint1, mint2, lower, upper

MCKeys == {min}
MCAddresses == {v1}
MCData == {<<>>, <<1>>}
MCUsers == {alice, bob}
MCVaults == {lower, upper}
MCProviderOf == [v \in Vaults |-> jupiter]
MCProviderNames == {jupiter}
MCTokens == {usdc, sol}
MCMints == {mint1}
MCTokenMints == {mint1, mint2}
MCChains == {"Solana"}

MCDefaultRange == [min |-> 1, max |-> 2]
\* One range upside down, and one too wide to pick from.
MCRanges == { [min |-> 2, max |-> 1], [min |-> 0, max |-> MaxAmount] }

MCDeployed ==
  [ provided |-> [p \in {jupiter} |-> {usdc}], tokenAddresses |-> <<>>,
    isLocked |-> FALSE, devRevoked |-> TRUE ]

\* Tokens arrive and go, for every chain, for this one and for another.
Arrival == [provider |-> jupiter, tokens |-> {usdc}, isAdd |-> TRUE, nonce |-> 1, chain |-> 0]
Departure ==
  [provider |-> jupiter, tokens |-> {usdc, sol}, isAdd |-> FALSE, nonce |-> 2, chain |-> 901]
MCTokensMessages == {Arrival, Departure}
MCAddressMessages ==
  { [token |-> usdc, mint |-> mint1, nonce |-> 3, chain |-> 1],
    [token |-> usdc, mint |-> mint2, nonce |-> 4, chain |-> 0] }

OfAlice ==
  [ user |-> alice, provider |-> jupiter, token |-> usdc, amount |-> 3,
    nonce |-> 1, chain |-> 901 ]
OfBob ==
  [ user |-> bob, provider |-> jupiter, token |-> usdc, amount |-> 1,
    nonce |-> 2, chain |-> 0 ]
MCWithdrawMessages == {OfAlice, OfBob}
MCOtherMessages == MCWithdrawMessages \union MCTokensMessages \union MCAddressMessages

\* The only signer is rotated out; the variable of the quorum is staged.
MCRotations == { [pubkey |-> v1, isRemoval |-> TRUE, nonce |-> 1, chain |-> 0] }
MCVariables == { [key |-> min, data |-> <<1>>, nonce |-> 1, chain |-> 0] }

\* Another deployment, where nobody is a validator and nothing is set.
MCOtherValidators == { <<>> }
MCOtherRegistries == { <<>> }

-------------------------------------------------------------------------------
\* What a behaviour is about: its messages and how many are staged at a time,
\* the variables set, the users and vaults that take part, and its last instant.
\* Buffers without signatures are left to the runs of the governance.
Updates ==
  [ messages |-> UpdateMessages, buffers |-> 1, keys |-> {min}, users |-> {},
    vaults |-> {}, last |-> 1 ]
Claiming ==
  [ messages |-> MCWithdrawMessages \union {Departure} \union MCRotations, buffers |-> 2,
    keys |-> {}, users |-> {alice, bob}, vaults |-> {lower}, last |-> 3 ]
Spellings ==
  [ messages |-> {OfBob} \union MCVariables, buffers |-> 2, keys |-> {min},
    users |-> {bob}, vaults |-> {lower, upper}, last |-> 1 ]

VARIABLE agenda

MCInit ==
  /\ \/ agenda = Updates /\ ProvidersInit /\ VaultsInit
     \/ agenda \in {Claiming, Spellings} /\ VaultInit
  /\ now <= agenda.last

MCNext ==
  /\ VaultNext
  /\ now' <= agenda.last
  /\ DOMAIN sigBuffer' \subseteq agenda.messages
  /\ Cardinality(DOMAIN sigBuffer') <= agenda.buffers
  /\ \A m \in DOMAIN sigBuffer' : sigBuffer'[m] # <<>>
  /\ DOMAIN registry' \subseteq agenda.keys
  /\ agenda.keys = {} => UNCHANGED isLocked
  /\ DOMAIN ranges' \subseteq agenda.vaults
  /\ \A u \in Users \ agenda.users : userStates'[u] = userStates[u]
  /\ \A a \in TokenAccounts :
       a[1] \notin agenda.users \union agenda.vaults => tokens'[a] = tokens[a]
  /\ UNCHANGED agenda

MCSpec == MCInit /\ [][MCNext]_<<allVars, agenda>>
===============================================================================
