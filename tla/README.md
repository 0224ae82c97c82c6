# Qiara: a TLA+ model of the cross-chain protocol

Qiara keeps one protocol on several chains. Users act on Solana, the EVM
chains and Sui; validators observe the events of those chains and vote on them
on Aptos, the hub; what the hub settles is signed by the validators and
delivered to the chains by relayers, who hand the signatures and the message
to a program that checks them and acts. The chains share the same idea of
governance: *variables* and *validators* that take effect when an epoch turns.

This directory models the parts of that system that carry its own logic, checks
them with TLC on small instances, and proves the most important results with
TLAPS for every instance.

## 1. Inventory

| Part | Source | State | Operations | Interacts with |
|---|---|---|---|---|
| Epochs, variables, validators | `Solana/programs/qiara/src/{variables,validators,state,utils}.rs` | genesis time and duration of epochs; registry of timed variables and its lock; timed validators; buffers of staged signatures | the administrator adds a variable, sets a validator, locks; relayers stage signatures; a quorum stages a variable or a rotation | read by the token, the provider registry and the vault |
| Token | `qiara/src/token.rs` | balances, supply, configuration, nullifiers | initialise, request a bridge, mint by consensus, transfer with fee, set fee recipient (setting an exemption always fails: it writes a second discriminator, `token.rs:322-324`) | reads variables in force; consumes signature buffers; its bridge events are voted on at the hub |
| Provider registry | `qiara/src/registry.rs` | providers, their tokens, token addresses, revocation of the developer, action records | developer's additions, revocation, chain name; updates by a quorum | consumes buffers; read by the vault |
| Vault | `Solana/programs/vault/src/lib.rs` | vaults and their rates, pots (listed tokens) and reserves, user states, nullifiers | create, set range, list, deposit, stake, direct withdrawal; modular withdrawal, unstake, borrow only emit events | reads the provider registry, the validators and the buffers of another program |
| Hub validators | `Aptos/Bridge/sources/validators.move`, `Aptos/Util/sources/genesis.move` | validators and their power, pending and active lists, genesis | register, change keys, snapshot, sync, reset genesis | reads stakes in Margin; writes oracle and Qiara token |
| Hub voting | `Aptos/Bridge/sources/chains.move` | events with votes and weights, fees and votes of the epoch | vote and dispatch, accrue fees, distribute | reads power; calls TokensCore, Margin, Perpetuals |
| EVM Qiara token | `Evm/core/contracts/qiara/qiara.sol` | balances, exemptions | transfer with fee, mint | variables contract |
| EVM registries, delegator, vault | `Evm/core/contracts/*.sol` | the same registers as Solana; used nullifiers and nonces; vault reserves | stage, set, read; verify and dispatch; deposit, withdraw | as on Solana |
| Sui registers | `Sui/Qiara/sources/*.move` | the same registers and the provider registry | as on Solana | Sui interfaces |
| Omnichain tokens, margin, liquidity, market, perpetuals, oracle | `Aptos/*` | supplies by chain, credits, indices, positions, prices | deposits, loans, trades, interest | settled by the hub |
| Shared storages | `Aptos/Shared/sources/shared.move` | storages with their owner, sub owners, codes and taxes; the registry of who may use which; registered codes | create, allow and remove a sub owner, change the used code, by their owner on Aptos or by a request of another chain | every module of the hub asks it who may act; its fees go to the credit in Margin |
| Interfaces of shared storages | `Solana/programs/shared`, `Solana/libraries/events`, `Sui/Interfaces/Shared`, `Evm/interfaces/shared.sol` | none | check arguments, emit an event | validators vote on the event at the hub, which settles it |
| Governance (DAO) | `Aptos/Governance/sources/Governance.move`, `Solana/programs/governance` | proposals with their tallies and voters | propose, vote, resolve on Aptos; propose and vote on Solana by an event | weighs votes by the stake of a shared storage; a resolved proposal lends the signer of the DAO to its script |
| Token program on Solana | `Solana/programs/token/src/lib.rs` | its mint | initialise, mint, request a bridge | the SPL token program (external); its requests are voted on at the hub |
| Faucet on Solana | `Solana/programs/minter/src/lib.rs` | cooldown, token configurations, time of the last claim by user and kind of claim | initialise, create or add a token, set amount, enable; claim one, claim all | the SPL token program |
| Other faucets | `Sui/minter`, `Aptos/faucet` | claims and cooldowns | claim | none |
| Other interfaces, ZK verifiers, older copies | `Evm/interfaces`, `Sui/Interfaces`, `Evm/zk`, `Supra`, `*/old*` | none, or superseded | emit events, check proofs | relayers |

What is hard about them, and where a test would hardly reach, is listed line by
line in `PROJECT.json` under `hazards`. In short:

* **Lazy promotion.** No transaction runs when an epoch turns. A timed record
  keeps an active and a pending value and an epoch, and readers pick one. Every
  writer must promote a matured value before it overwrites it.
* **Staged signatures.** A buffer of signatures is created by one transaction
  and consumed by another, epochs and rotations later. Once consumed it is
  closed, and the same message can be staged again: only a nullifier or an
  action record keeps it from being executed twice.
* **Reading others' accounts.** The token, the provider registry and the vault
  read variables and validators that change under them, from accounts that the
  caller shows.
* **Voting while power moves.** Stakes, snapshots, rotations and the quorum
  itself change between the votes on one event, and each vote brings a payload
  of its own.
* **Requests that come late.** What a user asks for on another chain is settled
  when a quorum of votes completes, in any order, and a settlement that aborts is
  tried again by the next vote. What is settled is the payload of the completing
  vote, whether an interface emitted it or not. Meanwhile owners change,
  proposals end and stakes move.
* **Tables that must agree.** Who may use a shared storage is written in two
  tables by eight functions, and codes lead to storages that lead to codes.
* **Clocks of several claims.** Claims of one token and of all tokens keep
  separate times under one cooldown.
* **Rounding.** Fees, taxes, yields and rewards are rounded quotients with
  minima, caps and cut-offs, implemented twice on two chains.

## 2. Modules

| Module | Models | Extends |
|---|---|---|
| `TimedRegisters` | what epoch-activated settings promise, as eager registers (abstract) | |
| `QiaraState` | accounts and reads of the `qiara` program: epoch, variable in force, active validator, quorum size, signature check | |
| `QiaraGovernance` | instructions of `variables.rs` and `validators.rs` | `QiaraState` |
| `TokenFees` | fee arithmetic of Solana and EVM, decoding of variables | |
| `FeeQuotes` | quotes of fees on Solana and EVM for the same settings | `TokenFees` |
| `QiaraToken` | instructions of `token.rs`, composed with the governance they read | `QiaraGovernance`, `TokenFees` |
| `ProviderRegistry` | instructions of `registry.rs`, composed with the governance that authorises them | `QiaraGovernance` |
| `Vault` | the vault program, composed with the two above | `ProviderRegistry` |
| `HubValidators` | registration, snapshots, rotation | |
| `HubConsensus` | votes, dispatch, fees and rewards of an epoch, composed with the validators | `HubValidators` |
| `SharedStorages` | shared storages on Aptos, their interfaces on other chains, and the settlement of their requests | |
| `Dao` | proposals and votes, composed with the storages that vote and the requests that carry votes | `SharedStorages` |
| `Faucet` | the faucet on Solana | |
| `SplToken` | the token program on Solana, and the SPL token program it calls | |
| `SumTheorems` | lemmas about finite sums | |
| `QiaraGovernanceProofs`, `QiaraTokenProofs`, `ProviderRegistryProofs`, `VaultProofs`, `HubProofs`, `DaoProofs`, `SolanaProgramsProofs` | theorems (`QiaraTokenProofs` also those of fees, `HubProofs` of both hub modules, `DaoProofs` of `SharedStorages`, `SolanaProgramsProofs` of `Faucet` and `SplToken`) | the modules they are about |
| `MC*` | instances for TLC | the module each is named for |

**State and actions.** A variable stands for one account or one field of an
account, and is commented with its name in the code. An action is one
instruction or entry function, with all it calls. A transaction that fails has
no effect on these chains, so an error return is a guard, and an action is
atomic because a transaction is. Interleaving is between transactions of
administrators, users, relayers and validators, and the clock.

**Accounts that callers choose.** A program here trusts no account but those
it derives or compares, and the models follow it:

* *Registry and validator state* have no seeds and are compared with nothing
  (`variables.rs:183-186`, `validators.rs:136-139`, `token.rs:504-505`,
  `registry.rs:302-304`, vault `lib.rs:644-646`). An instruction is called with
  those of the deployment or with any of `OtherRegistries` and
  `OtherValidators` (`ShownRegistries`, `ShownValidators`), so a message is
  authorised when *some* shown pair of accounts has a quorum for it. That it was
  a quorum of the deployment's own validators is no property of this code, and
  none is stated. Likewise the fees and taxes of the token are those of the
  registry shown.
* *Administrator.* The instructions of the administrator take any signer
  (`variables.rs:162-166`), and `Administrator` is a step of every composition
  at any time.
* *EpochConfig* is assumed to be the deployment's own: there is one clock of
  epochs. This is the one such assumption.
* *Token accounts.* The account a mint credits need not be the recipient's
  (`token.rs:551-552`), the account that receives a deposit or a stake need not
  be the pot's (vault `lib.rs:574-575`, `702-703`), and the account that a
  withdrawal pays need not be its user's (`lib.rs:629-633`): `to` is the
  caller's in all of them, and `astray` counts what pots did not receive.
* *At the hub*, the caller of `register_event` names the validator it votes for
  and brings the event type and payload that are dispatched when its vote
  completes the quorum; nothing compares the caller with the validator or the
  payload with the nullifier (`chains.move:110-146`). `RegisterEvent` is called
  with any validator, nullifier and payload. A settlement of `SharedStorages`
  or `Dao` is therefore of a request that an interface emitted, or of one of
  `Unemitted` that only a payload names, in anybody's name.

**Data.** A signature is the address it recovers to. A message is its payload:
`message_hash == keccak(raw_payload)` makes a hash and a payload the same thing,
and the accounts of an instruction that are derived from a hash are functions of
the message. Names that the code compares without regard to case are one model
value, except the names of vaults, whose addresses depend on the spelling.
Bytes of variables are sequences where a reader takes them apart (the quorum
size, fees, keys) and are otherwise members of a small set. The word sizes of
`TokenFees` are constants, so that both byte orders can be enumerated, and each
chain's fee is a function of the bytes, through that chain's own decoding. In
the vault, 64 and 128 bits are the bounds `MaxAmount` and `MaxProduct`: a yield
whose product or sum is too wide, and a range too wide to pick from, abort the
instruction (`YieldFits`, `PseudoRandomRange`). The distribution of rewards at
the hub is over-approximated: where the code would abort on an owner that is no
address or a product that is too wide (`validators.move:422-426`), the model lets
it go through, which only adds behaviours.

**Definitions marked "mutant"** are not part of a specification. Each changes
one definition the way a plausible bug would, and serves to show that the
property named for it in `PROJECT.json` can fail.

## 3. What the runs check

| Run | Instance | What it shows |
|---|---|---|
| `governance` | two keys, three values, two validators, three epochs, another deployment in which both are validators; a behaviour has messages for variables and one buffer, or rotations and two buffers at a time | The lazily promoted registry and the validators implement `TimedRegisters`; nothing but the administrator changes what is in force before the epoch turns; a lock is final; buffers stay usable within an epoch. |
| `gov_quorum_size` | the quorum variable of the bridge is set, the validators' own is staged | Finding 1 below. |
| `token` | two wallets, one validator, two epochs, two mint messages paid to any wallet, one fee change, a recipient of the tax that matures, another deployment with free transfers; or quotes for small rates and minima in bytes of all shapes, epochs and amounts | The supply is held and accounted for; a message is minted once. The transfer fee is the same on Solana and EVM for the same bytes, unless Solana takes a word for little endian; sending or bridging more never delivers less. |
| `vault` | one of three: the provider registry with one provider, two tokens, four messages for all chains, this one, and another; one vault, two users, accounts of anyone, two withdrawals, a rotation of their only signer, a token taken off the list, three instants in two epochs; or two vaults under two spellings, one user, one withdrawal, the quorum variable staged | The two lists agree; an update is applied once; the developer's revocation is final. Claims, reserves, yields, shortfalls and what went astray add up; a message is paid once, under whatever spelling; nothing but its epoch, its pot, the administrator or a yield too large stops a withdrawal. |
| `hub_validators` | three shared storages, two places in the list | Only the weakest is displaced, the list stays well formed, the active list is frozen within an epoch. |
| `hub_snapshot` | as above | Finding 2. |
| `hub_votes` | two validators, two interchangeable events, three epochs, changing quorum; every vote brings its own payload: one that pays a fee of three units and settles, one that dispatches nothing or one the hub does not know; settlements that may abort | Dispatch at most once; votes are never lost or recounted; nobody is rewarded for more than its recorded votes; no distribution gives out more than was collected. |
| `hub_voters` | as above, one event | Finding 3. |
| `shared_storages` | a user on Aptos and an owner on Solana, two names, seven requests of which three are emitted, and a permission in the user's name that only a payload brings | The tables of storages agree and codes resolve; removals take permissions back in any order. |
| `shared_code_tax` | the same storages | Finding 4. |
| `dao` | two storages of that owner, two proposals of one of them, two events, three instants, stakes of 0 and 1, votes on Aptos, from Solana, and one that only a payload brings | Tallies are the votes, one voice for a storage; a proposal's fate is sealed when it ends, and it is executed at most once. |
| `solana_programs` | the faucet with one user, a token it creates and a foreign one, a cooldown of two and four seconds; or the token program with two holders, two destinations and a width of three | Claims of a kind are a cooldown apart; only enabled tokens are handed out; a record opens again in time. What other chains are asked for was taken out of circulation. |

**Bounds.** `MaxTime` (and so the number of epochs), `MaxSignatures`,
`MaxBuffers`, the sets of messages, and in the hub the number of validators and
places. Two epochs are enough for a value to be staged, mature and be staged
over, and three for a record to be left unpromoted over a whole epoch. Two
validators and quorum sizes one and two tell a quorum from a signature count.
Two buffers let one message change the validators while another waits. Two
users and two messages let claims on one pot compete. Amounts and rates are
small numbers chosen so that shares round down, minima and caps apply, a
withdrawal exceeds its balance, a yield is too large to compute and 64-bit
limits (scaled down) are met. Three instants let a proposal be made, voted on,
and ended; with three events a permission, its removal and a creation can be
under way together. TLC checks every run for deadlock but `shared_storages`,
`shared_code_tax` and `dao`, whose instances do stop: names, events and proposals
are used up and the clock is at its bound. No other run has one: somebody can
always act.

Some instances have two parts that touch no common state, or whose product is
too large: a variable of the `MC` module (`agenda`, `topic`, `program`) then says
at the start which part a behaviour is about. `governance` divides the messages
so; `token`, `vault` and `solana_programs` the components. In `token` the
administrator touches only the fee of a transfer and does not lock; in `vault` buffers without
signatures, which the governance runs have, are left out.
A type invariant that is proved (section 5) is not checked again by a run of its
own, and a module's is contained in that of the module that extends it
(`TokenTypeOK`, `TypeOK` of `HubConsensus`).

The token and vault runs start from a deployed program; the administrator may
act at any time in them as in the governance runs. The token
run gives the two derived addresses of its configuration the same bump, without
which three of its instructions cannot be called.

**Fairness and liveness.** Every step of these programs is a transaction that
some user, relayer or validator chooses to send, and nothing in the repository
obliges or retries anyone, so no fairness of an instruction is justified by this
code. What does go on by itself is the clock of the chain: the faucet assumes
weak fairness of `Tick` and of nothing else, and promises that a record opens
again when its cooldown is over (`OpensAfterCooldown`), whatever the
administrator and the other claims do meanwhile. Elsewhere progress is stated
as what no step may take away: `BuffersStayUsable`, `WithdrawalsStayPossible`,
`VotesOnlyAccumulate`, `FateSealed`.

## 4. Findings

1. *The first staging of the validators' quorum variable takes effect at once.*
   `friend_add_variable` "stages variable update to take effect next epoch"
   (`variables.rs:69`), but the new record hides the bridge's variable behind
   empty bytes, and the quorum size is 1 for the rest of the epoch
   (`state.rs:168-174`). Run `gov_quorum_size`.
2. *A snapshot is dated with the epoch before.* "Skip if this specific validator
   already snapshotted for this epoch" (`validators.move:181`), but the first
   snapshot of an epoch takes its date before the rotation, so its validator may
   snapshot again. Run `hub_snapshot`.
3. *Validators outside the active list vote.* "Validate validator permissions and
   active status" (`chains.move:118`), but `isActive` is never cleared. Run
   `hub_voters`.
4. *The tax of a used code is that of another storage, or aborts.* "The % tax of
   ref code" (`Aptos/Margin/sources/ranks.move:338`) is read by passing the code
   to a function that looks it up among the names of storages
   (`shared.move:742-749`). Run `shared_code_tax`.

Met while modelling, without a run of their own: the EVM interface lets the empty
string through as a code, and the hub registers it, although it stands for "no
code" and `create_shared_storage` refuses it (`shared.move:182`); the run
`shared_storages` includes such a request, and its tables stay consistent. A storage that uses no
code cannot begin to use one, since `change_used_ref_code` refuses every code but
the empty one (`shared.move:315`, `483`). An owner that removes itself from its
sub owners can no longer be charged, so that a storage managed from another
chain is then closed for good. "Request Qiara Bridge", for which the token
program burns, is an event the hub's dispatcher does not know
(`chains.move:237-319`), so that no vote on it can complete. The EVM reads a
word of a variable big endian always (`qiara.sol:120-127`), Solana reads one
above 100 times `FEE_DENOMINATOR` little endian (`token.rs:420-431`): for such bytes, a `BURN_FEE_MINIMAL` of more than 10^10
among them, the two chains burn different fees. `FeesAgreeAcrossChains` is
therefore about the other bytes (`PortableFees`). Of a padded value of 32 bytes
both count the last eight: the EVM loads all of them and its conversion to
`uint64` cuts off the rest. A vote at the hub keeps the payload of the first call
(`chains.move:207`) and never reads it again.

## 5. What is proved

Every safety invariant and action property that a run checks is also proved, for
all constants that satisfy the named assumptions of the modules
(`DataAssumption`, `TimeAssumption`, `MessagesAssumption`, `AccountsAssumption`,
`TokenAssumption`, `FeesAssumption`, `QuotesAssumption`, `ProvidersAssumption`, `VaultAssumption`,
`HubValidatorsAssumption`, `HubConsensusAssumption`, `SharedAssumption`,
`DaoAssumption`, `FaucetAssumption`, `SplAssumption`). They are types and word
sizes, the order of a range or of the two supplies, that messages are told apart
by their kinds, that a deployed program starts well typed, and that
wallets, users, holders, chains and requests are finitely many, as keys and
transactions of bounded size are. `PROJECT.json` lists the theorems under
`theorems`, each with the property it states.

**Sums.** Balances, claims, tallies, weights and shares are `SumFunction` and
`SumFunctionOnSet` of the community module `Functions`. `SumTheorems` proves what
the other proofs need of them for every finite set of indices: the empty sum,
one index more, one value changed, and that shares rounded down add up to no more
than what is shared. The library's induction theorems take an operator as a
parameter and cannot be used, so the lemmas take a least counterexample: the
subsets of a finite set for which the claim fails have one that contains no
other (`LeastSubset`), and taking an index from it gives a smaller one. The
reading of bytes in `QiaraTokenProofs` is treated so by its length.

* `QiaraGovernanceProofs`. `TypeCorrect`, and the lemma `NothingBeyond`, the
  inductive strengthening behind the rest: a record's epoch is at most one ahead,
  so every record is matured after one turn. From it,
  `VariablesImplementRegisters`: every step of the governance is a step of
  `TimedRegisters` or a stutter. Staging keeps the value in force because it
  promotes it; a turn of the epoch, over any number of epochs, brings all
  scheduled values into force; the other instructions change no variable.
  `ValidatorsImplementRegisters` is the same for rotations.
  `InForceThroughTheEpoch`: whatever accounts authorised it, no staged variable
  and no rotation changes what a reader sees before the epoch turns. `LockFinal`:
  a step from a locked registry leaves it as it is, and what is scheduled in an
  unchanged registry is the same after any number of epochs.
  `BuffersAlwaysUsable`: a rotation changes no status in
  force, and a staged variable changes the quorum size to one or not at all
  (`QuorumAfterStaging`). The proof showed a case that the instance of the run
  does not have: while the bridge's variable ends in a zero byte, a buffer
  without signatures can be consumed, until the first staging of the validators'
  own variable (finding 1) requires one. The property is therefore about buffers
  with a signature.
* `QiaraTokenProofs`, on fees: `TransferGrows` and `BridgingGrows`,
  from lemmas about integer quotients (a larger amount has a larger share, and the
  share grows by no more than the amount when the rate is at most the whole).
  `FeesAgree` is about the bytes of the variables: both chains read the same
  number in bytes that are `Portable` (`PortableReading`; a word of zeros is zero
  in both orders, `ZerosAreReadAsZero`), and cap the rate to the same
  (`CapsAgree`). `QuotesAgree` and `QuotesGrow` state them for the quotes that
  the run enumerates.
* `QiaraTokenProofs`, on the token: `TokenTypeCorrect`, `SupplyIsAccounted`,
  `MintedOnce`. The invariant is that the
  nullifiers are finitely many and count the mints exactly, and that the supply is
  the sum of the balances and is accounted for. Types need the sums: the supply
  stays a natural number only because what is burnt is part of a balance, and a
  balance only because a fee read from any bytes, of any registry shown, is at
  most the amount.
* `ProviderRegistryProofs`. `ProvidersTyped`, `ListsAlwaysAgree`, `AppliedOnce`
  (the action records count the updates), `RevokedForGood`: after the
  revocation the lists change only by a message that was staged and that leaves
  its record.
* `VaultProofs`. `VaultTyped`, `PaidOnce` (the nullifier records count the
  payments), `ReservesAreHeld` and `ClaimsAreAccounted`: pots are well formed, and
  lack no more than what their depositors sent elsewhere (`PotsStayBacked`); and
  one lemma for all ways to change the state of a
  user in a pot (`BooksMove`) moves the books of that pot by the same amount and
  leaves the others. `ExitsStayOpen`: a payable withdrawal, whose yield can be
  computed for every rate of its range, stays payable in every step but a turn of
  the epoch, an instruction of the administrator, a withdrawal from its pot, and
  those that make its own yield too large: time, a new range by the vault's
  authority, and a deposit or stake of its own user. Rotations and staged
  variables are among the steps that leave it open: they change nothing in force
  (`AuthorityStays`); a staged buffer is not replaced, an update of the registry
  consumes another message (`BufferStays`), and a listed pot keeps its name
  (`PotsStay`). `RegistryServesVaults` is about the
  composition: the vault's steps are steps of the governance, of the provider
  registry or of neither (`QiaraSeen`), so that what they promise holds for it.
* `HubProofs`, on the validators: `ValidatorsTyped`, `PendingStaysWellFormed`,
  `OnlyTheWeakestIsDisplaced`, `ActiveListFrozen`. The types and
  `PendingWellFormed` are inductive together; the lemmas follow what a removal,
  an insertion and the displacement of the last place do to a list without
  repetition. `HubImplementsValidators`: the composed hub
  implements the specification of its validator set, so that these hold in it.
* `HubProofs`, on votes: `HubTyped`, `NoEventSettledTwice`,
  `EventWeightIsSumOfVotes`, `FeesAreNeverOverpaid`, `VotesAreNeverLost`,
  `RewardsAreBacked`. `TypeOK` and the checked invariants together are not
  inductive. `HubInv` adds that a record's voters are finitely many, registered
  and of positive weight, that its weight is the sum of their votes, that the
  ledger's weights sum to its total, and that what was given back and what is
  still to be given do not exceed what was collected. That rewards are backed by
  votes is inductive beside them: the weight a vote accrues is that of a vote
  recorded in the same step, and recorded votes only grow (`VotesOfGrow`). All
  hold for any payload brought by any vote.
* `DaoProofs`, on shared storages: `SharedTypeCorrect`, `RegistryAlwaysAgrees`
  and `ReferralsAlwaysResolve`. The invariant is that the
  tables and the log are well typed, the registry lists exactly the sub owners,
  every code resolves to a storage that counts its users, and used codes are
  registered. None of the four parts is inductive alone: a removal needs both
  tables typed, a creation needs its used code to resolve before it counts there.
  `GrantsTakenBack` needs that
  removals are never ahead of permissions, in a storage managed from another
  chain, and that nothing is settled for a storage before it exists
  (`RemovalsNotAhead`, `NothingInAdvance`).
* `DaoProofs`, on proposals: `DaoTypeCorrect`, `ExecutedOnce`, `FateAlwaysSealed`,
  `ProposalsAlwaysStay`, `TallyAlwaysIsVotes`. Executions are counted in step with
  the `executed` mark, and an executed proposal has ended with a majority; as
  votes need `now <= end`, its tallies no longer change. A vote is new to the
  tally because every vote in the history has its storage among the voters of its
  proposal (`BallotsRecorded`). `StoragesServeVotes`: the four invariants of
  the storages hold while proposals and votes of other chains are settled.
* `SolanaProgramsProofs`, on the faucet: `FaucetTypeCorrect`, `CooldownKept` and
  `EnabledOnly`. The invariant adds to the types that the time in a record is that
  of its latest claim; then a claim that waits for the record waits for the
  history. On the token program: `TokensAlwaysAccountedFor`, a sum over the
  holders and one over the destinations.

Only model-checked: `OpensAfterCooldown`, a liveness property, and the four
properties of the runs that expect a violation, which the code does not have.
Liveness under fairness is out of the prover's reach.

## 6. Not modelled, and the plan

Left out of the modelled parts: event contents, metadata, rent and sizes of
accounts, signature and hash functions, and, of the accounts a caller may choose
(section 2), another EpochConfig. The code does not limit any instruction to a
quorum of one deployment's validators, nor the hub to the payload that was voted
on, and so the project states no such property. Of shared storages: the fees and
the nonces that settlements charge and count, which other kinds of events and
`nonce.move:80` and `99` move too and on which no storage depends; the fungible stores,
which create token accounts for the market, and `temp_allow_sub_owner`,
`temp_remove_sub_owner` and `update_gas_index`, which nothing in the repository
calls. The transcription of an event of another chain into the fields the
validators vote on happens outside the chains; a request reaches the hub here
with the fields it was emitted with, or as one of `Unemitted`.

Not modelled: the verifiers of zero-knowledge proofs, and superseded and vendored
sources (`Supra`, `old`, `old_zk`, `.deps`, `artifacts`), which are no part of
the system. The delegator of the EVM vault calls members that its own file and
its imports do not declare (`balanceVerifier`, `vault`, `addPendingAddress` of
the validators), so there is no build to be faithful to. Margin, liquidity,
market and perpetuals are arithmetic over indices and oracle prices that needs a
model of its own. The registers of Sui and of the EVM are the design that
`QiaraGovernance` models, with the effective epoch of the EVM given by the caller.

What would come next:

1. `EvmRegistries` with `TimedRegisters` as abstract specification, and
   `CrossChain`, which composes Solana, EVM and a relayer that delays, reorders
   and repeats messages, and asks whether a variable takes effect in the same
   epoch everywhere (`vaultDelegator.sol:116`).
2. The bridge of tokens end to end: a request on one chain, votes at the hub,
   settlement in `TokensCore`, the mint on another chain, against an abstract
   specification of a supply that is conserved across chains.
3. `Margin` (credit with its sign, fees and rewards), then `Liquidity` and
   `Market` (indices of deposits and loans) and `Perpetuals`.
4. Proofs: that the token and the provider registry, whose instructions also
   close buffers, implement a governance that lets others consume messages; and
   what the new modules promise.
