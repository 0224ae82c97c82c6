---------------------------- MODULE SharedStorages ----------------------------
(***************************************************************************)
(* Shared storages: accounts of the hub that several addresses may use     *)
(* (Aptos/Shared/sources/shared.move).  Their owner acts by entry          *)
(* functions on Aptos, or asks for the same on another chain, where an     *)
(* interface emits an event (Solana/programs/shared/src/lib.rs,            *)
(* Evm/interfaces/shared.sol).  The validators vote on an event, and the   *)
(* hub settles it at most once and in any order (HubConsensus); a          *)
(* settlement that aborts leaves the event as it was.  What is settled is  *)
(* the payload of the vote that completes the quorum: it may be one that   *)
(* no interface emitted, in the name of any address.  The fees of          *)
(* settlements and the nonces of payloads, on which no storage depends,    *)
(* are left out.                                                           *)
(***************************************************************************)
EXTENDS Integers, FiniteSets, Functions

CONSTANTS
  Users,           \* addresses that sign entry functions on Aptos
  Senders,         \* addresses of other chains, that act through events
  Texts, Empty,    \* names and referral codes are strings; the empty one
  Taxes, MaxTax,   \* xp_tax and fee_tax, one value; MAX_ALLOWED_TAX
  Requests,        \* the payloads of events for storages
  Unemitted,       \* how often each is settled beyond what was emitted
  MaxRequests      \* bound on the number of events

Addresses == Users \union Senders
Owners == Addresses \union Texts     \* a name is the key of its non-user storage

\* What the events of shared storages say.
StorageRequests ==
  [ kind : {"create"}, chain : {"solana", "evm"}, user : Addresses, name : Texts,
    refCode : Texts, usedRefCode : Texts, tax : Taxes ]
  \union
  [ kind : {"allow", "remove"}, chain : {"solana", "evm"}, user : Addresses,
    name : Texts, subOwner : Owners ]
  \union
  [ kind : {"change"}, chain : {"solana", "evm"}, user : Addresses, name : Texts,
    usedRefCode : Texts ]

Asked(kind) == {r \in Requests : r.kind = kind}

ASSUME SharedAssumption ==
  /\ Empty \in Texts /\ Taxes \subseteq Nat /\ MaxTax \in Nat
  /\ IsFiniteSet(Requests)      \* a transaction has a size
  /\ Users \intersect Senders = {} /\ Addresses \intersect Texts = {}
  /\ Unemitted \in [Requests -> Nat]
  /\ \A r \in Requests : r.user \in Addresses /\ r.name \in Texts
  /\ Asked("create") \union Asked("allow") \union Asked("remove") \union Asked("change")
       \subseteq StorageRequests

VARIABLES
  storage,           \* SharedStorage.storage
  storageRegistry,   \* storage_registry: the storages an address may use
  refCodeRegistry,   \* ref_code_registry: the taxes of a code
  refCodeToShared,   \* ref_code_to_shared: the storage a code belongs to
  emitted,           \* how often each request was emitted on its chain
  settled            \* how often each was settled by the hub

tables == <<storage, storageRegistry, refCodeRegistry, refCodeToShared>>
log == <<emitted, settled>>
sharedVars == <<tables, log>>

Put(f, k, v) == [x \in DOMAIN f \union {k} |-> IF x = k THEN v ELSE f[x]]

\* users is amount_of_users_using_ref_code; sub_owners is a list without
\* repetition whose order nothing depends on.
Ownership ==
  [ owner : Owners, subOwners : SUBSET Owners, refCode : Texts, tax : Taxes \union {0},
    usedRefCode : Texts, users : Nat ]

SharedTypeOK ==
  /\ DOMAIN storage \subseteq Texts
  /\ \A n \in DOMAIN storage : storage[n] \in Ownership
  /\ DOMAIN storageRegistry \subseteq Owners
  /\ \A u \in DOMAIN storageRegistry : storageRegistry[u] \subseteq Texts
  /\ DOMAIN refCodeRegistry \subseteq Texts
  /\ \A c \in DOMAIN refCodeRegistry : refCodeRegistry[c] \in Taxes
  /\ DOMAIN refCodeToShared \subseteq Texts
  /\ \A c \in DOMAIN refCodeToShared : refCodeToShared[c] \in DOMAIN storage
  /\ emitted \in [Requests -> Nat] /\ settled \in [Requests -> Nat]
  /\ \A r \in Requests : settled[r] <= emitted[r] + Unemitted[r]

SharedInit ==
  /\ storage = <<>> /\ storageRegistry = <<>>
  /\ refCodeRegistry = <<>> /\ refCodeToShared = <<>>
  /\ emitted = [r \in Requests |-> 0] /\ settled = [r \in Requests |-> 0]

-------------------------------------------------------------------------------
(* The tables *)

\* Every address may be looked up; one without an entry has no storages.
Listed(u) == IF u \in DOMAIN storageRegistry THEN storageRegistry[u] ELSE {}

CanCreate(name, refCode, usedRefCode, tax) ==
  /\ name \notin DOMAIN storage
  /\ tax <= MaxTax
  /\ refCode \notin DOMAIN refCodeRegistry
  /\ usedRefCode # Empty => usedRefCode \in DOMAIN refCodeRegistry

ReferredByName(usedRefCode) ==              \* mutant: the code taken for a name
  [ n \in DOMAIN storage |->
      IF usedRefCode # Empty /\ n = usedRefCode
      THEN [storage[n] EXCEPT !.users = storage[n].users + 1] ELSE storage[n] ]

\* The storage whose code is used counts one user more.
Referred(usedRefCode) ==
  [ n \in DOMAIN storage |->
      IF usedRefCode # Empty /\ n = refCodeToShared[usedRefCode]
      THEN [storage[n] EXCEPT !.users = storage[n].users + 1] ELSE storage[n] ]

Create(owner, name, refCode, usedRefCode, tax) ==
  /\ storage' = Put(Referred(usedRefCode), name,
       [ owner |-> owner, subOwners |-> {owner}, refCode |-> refCode, tax |-> tax,
         usedRefCode |-> usedRefCode, users |-> 0 ])
  /\ refCodeRegistry' = Put(refCodeRegistry, refCode, tax)
  /\ refCodeToShared' = Put(refCodeToShared, refCode, name)
  /\ name \notin Listed(owner)
  /\ storageRegistry' = Put(storageRegistry, owner, Listed(owner) \union {name})

OwnedBy(name, owner) ==
  /\ name \in DOMAIN storage
  /\ storage[name].owner = owner

Allow(name, subOwner) ==
  /\ storage' = [storage EXCEPT ![name].subOwners =
                   storage[name].subOwners \union {subOwner}]
  /\ storageRegistry' = Put(storageRegistry, subOwner, Listed(subOwner) \union {name})
  /\ UNCHANGED <<refCodeRegistry, refCodeToShared>>

RemoveFromStorage(name, subOwner) ==        \* mutant: the registry is forgotten
  /\ subOwner \in storage[name].subOwners
  /\ storage' = [storage EXCEPT ![name].subOwners = storage[name].subOwners \ {subOwner}]
  /\ UNCHANGED <<storageRegistry, refCodeRegistry, refCodeToShared>>

RemoveIfThere(name, subOwner) ==            \* mutant: absent is no error
  /\ storage' = [storage EXCEPT ![name].subOwners = storage[name].subOwners \ {subOwner}]
  /\ storageRegistry' = Put(storageRegistry, subOwner, Listed(subOwner) \ {name})
  /\ UNCHANGED <<refCodeRegistry, refCodeToShared>>

Remove(name, subOwner) ==
  /\ subOwner \in storage[name].subOwners
  /\ storage' = [storage EXCEPT ![name].subOwners = storage[name].subOwners \ {subOwner}]
  /\ storageRegistry' = Put(storageRegistry, subOwner, Listed(subOwner) \ {name})
  /\ UNCHANGED <<refCodeRegistry, refCodeToShared>>

\* A used code can be given up and nothing else: every new code is refused
\* with ERROR_ALREADY_USING_SOME_REF_CODE.
CanChange(name, usedRefCode) ==
  /\ usedRefCode = Empty
  /\ storage[name].usedRefCode # usedRefCode

Change(name, usedRefCode) ==
  /\ CanChange(name, usedRefCode)
  /\ storage' = [storage EXCEPT ![name].usedRefCode = usedRefCode]
  /\ UNCHANGED <<storageRegistry, refCodeRegistry, refCodeToShared>>

-------------------------------------------------------------------------------
(* Entry functions on Aptos *)

\* The owner of a non-user storage is the encoding of its name.
create_non_user_shared_storage(name) ==
  /\ name \notin DOMAIN storage
  /\ name \notin DOMAIN storageRegistry
  /\ storage' = Put(storage, name,
       [ owner |-> name, subOwners |-> {}, refCode |-> Empty, tax |-> 0,
         usedRefCode |-> Empty, users |-> 0 ])
  /\ storageRegistry' = Put(storageRegistry, name, {name})
  /\ UNCHANGED <<refCodeRegistry, refCodeToShared, log>>

create_shared_storage(user, name, refCode, usedRefCode, tax) ==
  /\ refCode # Empty
  /\ CanCreate(name, refCode, usedRefCode, tax)
  /\ Create(user, name, refCode, usedRefCode, tax)
  /\ UNCHANGED log

allow_sub_owner(user, name, subOwner) ==
  OwnedBy(name, user) /\ Allow(name, subOwner) /\ UNCHANGED log

remove_sub_owner(user, name, subOwner) ==
  OwnedBy(name, user) /\ Remove(name, subOwner) /\ UNCHANGED log

change_used_ref_code(user, name, usedRefCode) ==
  OwnedBy(name, user) /\ Change(name, usedRefCode) /\ UNCHANGED log

-------------------------------------------------------------------------------
(* The interfaces of other chains *)

EventsSoFar == SumFunctionOnSet(emitted, Requests)

\* One event more of its sender, told from the others by its transaction and
\* time.
emit_event(r) ==
  /\ r.user \in Senders
  /\ EventsSoFar < MaxRequests
  /\ emitted' = [emitted EXCEPT ![r] = emitted[r] + 1]
  /\ UNCHANGED <<tables, settled>>

\* Solana's interface refuses empty names and codes, the one for the EVM
\* chains refuses nothing; an empty sub owner is no address.
m_create_shared_storage(r) ==
  /\ r.chain = "solana" => r.name # Empty /\ r.refCode # Empty
  /\ emit_event(r)

safety_check(r) == r.chain = "solana" => r.name # Empty

p_allow_sub_owner(r) == safety_check(r) /\ emit_event(r)
p_remove_sub_owner(r) == safety_check(r) /\ emit_event(r)
p_change_used_ref_code(r) == safety_check(r) /\ emit_event(r)

-------------------------------------------------------------------------------
(* Settlement by the hub (chains.move) *)

\* Every event is dispatched once, with the payload r that completes its quorum.
Settle(r) ==
  /\ settled[r] < emitted[r] + Unemitted[r]
  /\ settled' = [settled EXCEPT ![r] = settled[r] + 1]
  /\ UNCHANGED emitted

\* Only the credit of a storage that the sender may use can be charged.
Chargeable(r) == r.name \in DOMAIN storage /\ r.user \in storage[r.name].subOwners

\* The fee is charged after the storage was created, and so to its creator.
SettleCreate(r) ==
  /\ CanCreate(r.name, r.refCode, r.usedRefCode, r.tax)
  /\ Create(r.user, r.name, r.refCode, r.usedRefCode, r.tax)
  /\ Chargeable(r)'
  /\ Settle(r)

SettleAllow(r) ==
  /\ Chargeable(r)
  /\ OwnedBy(r.name, r.user) /\ Allow(r.name, r.subOwner) /\ Settle(r)

SettleRemove(r) ==
  /\ Chargeable(r)
  /\ OwnedBy(r.name, r.user) /\ Remove(r.name, r.subOwner) /\ Settle(r)

SettleChange(r) ==
  /\ Chargeable(r)
  /\ OwnedBy(r.name, r.user) /\ Change(r.name, r.usedRefCode) /\ Settle(r)

-------------------------------------------------------------------------------
OnAptos ==
  \/ \E name \in Texts : create_non_user_shared_storage(name)
  \/ \E user \in Users, name \in Texts :
       \/ \E c, used \in Texts, tax \in Taxes :
            create_shared_storage(user, name, c, used, tax)
       \/ \E subOwner \in Owners :
            allow_sub_owner(user, name, subOwner) \/ remove_sub_owner(user, name, subOwner)
       \/ \E used \in Texts : change_used_ref_code(user, name, used)

OnOtherChains ==
  \/ \E r \in Asked("create") : m_create_shared_storage(r)
  \/ \E r \in Asked("allow") : p_allow_sub_owner(r)
  \/ \E r \in Asked("remove") : p_remove_sub_owner(r)
  \/ \E r \in Asked("change") : p_change_used_ref_code(r)

Settlement ==
  \/ \E r \in Asked("create") : SettleCreate(r)
  \/ \E r \in Asked("allow") : SettleAllow(r)
  \/ \E r \in Asked("remove") : SettleRemove(r)
  \/ \E r \in Asked("change") : SettleChange(r)

SharedNext == OnAptos \/ OnOtherChains \/ Settlement

SharedSpec == SharedInit /\ [][SharedNext]_sharedVars

-------------------------------------------------------------------------------
(* Properties *)

\* The two tables that say who may use a storage agree: the registry lists a
\* storage for exactly its sub owners, and a non-user storage for its own key.
RegistryAgrees ==
  \A u \in Owners :
    Listed(u) = {n \in DOMAIN storage :
                   \/ u \in storage[n].subOwners
                   \/ u = n /\ storage[n].owner = n}

\* A referral code belongs to the storage it resolves to, with its taxes; the
\* code a storage uses is registered; and a storage counts at least the users
\* its code has now (shared.move:196-213, 355-371).
ReferralsResolve ==
  /\ DOMAIN refCodeToShared = DOMAIN refCodeRegistry
  /\ \A c \in DOMAIN refCodeRegistry :
       LET owner == storage[refCodeToShared[c]] IN
       /\ owner.refCode = c /\ owner.tax = refCodeRegistry[c]
       /\ owner.users >= Cardinality({n \in DOMAIN storage :
                                        storage[n].usedRefCode = c /\ c # Empty})
  /\ \A n \in DOMAIN storage :
       storage[n].usedRefCode # Empty => storage[n].usedRefCode \in DOMAIN refCodeRegistry

SettledOf(kind, name, subOwner) ==
  SumFunctionOnSet(settled,
                   {r \in Asked(kind) : r.name = name /\ r.subOwner = subOwner})

\* In a storage that is managed from another chain, a sub owner has been
\* allowed more often than removed (its creation allows the owner): once as
\* many removals as permissions are settled it is out, in whatever order the
\* hub came to settle them, because a removal of nobody aborts and waits.
RemovalsTakeGrantsBack ==
  \A n \in DOMAIN storage : storage[n].owner \in Senders =>
    \A u \in storage[n].subOwners :
      SettledOf("remove", n, u) <
        SettledOf("allow", n, u) + (IF u = storage[n].owner THEN 1 ELSE 0)

\* extract_raw_params: the taxes of the code a storage uses are looked up
\* among the storages, under the code as a name; without one it aborts.
NoTax == MaxTax + 1
UsedTax(name) ==
  LET code == storage[name].usedRefCode IN
  IF code = Empty THEN 0
  ELSE IF code \in DOMAIN storage THEN storage[code].tax ELSE NoTax

\* What a storage saves is taxed by the tax of the code it uses
\* (ranks.move:338: "combined with the % tax of ref code").
UsedCodeGivesItsTax ==
  \A n \in DOMAIN storage :
    storage[n].usedRefCode \in DOMAIN refCodeRegistry \ {Empty} =>
      UsedTax(n) = refCodeRegistry[storage[n].usedRefCode]
===============================================================================
