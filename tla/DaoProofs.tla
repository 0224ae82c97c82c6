------------------------------ MODULE DaoProofs -------------------------------
(* Theorems about SharedStorages and Dao, for every set of addresses, names, *)
(* requests and scripts, and any number of events.                           *)
EXTENDS Dao, SequenceTheorems, SumTheorems

-------------------------------------------------------------------------------
(* Shared storages *)

(***************************************************************************)
(* The types of the tables and of the log of events, one by one.           *)
(***************************************************************************)
TablesOK ==
  /\ DOMAIN storage \subseteq Texts
  /\ \A n \in DOMAIN storage : storage[n] \in Ownership
  /\ DOMAIN storageRegistry \subseteq Owners
  /\ \A u \in DOMAIN storageRegistry : storageRegistry[u] \subseteq Texts
  /\ DOMAIN refCodeRegistry \subseteq Texts
  /\ \A c \in DOMAIN refCodeRegistry : refCodeRegistry[c] \in Taxes
  /\ DOMAIN refCodeToShared \subseteq Texts
  /\ \A c \in DOMAIN refCodeToShared : refCodeToShared[c] \in DOMAIN storage

LogOK ==
  /\ emitted \in [Requests -> Nat] /\ settled \in [Requests -> Nat]
  /\ \A r \in Requests : settled[r] <= emitted[r] + Unemitted[r]

LEMMA TypeByParts == SharedTypeOK <=> TablesOK /\ LogOK
BY DEF SharedTypeOK, TablesOK, LogOK

(***************************************************************************)
(* ReferralsResolve, split into what a code resolves to and how many       *)
(* storages use it.                                                        *)
(***************************************************************************)
UsersOf(c) == {n \in DOMAIN storage : storage[n].usedRefCode = c /\ c # Empty}

CodesResolve ==
  /\ DOMAIN refCodeToShared = DOMAIN refCodeRegistry
  /\ \A c \in DOMAIN refCodeRegistry :
       /\ storage[refCodeToShared[c]].refCode = c
       /\ storage[refCodeToShared[c]].tax = refCodeRegistry[c]
  /\ \A n \in DOMAIN storage :
       storage[n].usedRefCode # Empty => storage[n].usedRefCode \in DOMAIN refCodeRegistry

UsersCounted ==
  \A c \in DOMAIN refCodeRegistry :
    storage[refCodeToShared[c]].users >= Cardinality(UsersOf(c))

LEMMA ReferralsByParts == ReferralsResolve <=> CodesResolve /\ UsersCounted
BY DEF ReferralsResolve, CodesResolve, UsersCounted, UsersOf

TablesInv ==
  /\ TablesOK /\ IsFiniteSet(DOMAIN storage)
  /\ RegistryAgrees /\ CodesResolve /\ UsersCounted

LEMMA UsersOfFinite ==
  ASSUME IsFiniteSet(DOMAIN storage), NEW c
  PROVE  IsFiniteSet(UsersOf(c)) /\ Cardinality(UsersOf(c)) \in Nat
<1>1. UsersOf(c) \subseteq DOMAIN storage
  BY DEF UsersOf
<1> QED  BY <1>1, FS_Subset, FS_CardinalityType

(***************************************************************************)
(* A creation: the new storage is nobody else's, its code is new, and the  *)
(* storage it refers to counts it.                                         *)
(***************************************************************************)
LEMMA CreateKeepsTables ==
  ASSUME SharedAssumption, TablesInv,
         NEW owner \in Addresses, NEW name \in Texts, NEW refCode \in Texts,
         NEW used \in Texts, NEW tax \in Taxes,
         CanCreate(name, refCode, used, tax), Create(owner, name, refCode, used, tax)
  PROVE  TablesInv'
<1> DEFINE new == [ owner |-> owner, subOwners |-> {owner}, refCode |-> refCode,
                    tax |-> tax, usedRefCode |-> used, users |-> 0 ]
<1>0. /\ TablesOK /\ IsFiniteSet(DOMAIN storage) /\ RegistryAgrees
      /\ CodesResolve /\ UsersCounted
      /\ name \notin DOMAIN storage /\ refCode \notin DOMAIN refCodeRegistry
      /\ used # Empty => used \in DOMAIN refCodeRegistry
  BY DEF TablesInv, CanCreate
<1>1. /\ DOMAIN storage' = DOMAIN storage \union {name}
      /\ storage'[name] = new
      /\ \A n \in DOMAIN storage : storage'[n] = Referred(used)[n]
  <2>1. DOMAIN Referred(used) = DOMAIN storage
    BY DEF Referred
  <2>2. storage' = Put(Referred(used), name, new)
    BY DEF Create
  <2> HIDE DEF new
  <2> QED  BY <1>0, <2>1, <2>2 DEF Put
<1>2. \A n \in DOMAIN storage :
        /\ storage'[n] \in Ownership
        /\ storage'[n].owner = storage[n].owner
        /\ storage'[n].subOwners = storage[n].subOwners
        /\ storage'[n].refCode = storage[n].refCode
        /\ storage'[n].tax = storage[n].tax
        /\ storage'[n].usedRefCode = storage[n].usedRefCode
        /\ storage[n].users \in Nat
        /\ storage'[n].users =
             storage[n].users + (IF used # Empty /\ n = refCodeToShared[used] THEN 1 ELSE 0)
  <2> TAKE n \in DOMAIN storage
  <2>1. storage[n] \in Ownership
    BY <1>0 DEF TablesOK
  <2>2. storage'[n] = IF used # Empty /\ n = refCodeToShared[used]
                      THEN [storage[n] EXCEPT !.users = storage[n].users + 1] ELSE storage[n]
    BY <1>1 DEF Referred
  <2> QED  BY <2>1, <2>2 DEF Ownership
<1>3. new \in Ownership
  BY SharedAssumption DEF SharedAssumption, Ownership, Owners
<1>4. /\ DOMAIN storageRegistry' = DOMAIN storageRegistry \union {owner}
      /\ storageRegistry'[owner] = Listed(owner) \union {name}
      /\ \A u \in DOMAIN storageRegistry \ {owner} : storageRegistry'[u] = storageRegistry[u]
  <2>1. storageRegistry' = Put(storageRegistry, owner, Listed(owner) \union {name})
    BY DEF Create
  <2> QED  BY <2>1 DEF Put
<1>5. /\ DOMAIN refCodeRegistry' = DOMAIN refCodeRegistry \union {refCode}
      /\ refCodeRegistry'[refCode] = tax
      /\ \A c \in DOMAIN refCodeRegistry : refCodeRegistry'[c] = refCodeRegistry[c]
  <2>1. refCodeRegistry' = Put(refCodeRegistry, refCode, tax)
    BY DEF Create
  <2> QED  BY <1>0, <2>1 DEF Put
<1>6. /\ DOMAIN refCodeToShared' = DOMAIN refCodeRegistry'
      /\ refCodeToShared'[refCode] = name
      /\ \A c \in DOMAIN refCodeRegistry :
           /\ refCodeToShared'[c] = refCodeToShared[c]
           /\ refCodeToShared[c] \in DOMAIN storage
  <2>1. refCodeToShared' = Put(refCodeToShared, refCode, name)
    BY DEF Create
  <2> QED  BY <1>0, <1>5, <2>1 DEF Put, CodesResolve, TablesOK
<1>7. TablesOK'
  <2>1. Listed(owner) \subseteq Texts
    BY <1>0 DEF TablesOK, Listed
  <2>2. \A u \in DOMAIN storageRegistry' : storageRegistry'[u] \subseteq Texts
    BY <1>0, <1>4, <2>1 DEF TablesOK
  <2>3. \A n \in DOMAIN storage' : storage'[n] \in Ownership
    BY <1>1, <1>2, <1>3
  <2>4. \A c \in DOMAIN refCodeRegistry' : refCodeRegistry'[c] \in Taxes
    BY <1>0, <1>5 DEF TablesOK
  <2>5. \A c \in DOMAIN refCodeToShared' : refCodeToShared'[c] \in DOMAIN storage'
    BY <1>1, <1>5, <1>6
  <2> QED  BY <1>0, <1>1, <1>4, <1>5, <1>6, <2>2, <2>3, <2>4, <2>5 DEF TablesOK, Owners
<1>8. IsFiniteSet(DOMAIN storage')
  BY <1>0, <1>1, FS_AddElement
<1>9. RegistryAgrees'
  <2> SUFFICES ASSUME NEW u \in Owners
               PROVE  Listed(u)' = {n \in DOMAIN storage' :
                         \/ u \in storage'[n].subOwners
                         \/ u = n /\ storage'[n].owner = n}
    BY DEF RegistryAgrees
  <2>1. Listed(u) = {n \in DOMAIN storage :
                       \/ u \in storage[n].subOwners
                       \/ u = n /\ storage[n].owner = n}
    BY <1>0 DEF RegistryAgrees
  <2>2. Listed(u)' = IF u = owner THEN Listed(u) \union {name} ELSE Listed(u)
    BY <1>4 DEF Listed
  <2>3. owner # name
    BY SharedAssumption DEF SharedAssumption
  <2> QED  BY <1>1, <1>2, <2>1, <2>2, <2>3
<1>10. CodesResolve'
  BY <1>0, <1>1, <1>2, <1>5, <1>6 DEF CodesResolve
<1>11. UsersCounted'
  <2> SUFFICES ASSUME NEW c \in DOMAIN refCodeRegistry'
               PROVE  storage'[refCodeToShared'[c]].users >= Cardinality(UsersOf(c)')
    BY DEF UsersCounted
  <2>1. CASE c = refCode
    <3>1. UsersOf(c)' = {}
      BY <1>0, <1>1, <1>2, <2>1 DEF UsersOf, CodesResolve
    <3> QED  BY <1>1, <1>6, <2>1, <3>1, FS_EmptySet
  <2>2. CASE c # refCode
    <3>1. c \in DOMAIN refCodeRegistry
      BY <1>5, <2>2
    <3>2. /\ Cardinality(UsersOf(c)) \in Nat /\ IsFiniteSet(UsersOf(c))
          /\ storage[refCodeToShared[c]].users >= Cardinality(UsersOf(c))
      BY <1>0, <3>1, UsersOfFinite DEF UsersCounted
    <3>3. CASE c = used /\ c # Empty
      <4>1. UsersOf(c)' = UsersOf(c) \union {name} /\ name \notin UsersOf(c)
        BY <1>0, <1>1, <1>2, <3>3 DEF UsersOf
      <4>2. Cardinality(UsersOf(c)') = Cardinality(UsersOf(c)) + 1
        BY <3>2, <4>1, FS_AddElement
      <4> QED  BY <1>2, <1>6, <3>1, <3>2, <3>3, <4>2
    <3>4. CASE c # used \/ c = Empty
      <4>1. UsersOf(c)' = UsersOf(c)
        BY <1>0, <1>1, <1>2, <3>4 DEF UsersOf
      <4> QED  BY <1>2, <1>6, <3>1, <3>2, <4>1
    <3> QED  BY <3>3, <3>4
  <2> QED  BY <2>1, <2>2
<1> QED  BY <1>7, <1>8, <1>9, <1>10, <1>11 DEF TablesInv

(***************************************************************************)
(* A change of who may use a storage, in both tables at once, disturbs     *)
(* neither the codes nor any other storage.                                *)
(***************************************************************************)
SubOwnersBecome(name, subOwner, subOwners, list) ==
  /\ storage' = [storage EXCEPT ![name].subOwners = subOwners]
  /\ storageRegistry' = Put(storageRegistry, subOwner, list)
  /\ UNCHANGED <<refCodeRegistry, refCodeToShared>>

LEMMA SubOwnersKeepTables ==
  ASSUME SharedAssumption, TablesInv,
         NEW name \in DOMAIN storage, NEW subOwner \in Owners,
         storage[name].owner \in Addresses, NEW subOwners, NEW list,
         \/ /\ subOwners = storage[name].subOwners \union {subOwner}
            /\ list = Listed(subOwner) \union {name}
         \/ /\ subOwners = storage[name].subOwners \ {subOwner}
            /\ list = Listed(subOwner) \ {name},
         SubOwnersBecome(name, subOwner, subOwners, list)
  PROVE  TablesInv'
<1>0. /\ TablesOK /\ IsFiniteSet(DOMAIN storage) /\ RegistryAgrees
      /\ CodesResolve /\ UsersCounted
      /\ storage[name] \in Ownership /\ name \in Texts /\ storage[name].owner # name
  BY SharedAssumption DEF TablesInv, TablesOK, SharedAssumption
<1>1. subOwners \subseteq Owners
  BY <1>0 DEF Ownership
<1>2. /\ DOMAIN storage' = DOMAIN storage
      /\ storage'[name] = [storage[name] EXCEPT !.subOwners = subOwners]
      /\ \A n \in DOMAIN storage \ {name} : storage'[n] = storage[n]
      /\ refCodeRegistry' = refCodeRegistry /\ refCodeToShared' = refCodeToShared
  BY DEF SubOwnersBecome
<1>3. \A n \in DOMAIN storage :
        /\ storage[n] \in Ownership /\ storage'[n] \in Ownership
        /\ storage'[n].owner = storage[n].owner
        /\ storage'[n].refCode = storage[n].refCode
        /\ storage'[n].tax = storage[n].tax
        /\ storage'[n].usedRefCode = storage[n].usedRefCode
        /\ storage'[n].users = storage[n].users
        /\ storage'[n].subOwners = IF n = name THEN subOwners ELSE storage[n].subOwners
  BY <1>0, <1>1, <1>2 DEF TablesOK, Ownership
<1>4. \A u \in Owners : Listed(u)' = IF u = subOwner THEN list ELSE Listed(u)
  BY DEF SubOwnersBecome, Listed, Put
<1>5. TablesOK'
  <2>1. list \subseteq Texts
    BY <1>0 DEF TablesOK, Listed
  <2>2. /\ DOMAIN storageRegistry' \subseteq Owners
        /\ \A u \in DOMAIN storageRegistry' : storageRegistry'[u] \subseteq Texts
    BY <1>0, <2>1 DEF SubOwnersBecome, Put, TablesOK, Owners
  <2> QED  BY <1>0, <1>2, <1>3, <2>2 DEF TablesOK
<1>6. RegistryAgrees'
  BY <1>0, <1>2, <1>3, <1>4 DEF RegistryAgrees
<1>7. CodesResolve'
  BY <1>0, <1>2, <1>3 DEF CodesResolve, TablesOK
<1>8. UsersCounted'
  <2>1. \A c : UsersOf(c)' = UsersOf(c)
    BY <1>2, <1>3 DEF UsersOf
  <2> QED  BY <1>0, <1>2, <1>3, <2>1 DEF UsersCounted, TablesOK, CodesResolve
<1> QED  BY <1>0, <1>2, <1>5, <1>6, <1>7, <1>8 DEF TablesInv

LEMMA AllowKeepsTables ==
  ASSUME SharedAssumption, TablesInv, NEW name, NEW owner \in Addresses,
         NEW subOwner \in Owners, OwnedBy(name, owner), Allow(name, subOwner)
  PROVE  TablesInv'
<1>1. SubOwnersBecome(name, subOwner, storage[name].subOwners \union {subOwner},
                      Listed(subOwner) \union {name})
  BY DEF Allow, SubOwnersBecome
<1> QED  BY <1>1, SubOwnersKeepTables DEF OwnedBy

LEMMA RemoveKeepsTables ==
  ASSUME SharedAssumption, TablesInv, NEW name, NEW owner \in Addresses,
         NEW subOwner \in Owners, OwnedBy(name, owner), Remove(name, subOwner)
  PROVE  TablesInv'
<1>1. SubOwnersBecome(name, subOwner, storage[name].subOwners \ {subOwner},
                      Listed(subOwner) \ {name})
  BY DEF Remove, SubOwnersBecome
<1> QED  BY <1>1, SubOwnersKeepTables DEF OwnedBy

(***************************************************************************)
(* Giving up a code leaves its storage counting a user more than it has.   *)
(***************************************************************************)
LEMMA ChangeKeepsTables ==
  ASSUME SharedAssumption, TablesInv, NEW name, NEW owner, NEW used \in Texts,
         OwnedBy(name, owner), Change(name, used)
  PROVE  TablesInv'
<1>0. /\ TablesOK /\ IsFiniteSet(DOMAIN storage) /\ RegistryAgrees
      /\ CodesResolve /\ UsersCounted
      /\ name \in DOMAIN storage /\ storage[name] \in Ownership /\ used = Empty
  BY DEF TablesInv, TablesOK, OwnedBy, Change, CanChange
<1>1. /\ DOMAIN storage' = DOMAIN storage
      /\ storage'[name] = [storage[name] EXCEPT !.usedRefCode = used]
      /\ \A n \in DOMAIN storage \ {name} : storage'[n] = storage[n]
      /\ UNCHANGED <<storageRegistry, refCodeRegistry, refCodeToShared>>
  BY <1>0 DEF Change
<1>2. \A n \in DOMAIN storage :
        /\ storage[n] \in Ownership /\ storage'[n] \in Ownership
        /\ storage'[n].owner = storage[n].owner
        /\ storage'[n].refCode = storage[n].refCode
        /\ storage'[n].tax = storage[n].tax
        /\ storage'[n].users = storage[n].users
        /\ storage'[n].subOwners = storage[n].subOwners
        /\ storage'[n].usedRefCode = IF n = name THEN Empty ELSE storage[n].usedRefCode
  BY <1>0, <1>1 DEF TablesOK, Ownership
<1>3. TablesOK'
  BY <1>0, <1>1, <1>2 DEF TablesOK
<1>4. RegistryAgrees'
  BY <1>0, <1>1, <1>2 DEF RegistryAgrees, Listed
<1>5. CodesResolve'
  BY <1>0, <1>1, <1>2 DEF CodesResolve, TablesOK
<1>6. UsersCounted'
  <2> SUFFICES ASSUME NEW c \in DOMAIN refCodeRegistry
               PROVE  storage'[refCodeToShared[c]].users >= Cardinality(UsersOf(c)')
    BY <1>1 DEF UsersCounted
  <2>1. /\ IsFiniteSet(UsersOf(c)) /\ Cardinality(UsersOf(c)) \in Nat
        /\ storage[refCodeToShared[c]].users >= Cardinality(UsersOf(c))
    BY <1>0, UsersOfFinite DEF UsersCounted
  <2>2. UsersOf(c)' \subseteq UsersOf(c)
    BY <1>1, <1>2 DEF UsersOf
  <2>3. /\ Cardinality(UsersOf(c)') <= Cardinality(UsersOf(c))
        /\ Cardinality(UsersOf(c)') \in Nat
    BY <2>1, <2>2, FS_Subset, FS_CardinalityType
  <2>4. /\ storage'[refCodeToShared[c]].users = storage[refCodeToShared[c]].users
        /\ storage[refCodeToShared[c]].users \in Nat
    BY <1>0, <1>2 DEF TablesOK, CodesResolve, Ownership
  <2> QED  BY <2>1, <2>3, <2>4
<1> QED  BY <1>0, <1>1, <1>3, <1>4, <1>5, <1>6 DEF TablesInv

LEMMA NonUserKeepsTables ==
  ASSUME SharedAssumption, TablesInv, NEW name \in Texts,
         create_non_user_shared_storage(name)
  PROVE  TablesInv'
<1> DEFINE new == [ owner |-> name, subOwners |-> {}, refCode |-> Empty, tax |-> 0,
                    usedRefCode |-> Empty, users |-> 0 ]
<1>0. /\ TablesOK /\ IsFiniteSet(DOMAIN storage) /\ RegistryAgrees
      /\ CodesResolve /\ UsersCounted
      /\ name \notin DOMAIN storage /\ name \notin DOMAIN storageRegistry
      /\ UNCHANGED <<refCodeRegistry, refCodeToShared>>
  BY DEF TablesInv, create_non_user_shared_storage
<1>1. /\ DOMAIN storage' = DOMAIN storage \union {name}
      /\ storage'[name] = new
      /\ \A n \in DOMAIN storage : storage'[n] = storage[n]
      /\ DOMAIN storageRegistry' = DOMAIN storageRegistry \union {name}
      /\ storageRegistry'[name] = {name}
      /\ \A u \in DOMAIN storageRegistry : storageRegistry'[u] = storageRegistry[u]
  BY <1>0 DEF create_non_user_shared_storage, Put
<1>2. new \in Ownership
  BY SharedAssumption DEF SharedAssumption, Ownership, Owners
<1>3. TablesOK'
  BY <1>0, <1>1, <1>2 DEF TablesOK, Owners
<1>4. IsFiniteSet(DOMAIN storage')
  BY <1>0, <1>1, FS_AddElement
<1>5. RegistryAgrees'
  <2> SUFFICES ASSUME NEW u \in Owners
               PROVE  Listed(u)' = {n \in DOMAIN storage' :
                         \/ u \in storage'[n].subOwners
                         \/ u = n /\ storage'[n].owner = n}
    BY DEF RegistryAgrees
  <2>1. Listed(u) = {n \in DOMAIN storage :
                       \/ u \in storage[n].subOwners
                       \/ u = n /\ storage[n].owner = n}
    BY <1>0 DEF RegistryAgrees
  <2>2. Listed(u)' = IF u = name THEN {name} ELSE Listed(u)
    BY <1>1 DEF Listed
  <2>3. Listed(name) = {}
    BY <1>0 DEF Listed
  <2> QED  BY <1>1, <2>1, <2>2, <2>3
<1>6. CodesResolve'
  BY <1>0, <1>1 DEF CodesResolve, TablesOK
<1>7. UsersCounted'
  <2>1. \A c : UsersOf(c)' = UsersOf(c)
    BY <1>0, <1>1 DEF UsersOf
  <2> QED  BY <1>0, <1>1, <2>1 DEF UsersCounted, TablesOK, CodesResolve
<1> QED  BY <1>3, <1>4, <1>5, <1>6, <1>7 DEF TablesInv

(***************************************************************************)
(* The log: emissions and settlements count up, settlements behind.        *)
(***************************************************************************)
LEMMA EmitKeepsLog ==
  ASSUME SharedAssumption, LogOK, NEW r \in Requests, emit_event(r)
  PROVE  LogOK'
<1>1. /\ emitted' = [emitted EXCEPT ![r] = emitted[r] + 1]
      /\ UNCHANGED settled
  BY DEF emit_event
<1>2. Unemitted \in [Requests -> Nat]
  BY DEF SharedAssumption
<1> QED  BY <1>1, <1>2 DEF LogOK

LEMMA SettleKeepsLog ==
  ASSUME SharedAssumption, LogOK, NEW r \in Requests, Settle(r)
  PROVE  LogOK'
<1>1. Unemitted \in [Requests -> Nat]
  BY DEF SharedAssumption
<1> QED  BY <1>1 DEF LogOK, Settle

LEMMA RequestsTyped ==
  ASSUME SharedAssumption
  PROVE  /\ \A r \in Asked("create") :
              /\ r \in Requests /\ r.user \in Addresses /\ r.name \in Texts
              /\ r.refCode \in Texts /\ r.usedRefCode \in Texts /\ r.tax \in Taxes
         /\ \A r \in Asked("allow") \union Asked("remove") :
              r \in Requests /\ r.user \in Addresses /\ r.subOwner \in Owners
         /\ \A r \in Asked("change") : r \in Requests /\ r.usedRefCode \in Texts
<1>1. ASSUME NEW r \in Asked("create")
      PROVE  /\ r \in Requests /\ r.user \in Addresses /\ r.name \in Texts
             /\ r.refCode \in Texts /\ r.usedRefCode \in Texts /\ r.tax \in Taxes
  <2>1. r \in StorageRequests /\ r.kind = "create" /\ r \in Requests
    BY SharedAssumption DEF SharedAssumption, Asked
  <2>2. r \in [ kind : {"create"}, chain : {"solana", "evm"}, user : Addresses, name : Texts,
                refCode : Texts, usedRefCode : Texts, tax : Taxes ]
    BY <2>1 DEF StorageRequests
  <2> QED  BY <2>1, <2>2 DEF Addresses
<1>2. ASSUME NEW r \in Asked("allow") \union Asked("remove")
      PROVE  r \in Requests /\ r.user \in Addresses /\ r.subOwner \in Owners
  <2>1. r \in StorageRequests /\ r.kind \in {"allow", "remove"} /\ r \in Requests
    BY SharedAssumption DEF SharedAssumption, Asked
  <2>2. r \in [ kind : {"allow", "remove"}, chain : {"solana", "evm"}, user : Addresses,
                name : Texts, subOwner : Owners ]
    BY <2>1 DEF StorageRequests
  <2> QED  BY <2>1, <2>2
<1>3. ASSUME NEW r \in Asked("change")
      PROVE  r \in Requests /\ r.usedRefCode \in Texts
  <2>1. r \in StorageRequests /\ r.kind = "change" /\ r \in Requests
    BY SharedAssumption DEF SharedAssumption, Asked
  <2>2. r \in [ kind : {"change"}, chain : {"solana", "evm"}, user : Addresses, name : Texts,
                usedRefCode : Texts ]
    BY <2>1 DEF StorageRequests
  <2> QED  BY <2>1, <2>2
<1> QED  BY <1>1, <1>2, <1>3

SharedInv == TablesInv /\ LogOK

LEMMA SharedInvHolds == ASSUME SharedAssumption, SharedInit PROVE SharedInv
<1>1. /\ storage = <<>> /\ storageRegistry = <<>>
      /\ refCodeRegistry = <<>> /\ refCodeToShared = <<>>
  BY DEF SharedInit
<1>2. DOMAIN storage = {} /\ DOMAIN storageRegistry = {}
      /\ DOMAIN refCodeRegistry = {} /\ DOMAIN refCodeToShared = {}
  BY <1>1
<1>3. TablesOK /\ CodesResolve /\ UsersCounted
  BY <1>2 DEF TablesOK, CodesResolve, UsersCounted
<1>4. RegistryAgrees
  BY <1>2 DEF RegistryAgrees, Listed
<1>5. LogOK
  BY DEF SharedInit, LogOK, SharedAssumption
<1> QED  BY <1>2, <1>3, <1>4, <1>5, FS_EmptySet DEF SharedInv, TablesInv

LEMMA SameTables ==
  ASSUME TablesInv, UNCHANGED tables
  PROVE  TablesInv'
<1>1. /\ storage' = storage /\ storageRegistry' = storageRegistry
      /\ refCodeRegistry' = refCodeRegistry /\ refCodeToShared' = refCodeToShared
  BY DEF tables
<1> QED  BY <1>1 DEF TablesInv, TablesOK, RegistryAgrees, Listed, CodesResolve,
                     UsersCounted, UsersOf

LEMMA SameLog == LogOK /\ UNCHANGED log => LogOK'
BY DEF LogOK, log

LEMMA SharedInvKept ==
  ASSUME SharedAssumption, SharedInv, [SharedNext]_sharedVars
  PROVE  SharedInv'
<1> USE DEF SharedInv
<1>1. CASE OnAptos
  <2>1. ASSUME NEW name \in Texts, create_non_user_shared_storage(name)
        PROVE  SharedInv'
    BY <2>1, NonUserKeepsTables, SameLog DEF create_non_user_shared_storage
  <2>2. ASSUME NEW user \in Users, NEW name \in Texts, NEW c \in Texts,
               NEW used \in Texts, NEW tax \in Taxes,
               create_shared_storage(user, name, c, used, tax)
        PROVE  SharedInv'
    BY <2>2, CreateKeepsTables, SameLog DEF create_shared_storage, Addresses
  <2>3. ASSUME NEW user \in Users, NEW name \in Texts, NEW subOwner \in Owners,
               allow_sub_owner(user, name, subOwner)
        PROVE  SharedInv'
    BY <2>3, AllowKeepsTables, SameLog DEF allow_sub_owner, Addresses
  <2>4. ASSUME NEW user \in Users, NEW name \in Texts, NEW subOwner \in Owners,
               remove_sub_owner(user, name, subOwner)
        PROVE  SharedInv'
    BY <2>4, RemoveKeepsTables, SameLog DEF remove_sub_owner, Addresses
  <2>5. ASSUME NEW user \in Users, NEW name \in Texts, NEW used \in Texts,
               change_used_ref_code(user, name, used)
        PROVE  SharedInv'
    BY <2>5, ChangeKeepsTables, SameLog DEF change_used_ref_code
  <2> QED  BY <1>1, <2>1, <2>2, <2>3, <2>4, <2>5 DEF OnAptos
<1>2. CASE OnOtherChains
  <2>1. PICK r \in Requests : emit_event(r)
    BY <1>2 DEF OnOtherChains, Asked, m_create_shared_storage, p_allow_sub_owner,
                p_remove_sub_owner, p_change_used_ref_code
  <2>2. UNCHANGED tables
    BY <2>1 DEF emit_event
  <2> QED  BY <2>1, <2>2, EmitKeepsLog, SameTables
<1>3. CASE Settlement
  <2>1. ASSUME NEW r \in Asked("create"), SettleCreate(r)
        PROVE  SharedInv'
    BY <2>1, RequestsTyped, CreateKeepsTables, SettleKeepsLog DEF SettleCreate
  <2>2. ASSUME NEW r \in Asked("allow"), SettleAllow(r)
        PROVE  SharedInv'
    BY <2>2, RequestsTyped, AllowKeepsTables, SettleKeepsLog DEF SettleAllow
  <2>3. ASSUME NEW r \in Asked("remove"), SettleRemove(r)
        PROVE  SharedInv'
    BY <2>3, RequestsTyped, RemoveKeepsTables, SettleKeepsLog DEF SettleRemove
  <2>4. ASSUME NEW r \in Asked("change"), SettleChange(r)
        PROVE  SharedInv'
    BY <2>4, RequestsTyped, ChangeKeepsTables, SettleKeepsLog DEF SettleChange
  <2> QED  BY <1>3, <2>1, <2>2, <2>3, <2>4 DEF Settlement
<1>4. CASE UNCHANGED sharedVars
  BY <1>4, SameTables, SameLog DEF sharedVars
<1> QED  BY <1>1, <1>2, <1>3, <1>4 DEF SharedNext

LEMMA SharedInvAlways == ASSUME SharedAssumption PROVE SharedSpec => []SharedInv
<1>1. SharedInv /\ [SharedNext]_sharedVars => SharedInv'
  BY SharedInvKept
<1> QED  BY <1>1, SharedInvHolds, PTL DEF SharedSpec

\* The tables of shared storages and the log of events are well typed, and
\* no more is settled than was emitted, but for payloads that nobody emitted.
THEOREM SharedTypeCorrect == ASSUME SharedAssumption PROVE SharedSpec => []SharedTypeOK
<1>1. SharedInv => SharedTypeOK
  BY TypeByParts DEF SharedInv, TablesInv
<1> QED  BY <1>1, SharedInvAlways, PTL

\* The registry lists a storage for exactly the addresses that may use it,
\* whoever is allowed and removed, on whatever chain.
THEOREM RegistryAlwaysAgrees == ASSUME SharedAssumption PROVE SharedSpec => []RegistryAgrees
<1>1. SharedInv => RegistryAgrees
  BY DEF SharedInv, TablesInv
<1> QED  BY <1>1, SharedInvAlways, PTL

\* Codes resolve to the storages they belong to, which count their users.
THEOREM ReferralsAlwaysResolve ==
  ASSUME SharedAssumption PROVE SharedSpec => []ReferralsResolve
<1>1. SharedInv => ReferralsResolve
  BY ReferralsByParts DEF SharedInv, TablesInv
<1> QED  BY <1>1, SharedInvAlways, PTL

-------------------------------------------------------------------------------
(* What is settled and granted *)

(***************************************************************************)
(* A settlement adds one to the sums over sets that its request is in.     *)
(***************************************************************************)
LEMMA SettledSum ==
  ASSUME SharedAssumption, LogOK, NEW r \in Requests, Settle(r), NEW S \in SUBSET Requests
  PROVE  /\ SumFunctionOnSet(settled, S) \in Nat
         /\ SumFunctionOnSet(settled', S)
              = SumFunctionOnSet(settled, S) + (IF r \in S THEN 1 ELSE 0)
<1>1. IsFiniteSet(S)
  BY FS_Subset DEF SharedAssumption
<1>2. /\ \A q \in Requests : settled[q] \in Nat
      /\ settled'[r] = settled[r] + 1
      /\ \A q \in Requests \ {r} : settled'[q] = settled[q]
  BY DEF LogOK, Settle
<1>3. NaturalOn(settled, S) /\ settled'[r] \in Nat
  BY <1>2 DEF NaturalOn
<1>4. SumFunctionOnSet(settled, S) \in Nat
  BY <1>1, <1>3, SumIsNatural
<1>5. CASE r \in S
  <2>1. SumFunctionOnSet(settled', S)
          = SumFunctionOnSet(settled, S) + settled'[r] - settled[r]
    BY <1>1, <1>2, <1>3, <1>5, SumChangesAtOne
  <2> QED  BY <1>2, <1>4, <1>5, <2>1
<1>6. CASE r \notin S
  <2>1. \A q \in S : settled'[q] = settled[q]
    BY <1>2, <1>6
  <2>2. SumFunctionOnSet(settled', S) = SumFunctionOnSet(settled, S)
    BY <1>1, <1>3, <2>1, SumAgrees
  <2> QED  BY <1>4, <1>6, <2>2
<1> QED  BY <1>5, <1>6

(***************************************************************************)
(* RemovalsTakeGrantsBack is not inductive: an address that is out must    *)
(* come in by a permission that no removal was settled for in advance, and *)
(* a storage must be created with no permission settled for it.  Neither   *)
(* can happen, as a removal finds its address in and a request finds its   *)
(* storage.                                                                *)
(***************************************************************************)
Grants(n, u) ==
  SettledOf("allow", n, u) + (IF u = storage[n].owner THEN 1 ELSE 0)

RemovalsNotAhead ==
  \A n \in DOMAIN storage : storage[n].owner \in Senders =>
    \A u \in Owners :
      /\ SettledOf("remove", n, u) <= Grants(n, u)
      /\ u \in storage[n].subOwners => SettledOf("remove", n, u) < Grants(n, u)

NothingInAdvance ==
  \A n \in Texts \ DOMAIN storage, u \in Owners :
    SettledOf("allow", n, u) = 0 /\ SettledOf("remove", n, u) = 0

GrantsInv == RemovalsNotAhead /\ NothingInAdvance

LEMMA GrantsMeanTakenBack ==
  ASSUME TablesOK, GrantsInv
  PROVE  RemovalsTakeGrantsBack
<1> SUFFICES ASSUME NEW n \in DOMAIN storage, storage[n].owner \in Senders,
                    NEW u \in storage[n].subOwners
             PROVE  SettledOf("remove", n, u) <
                      SettledOf("allow", n, u) + (IF u = storage[n].owner THEN 1 ELSE 0)
  BY DEF RemovalsTakeGrantsBack
<1>1. storage[n] \in Ownership
  BY DEF TablesOK
<1>2. u \in Owners
  BY <1>1 DEF Ownership
<1>3. SettledOf("remove", n, u) < Grants(n, u)
  BY <1>2 DEF GrantsInv, RemovalsNotAhead
<1> QED  BY <1>3 DEF Grants

\* How often a request of a kind was settled for an address, after a step.
LEMMA SettledOfStep ==
  ASSUME SharedAssumption, LogOK, NEW r \in Requests, Settle(r), NEW kind, NEW n, NEW u
  PROVE  /\ SettledOf(kind, n, u) \in Nat
         /\ SettledOf(kind, n, u)'
              = SettledOf(kind, n, u)
                  + (IF r.kind = kind /\ r.name = n /\ r.subOwner = u THEN 1 ELSE 0)
<1> DEFINE S == {q \in Asked(kind) : q.name = n /\ q.subOwner = u}
<1>1. S \in SUBSET Requests /\ (r \in S <=> r.kind = kind /\ r.name = n /\ r.subOwner = u)
  BY DEF Asked
<1>2. /\ SettledOf(kind, n, u) = SumFunctionOnSet(settled, S)
      /\ SettledOf(kind, n, u)' = SumFunctionOnSet(settled', S)
  BY DEF SettledOf, Asked
<1> HIDE DEF S
<1>3. /\ SumFunctionOnSet(settled, S) \in Nat
      /\ SumFunctionOnSet(settled', S)
           = SumFunctionOnSet(settled, S) + (IF r \in S THEN 1 ELSE 0)
  BY <1>1, SettledSum
<1> QED  BY <1>1, <1>2, <1>3

\* Steps that settle no permission and no removal, and leave the sub owners of
\* what is managed from other chains alone.
NoneSettled ==
  \A n \in Texts, u \in Owners :
    /\ SettledOf("allow", n, u)' = SettledOf("allow", n, u)
    /\ SettledOf("remove", n, u)' = SettledOf("remove", n, u)

UseKept ==
  /\ DOMAIN storage \subseteq DOMAIN storage'
  /\ \A n \in DOMAIN storage :
       /\ storage'[n].owner = storage[n].owner
       /\ storage[n].owner \in Senders => storage'[n].subOwners = storage[n].subOwners
  /\ \A n \in DOMAIN storage' \ DOMAIN storage :
       n \in Texts /\ storage'[n].subOwners \subseteq {storage'[n].owner}

LEMMA GrantsKept ==
  ASSUME TablesOK, GrantsInv, NoneSettled, UseKept
  PROVE  GrantsInv'
<1>1. ASSUME NEW n \in DOMAIN storage', storage'[n].owner \in Senders, NEW u \in Owners
      PROVE  /\ SettledOf("remove", n, u)' <= Grants(n, u)'
             /\ u \in storage'[n].subOwners => SettledOf("remove", n, u)' < Grants(n, u)'
  <2>1. CASE n \in DOMAIN storage
    <3>1. n \in Texts /\ storage'[n].owner = storage[n].owner
          /\ storage'[n].subOwners = storage[n].subOwners
      BY <1>1, <2>1 DEF TablesOK, UseKept
    <3>2. Grants(n, u)' = Grants(n, u) /\ SettledOf("remove", n, u)' = SettledOf("remove", n, u)
      BY <3>1 DEF Grants, NoneSettled
    <3> QED  BY <1>1, <2>1, <3>1, <3>2 DEF GrantsInv, RemovalsNotAhead
  <2>2. CASE n \notin DOMAIN storage
    <3>1. n \in Texts /\ storage'[n].subOwners \subseteq {storage'[n].owner}
      BY <2>2 DEF UseKept
    <3>2. SettledOf("allow", n, u)' = 0 /\ SettledOf("remove", n, u)' = 0
      BY <2>2, <3>1 DEF NoneSettled, GrantsInv, NothingInAdvance
    <3>3. Grants(n, u)' = IF u = storage'[n].owner THEN 1 ELSE 0
      BY <3>2 DEF Grants
    <3> QED  BY <3>1, <3>2, <3>3
  <2> QED  BY <2>1, <2>2
<1>2. RemovalsNotAhead'
  BY <1>1 DEF RemovalsNotAhead
<1>3. NothingInAdvance'
  BY DEF NothingInAdvance, GrantsInv, NoneSettled, UseKept
<1> QED  BY <1>2, <1>3 DEF GrantsInv

LEMMA OthersSettled ==
  ASSUME SharedAssumption, LogOK, NEW r \in Requests, Settle(r),
         r.kind \notin {"allow", "remove"}
  PROVE  NoneSettled
<1>1. ASSUME NEW n, NEW u, NEW kind \in {"allow", "remove"}
      PROVE  SettledOf(kind, n, u)' = SettledOf(kind, n, u)
  BY SettledOfStep
<1> QED  BY <1>1 DEF NoneSettled

LEMMA LogStays == ASSUME UNCHANGED settled PROVE NoneSettled
BY DEF NoneSettled, SettledOf, Asked

\* A permission adds its address, a removal takes it out.
LEMMA PermissionCounts ==
  ASSUME SharedAssumption, TablesOK, LogOK, GrantsInv,
         \/ \E r \in Asked("allow") : SettleAllow(r)
         \/ \E r \in Asked("remove") : SettleRemove(r)
  PROVE  GrantsInv'
<1>1. PICK r \in Asked("allow") \union Asked("remove") :
        \/ r.kind = "allow" /\ SettleAllow(r)
        \/ r.kind = "remove" /\ SettleRemove(r)
  BY DEF Asked
<1>2. r \in Requests /\ Settle(r) /\ r.name \in DOMAIN storage
  BY <1>1 DEF Asked, SettleAllow, SettleRemove, Chargeable
<1>3. /\ r.subOwner \in Owners
      /\ DOMAIN storage \subseteq Texts
      /\ \A n \in DOMAIN storage : storage[n] \in Ownership
  BY <1>1, RequestsTyped DEF TablesOK
<1>4. /\ DOMAIN storage' = DOMAIN storage
      /\ \A n \in DOMAIN storage : storage'[n].owner = storage[n].owner
      /\ \A n \in DOMAIN storage \ {r.name} : storage'[n].subOwners = storage[n].subOwners
      /\ r.kind = "allow" =>
           storage'[r.name].subOwners = storage[r.name].subOwners \union {r.subOwner}
      /\ r.kind = "remove" =>
           /\ r.subOwner \in storage[r.name].subOwners
           /\ storage'[r.name].subOwners = storage[r.name].subOwners \ {r.subOwner}
  <2>1. CASE r.kind = "allow"
    BY <1>1, <1>2, <1>3, <2>1 DEF SettleAllow, Allow, Ownership
  <2>2. CASE r.kind = "remove"
    BY <1>1, <1>2, <1>3, <2>2 DEF SettleRemove, Remove, Ownership
  <2> QED  BY <1>1, <2>1, <2>2
<1>5. ASSUME NEW n, NEW u
      PROVE  /\ SettledOf("allow", n, u) \in Nat /\ SettledOf("remove", n, u) \in Nat
             /\ SettledOf("allow", n, u)' = SettledOf("allow", n, u)
                  + (IF r.kind = "allow" /\ r.name = n /\ r.subOwner = u THEN 1 ELSE 0)
             /\ SettledOf("remove", n, u)' = SettledOf("remove", n, u)
                  + (IF r.kind = "remove" /\ r.name = n /\ r.subOwner = u THEN 1 ELSE 0)
  BY <1>2, SettledOfStep
<1>6. ASSUME NEW n \in DOMAIN storage, storage[n].owner \in Senders, NEW u \in Owners
      PROVE  /\ SettledOf("remove", n, u)' <= Grants(n, u)'
             /\ u \in storage'[n].subOwners => SettledOf("remove", n, u)' < Grants(n, u)'
  <2>1. /\ Grants(n, u)' = Grants(n, u)
             + (IF r.kind = "allow" /\ r.name = n /\ r.subOwner = u THEN 1 ELSE 0)
        /\ Grants(n, u) \in Nat
    BY <1>4, <1>5 DEF Grants
  <2>2. /\ SettledOf("remove", n, u) <= Grants(n, u)
        /\ u \in storage[n].subOwners => SettledOf("remove", n, u) < Grants(n, u)
    BY <1>6 DEF GrantsInv, RemovalsNotAhead
  <2>3. CASE n = r.name /\ u = r.subOwner /\ r.kind = "allow"
    BY <1>5, <2>1, <2>2, <2>3
  <2>4. CASE n = r.name /\ u = r.subOwner /\ r.kind = "remove"
    <3>1. u \in storage[n].subOwners /\ u \notin storage'[n].subOwners
      BY <1>4, <2>4
    <3> QED  BY <1>5, <2>1, <2>2, <2>4, <3>1
  <2>5. CASE n # r.name \/ u # r.subOwner
    <3>1. u \in storage'[n].subOwners <=> u \in storage[n].subOwners
      BY <1>1, <1>4, <2>5
    <3>2. Grants(n, u)' = Grants(n, u) /\ SettledOf("remove", n, u)' = SettledOf("remove", n, u)
      BY <1>5, <2>1, <2>5
    <3> QED  BY <2>2, <3>1, <3>2
  <2> QED  BY <1>1, <2>3, <2>4, <2>5
<1>7. RemovalsNotAhead'
  BY <1>4, <1>6 DEF RemovalsNotAhead
<1>8. NothingInAdvance'
  <2> SUFFICES ASSUME NEW n \in Texts \ DOMAIN storage, NEW u \in Owners
               PROVE  SettledOf("allow", n, u)' = 0 /\ SettledOf("remove", n, u)' = 0
    BY <1>4 DEF NothingInAdvance
  <2>1. n # r.name /\ SettledOf("allow", n, u) = 0 /\ SettledOf("remove", n, u) = 0
    BY <1>2 DEF GrantsInv, NothingInAdvance
  <2> QED  BY <1>5, <2>1
<1> QED  BY <1>7, <1>8 DEF GrantsInv

LEMMA CreationKeepsOwners ==
  ASSUME TablesInv, NEW owner, NEW name \in Texts, NEW refCode, NEW used, NEW tax,
         CanCreate(name, refCode, used, tax), Create(owner, name, refCode, used, tax)
  PROVE  UseKept
<1> DEFINE new == [ owner |-> owner, subOwners |-> {owner}, refCode |-> refCode,
                    tax |-> tax, usedRefCode |-> used, users |-> 0 ]
<1>1. /\ storage' = Put(Referred(used), name, new) /\ name \notin DOMAIN storage
      /\ DOMAIN Referred(used) = DOMAIN storage
  BY DEF Create, CanCreate, Referred
<1>2. new.subOwners = {new.owner}
  OBVIOUS
<1> HIDE DEF new
<1>3. /\ DOMAIN storage' = DOMAIN storage \union {name} /\ storage'[name] = new
      /\ \A n \in DOMAIN storage : storage'[n] = Referred(used)[n]
  BY <1>1 DEF Put
<1>4. ASSUME NEW n \in DOMAIN storage
      PROVE  storage'[n].owner = storage[n].owner /\ storage'[n].subOwners = storage[n].subOwners
  <2>1. storage[n] \in Ownership
    BY DEF TablesInv, TablesOK
  <2> QED  BY <1>3, <2>1 DEF Referred, Ownership
<1> QED  BY <1>2, <1>3, <1>4 DEF UseKept

LEMMA SameStorages == ASSUME storage' = storage PROVE UseKept
BY DEF UseKept

LEMMA AptosKeepsUse ==
  ASSUME SharedAssumption, TablesInv, OnAptos
  PROVE  UseKept
<1>0. \A n \in DOMAIN storage : storage[n] \in Ownership
  BY DEF TablesInv, TablesOK
<1>1. ASSUME NEW name \in Texts, create_non_user_shared_storage(name)
      PROVE  UseKept
  <2> DEFINE new == [ owner |-> name, subOwners |-> {}, refCode |-> Empty, tax |-> 0,
                      usedRefCode |-> Empty, users |-> 0 ]
  <2>1. storage' = Put(storage, name, new) /\ name \notin DOMAIN storage
        /\ new.subOwners = {}
    BY <1>1 DEF create_non_user_shared_storage
  <2> HIDE DEF new
  <2> QED  BY <2>1 DEF Put, UseKept
<1>2. ASSUME NEW user \in Users, NEW name \in Texts, NEW c \in Texts, NEW used \in Texts,
             NEW tax \in Taxes, create_shared_storage(user, name, c, used, tax)
      PROVE  UseKept
  BY <1>2, CreationKeepsOwners DEF create_shared_storage
<1>3. ASSUME NEW user \in Users, NEW name \in Texts, NEW subOwner \in Owners,
             \/ allow_sub_owner(user, name, subOwner)
             \/ remove_sub_owner(user, name, subOwner)
      PROVE  UseKept
  <2>1. name \in DOMAIN storage /\ storage[name].owner \notin Senders
    BY <1>3 DEF allow_sub_owner, remove_sub_owner, OwnedBy, SharedAssumption
  <2>2. PICK subOwners : storage' = [storage EXCEPT ![name].subOwners = subOwners]
    BY <1>3 DEF allow_sub_owner, remove_sub_owner, Allow, Remove
  <2>3. /\ DOMAIN storage' = DOMAIN storage
        /\ \A n \in DOMAIN storage \ {name} : storage'[n] = storage[n]
        /\ storage'[name].owner = storage[name].owner
    BY <1>0, <2>1, <2>2 DEF Ownership
  <2> QED  BY <2>1, <2>3 DEF UseKept
<1>4. ASSUME NEW user \in Users, NEW name \in Texts, NEW used \in Texts,
             change_used_ref_code(user, name, used)
      PROVE  UseKept
  <2>1. storage' = [storage EXCEPT ![name].usedRefCode = used]
    BY <1>4 DEF change_used_ref_code, Change
  <2> QED  BY <1>0, <2>1 DEF UseKept, Ownership
<1> QED  BY <1>1, <1>2, <1>3, <1>4 DEF OnAptos

(***************************************************************************)
(* Every step on the storages, also while votes are cast: requests of any  *)
(* kind are emitted, and those about proposals touch no table.             *)
(***************************************************************************)
BallotStep ==
  \E r \in Requests :
    /\ r.kind \notin {"allow", "remove"}
    /\ emit_event(r) \/ (Settle(r) /\ UNCHANGED tables)

Account == SharedInv /\ GrantsInv

LEMMA EmissionKeepsAccount ==
  ASSUME SharedAssumption, Account, NEW r \in Requests, emit_event(r)
  PROVE  Account'
<1>1. UNCHANGED tables /\ UNCHANGED settled
  BY DEF emit_event
<1>2. SharedInv'
  BY <1>1, EmitKeepsLog, SameTables DEF Account, SharedInv
<1>4. storage' = storage
  BY <1>1 DEF tables
<1>5. GrantsInv'
  BY <1>1, <1>4, LogStays, SameStorages, GrantsKept DEF Account, SharedInv, TablesInv
<1> QED  BY <1>2, <1>5 DEF Account

LEMMA AccountKept ==
  ASSUME SharedAssumption, Account, [SharedNext]_sharedVars \/ BallotStep
  PROVE  Account'
<1>0. /\ SharedInv /\ TablesInv /\ TablesOK /\ LogOK /\ GrantsInv
      /\ [SharedNext]_sharedVars => SharedInv'
  BY SharedInvKept DEF Account, SharedInv, TablesInv
<1>1. CASE OnAptos
  <2>1. UNCHANGED log
    BY <1>1 DEF OnAptos, create_non_user_shared_storage, create_shared_storage,
                allow_sub_owner, remove_sub_owner, change_used_ref_code
  <2>2. NoneSettled
    BY <1>0, <2>1, LogStays DEF log
  <2>3. UseKept /\ SharedInv'
    BY <1>0, <1>1, AptosKeepsUse DEF SharedNext
  <2> QED  BY <1>0, <2>2, <2>3, GrantsKept DEF Account
<1>2. CASE OnOtherChains
  <2>1. PICK r \in Requests : emit_event(r)
    BY <1>2 DEF OnOtherChains, Asked, m_create_shared_storage, p_allow_sub_owner,
                p_remove_sub_owner, p_change_used_ref_code
  <2> QED  BY <2>1, EmissionKeepsAccount
<1>3. CASE Settlement
  <2>0. SharedInv'
    BY <1>0, <1>3 DEF SharedNext
  <2>1. ASSUME NEW r \in Asked("create"), SettleCreate(r)
        PROVE  Account'
    <3>1. r \in Requests /\ r.kind = "create" /\ r.name \in Texts /\ Settle(r)
      BY <2>1, RequestsTyped DEF Asked, SettleCreate
    <3>2. UseKept
      BY <1>0, <2>1, <3>1, CreationKeepsOwners DEF SettleCreate
    <3>3. NoneSettled
      BY <1>0, <3>1, OthersSettled
    <3> QED  BY <1>0, <2>0, <3>1, <3>2, <3>3, GrantsKept DEF Account
  <2>2. ASSUME NEW r \in Asked("allow"), SettleAllow(r)
        PROVE  Account'
    BY <1>0, <2>0, <2>2, PermissionCounts DEF Account, SettleAllow, Asked
  <2>3. ASSUME NEW r \in Asked("remove"), SettleRemove(r)
        PROVE  Account'
    BY <1>0, <2>0, <2>3, PermissionCounts DEF Account, SettleRemove, Asked
  <2>4. ASSUME NEW r \in Asked("change"), SettleChange(r)
        PROVE  Account'
    <3>1. r \in Requests /\ r.kind = "change" /\ Settle(r)
      BY <2>4 DEF Asked, SettleChange
    <3>2. storage' = [storage EXCEPT ![r.name].usedRefCode = r.usedRefCode]
      BY <2>4 DEF SettleChange, Change
    <3>3. UseKept
      BY <1>0, <3>2 DEF TablesOK, UseKept, Ownership
    <3>4. NoneSettled
      BY <1>0, <3>1, OthersSettled
    <3> QED  BY <1>0, <2>0, <3>1, <3>3, <3>4, GrantsKept DEF Account
  <2> QED  BY <1>3, <2>1, <2>2, <2>3, <2>4 DEF Settlement
<1>4. CASE UNCHANGED sharedVars
  <2>1. storage' = storage /\ UNCHANGED log /\ UNCHANGED tables
    BY <1>4 DEF sharedVars, tables
  <2>2. NoneSettled
    BY <1>0, <2>1, LogStays DEF log
  <2> QED  BY <1>0, <1>4, <2>1, <2>2, SameStorages, GrantsKept DEF Account
<1>5. CASE BallotStep
  <2>1. PICK r \in Requests :
          /\ r.kind \notin {"allow", "remove"}
          /\ emit_event(r) \/ (Settle(r) /\ UNCHANGED tables)
    BY <1>5 DEF BallotStep
  <2>2. CASE emit_event(r)
    BY <2>2, EmissionKeepsAccount
  <2>3. CASE Settle(r) /\ UNCHANGED tables
    <3>1. SharedInv'
      BY <1>0, <2>3, SettleKeepsLog, SameTables DEF SharedInv
    <3>2. storage' = storage
      BY <2>3 DEF tables
    <3>3. NoneSettled
      BY <1>0, <2>1, <2>3, OthersSettled
    <3> QED  BY <1>0, <3>1, <3>2, <3>3, SameStorages, GrantsKept DEF Account
  <2> QED  BY <2>1, <2>2, <2>3
<1> QED  BY <1>1, <1>2, <1>3, <1>4, <1>5 DEF SharedNext

LEMMA AccountInit == ASSUME SharedAssumption, SharedInit PROVE Account
<1>1. SharedInv
  BY SharedInvHolds
<1>2. /\ \A r \in Requests : settled[r] = 0
      /\ DOMAIN storage = {}
  BY DEF SharedInit
<1>3. ASSUME NEW S \in SUBSET Requests
      PROVE  SumFunctionOnSet(settled, S) = 0
  <2>1. IsFiniteSet(S)
    BY FS_Subset DEF SharedAssumption
  <2> QED  BY <1>2, <2>1, SumOfZeros
<1>5. \A kind, n, u : SettledOf(kind, n, u) = 0
  BY <1>3 DEF SettledOf, Asked
<1>6. GrantsInv
  BY <1>2, <1>5 DEF GrantsInv, RemovalsNotAhead, NothingInAdvance
<1> QED  BY <1>1, <1>6 DEF Account

LEMMA AccountAlways == ASSUME SharedAssumption PROVE SharedSpec => []Account
<1>1. Account /\ [SharedNext]_sharedVars => Account'
  BY AccountKept
<1> QED  BY <1>1, AccountInit, PTL DEF SharedSpec

\* Once as many removals as permissions of an address are settled, it is out
\* of a storage that is managed from another chain.
THEOREM GrantsTakenBack == ASSUME SharedAssumption PROVE SharedSpec => []RemovalsTakeGrantsBack
<1>1. Account => RemovalsTakeGrantsBack
  BY GrantsMeanTakenBack DEF Account, SharedInv, TablesInv
<1> QED  BY <1>1, AccountAlways, PTL

-------------------------------------------------------------------------------
(* Proposals and votes *)

\* What the proposals, votes and executions must satisfy to stay so.
DaoInv == DaoTypeOK /\ ExecutedAtMostOnce

LEMMA DaoRequestsTyped ==
  ASSUME DaoAssumption
  PROVE  /\ \A r \in Asked("propose") :
              r.name \in Texts /\ r.script \in Scripts /\ r.duration \in Nat
         /\ \A r \in Asked("vote") :
              r.name \in Texts /\ r.proposalId \in Nat /\ r.isYes \in BOOLEAN
<1>1. ASSUME NEW r \in Asked("propose")
      PROVE  r.name \in Texts /\ r.script \in Scripts /\ r.duration \in Nat
  <2>1. r \in DaoRequests /\ r.kind = "propose"
    BY DaoAssumption DEF DaoAssumption, Asked
  <2>2. r \in [ kind : {"propose"}, user : Addresses, name : Texts, script : Scripts,
                duration : Durations ]
    BY <2>1 DEF DaoRequests
  <2> QED  BY <2>2, DaoAssumption DEF DaoAssumption
<1>2. ASSUME NEW r \in Asked("vote")
      PROVE  r.name \in Texts /\ r.proposalId \in Nat /\ r.isYes \in BOOLEAN
  <2>1. r \in DaoRequests /\ r.kind = "vote"
    BY DaoAssumption DEF DaoAssumption, Asked
  <2>2. r \in [ kind : {"vote"}, user : Addresses, name : Texts, proposalId : Nat,
                isYes : BOOLEAN ]
    BY <2>1 DEF DaoRequests
  <2> QED  BY <2>2
<1> QED  BY <1>1, <1>2

(***************************************************************************)
(* A proposal is appended open and not executed.                           *)
(***************************************************************************)
LEMMA ProposeStep ==
  ASSUME DaoTypeOK, NEW shared \in Texts, NEW script \in Scripts, NEW duration \in Nat,
         Propose(shared, script, duration)
  PROVE  /\ DaoTypeOK'
         /\ Len(proposals') = Len(proposals) + 1
         /\ \A i \in DOMAIN proposals :
              proposals'[i] = proposals[i] /\ executions'[i] = executions[i]
         /\ ~proposals'[Len(proposals')].executed
         /\ executions'[Len(proposals')] = 0
         /\ proposals'[Len(proposals')].yes = 0 /\ proposals'[Len(proposals')].no = 0
         /\ now' = now /\ cast' = cast
<1> DEFINE new == [ shared |-> shared, script |-> script, end |-> now + duration,
                    yes |-> 0, no |-> 0, voters |-> {}, executed |-> FALSE ]
<1>0. /\ proposals' = Append(proposals, new) /\ executions' = Append(executions, 0)
      /\ UNCHANGED <<now, staked, cast>>
  BY DEF Propose
<1>1. new \in Proposal /\ new.executed = FALSE /\ new.yes = 0 /\ new.no = 0
  BY DEF DaoTypeOK, Proposal
<1>2. /\ proposals \in Seq(Proposal) /\ now \in Nat
      /\ executions \in [1 .. Len(proposals) -> Nat]
  BY DEF DaoTypeOK
<1>3. executions \in Seq(Nat) /\ Len(executions) = Len(proposals)
  BY <1>2
<1> HIDE DEF new
<1>4. /\ proposals' \in Seq(Proposal) /\ Len(proposals') = Len(proposals) + 1
      /\ \A i \in 1 .. Len(proposals) : proposals'[i] = proposals[i]
      /\ proposals'[Len(proposals) + 1] = new
  BY <1>0, <1>1, <1>2, AppendProperties
<1>5. /\ executions' \in Seq(Nat) /\ Len(executions') = Len(executions) + 1
      /\ \A i \in 1 .. Len(executions) : executions'[i] = executions[i]
      /\ executions'[Len(executions) + 1] = 0
  BY <1>0, <1>3, AppendProperties
<1>6. executions' \in [1 .. Len(proposals') -> Nat]
  BY <1>3, <1>4, <1>5
<1>7. DaoTypeOK'
  BY <1>0, <1>4, <1>6 DEF DaoTypeOK
<1> QED  BY <1>0, <1>1, <1>2, <1>3, <1>4, <1>5, <1>7

(***************************************************************************)
(* A vote is counted in an open proposal and touches no other.             *)
(***************************************************************************)
LEMMA VoteStep ==
  ASSUME DaoTypeOK, NEW shared \in Texts, NEW id \in Nat, NEW isYes \in BOOLEAN,
         DaoAssumption, Vote(shared, id, isYes)
  PROVE  /\ DaoTypeOK'
         /\ DOMAIN proposals' = DOMAIN proposals
         /\ Len(proposals') = Len(proposals)
         /\ now' = now /\ executions' = executions
         /\ \A i \in DOMAIN proposals :
              /\ proposals'[i].shared = proposals[i].shared
              /\ proposals'[i].script = proposals[i].script
              /\ proposals'[i].end = proposals[i].end
              /\ proposals'[i].executed = proposals[i].executed
              /\ proposals[i].voters \subseteq proposals'[i].voters
              /\ now > proposals[i].end => proposals'[i] = proposals[i]
<1> DEFINE p == proposals[id + 1]
           weight == staked[shared]
           counted == Counted(p, shared, weight, isYes)
<1>1. /\ id + 1 \in DOMAIN proposals /\ now <= p.end /\ now \in Nat
      /\ proposals \in Seq(Proposal) /\ p \in Proposal /\ weight \in Nat
  <2>1. id + 1 \in 1 .. Len(proposals) /\ proposals \in Seq(Proposal)
    BY DEF Vote, DaoTypeOK
  <2>2. staked \in [Texts -> Stakes \union {0}] /\ Stakes \subseteq Nat
    BY DaoAssumption DEF DaoTypeOK, DaoAssumption
  <2>3. staked[shared] \in Nat
    <3>1. staked[shared] \in Stakes \union {0}
      BY <2>2
    <3>2. Stakes \union {0} \subseteq Nat
      BY <2>2
    <3> QED  BY <3>1, <3>2
  <2>4. proposals[id + 1] \in Proposal
    BY <2>1
  <2> QED  BY <2>1, <2>3, <2>4 DEF Vote, Open, DaoTypeOK
<1>2. /\ counted \in Proposal
      /\ counted.shared = p.shared /\ counted.script = p.script /\ counted.end = p.end
      /\ counted.executed = p.executed /\ p.voters \subseteq counted.voters
  <2>0. p \in Proposal /\ weight \in Nat
    BY <1>1
  <2> HIDE DEF p, weight
  <2>1. CASE isYes
    <3>1. counted = [p EXCEPT !.yes = p.yes + weight, !.voters = p.voters \union {shared}]
      BY <2>1 DEF Counted
    <3>2. p.yes + weight \in Nat /\ p.voters \union {shared} \subseteq Texts
      BY <2>0 DEF Proposal
    <3>3. counted \in Proposal
      BY <2>0, <3>1, <3>2 DEF Proposal
    <3>4. /\ counted.shared = p.shared /\ counted.script = p.script
          /\ counted.end = p.end /\ counted.executed = p.executed
          /\ counted.voters = p.voters \union {shared}
      BY <2>0, <3>1 DEF Proposal
    <3> QED  BY <3>3, <3>4
  <2>2. CASE ~isYes
    <3>1. counted = [p EXCEPT !.no = p.no + weight, !.voters = p.voters \union {shared}]
      BY <2>2 DEF Counted
    <3>2. p.no + weight \in Nat /\ p.voters \union {shared} \subseteq Texts
      BY <2>0 DEF Proposal
    <3>3. counted \in Proposal
      BY <2>0, <3>1, <3>2 DEF Proposal
    <3>4. /\ counted.shared = p.shared /\ counted.script = p.script
          /\ counted.end = p.end /\ counted.executed = p.executed
          /\ counted.voters = p.voters \union {shared}
      BY <2>0, <3>1 DEF Proposal
    <3> QED  BY <3>3, <3>4
  <2> QED  BY <2>1, <2>2
<1>3. /\ proposals' = [proposals EXCEPT ![id + 1] = counted]
      /\ cast' = cast \union
           {[id |-> id, shared |-> shared, weight |-> weight, isYes |-> isYes]}
      /\ UNCHANGED <<now, staked, executions>>
  BY DEF Vote
<1> HIDE DEF counted
<1>4. /\ proposals' \in Seq(Proposal) /\ Len(proposals') = Len(proposals)
      /\ DOMAIN proposals' = DOMAIN proposals
      /\ proposals'[id + 1] = counted
      /\ \A i \in DOMAIN proposals \ {id + 1} : proposals'[i] = proposals[i]
  BY <1>1, <1>2, <1>3, ExceptSeq
<1>5. cast' \subseteq Votes
  BY <1>1, <1>3 DEF DaoTypeOK, Votes
<1>6. DaoTypeOK'
  BY <1>3, <1>4, <1>5 DEF DaoTypeOK
<1>7. ASSUME NEW i \in DOMAIN proposals
      PROVE  /\ proposals'[i].shared = proposals[i].shared
             /\ proposals'[i].script = proposals[i].script
             /\ proposals'[i].end = proposals[i].end
             /\ proposals'[i].executed = proposals[i].executed
             /\ proposals[i].voters \subseteq proposals'[i].voters
             /\ now > proposals[i].end => proposals'[i] = proposals[i]
  <2>1. CASE i = id + 1
    <3>1. p \in Proposal /\ now \in Nat /\ now <= p.end /\ p.end \in Nat
      BY <1>1 DEF Proposal
    <3> QED  BY <1>2, <1>4, <2>1, <3>1
  <2>2. CASE i # id + 1
    BY <1>4, <2>2
  <2> QED  BY <2>1, <2>2
<1> QED  BY <1>3, <1>4, <1>6, <1>7

(***************************************************************************)
(* What a vote counts, in its proposal and in the history.                 *)
(***************************************************************************)
Ballot(id, shared, isYes) ==
  [id |-> id, shared |-> shared, weight |-> staked[shared], isYes |-> isYes]

\* What a vote does to its proposal, and to no other.
VoteCounted(shared, id, isYes) ==
  /\ id + 1 \in DOMAIN proposals /\ shared \notin proposals[id + 1].voters
  /\ staked[shared] \in Nat
  /\ proposals'[id + 1].yes =
       proposals[id + 1].yes + (IF isYes THEN staked[shared] ELSE 0)
  /\ proposals'[id + 1].no =
       proposals[id + 1].no + (IF isYes THEN 0 ELSE staked[shared])
  /\ proposals'[id + 1].voters = proposals[id + 1].voters \union {shared}
  /\ \A i \in DOMAIN proposals \ {id + 1} : proposals'[i] = proposals[i]
  /\ cast' = cast \union {Ballot(id, shared, isYes)}

LEMMA VoteCounts ==
  ASSUME DaoTypeOK, DaoAssumption, NEW shared \in Texts, NEW id \in Nat,
         NEW isYes \in BOOLEAN, Vote(shared, id, isYes)
  PROVE  VoteCounted(shared, id, isYes)
<1> DEFINE p == proposals[id + 1]
           weight == staked[shared]
           counted == Counted(p, shared, weight, isYes)
<1>1. id + 1 \in DOMAIN proposals /\ p \in Proposal /\ shared \notin p.voters
  <2>1. id + 1 \in 1 .. Len(proposals) /\ proposals \in Seq(Proposal)
    BY DEF Vote, DaoTypeOK
  <2> QED  BY <2>1 DEF Vote
<1>2. weight \in Nat
  <2>1. staked[shared] \in Stakes \union {0} /\ Stakes \union {0} \subseteq Nat
    BY DaoAssumption DEF DaoTypeOK, DaoAssumption
  <2> QED  BY <2>1
<1>3. /\ proposals' = [proposals EXCEPT ![id + 1] = counted]
      /\ cast' = cast \union {Ballot(id, shared, isYes)}
  BY DEF Vote, Ballot
<1>4. /\ counted.yes = p.yes + (IF isYes THEN weight ELSE 0)
      /\ counted.no = p.no + (IF isYes THEN 0 ELSE weight)
      /\ counted.voters = p.voters \union {shared}
  <2> HIDE DEF p, weight
  <2>1. p.yes \in Nat /\ p.no \in Nat
    BY <1>1 DEF Proposal
  <2>2. CASE isYes = TRUE
    <3>1. counted = [p EXCEPT !.yes = p.yes + weight, !.voters = p.voters \union {shared}]
      BY <2>2 DEF Counted
    <3>2. /\ counted.yes = p.yes + weight /\ counted.no = p.no
          /\ counted.voters = p.voters \union {shared}
      BY <1>1, <3>1 DEF Proposal
    <3> QED  BY <2>1, <2>2, <3>2
  <2>3. CASE isYes = FALSE
    <3>1. counted = [p EXCEPT !.no = p.no + weight, !.voters = p.voters \union {shared}]
      BY <2>3 DEF Counted
    <3> QED  BY <1>1, <2>1, <2>3, <3>1 DEF Proposal
  <2> QED  BY <2>2, <2>3
<1> HIDE DEF counted
<1>5. /\ proposals'[id + 1] = counted
      /\ \A i \in DOMAIN proposals \ {id + 1} : proposals'[i] = proposals[i]
  BY <1>1, <1>3
<1> QED  BY <1>1, <1>2, <1>3, <1>4, <1>5 DEF VoteCounted

(***************************************************************************)
(* An execution marks a passed proposal, which was not marked.             *)
(***************************************************************************)
LEMMA ResolveStep ==
  ASSUME DaoTypeOK, NEW id \in Nat, NEW script, resolve(id, script)
  PROVE  /\ DaoTypeOK'
         /\ DOMAIN proposals' = DOMAIN proposals /\ Len(proposals') = Len(proposals)
         /\ now' = now /\ cast' = cast
         /\ \A i \in DOMAIN proposals :
              /\ proposals'[i].shared = proposals[i].shared
              /\ proposals'[i].script = proposals[i].script
              /\ proposals'[i].end = proposals[i].end
              /\ proposals'[i].yes = proposals[i].yes
              /\ proposals'[i].no = proposals[i].no
              /\ proposals'[i].voters = proposals[i].voters
              /\ \/ /\ proposals'[i].executed = proposals[i].executed
                    /\ executions'[i] = executions[i]
                 \/ /\ ~proposals[i].executed /\ proposals'[i].executed
                    /\ Passed(proposals[i])
                    /\ executions'[i] = executions[i] + 1
<1> DEFINE p == proposals[id + 1]
           marked == [p EXCEPT !.executed = TRUE]
<1>1. /\ id + 1 \in DOMAIN proposals /\ proposals \in Seq(Proposal) /\ p \in Proposal
      /\ executions \in [1 .. Len(proposals) -> Nat]
      /\ DOMAIN proposals = 1 .. Len(proposals)
      /\ ~p.executed /\ Passed(p)
  <2>1. id + 1 \in 1 .. Len(proposals) /\ proposals \in Seq(Proposal)
    BY DEF resolve, DaoTypeOK
  <2> QED  BY <2>1 DEF resolve, DaoTypeOK
<1>2. /\ marked \in Proposal /\ marked.executed
      /\ marked.shared = p.shared /\ marked.script = p.script /\ marked.end = p.end
      /\ marked.yes = p.yes /\ marked.no = p.no /\ marked.voters = p.voters
  BY <1>1 DEF Proposal
<1>3. /\ proposals' = [proposals EXCEPT ![id + 1] = marked]
      /\ executions' = [executions EXCEPT ![id + 1] = executions[id + 1] + 1]
      /\ UNCHANGED <<now, staked, cast>>
  BY DEF resolve
<1> HIDE DEF marked
<1>4. /\ proposals' \in Seq(Proposal) /\ Len(proposals') = Len(proposals)
      /\ DOMAIN proposals' = DOMAIN proposals
      /\ proposals'[id + 1] = marked
      /\ \A i \in DOMAIN proposals \ {id + 1} : proposals'[i] = proposals[i]
  BY <1>1, <1>2, <1>3, ExceptSeq
<1>5. /\ executions' \in [1 .. Len(proposals) -> Nat]
      /\ executions'[id + 1] = executions[id + 1] + 1
      /\ \A i \in DOMAIN proposals \ {id + 1} : executions'[i] = executions[i]
  BY <1>1, <1>3
<1>6. DaoTypeOK'
  BY <1>3, <1>4, <1>5 DEF DaoTypeOK
<1> QED  BY <1>1, <1>2, <1>3, <1>4, <1>5, <1>6

(***************************************************************************)
(* Every step is one of four: a proposal, a vote, an execution, or one     *)
(* that leaves proposals and executions alone and the clock not behind.    *)
(***************************************************************************)
AnyPropose == \E shared \in Texts, script \in Scripts, duration \in Nat :
                Propose(shared, script, duration)
AnyVote == \E shared \in Texts, id \in Nat, isYes \in BOOLEAN : Vote(shared, id, isYes)
AnyResolve == \E id \in Nat, script \in Scripts : resolve(id, script)
Aside ==
  /\ UNCHANGED <<proposals, cast, executions>>
  /\ now' \in Nat /\ now' >= now
  /\ staked' \in [Texts -> Stakes \union {0}]

LEMMA StepKinds ==
  ASSUME DaoAssumption, DaoTypeOK, [Next]_vars
  PROVE  AnyPropose \/ AnyVote \/ AnyResolve \/ Aside
<1>0. now \in Nat /\ staked \in [Texts -> Stakes \union {0}]
  BY DEF DaoTypeOK
<1>1. CASE DaoStep
  <2>1. ASSUME NEW shared \in Voters, NEW script \in Scripts, NEW duration \in Durations,
               propose(shared, script, duration)
        PROVE  AnyPropose
    BY <2>1, DaoAssumption DEF propose, AnyPropose, DaoAssumption
  <2>2. ASSUME NEW shared \in Voters, NEW id \in 0 .. MaxProposals, NEW isYes \in BOOLEAN,
               vote(shared, id, isYes)
        PROVE  AnyVote
    <3>1. shared \in Texts /\ id \in Nat
      BY DaoAssumption DEF DaoAssumption
    <3> QED  BY <2>2, <3>1 DEF vote, AnyVote
  <2>3. ASSUME NEW id \in 0 .. MaxProposals, NEW script \in Scripts, resolve(id, script)
        PROVE  AnyResolve
    <3>1. id \in Nat
      BY DaoAssumption DEF DaoAssumption
    <3> QED  BY <2>3, <3>1 DEF AnyResolve
  <2>4. ASSUME NEW r \in Asked("propose"), m_propose(r) \/ SettlePropose(r)
        PROVE  AnyPropose \/ Aside
    <3>1. CASE m_propose(r)
      BY <1>0, <3>1 DEF m_propose, daoVars, Aside
    <3>2. CASE SettlePropose(r)
      BY <3>2, DaoRequestsTyped DEF SettlePropose, AnyPropose
    <3> QED  BY <2>4, <3>1, <3>2
  <2>5. ASSUME NEW r \in Asked("vote"), m_vote(r) \/ SettleVote(r)
        PROVE  AnyVote \/ Aside
    <3>1. CASE m_vote(r)
      BY <1>0, <3>1 DEF m_vote, daoVars, Aside
    <3>2. CASE SettleVote(r)
      BY <3>2, DaoRequestsTyped DEF SettleVote, AnyVote
    <3> QED  BY <2>5, <3>1, <3>2
  <2>6. ASSUME NEW shared \in Voters, NEW amount \in Stakes, MoveStake(shared, amount)
        PROVE  Aside
    <3>1. staked' = [staked EXCEPT ![shared] = amount]
          /\ UNCHANGED <<now, proposals, cast, executions>>
      BY <2>6 DEF MoveStake
    <3>2. amount \in Stakes \union {0}
      OBVIOUS
    <3> QED  BY <1>0, <3>1, <3>2 DEF Aside
  <2>7. CASE Tick
    BY <1>0, <2>7 DEF Tick, Aside
  <2> QED  BY <1>1, <2>1, <2>2, <2>3, <2>4, <2>5, <2>6, <2>7 DEF DaoStep
<1>2. CASE UNCHANGED daoVars
  BY <1>0, <1>2 DEF daoVars, Aside
<1> QED  BY <1>1, <1>2 DEF Next, vars

(***************************************************************************)
(* The number of executions of each proposal is right, one by one.         *)
(***************************************************************************)
LEMMA DaoInvKept ==
  ASSUME DaoAssumption, DaoInv, [Next]_vars
  PROVE  DaoInv'
<1>0. DaoTypeOK /\ ExecutedAtMostOnce
  BY DEF DaoInv
<1>t. /\ now \in Nat /\ DOMAIN proposals = 1 .. Len(proposals)
      /\ \A i \in DOMAIN proposals : proposals[i] \in Proposal
      /\ proposals \in Seq(Proposal) /\ Len(proposals) \in Nat
  BY <1>0 DEF DaoTypeOK
<1>1. CASE AnyPropose
  <2>1. /\ DaoTypeOK' /\ Len(proposals') = Len(proposals) + 1 /\ now' = now
        /\ \A i \in DOMAIN proposals :
             proposals'[i] = proposals[i] /\ executions'[i] = executions[i]
        /\ ~proposals'[Len(proposals')].executed
        /\ executions'[Len(proposals')] = 0
    BY <1>0, <1>1, ProposeStep DEF AnyPropose
  <2>2. DOMAIN proposals' = 1 .. Len(proposals')
    BY <2>1 DEF DaoTypeOK
  <2>3. ASSUME NEW i \in DOMAIN proposals'
        PROVE  i \in DOMAIN proposals \/ i = Len(proposals')
    BY <1>t, <2>1, <2>2
  <2>4. ExecutedAtMostOnce'
    BY <1>0, <2>1, <2>3 DEF ExecutedAtMostOnce
  <2> QED  BY <2>1, <2>4 DEF DaoInv
<1>2. CASE AnyVote
  <2>1. /\ DaoTypeOK' /\ DOMAIN proposals' = DOMAIN proposals
        /\ now' = now /\ executions' = executions
        /\ \A i \in DOMAIN proposals :
             /\ proposals'[i].end = proposals[i].end
             /\ proposals'[i].executed = proposals[i].executed
             /\ now > proposals[i].end => proposals'[i] = proposals[i]
    BY <1>0, <1>2, VoteStep DEF AnyVote
  <2>2. ExecutedAtMostOnce'
    BY <1>0, <2>1 DEF ExecutedAtMostOnce
  <2> QED  BY <2>1, <2>2 DEF DaoInv
<1>3. CASE AnyResolve
  <2>1. /\ DaoTypeOK' /\ DOMAIN proposals' = DOMAIN proposals /\ now' = now
        /\ \A i \in DOMAIN proposals :
             /\ proposals'[i].end = proposals[i].end
             /\ proposals'[i].yes = proposals[i].yes
             /\ proposals'[i].no = proposals[i].no
             /\ \/ /\ proposals'[i].executed = proposals[i].executed
                   /\ executions'[i] = executions[i]
                \/ /\ ~proposals[i].executed /\ proposals'[i].executed
                   /\ Passed(proposals[i])
                   /\ executions'[i] = executions[i] + 1
    BY <1>0, <1>3, ResolveStep DEF AnyResolve
  <2>2. ASSUME NEW i \in DOMAIN proposals
        PROVE  /\ executions'[i] = (IF proposals'[i].executed THEN 1 ELSE 0)
               /\ proposals'[i].executed =>
                    now' > proposals'[i].end /\ proposals'[i].yes > proposals'[i].no
    BY <1>0, <2>1 DEF ExecutedAtMostOnce, Passed
  <2>3. ExecutedAtMostOnce'
    BY <2>1, <2>2 DEF ExecutedAtMostOnce
  <2> QED  BY <2>1, <2>3 DEF DaoInv
<1>4. CASE Aside
  <2>1. /\ UNCHANGED <<proposals, cast, executions>>
        /\ now' \in Nat /\ now' >= now /\ staked' \in [Texts -> Stakes \union {0}]
    BY <1>4 DEF Aside
  <2>2. DaoTypeOK'
    BY <1>0, <2>1 DEF DaoTypeOK
  <2>3. ASSUME NEW i \in DOMAIN proposals, now > proposals[i].end
        PROVE  now' > proposals[i].end
    <3>1. proposals[i].end \in Nat
      BY <1>t DEF Proposal
    <3> QED  BY <1>t, <2>1, <2>3, <3>1
  <2>4. ExecutedAtMostOnce'
    BY <1>0, <2>1, <2>3 DEF ExecutedAtMostOnce
  <2> QED  BY <2>2, <2>4 DEF DaoInv
<1> QED  BY <1>0, <1>1, <1>2, <1>3, <1>4, StepKinds

LEMMA DaoInvInit == ASSUME DaoInit PROVE DaoInv
<1>1. proposals = <<>> /\ executions = <<>> /\ now = 1 /\ cast = {}
      /\ staked \in [Texts -> Stakes \union {0}]
  BY DEF DaoInit
<1>2. executions \in [1 .. Len(proposals) -> Nat]
  BY <1>1
<1>3. DaoTypeOK
  BY <1>1, <1>2 DEF DaoTypeOK
<1>4. ExecutedAtMostOnce
  BY <1>1 DEF ExecutedAtMostOnce
<1> QED  BY <1>3, <1>4 DEF DaoInv

LEMMA DaoInvAlways == ASSUME DaoAssumption PROVE Spec => []DaoInv
<1>1. Init => DaoInv
  BY DaoInvInit DEF Init
<1>2. DaoInv /\ [Next]_vars => DaoInv'
  BY DaoInvKept
<1> QED  BY <1>1, <1>2, PTL DEF Spec

\* Proposals, votes and stakes are well typed, and every proposal has its
\* count of executions.
THEOREM DaoTypeCorrect == ASSUME DaoAssumption PROVE Spec => []DaoTypeOK
<1>1. DaoInv => DaoTypeOK
  BY DEF DaoInv
<1> QED  BY <1>1, DaoInvAlways, PTL

\* A proposal lends the signer of the DAO at most once, after its end and for
\* more votes than against.
THEOREM ExecutedOnce == ASSUME DaoAssumption PROVE Spec => []ExecutedAtMostOnce
<1>1. DaoInv => ExecutedAtMostOnce
  BY DEF DaoInv
<1> QED  BY <1>1, DaoInvAlways, PTL

\* After its end the votes of a proposal stay, and it is executed only if
\* they are in favour.
THEOREM FateAlwaysSealed == ASSUME DaoAssumption PROVE Spec => FateSealed
<1>1. ASSUME DaoInv, [Next]_vars, NEW i \in DOMAIN proposals, now > proposals[i].end
      PROVE  /\ proposals'[i].yes = proposals[i].yes /\ proposals'[i].no = proposals[i].no
             /\ proposals'[i].executed =>
                  proposals[i].executed \/ proposals[i].yes > proposals[i].no
  <2>0. DaoTypeOK
    BY <1>1 DEF DaoInv
  <2>1. CASE AnyPropose
    <3>1. proposals'[i] = proposals[i]
      BY <1>1, <2>0, <2>1, ProposeStep DEF AnyPropose
    <3> QED  BY <3>1
  <2>2. CASE AnyVote
    <3>1. proposals'[i] = proposals[i]
      BY <1>1, <2>0, <2>2, VoteStep DEF AnyVote
    <3> QED  BY <3>1
  <2>3. CASE AnyResolve
    <3>1. /\ proposals'[i].yes = proposals[i].yes
          /\ proposals'[i].no = proposals[i].no
          /\ \/ proposals'[i].executed = proposals[i].executed
             \/ Passed(proposals[i])
      BY <2>0, <2>3, ResolveStep DEF AnyResolve
    <3> QED  BY <3>1 DEF Passed
  <2>4. CASE Aside
    BY <2>4 DEF Aside
  <2> QED  BY <1>1, <2>0, <2>1, <2>2, <2>3, <2>4, StepKinds
<1>2. DaoInv /\ [Next]_vars =>
        [ \A i \in DOMAIN proposals :
            now > proposals[i].end =>
              /\ proposals'[i].yes = proposals[i].yes /\ proposals'[i].no = proposals[i].no
              /\ proposals'[i].executed =>
                   proposals[i].executed \/ proposals[i].yes > proposals[i].no ]_vars
  BY <1>1
<1> QED  BY <1>2, DaoInvAlways, PTL DEF Spec, FateSealed

\* An id means the same proposal for ever, and nobody's vote is forgotten.
THEOREM ProposalsAlwaysStay == ASSUME DaoAssumption PROVE Spec => ProposalsStay
<1>1. ASSUME DaoInv, [Next]_vars
      PROVE  /\ Len(proposals) <= Len(proposals')
             /\ \A i \in DOMAIN proposals :
                  /\ proposals'[i].shared = proposals[i].shared
                  /\ proposals'[i].script = proposals[i].script
                  /\ proposals'[i].end = proposals[i].end
                  /\ proposals[i].voters \subseteq proposals'[i].voters
  <2>0. DaoTypeOK /\ Len(proposals) \in Nat
    BY <1>1 DEF DaoInv, DaoTypeOK
  <2>1. CASE AnyPropose
    <3>1. /\ Len(proposals') = Len(proposals) + 1
          /\ \A i \in DOMAIN proposals : proposals'[i] = proposals[i]
      BY <2>0, <2>1, ProposeStep DEF AnyPropose
    <3> QED  BY <2>0, <3>1
  <2>2. CASE AnyVote
    <3>1. /\ Len(proposals') = Len(proposals)
          /\ \A i \in DOMAIN proposals :
               /\ proposals'[i].shared = proposals[i].shared
               /\ proposals'[i].script = proposals[i].script
               /\ proposals'[i].end = proposals[i].end
               /\ proposals[i].voters \subseteq proposals'[i].voters
      BY <2>0, <2>2, VoteStep DEF AnyVote
    <3> QED  BY <2>0, <3>1
  <2>3. CASE AnyResolve
    <3>1. /\ Len(proposals') = Len(proposals)
          /\ \A i \in DOMAIN proposals :
               /\ proposals'[i].shared = proposals[i].shared
               /\ proposals'[i].script = proposals[i].script
               /\ proposals'[i].end = proposals[i].end
               /\ proposals'[i].voters = proposals[i].voters
      BY <2>0, <2>3, ResolveStep DEF AnyResolve
    <3> QED  BY <2>0, <3>1
  <2>4. CASE Aside
    BY <2>0, <2>4 DEF Aside
  <2> QED  BY <1>1, <2>0, <2>1, <2>2, <2>3, <2>4, StepKinds
<1>2. DaoInv /\ [Next]_vars =>
        [ /\ Len(proposals) <= Len(proposals')
          /\ \A i \in DOMAIN proposals :
               /\ proposals'[i].shared = proposals[i].shared
               /\ proposals'[i].script = proposals[i].script
               /\ proposals'[i].end = proposals[i].end
               /\ proposals[i].voters \subseteq proposals'[i].voters ]_vars
  BY <1>1
<1> QED  BY <1>2, DaoInvAlways, PTL DEF Spec, ProposalsStay

(***************************************************************************)
(* TallyIsVotes is not inductive: a vote must be the first of its storage, *)
(* as the voters of the proposal say, and a new proposal has no votes.     *)
(***************************************************************************)
BallotsRecorded ==
  /\ IsFiniteSet(cast)
  /\ \A v \in cast :
       v.id + 1 \in DOMAIN proposals /\ v.shared \in proposals[v.id + 1].voters

TallyInv == DaoInv /\ BallotsRecorded /\ TallyIsVotes

\* A vote more weighs more by its weight.
LEMMA WeightGrows ==
  ASSUME NEW votes \in SUBSET Votes, IsFiniteSet(votes), NEW v \in Votes, v \notin votes
  PROVE  /\ WeightOf(votes) \in Nat
         /\ WeightOf(votes \union {v}) = WeightOf(votes) + v.weight
<1> DEFINE f == [w \in votes |-> w.weight]
           g == [w \in votes \union {v} |-> w.weight]
<1>1. DOMAIN f = votes /\ DOMAIN g = votes \union {v}
  OBVIOUS
<1>2. /\ \A w \in votes : f[w] \in Nat /\ g[w] = f[w]
      /\ g[v] = v.weight /\ v.weight \in Nat
  BY DEF Votes
<1>3. WeightOf(votes) = SumFunctionOnSet(f, votes)
      /\ WeightOf(votes \union {v}) = SumFunctionOnSet(g, votes \union {v})
  BY <1>1 DEF WeightOf, SumFunction
<1> HIDE DEF f, g
<1>4. NaturalOn(f, votes)
  BY <1>2 DEF NaturalOn
<1>5. SumFunctionOnSet(f, votes) \in Nat
  BY <1>4, SumIsNatural
<1>6. SumFunctionOnSet(g, votes \union {v}) = SumFunctionOnSet(f, votes) + g[v]
  BY <1>2, <1>4, SumGrows
<1> QED  BY <1>2, <1>3, <1>5, <1>6

LEMMA NoWeight == WeightOf({}) = 0
<1>1. DOMAIN [v \in {} |-> v.weight] = {}
  OBVIOUS
<1> QED  BY <1>1, SumOfNothing DEF WeightOf, SumFunction

LEMMA VoteKeepsTally ==
  ASSUME DaoAssumption, TallyInv, NEW shared \in Texts, NEW id \in Nat,
         NEW isYes \in BOOLEAN, Vote(shared, id, isYes)
  PROVE  BallotsRecorded' /\ TallyIsVotes'
<1> DEFINE new == Ballot(id, shared, isYes)
<1>0. DaoTypeOK /\ BallotsRecorded /\ TallyIsVotes
  BY DEF TallyInv, DaoInv
<1>1. /\ id + 1 \in DOMAIN proposals /\ shared \notin proposals[id + 1].voters
      /\ staked[shared] \in Nat
      /\ proposals'[id + 1].yes = proposals[id + 1].yes + (IF isYes THEN staked[shared] ELSE 0)
      /\ proposals'[id + 1].no = proposals[id + 1].no + (IF isYes THEN 0 ELSE staked[shared])
      /\ proposals'[id + 1].voters = proposals[id + 1].voters \union {shared}
      /\ \A i \in DOMAIN proposals \ {id + 1} : proposals'[i] = proposals[i]
      /\ cast' = cast \union {new}
  <2>1. VoteCounted(shared, id, isYes)
    BY <1>0, VoteCounts
  <2> QED  BY <2>1 DEF VoteCounted
<1>2. /\ DOMAIN proposals' = DOMAIN proposals /\ DOMAIN proposals = 1 .. Len(proposals)
      /\ Len(proposals) \in Nat
  BY <1>0, VoteStep DEF DaoTypeOK
<1>3. /\ new \in Votes /\ new.id = id /\ new.shared = shared /\ new.isYes = isYes
      /\ new.weight = staked[shared]
  BY <1>1 DEF Ballot, Votes
<1> HIDE DEF new
<1>4. cast \subseteq Votes /\ IsFiniteSet(cast)
  BY <1>0 DEF DaoTypeOK, BallotsRecorded
<1>5. \A v \in cast : ~(v.id = id /\ v.shared = shared)
  BY <1>0, <1>1 DEF BallotsRecorded
<1>6. new \notin cast
  BY <1>3, <1>5
<1>7. BallotsRecorded'
  <2>1. IsFiniteSet(cast')
    BY <1>1, <1>4, FS_AddElement
  <2>2. ASSUME NEW v \in cast'
        PROVE  v.id + 1 \in DOMAIN proposals /\ v.shared \in proposals'[v.id + 1].voters
    <3>1. CASE v = new
      BY <1>1, <1>3, <3>1
    <3>2. CASE v \in cast
      BY <1>0, <1>1, <3>2 DEF BallotsRecorded
    <3> QED  BY <1>1, <3>1, <3>2
  <2> QED  BY <1>2, <2>1, <2>2 DEF BallotsRecorded
<1>8. ASSUME NEW n \in Nat, NEW y \in BOOLEAN
      PROVE  /\ Tally(n, y) \in Nat
             /\ n = id /\ y = isYes => Tally(n, y)' = Tally(n, y) + staked[shared]
             /\ n # id \/ y # isYes => Tally(n, y)' = Tally(n, y)
  <2> DEFINE old == {v \in cast : v.id = n /\ v.isYes = y}
  <2>1. /\ old \in SUBSET Votes /\ IsFiniteSet(old) /\ new \notin old
        /\ Tally(n, y) = WeightOf(old)
    BY <1>4, <1>6, FS_Subset DEF Tally
  <2>2. {v \in cast' : v.id = n /\ v.isYes = y}
          = IF n = id /\ y = isYes THEN old \union {new} ELSE old
    BY <1>1, <1>3
  <2>3. Tally(n, y)' = WeightOf(IF n = id /\ y = isYes THEN old \union {new} ELSE old)
    BY <2>2 DEF Tally, WeightOf
  <2> HIDE DEF old
  <2>4. WeightOf(old) \in Nat /\ WeightOf(old \union {new}) = WeightOf(old) + staked[shared]
    BY <1>3, <2>1, WeightGrows
  <2> QED  BY <2>1, <2>3, <2>4
<1>9. ASSUME NEW i \in DOMAIN proposals
      PROVE  /\ proposals'[i].yes = Tally(i - 1, TRUE)'
             /\ proposals'[i].no = Tally(i - 1, FALSE)'
             /\ \A v, w \in {b \in cast' : b.id = i - 1} : v.shared = w.shared => v = w
  <2>0. proposals[i].yes = Tally(i - 1, TRUE) /\ proposals[i].no = Tally(i - 1, FALSE)
    BY <1>0 DEF TallyIsVotes
  <2>1. \A v, w \in {b \in cast : b.id = i - 1} : v.shared = w.shared => v = w
    BY <1>0 DEF TallyIsVotes
  <2>2. i - 1 \in Nat /\ (i - 1 = id <=> i = id + 1)
    BY <1>2
  <2>3. \A v, w \in {b \in cast' : b.id = i - 1} : v.shared = w.shared => v = w
    BY <1>1, <1>3, <1>5, <2>1
  <2>7. proposals[i].yes \in Nat /\ proposals[i].no \in Nat
    <3>1. proposals[i] \in Proposal
      BY <1>0, <1>2 DEF DaoTypeOK
    <3> QED  BY <3>1 DEF Proposal
  <2>4. /\ i - 1 = id /\ TRUE = isYes =>
             Tally(i - 1, TRUE)' = Tally(i - 1, TRUE) + staked[shared]
        /\ i - 1 = id /\ FALSE = isYes =>
             Tally(i - 1, FALSE)' = Tally(i - 1, FALSE) + staked[shared]
        /\ i - 1 # id \/ TRUE # isYes => Tally(i - 1, TRUE)' = Tally(i - 1, TRUE)
        /\ i - 1 # id \/ FALSE # isYes => Tally(i - 1, FALSE)' = Tally(i - 1, FALSE)
    BY <1>8, <2>2
  <2>5. CASE i = id + 1
    <3>1. CASE isYes = TRUE
      <4>1. /\ proposals'[i].yes = proposals[i].yes + staked[shared]
            /\ proposals'[i].no = proposals[i].no
        BY <1>1, <2>5, <2>7, <3>1
      <4>2. /\ Tally(i - 1, TRUE)' = Tally(i - 1, TRUE) + staked[shared]
            /\ Tally(i - 1, FALSE)' = Tally(i - 1, FALSE)
        BY <2>2, <2>4, <2>5, <3>1
      <4>3. /\ proposals'[i].yes = Tally(i - 1, TRUE)'
            /\ proposals'[i].no = Tally(i - 1, FALSE)'
        BY <2>0, <4>1, <4>2, Zenon
      <4> QED  BY <2>3, <4>3
    <3>2. CASE isYes = FALSE
      <4>1. /\ proposals'[i].yes = proposals[i].yes
            /\ proposals'[i].no = proposals[i].no + staked[shared]
        BY <1>1, <2>5, <2>7, <3>2
      <4>2. /\ Tally(i - 1, TRUE)' = Tally(i - 1, TRUE)
            /\ Tally(i - 1, FALSE)' = Tally(i - 1, FALSE) + staked[shared]
        BY <2>2, <2>4, <2>5, <3>2
      <4>3. /\ proposals'[i].yes = Tally(i - 1, TRUE)'
            /\ proposals'[i].no = Tally(i - 1, FALSE)'
        BY <2>0, <4>1, <4>2, Zenon
      <4> QED  BY <2>3, <4>3
    <3> QED  BY <3>1, <3>2
  <2>6. CASE i # id + 1
    <3>1. proposals'[i] = proposals[i]
      BY <1>1, <2>6
    <3>2. Tally(i - 1, TRUE)' = Tally(i - 1, TRUE) /\ Tally(i - 1, FALSE)' = Tally(i - 1, FALSE)
      BY <2>2, <2>4, <2>6
    <3> QED  BY <2>0, <2>3, <3>1, <3>2
  <2> QED  BY <2>5, <2>6
<1>10. TallyIsVotes'
  BY <1>2, <1>9 DEF TallyIsVotes
<1> QED  BY <1>7, <1>10

LEMMA TallyInvKept ==
  ASSUME DaoAssumption, TallyInv, [Next]_vars
  PROVE  TallyInv'
<1>0. /\ DaoTypeOK /\ BallotsRecorded /\ TallyIsVotes /\ DaoInv'
      /\ DOMAIN proposals = 1 .. Len(proposals) /\ Len(proposals) \in Nat
  BY DaoInvKept DEF TallyInv, DaoInv, DaoTypeOK
<1>1. CASE AnyPropose
  <2>1. /\ DaoTypeOK' /\ Len(proposals') = Len(proposals) + 1 /\ cast' = cast
        /\ \A i \in DOMAIN proposals : proposals'[i] = proposals[i]
        /\ proposals'[Len(proposals')].yes = 0 /\ proposals'[Len(proposals')].no = 0
    BY <1>0, <1>1, ProposeStep DEF AnyPropose
  <2>2. DOMAIN proposals' = 1 .. Len(proposals) + 1
    BY <2>1 DEF DaoTypeOK
  <2>3. BallotsRecorded'
    BY <1>0, <2>1, <2>2 DEF BallotsRecorded
  <2>4. ASSUME NEW i \in DOMAIN proposals'
        PROVE  /\ proposals'[i].yes = Tally(i - 1, TRUE) /\ proposals'[i].no = Tally(i - 1, FALSE)
               /\ \A v, w \in {b \in cast : b.id = i - 1} : v.shared = w.shared => v = w
    <3>1. CASE i \in DOMAIN proposals
      BY <1>0, <2>1, <3>1 DEF TallyIsVotes
    <3>2. CASE i = Len(proposals) + 1
      <4>1. {b \in cast : b.id = i - 1} = {}
        <5> SUFFICES ASSUME NEW b \in cast, b.id = i - 1 PROVE FALSE
          OBVIOUS
        <5>1. b.id + 1 \in 1 .. Len(proposals)
          BY <1>0 DEF BallotsRecorded
        <5>2. b.id + 1 = Len(proposals) + 1
          BY <1>0, <3>2
        <5> QED  BY <1>0, <5>1, <5>2
      <4>2. /\ {b \in cast : b.id = i - 1 /\ b.isYes = TRUE} = {}
            /\ {b \in cast : b.id = i - 1 /\ b.isYes = FALSE} = {}
        BY <4>1
      <4>3. Tally(i - 1, TRUE) = 0 /\ Tally(i - 1, FALSE) = 0
        BY <4>2, NoWeight DEF Tally
      <4>4. \A v, w \in {b \in cast : b.id = i - 1} : v.shared = w.shared => v = w
        BY <4>1
      <4>5. proposals'[i].yes = 0 /\ proposals'[i].no = 0
        BY <2>1, <3>2
      <4> QED  BY <4>3, <4>4, <4>5
    <3>3. i \in DOMAIN proposals \/ i = Len(proposals) + 1
      BY <1>0, <2>2
    <3> QED  BY <3>1, <3>2, <3>3
  <2>5. \A n, y : Tally(n, y)' = Tally(n, y)
    BY <2>1 DEF Tally, WeightOf
  <2>6. TallyIsVotes'
    BY <2>1, <2>4, <2>5 DEF TallyIsVotes
  <2> QED  BY <1>0, <2>3, <2>6 DEF TallyInv
<1>2. CASE AnyVote
  BY <1>0, <1>2, VoteKeepsTally DEF AnyVote, TallyInv
<1>3. CASE AnyResolve \/ Aside
  <2>1. /\ cast' = cast /\ DOMAIN proposals' = DOMAIN proposals
        /\ \A i \in DOMAIN proposals :
             /\ proposals'[i].yes = proposals[i].yes /\ proposals'[i].no = proposals[i].no
             /\ proposals'[i].voters = proposals[i].voters
    <3>1. CASE AnyResolve
      BY <1>0, <3>1, ResolveStep DEF AnyResolve
    <3>2. CASE Aside
      BY <3>2 DEF Aside
    <3> QED  BY <1>3, <3>1, <3>2
  <2>2. BallotsRecorded'
    BY <1>0, <2>1 DEF BallotsRecorded
  <2>3. \A n, y : Tally(n, y)' = Tally(n, y)
    BY <2>1 DEF Tally, WeightOf
  <2>4. TallyIsVotes'
    BY <1>0, <2>1, <2>3 DEF TallyIsVotes
  <2> QED  BY <1>0, <2>2, <2>4 DEF TallyInv
<1> QED  BY <1>0, <1>1, <1>2, <1>3, StepKinds

\* The tallies of a proposal are the sums of its votes, and every storage has
\* one of them, whichever chain it voted on.
THEOREM TallyAlwaysIsVotes == ASSUME DaoAssumption PROVE Spec => []TallyIsVotes
<1>1. Init => TallyInv
  <2> SUFFICES ASSUME DaoInit PROVE TallyInv
    BY DEF Init
  <2>1. proposals = <<>> /\ cast = {}
    BY DEF DaoInit
  <2>2. BallotsRecorded /\ TallyIsVotes
    BY <2>1, FS_EmptySet DEF BallotsRecorded, TallyIsVotes
  <2> QED  BY <2>2, DaoInvInit DEF TallyInv
<1>2. TallyInv /\ [Next]_vars => TallyInv'
  BY TallyInvKept
<1>3. TallyInv => TallyIsVotes
  BY DEF TallyInv
<1> QED  BY <1>1, <1>2, <1>3, PTL DEF Spec

(***************************************************************************)
(* Proposals and votes use the storages without a trace in their tables:   *)
(* what holds of the storages by themselves holds while votes are cast.    *)
(***************************************************************************)
THEOREM StoragesServeVotes ==
  ASSUME SharedAssumption
  PROVE  Spec => [](SharedTypeOK /\ RegistryAgrees /\ ReferralsResolve
                    /\ RemovalsTakeGrantsBack)
<1>1. Init => Account
  BY AccountInit DEF Init
<1>2. Account /\ [Next]_vars => Account'
  <2>1. ASSUME DaoStep
        PROVE  UNCHANGED sharedVars \/ BallotStep
    <3>1. \A r \in Asked("propose") \union Asked("vote") :
            r \in Requests /\ r.kind \notin {"allow", "remove"}
      BY DEF Asked
    <3>2. ASSUME NEW r \in Asked("propose") \union Asked("vote"),
                 \/ m_propose(r) \/ m_vote(r) \/ SettlePropose(r) \/ SettleVote(r)
          PROVE  BallotStep
      BY <3>1, <3>2 DEF BallotStep, m_propose, m_vote, SettlePropose, SettleVote
    <3> QED  BY <2>1, <3>2 DEF DaoStep, propose, vote, MoveStake, Tick
  <2>2. UNCHANGED vars => UNCHANGED sharedVars
    BY DEF vars
  <2> QED  BY <2>1, <2>2, AccountKept DEF Next
<1>3. Account => SharedTypeOK /\ RegistryAgrees /\ ReferralsResolve
                 /\ RemovalsTakeGrantsBack
  BY TypeByParts, ReferralsByParts, GrantsMeanTakenBack DEF Account, SharedInv, TablesInv
<1> QED  BY <1>1, <1>2, <1>3, PTL DEF Spec

===============================================================================
