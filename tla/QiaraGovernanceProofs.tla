------------------------ MODULE QiaraGovernanceProofs ------------------------
(***************************************************************************)
(* Theorems about QiaraGovernance for every set of keys, addresses,        *)
(* messages and byte strings, and for every clock.                         *)
(***************************************************************************)
EXTENDS QiaraGovernance, FiniteSetTheorems, TLAPS

\* Dividing by a positive number is monotone and stays in Nat.
LEMMA DivMonotone ==
  ASSUME NEW x \in Nat, NEW y \in Nat, NEW d \in Nat \ {0}, x <= y
  PROVE  x \div d \in Nat /\ x \div d <= y \div d
<1>1. x \div d \in Int /\ y \div d \in Int
  OBVIOUS
<1>2. d * (x \div d) <= x /\ x < d * (x \div d) + d
  OBVIOUS
<1>3. d * (y \div d) <= y /\ y < d * (y \div d) + d
  OBVIOUS
<1>4. x \div d >= 0
  <2>1. SUFFICES ASSUME x \div d + 1 <= 0 PROVE FALSE
    BY <1>1
  <2>2. d * (x \div d + 1) <= 0
    BY <1>1, <2>1
  <2> QED BY <1>1, <1>2, <2>2
<1>5. x \div d <= y \div d
  <2>1. SUFFICES ASSUME y \div d + 1 <= x \div d PROVE FALSE
    BY <1>1
  <2>2. d * (y \div d + 1) <= d * (x \div d)
    BY <1>1, <2>1
  <2> QED BY <1>1, <1>2, <1>3, <2>2
<1> QED BY <1>1, <1>4, <1>5

\* The epoch of a time is a natural number and never goes back.
LEMMA EpochMonotone ==
  ASSUME NEW t \in Nat, NEW u \in Nat, t <= u
  PROVE  EpochAt(t) \in Nat /\ EpochAt(u) \in Nat /\ EpochAt(t) <= EpochAt(u)
<1>1. CASE t < GenesisTime
  <2>1. CASE u < GenesisTime
    BY <1>1, <2>1, TimeAssumption DEF EpochAt
  <2>2. CASE u >= GenesisTime
    BY <1>1, <2>2, TimeAssumption, DivMonotone DEF EpochAt
  <2> QED BY <2>1, <2>2, TimeAssumption
<1>2. CASE t >= GenesisTime
  BY <1>2, TimeAssumption, DivMonotone DEF EpochAt
<1> QED BY <1>1, <1>2, TimeAssumption

\* Writing one entry of a timed table gives a timed table.
LEMMA PutTable ==
  ASSUME NEW N, NEW V, NEW t, IsTimedTable(t, N, V),
         NEW k \in N, NEW r \in TimedRecord(V)
  PROVE  IsTimedTable(Put(t, k, r), N, V)
BY DEF IsTimedTable, Put

\* What is read from a timed table has the type of its values.
LEMMA ReadTypes ==
  ASSUME TypeOK, NEW e \in Nat
  PROVE  /\ \A k \in DOMAIN registry : GetActiveVariable(registry, e, k) \in Data
         /\ \A a \in Addresses : IsActive(validators, e, a) \in BOOLEAN
BY DEF TypeOK, IsTimedTable, TimedRecord, GetActiveVariable, IsActive, Matured

LEMMA StagedTypes ==
  ASSUME TypeOK
  PROVE  /\ \A k \in Keys, data \in Data :
              StagedVariable(k, data) \in TimedRecord(Data)
         /\ \A a \in Addresses, status \in BOOLEAN :
              StagedValidator(a, status) \in TimedRecord(BOOLEAN)
<1>1. Epoch \in Nat
  BY EpochMonotone DEF TypeOK, Epoch
<1> QED BY <1>1, ReadTypes, DataAssumption
        DEF StagedVariable, StagedValidator, TimedRecord

\* Closing a buffer leaves the others as they were.
LEMMA CloseTypes ==
  ASSUME TypeOK, NEW m, CloseBuffer(m)
  PROVE  /\ DOMAIN sigBuffer' \subseteq Messages
         /\ \A x \in DOMAIN sigBuffer' : sigBuffer'[x] \in Seq(Addresses)
BY DEF TypeOK, CloseBuffer, Restrict
-------------------------------------------------------------------------------
\* A step of the governance keeps the types of its accounts.
LEMMA TypeStep ==
  ASSUME TypeOK, [Next]_vars
  PROVE  TypeOK'
<1> USE DEF TypeOK
<1>1. CASE AdvanceClock
  BY <1>1 DEF AdvanceClock
<1>2. ASSUME NEW k \in Keys, NEW data \in Data, AdminAddVariable(k, data)
      PROVE TypeOK'
  <2>1. [active |-> data, pending |-> <<>>, effective |-> 0] \in TimedRecord(Data)
    BY DataAssumption DEF TimedRecord
  <2> QED BY <1>2, <2>1, PutTable DEF AdminAddVariable
<1>3. ASSUME NEW a \in Addresses, NEW active \in BOOLEAN,
             AddActivePubkeyDirect(a, active)
      PROVE TypeOK'
  <2>1. [active |-> active, pending |-> FALSE, effective |-> 0]
          \in TimedRecord(BOOLEAN)
    BY DEF TimedRecord
  <2> QED BY <1>3, <2>1, PutTable DEF AddActivePubkeyDirect
<1>4. CASE LockRegistry
  BY <1>4 DEF LockRegistry
<1>5. ASSUME NEW m \in Messages, NEW sigs \in SignatureLists,
             StageSignatures(m, sigs)
      PROVE TypeOK'
  <2>1. sigs \in Seq(Addresses)
    BY DEF SignatureLists
  <2> QED BY <1>5, <2>1 DEF StageSignatures, Put
<1>6. ASSUME NEW m \in VariableMessages, FriendAddVariable(m)
      PROVE TypeOK'
  <2>1. m.key \in Keys /\ m.data \in Data
    BY MessagesAssumption
  <2> QED BY <1>6, <2>1, PutTable, StagedTypes, CloseTypes DEF FriendAddVariable
<1>7. ASSUME NEW m \in ValidatorMessages, AddPendingPubkey(m)
      PROVE TypeOK'
  <2>1. m.pubkey \in Addresses /\ (~m.isRemoval) \in BOOLEAN
    BY MessagesAssumption
  <2> QED BY <1>7, <2>1, PutTable, StagedTypes, CloseTypes DEF AddPendingPubkey
<1>8. ASSUME NEW m \in Messages, ConsumeElsewhere(m)
      PROVE TypeOK'
  BY <1>8, CloseTypes DEF ConsumeElsewhere
<1>9. CASE UNCHANGED vars
  BY <1>9 DEF vars
<1> QED BY <1>1, <1>2, <1>3, <1>4, <1>5, <1>6, <1>7, <1>8, <1>9
        DEF Next, Administrator, Quorum

\* So do the accounts of a new program.
LEMMA GovernanceStartsTyped ==
  ASSUME Init
  PROVE  TypeOK
<1>1. now \in Nat
  BY TimeAssumption DEF Init, InitializeEpoch
<1>2. ASSUME NEW N, NEW V PROVE IsTimedTable(<<>>, N, V)
  BY DEF IsTimedTable
<1>3. /\ DOMAIN sigBuffer \subseteq Messages
      /\ \A m \in DOMAIN sigBuffer : sigBuffer[m] \in Seq(Addresses)
  BY DEF Init
<1> QED BY <1>1, <1>2, <1>3 DEF Init, TypeOK, InitializeRegistry,
           InitializeValidatorState

\* Type correctness: the accounts keep their types whatever is executed.
THEOREM TypeCorrect == Spec => []TypeOK
<1>1. Init => TypeOK
  BY GovernanceStartsTyped
<1>2. TypeOK /\ [Next]_vars => TypeOK'
  BY TypeStep
<1> QED BY <1>1, <1>2, PTL DEF Spec
-------------------------------------------------------------------------------
\* The epoch across a step, for a clock that only moves forward.
LEMMA EpochStep ==
  ASSUME TypeOK, [Next]_vars
  PROVE  /\ Epoch \in Nat /\ Epoch' \in Nat /\ Epoch <= Epoch'
         /\ ~AdvanceClock => Epoch' = Epoch
<1>1. ~AdvanceClock => now' = now
  BY DEF Next, Administrator, Quorum, vars, AdminAddVariable, LockRegistry,
     AddActivePubkeyDirect, StageSignatures, FriendAddVariable, AddPendingPubkey,
     ConsumeElsewhere
<1>2. now \in Nat /\ now' \in Nat /\ now <= now'
  BY <1>1 DEF TypeOK, AdvanceClock
<1> QED BY <1>1, <1>2, EpochMonotone DEF Epoch

\* Nothing is ever scheduled beyond the epoch that follows the current one,
\* so one turn of the epoch brings every staged value into force.
NothingBeyondNextEpoch ==
  /\ \A k \in DOMAIN registry : registry[k].effective <= Epoch + 1
  /\ \A a \in DOMAIN validators : validators[a].effective <= Epoch + 1

\* The strengthening that the refinement needs: at the turn of an epoch no
\* staged value may stay behind.
Inv == TypeOK /\ NothingBeyondNextEpoch

\* No step schedules anything beyond the next epoch.
LEMMA NothingBeyondStep ==
  ASSUME TypeOK, NothingBeyondNextEpoch, [Next]_vars
  PROVE  NothingBeyondNextEpoch'
<1>0. /\ Epoch \in Nat /\ Epoch' \in Nat /\ Epoch <= Epoch'
      /\ \A k \in DOMAIN registry : registry[k].effective \in Nat
      /\ \A a \in DOMAIN validators : validators[a].effective \in Nat
  BY EpochStep DEF TypeOK, IsTimedTable, TimedRecord
<1>1. CASE UNCHANGED <<registry, validators>>
  BY <1>0, <1>1 DEF NothingBeyondNextEpoch
<1>2. ASSUME NEW k \in Keys, NEW data \in Data, AdminAddVariable(k, data)
      PROVE  NothingBeyondNextEpoch'
  BY <1>0, <1>2 DEF AdminAddVariable, Put, NothingBeyondNextEpoch
<1>3. ASSUME NEW a \in Addresses, NEW active \in BOOLEAN,
             AddActivePubkeyDirect(a, active)
      PROVE  NothingBeyondNextEpoch'
  BY <1>0, <1>3 DEF AddActivePubkeyDirect, Put, NothingBeyondNextEpoch
<1>4. ASSUME NEW m \in VariableMessages, FriendAddVariable(m)
      PROVE  NothingBeyondNextEpoch'
  BY <1>0, <1>4 DEF FriendAddVariable, StagedVariable, Put, NothingBeyondNextEpoch
<1>5. ASSUME NEW m \in ValidatorMessages, AddPendingPubkey(m)
      PROVE  NothingBeyondNextEpoch'
  BY <1>0, <1>5 DEF AddPendingPubkey, StagedValidator, Put, NothingBeyondNextEpoch
<1> QED BY <1>1, <1>2, <1>3, <1>4, <1>5
        DEF Next, Administrator, Quorum, vars, AdvanceClock, LockRegistry,
            StageSignatures, ConsumeElsewhere

LEMMA NothingBeyond == Spec => []NothingBeyondNextEpoch
<1>1. Init => NothingBeyondNextEpoch
  BY DEF Init, NothingBeyondNextEpoch, InitializeRegistry, InitializeValidatorState
<1>2. TypeOK /\ NothingBeyondNextEpoch /\ [Next]_vars => NothingBeyondNextEpoch'
  BY NothingBeyondStep
<1> QED BY <1>1, <1>2, TypeCorrect, PTL DEF Spec
-------------------------------------------------------------------------------
(* Refinement: the registry implements eager registers *)

\* The registers of a registry in which one staged record was written.
LEMMA VariableStaging ==
  ASSUME Inv, [Next]_vars, NEW k \in Keys, NEW data \in Data, now' = now,
         registry' = Put(registry, k, StagedVariable(k, data))
  PROVE  VariableRegisters!Stage(k, data)
<1>1. Epoch' = Epoch /\ Epoch \in Nat
  BY EpochStep DEF Epoch, Inv
<1>2. registry'[k] = StagedVariable(k, data) /\ k \in DOMAIN registry'
  BY DEF Put
<1>3. VariableInForce(k)' = VariableInForce(k) /\ VariableScheduled(k)' = data
  BY <1>1, <1>2 DEF StagedVariable, VariableInForce, VariableScheduled,
     GetActiveVariable, Matured
<1>4. ASSUME NEW x \in Keys, x # k
      PROVE  /\ VariableInForce(x)' = VariableInForce(x)
             /\ VariableScheduled(x)' = VariableScheduled(x)
  BY <1>1, <1>4 DEF Put, VariableInForce, VariableScheduled, GetActiveVariable
<1> QED BY <1>3, <1>4 DEF VariableRegisters!Stage

\* The registers of a registry in which the administrator wrote one record.
LEMMA VariableOverriding ==
  ASSUME Inv, [Next]_vars, NEW k \in Keys, NEW data \in Data, now' = now,
         registry' = Put(registry, k,
                         [active |-> data, pending |-> <<>>, effective |-> 0])
  PROVE  VariableRegisters!Override(k, data)
<1>1. Epoch' = Epoch /\ Epoch \in Nat
  BY EpochStep DEF Epoch, Inv
<1>2. registry'[k] = [active |-> data, pending |-> <<>>, effective |-> 0]
      /\ k \in DOMAIN registry'
  BY DEF Put
<1>3. VariableInForce(k)' = data /\ VariableScheduled(k)' = data
  BY <1>1, <1>2 DEF VariableInForce, VariableScheduled, GetActiveVariable, Matured
<1>4. ASSUME NEW x \in Keys, x # k
      PROVE  /\ VariableInForce(x)' = VariableInForce(x)
             /\ VariableScheduled(x)' = VariableScheduled(x)
  BY <1>1, <1>4 DEF Put, VariableInForce, VariableScheduled, GetActiveVariable
<1> QED BY <1>3, <1>4 DEF VariableRegisters!Override

\* The registers when time passes: either the epoch is the same, or it turns
\* and everything scheduled comes into force.
LEMMA VariableTurning ==
  ASSUME Inv, [Next]_vars, UNCHANGED registry
  PROVE  \/ VariableRegisters!Turn
         \/ UNCHANGED VariableRegisters!vars
<1>1. Epoch \in Nat /\ Epoch' \in Nat /\ Epoch <= Epoch'
  BY EpochStep DEF Inv
<1>2. \A k \in DOMAIN registry : registry[k].effective \in Nat
                                 /\ registry[k].effective <= Epoch + 1
  BY DEF Inv, TypeOK, IsTimedTable, TimedRecord, NothingBeyondNextEpoch
<1>3. CASE Epoch' = Epoch
  BY <1>3 DEF VariableInForce, VariableScheduled, GetActiveVariable,
     VariableRegisters!vars
<1>4. CASE Epoch' > Epoch
  <2>1. ASSUME NEW k \in Keys
        PROVE  /\ VariableInForce(k)' = VariableScheduled(k)
               /\ VariableScheduled(k)' = VariableScheduled(k)
    BY <1>1, <1>2, <1>4 DEF VariableInForce, VariableScheduled,
       GetActiveVariable, Matured
  <2> QED BY <2>1 DEF VariableRegisters!Turn
<1> QED BY <1>1, <1>3, <1>4

\* The variables of the registry implement registers that promote eagerly:
\* for every set of keys and every clock, no step of the program changes a
\* value in force except the turn of an epoch and the administrator.
THEOREM VariablesImplementRegisters == Spec => VariablesAreRegisters
<1>1. Init => VariableRegisters!Init
  BY DEF Init, InitializeRegistry, VariableRegisters!Init, VariableInForce,
     VariableScheduled
<1>2. Inv /\ [Next]_vars => [VariableRegisters!Next]_(VariableRegisters!vars)
  <2> SUFFICES ASSUME Inv, [Next]_vars
               PROVE  [VariableRegisters!Next]_(VariableRegisters!vars)
    OBVIOUS
  <2>1. CASE UNCHANGED registry
    BY <2>1, VariableTurning DEF VariableRegisters!Next
  <2>2. ASSUME NEW k \in Keys, NEW data \in Data, AdminAddVariable(k, data)
        PROVE  VariableRegisters!Next
    BY <2>2, VariableOverriding DEF AdminAddVariable, VariableRegisters!Next
  <2>3. ASSUME NEW m \in VariableMessages, FriendAddVariable(m)
        PROVE  VariableRegisters!Next
    <3>1. m.key \in Keys /\ m.data \in Data
      BY MessagesAssumption
    <3> QED BY <2>3, <3>1, VariableStaging DEF FriendAddVariable, VariableRegisters!Next
  <2> QED BY <2>1, <2>2, <2>3
          DEF Next, Administrator, Quorum, vars, AdvanceClock, LockRegistry,
              AddActivePubkeyDirect, StageSignatures, AddPendingPubkey, ConsumeElsewhere
<1>3. Spec => []Inv
  BY TypeCorrect, NothingBeyond, PTL DEF Inv
<1> QED BY <1>1, <1>2, <1>3, PTL DEF Spec, VariablesAreRegisters, VariableRegisters!Spec
-------------------------------------------------------------------------------
(* Refinement: the validator set implements eager registers *)

\* The fields of a record, for values of any kind.
LEMMA RecordFields ==
  ASSUME NEW x, NEW y, NEW z, NEW r, r = [active |-> x, pending |-> y, effective |-> z]
  PROVE  r.active = x /\ r.pending = y /\ r.effective = z
OBVIOUS

\* The registers of a validator set in which one staged record was written.
LEMMA StatusStaging ==
  ASSUME Inv, [Next]_vars, NEW a \in Addresses, NEW status \in BOOLEAN, now' = now,
         validators' = Put(validators, a, StagedValidator(a, status))
  PROVE  StatusRegisters!Stage(a, status)
<1>1. Epoch' = Epoch /\ Epoch \in Nat
  BY EpochStep DEF Epoch, Inv
<1>2. validators'[a] = StagedValidator(a, status) /\ a \in DOMAIN validators'
  BY DEF Put
<1>3. StatusInForce(a)' = StatusInForce(a) /\ StatusScheduled(a)' = status
  <2> DEFINE was == IsActive(validators, Epoch, a)
             rec == validators'[a]
  <2>0. rec = [active |-> was, pending |-> status, effective |-> Epoch + 1]
    BY <1>2, Zenon DEF StagedValidator
  <2>1. rec.active = was /\ rec.pending = status /\ rec.effective = Epoch + 1
    <3> HIDE DEF was, rec
    <3> QED BY <2>0, RecordFields
  <2>2. ~(Epoch >= Epoch + 1) /\ Epoch + 1 > Epoch
    BY <1>1
  <2> QED BY <1>1, <1>2, <2>1, <2>2, Zenon DEF StatusInForce, StatusScheduled,
          IsActive, Matured
<1>4. ASSUME NEW x \in Addresses, x # a
      PROVE  /\ StatusInForce(x)' = StatusInForce(x)
             /\ StatusScheduled(x)' = StatusScheduled(x)
  BY <1>1, <1>4 DEF Put, StatusInForce, StatusScheduled, IsActive
<1> QED BY <1>3, <1>4 DEF StatusRegisters!Stage

\* The registers of a set in which the administrator wrote one record.
LEMMA StatusOverriding ==
  ASSUME Inv, [Next]_vars, NEW a \in Addresses, NEW status \in BOOLEAN, now' = now,
         validators' = Put(validators, a,
                           [active |-> status, pending |-> FALSE, effective |-> 0])
  PROVE  StatusRegisters!Override(a, status)
<1>1. Epoch' = Epoch /\ Epoch \in Nat
  BY EpochStep DEF Epoch, Inv
<1>2. /\ validators'[a] = [active |-> status, pending |-> FALSE, effective |-> 0]
      /\ a \in DOMAIN validators'
  BY DEF Put
<1>3. StatusInForce(a)' = status /\ StatusScheduled(a)' = status
  <2> DEFINE rec == validators'[a]
  <2>1. rec.active = status /\ rec.effective = 0
    <3>1. rec = [active |-> status, pending |-> FALSE, effective |-> 0]
      BY <1>2
    <3> HIDE DEF rec
    <3> QED BY <3>1, RecordFields
  <2>2. ~(0 > Epoch)
    BY <1>1
  <2> QED BY <1>1, <1>2, <2>1, <2>2, Zenon DEF StatusInForce, StatusScheduled,
          IsActive, Matured
<1>4. ASSUME NEW x \in Addresses, x # a
      PROVE  /\ StatusInForce(x)' = StatusInForce(x)
             /\ StatusScheduled(x)' = StatusScheduled(x)
  BY <1>1, <1>4 DEF Put, StatusInForce, StatusScheduled, IsActive
<1> QED BY <1>3, <1>4 DEF StatusRegisters!Override

\* The statuses when time passes.
LEMMA StatusTurning ==
  ASSUME Inv, [Next]_vars, UNCHANGED validators
  PROVE  \/ StatusRegisters!Turn
         \/ UNCHANGED StatusRegisters!vars
<1>1. Epoch \in Nat /\ Epoch' \in Nat /\ Epoch <= Epoch'
  BY EpochStep DEF Inv
<1>2. \A a \in DOMAIN validators : validators[a].effective \in Nat
                                   /\ validators[a].effective <= Epoch + 1
  BY DEF Inv, TypeOK, IsTimedTable, TimedRecord, NothingBeyondNextEpoch
<1>3. CASE Epoch' = Epoch
  BY <1>3 DEF StatusInForce, StatusScheduled, IsActive, StatusRegisters!vars
<1>4. CASE Epoch' > Epoch
  <2>1. ASSUME NEW a \in Addresses
        PROVE  /\ StatusInForce(a)' = StatusScheduled(a)
               /\ StatusScheduled(a)' = StatusScheduled(a)
    <3>1. CASE a \notin DOMAIN validators
      BY <3>1, Zenon DEF StatusInForce, StatusScheduled, IsActive
    <3>2. CASE a \in DOMAIN validators /\ validators[a].effective > Epoch
      <4>1. /\ validators[a].effective # 0 /\ Epoch' >= validators[a].effective
            /\ ~(validators[a].effective > Epoch')
        BY <1>1, <1>2, <1>4, <3>2
      <4>2. StatusScheduled(a) = validators[a].pending
        BY <3>2, Zenon DEF StatusScheduled
      <4>3. StatusInForce(a)' = validators[a].pending
        <5>1. validators[a].pending \in BOOLEAN
          BY <3>2 DEF Inv, TypeOK, IsTimedTable, TimedRecord
        <5> QED BY <3>2, <4>1, <5>1, Zenon DEF StatusInForce, IsActive, Matured
      <4>4. StatusScheduled(a)' = StatusInForce(a)'
        BY <4>1, Zenon DEF StatusScheduled
      <4> QED BY <4>2, <4>3, <4>4, Zenon
    <3>3. CASE a \in DOMAIN validators /\ ~(validators[a].effective > Epoch)
      <4>1. /\ Epoch >= validators[a].effective /\ Epoch' >= validators[a].effective
            /\ ~(validators[a].effective > Epoch')
        BY <1>1, <1>2, <1>4, <3>3
      <4> QED BY <3>3, <4>1, Zenon DEF StatusInForce, StatusScheduled, IsActive, Matured
    <3> QED BY <3>1, <3>2, <3>3
  <2> QED BY <2>1 DEF StatusRegisters!Turn
<1> QED BY <1>1, <1>3, <1>4

\* The statuses of the validators implement registers that promote eagerly:
\* a rotation staged over an earlier one that has matured does not undo it,
\* and none takes effect within its own epoch, for every set of addresses.
THEOREM ValidatorsImplementRegisters == Spec => ValidatorsAreRegisters
<1>1. Init => StatusRegisters!Init
  BY DEF Init, InitializeValidatorState, StatusRegisters!Init, StatusInForce,
     StatusScheduled, IsActive
<1>2. Inv /\ [Next]_vars => [StatusRegisters!Next]_(StatusRegisters!vars)
  <2> SUFFICES ASSUME Inv, [Next]_vars
               PROVE  [StatusRegisters!Next]_(StatusRegisters!vars)
    OBVIOUS
  <2>1. CASE UNCHANGED validators
    BY <2>1, StatusTurning DEF StatusRegisters!Next
  <2>2. ASSUME NEW a \in Addresses, NEW active \in BOOLEAN,
               AddActivePubkeyDirect(a, active)
        PROVE  StatusRegisters!Next
    BY <2>2, StatusOverriding DEF AddActivePubkeyDirect, StatusRegisters!Next
  <2>3. ASSUME NEW m \in ValidatorMessages, AddPendingPubkey(m)
        PROVE  StatusRegisters!Next
    <3>1. m.pubkey \in Addresses /\ (~m.isRemoval) \in BOOLEAN
      BY MessagesAssumption
    <3> QED BY <2>3, <3>1, StatusStaging DEF AddPendingPubkey, StatusRegisters!Next
  <2> QED BY <2>1, <2>2, <2>3
          DEF Next, Administrator, Quorum, vars, AdvanceClock, LockRegistry,
              AdminAddVariable, StageSignatures, FriendAddVariable, ConsumeElsewhere
<1>3. Spec => []Inv
  BY TypeCorrect, NothingBeyond, PTL DEF Inv
<1> QED BY <1>1, <1>2, <1>3, PTL DEF Spec, ValidatorsAreRegisters, StatusRegisters!Spec
-------------------------------------------------------------------------------
(* The lock, and what is in force *)

\* A registry that is locked stays so, and what is scheduled when it is
\* locked is what every later epoch reads.
THEOREM LockFinal == Spec => LockIsFinal
<1>1. ASSUME Inv, Next, isLocked
      PROVE  isLocked' /\ UNCHANGED registry
  BY <1>1 DEF Next, Administrator, Quorum, AdvanceClock, AdminAddVariable,
     AddActivePubkeyDirect, LockRegistry, StageSignatures, FriendAddVariable,
     AddPendingPubkey, ConsumeElsewhere
<1>2. ASSUME Inv, [Next]_vars, isLocked
      PROVE  isLocked' /\ UNCHANGED registry
  BY <1>1, <1>2 DEF vars
<1>3. ASSUME Inv, [Next]_vars, UNCHANGED registry, NEW k \in Keys
      PROVE  VariableScheduled(k)' = VariableScheduled(k)
  <2>1. Epoch \in Nat /\ Epoch' \in Nat /\ Epoch <= Epoch'
    BY <1>3, EpochStep DEF Inv
  <2>2. \A x \in DOMAIN registry : registry[x].effective \in Nat
                                   /\ registry[x].effective <= Epoch + 1
    BY <1>3 DEF Inv, TypeOK, IsTimedTable, TimedRecord, NothingBeyondNextEpoch
  <2> QED BY <1>3, <2>1, <2>2 DEF VariableInForce, VariableScheduled,
          GetActiveVariable, Matured
<1>4. Inv /\ [Next]_vars =>
        [ isLocked =>
            /\ isLocked'
            /\ \A k \in Keys : VariableScheduled(k)' = VariableScheduled(k) ]_vars
  BY <1>2, <1>3
<1>5. Spec => []Inv
  BY TypeCorrect, NothingBeyond, PTL DEF Inv
<1> QED BY <1>4, <1>5, PTL DEF Spec, LockIsFinal

\* What is in force changes only with the epoch or by the administrator:
\* whatever else is executed stages into the next epoch, for every number of
\* instructions in an epoch and every set of keys and addresses.
THEOREM InForceThroughTheEpoch == Spec => InForceUntilTheTurn
<1>1. ASSUME Inv, [Next]_vars, Epoch' = Epoch, ~Administrator
      PROVE  /\ \A k \in Keys : VariableInForce(k)' = VariableInForce(k)
             /\ \A a \in Addresses : StatusInForce(a)' = StatusInForce(a)
  <2>1. CASE UNCHANGED <<registry, validators>>
    BY <1>1, <2>1 DEF VariableInForce, StatusInForce
  <2>2. ASSUME NEW m \in VariableMessages, FriendAddVariable(m)
        PROVE  /\ \A k \in Keys : VariableInForce(k)' = VariableInForce(k)
               /\ UNCHANGED validators
    <3>1. m.key \in Keys /\ m.data \in Data
      BY MessagesAssumption
    <3>2. VariableRegisters!Stage(m.key, m.data) /\ UNCHANGED validators
      BY <1>1, <2>2, <3>1, VariableStaging DEF FriendAddVariable
    <3> QED BY <3>2 DEF VariableRegisters!Stage
  <2>3. ASSUME NEW m \in ValidatorMessages, AddPendingPubkey(m)
        PROVE  /\ \A a \in Addresses : StatusInForce(a)' = StatusInForce(a)
               /\ UNCHANGED registry
    <3>1. m.pubkey \in Addresses /\ (~m.isRemoval) \in BOOLEAN
      BY MessagesAssumption
    <3>2. StatusRegisters!Stage(m.pubkey, ~m.isRemoval) /\ UNCHANGED registry
      BY <1>1, <2>3, <3>1, StatusStaging DEF AddPendingPubkey
    <3> QED BY <3>2 DEF StatusRegisters!Stage
  <2>4. UNCHANGED registry => \A k \in Keys : VariableInForce(k)' = VariableInForce(k)
    BY <1>1 DEF VariableInForce
  <2>5. UNCHANGED validators => \A a \in Addresses : StatusInForce(a)' = StatusInForce(a)
    BY <1>1 DEF StatusInForce
  <2> QED BY <1>1, <2>1, <2>2, <2>3, <2>4, <2>5
          DEF Next, Quorum, vars, AdvanceClock, StageSignatures, ConsumeElsewhere
<1>2. Inv /\ [Next]_vars =>
        [ Epoch' = Epoch /\ ~Administrator =>
            /\ \A k \in Keys : VariableInForce(k)' = VariableInForce(k)
            /\ \A a \in Addresses : StatusInForce(a)' = StatusInForce(a) ]_vars
  BY <1>1
<1>3. Spec => []Inv
  BY TypeCorrect, NothingBeyond, PTL DEF Inv
<1> QED BY <1>2, <1>3, PTL DEF Spec, InForceUntilTheTurn
-------------------------------------------------------------------------------
(* What a buffer needs to be consumed, within an epoch *)

\* Staging a variable leaves the quorum size of the epoch alone, or makes it
\* one: the value in force is kept, and an entry that is new reads as empty.
LEMMA QuorumAfterStaging ==
  ASSUME Inv, [Next]_vars, NEW k \in Keys, NEW data \in Data, now' = now,
         registry' = Put(registry, k, StagedVariable(k, data))
  PROVE  \/ MinUniqueValidators(registry, Epoch)' = MinUniqueValidators(registry, Epoch)
         \/ MinUniqueValidators(registry, Epoch)' = 1
<1>1. Epoch' = Epoch /\ Epoch \in Nat
  BY EpochStep DEF Epoch, Inv
<1>2. registry'[k] = StagedVariable(k, data) /\ DOMAIN registry' = DOMAIN registry \union {k}
  BY DEF Put
<1>3. ASSUME NEW x \in DOMAIN registry, x # k
      PROVE  GetActiveVariable(registry', Epoch, x) = GetActiveVariable(registry, Epoch, x)
  BY <1>3 DEF Put, GetActiveVariable
<1>4. GetActiveVariable(registry', Epoch, k) =
        IF k \in DOMAIN registry THEN GetActiveVariable(registry, Epoch, k) ELSE <<>>
  BY <1>1, <1>2 DEF StagedVariable, GetActiveVariable, Matured
<1>5. CASE k \in DOMAIN registry
  BY <1>1, <1>2, <1>3, <1>4, <1>5 DEF MinUniqueValidators
<1>6. CASE k \notin DOMAIN registry
  BY <1>1, <1>2, <1>3, <1>4, <1>6 DEF MinUniqueValidators
<1> QED BY <1>5, <1>6

\* A buffer keeps its authority while its signatures, the epoch and the
\* statuses in force stay the same and the quorum size does not exceed them.
LEMMA KeepsAuthority ==
  ASSUME TypeOK, NEW m \in DOMAIN sigBuffer, m \in DOMAIN sigBuffer', Authorised(m),
         sigBuffer'[m] = sigBuffer[m],
         \A a \in Addresses : StatusInForce(a)' = StatusInForce(a),
         Len(sigBuffer[m]) >= MinUniqueValidators(registry, Epoch)'
  PROVE  Authorised(m)'
<1> DEFINE s == sigBuffer[m]
<1>1. s \in Seq(Addresses) /\ \A i \in DOMAIN s : s[i] \in Addresses
  BY DEF TypeOK
<1>2. /\ \A i \in DOMAIN s : StatusInForce(s[i])
      /\ IsInjective(s)
  BY DEF Authorised, AcceptedBy, VerifySignatures, StatusInForce
<1>3. \A i \in DOMAIN s : StatusInForce(s[i])'
  BY <1>1, <1>2
<1> QED BY <1>2, <1>3 DEF Authorised, AcceptedBy, VerifySignatures,
          StatusInForce

\* Consuming one buffer leaves the others as they were.
LEMMA OtherBuffers ==
  ASSUME NEW x, CloseBuffer(x), NEW m \in DOMAIN sigBuffer'
  PROVE  sigBuffer'[m] = sigBuffer[m]
BY DEF CloseBuffer, Restrict

\* A signed buffer keeps its authority through a step within the epoch that is
\* not the administrator's.
LEMMA UsableStep ==
  ASSUME Inv, [Next]_vars, NEW m \in DOMAIN sigBuffer \intersect DOMAIN sigBuffer',
         sigBuffer[m] # <<>>, Authorised(m), Epoch' = Epoch, ~Administrator
  PROVE  Authorised(m)'
<1>0. /\ TypeOK /\ m \in DOMAIN sigBuffer /\ m \in DOMAIN sigBuffer'
      /\ Len(sigBuffer[m]) >= MinUniqueValidators(registry, Epoch)
      /\ Len(sigBuffer[m]) >= 1
  BY DEF Inv, TypeOK, Authorised, AcceptedBy, VerifySignatures
<1>1. CASE AdvanceClock \/ UNCHANGED vars
  <2>1. UNCHANGED <<registry, validators, sigBuffer>>
    BY <1>1 DEF AdvanceClock, vars
  <2> QED BY <1>0, <2>1, KeepsAuthority DEF StatusInForce
<1>2. ASSUME NEW x \in Messages, NEW sigs \in SignatureLists, StageSignatures(x, sigs)
      PROVE  Authorised(m)'
  <2>1. sigBuffer'[m] = sigBuffer[m] /\ UNCHANGED <<registry, validators>>
    BY <1>0, <1>2 DEF StageSignatures, Put
  <2> QED BY <1>0, <2>1, KeepsAuthority DEF StatusInForce
<1>3. ASSUME NEW x \in VariableMessages, FriendAddVariable(x)
      PROVE  Authorised(m)'
  <2>1. /\ sigBuffer'[m] = sigBuffer[m]
        /\ UNCHANGED validators
    BY <1>0, <1>3, OtherBuffers DEF FriendAddVariable
  <2>2. Len(sigBuffer[m]) >= MinUniqueValidators(registry, Epoch)'
    <3>1. x.key \in Keys /\ x.data \in Data
      BY MessagesAssumption
    <3> QED BY <1>0, <1>3, <3>1, QuorumAfterStaging DEF FriendAddVariable
  <2> QED BY <1>0, <2>1, <2>2, KeepsAuthority DEF StatusInForce
<1>4. ASSUME NEW x \in ValidatorMessages, AddPendingPubkey(x)
      PROVE  Authorised(m)'
  <2>1. /\ sigBuffer'[m] = sigBuffer[m]
        /\ UNCHANGED <<registry, now>>
    BY <1>0, <1>4, OtherBuffers DEF AddPendingPubkey
  <2>2. \A a \in Addresses : StatusInForce(a)' = StatusInForce(a)
    <3>1. x.pubkey \in Addresses /\ (~x.isRemoval) \in BOOLEAN
      BY MessagesAssumption
    <3>2. StatusRegisters!Stage(x.pubkey, ~x.isRemoval)
      BY <1>4, <3>1, StatusStaging DEF AddPendingPubkey
    <3> QED BY <3>2 DEF StatusRegisters!Stage
  <2> QED BY <1>0, <2>1, <2>2, KeepsAuthority
<1>5. ASSUME NEW x \in Messages, ConsumeElsewhere(x)
      PROVE  Authorised(m)'
  <2>1. sigBuffer'[m] = sigBuffer[m] /\ UNCHANGED <<registry, validators>>
    BY <1>0, <1>5, OtherBuffers DEF ConsumeElsewhere
  <2> QED BY <1>0, <2>1, KeepsAuthority DEF StatusInForce
<1> QED BY <1>1, <1>2, <1>3, <1>4, <1>5 DEF Next, Quorum

\* A signed buffer that could be consumed stays so within an epoch, for any
\* number of messages executed before it and for every quorum size: a status
\* in force is never changed by a rotation, and a quorum size by a staged
\* variable only to one, which the buffer has.
THEOREM BuffersAlwaysUsable == Spec => BuffersStayUsable
<1>1. Inv /\ [Next]_vars =>
        [ \A m \in DOMAIN sigBuffer \intersect DOMAIN sigBuffer' :
            sigBuffer[m] # <<>> /\ Authorised(m) /\ ~Authorised(m)' =>
              Epoch' # Epoch \/ Administrator ]_vars
  BY UsableStep
<1>2. Spec => []Inv
  BY TypeCorrect, NothingBeyond, PTL DEF Inv
<1> QED BY <1>1, <1>2, PTL DEF Spec, BuffersStayUsable
===============================================================================
