---------------------------- MODULE HubValidators ----------------------------
(***************************************************************************)
(* Validator registration, snapshots and the rotation of the active list   *)
(* on the Aptos hub (Bridge/sources/validators.move), with the epoch clock *)
(* of Util/sources/genesis.move.  Each action is one entry function.       *)
(***************************************************************************)
EXTENDS Integers, SequencesExt

CONSTANTS
  Shareds,         \* the shared storages that may register as validators
  PubKeys,         \* the EVM keys a validator may use
  StakeLevels,     \* the Qiara stakes Margin may report
  MaxPending,      \* capacity of the pending list, 16
  EpochSeconds,    \* length of an epoch, 60
  MaxTime          \* bound on the clock

ASSUME HubValidatorsAssumption ==
  /\ StakeLevels \subseteq Nat /\ 0 \in StakeLevels
  /\ MaxPending \in Nat \ {0}
  /\ EpochSeconds \in Nat \ {0}
  /\ MaxTime \in Nat

VARIABLES
  now,           \* timestamp::now_seconds
  genesis,       \* Genesis.genesis
  staked,        \* Margin: the Qiara each shared storage has staked
  validators,    \* Validators.map
  pending,       \* PendingValidators.list
  active,        \* ActiveValidators: list and epoch
  oracleList,    \* Oracle: Prices.active_validators
  tokenKeys      \* TokensQiara: BridgeState.validator_keys

validatorVars ==
  <<now, genesis, staked, validators, pending, active, oracleList, tokenKeys>>

ReturnEpoch == (now - genesis) \div EpochSeconds

ValidatorRecord ==
  [ key : PubKeys, isActive : BOOLEAN, power : Nat, snapshot : Nat ]

ValidatorsTypeOK ==
  /\ now \in Nat /\ genesis \in 0 .. now
  /\ staked \in [Shareds -> StakeLevels]
  /\ validators \in [DOMAIN validators -> ValidatorRecord]
  /\ DOMAIN validators \subseteq Shareds
  /\ pending \in Seq(DOMAIN validators)
  /\ active.list \in Seq(DOMAIN validators) /\ active.epoch \in Nat
  /\ oracleList \in Seq(DOMAIN validators)
  /\ tokenKeys \in Seq(PubKeys)

ValidatorsInit ==
  /\ now = 0 /\ genesis = 0
  /\ staked = [s \in Shareds |-> 0]
  /\ validators = <<>>
  /\ pending = <<>>
  /\ active = [list |-> <<>>, epoch |-> 0]
  /\ oracleList = <<>>
  /\ tokenKeys = <<>>

-------------------------------------------------------------------------------
(* Taking the snapshot of a validator *)

FirstWeakerIndex(list, vals, own) ==        \* mutant: min_power never lowered
  LET weaker == { i \in DOMAIN list : vals[list[i]].power < own }
  IN  IF weaker = {} THEN 0 ELSE Min(weaker)

\* The first of the weakest members of a list, among those weaker than own.
WeakestIndex(list, vals, own) ==
  LET weaker == { i \in DOMAIN list : vals[list[i]].power < own }
      weakest == { i \in weaker :
                     \A j \in weaker : vals[list[i]].power <= vals[list[j]].power }
  IN  IF weaker = {} THEN 0 ELSE Min(weakest)

PendingWithDuplicates(v, vals) ==           \* mutant: already_exists dropped
  LET weakest == WeakestIndex(pending, vals, vals[v].power)
  IN  IF Len(pending) < MaxPending THEN Append(pending, v)
      ELSE IF weakest # 0 THEN Append(RemoveAt(pending, weakest), v)
      ELSE pending

\* The pending list after v asks to be in it: a member stays where it is, a
\* newcomer is appended, in place of the weakest when the list is full.
PendingWith(v, vals) ==
  LET weakest == WeakestIndex(pending, vals, vals[v].power)
  IN  IF Contains(pending, v) THEN pending
      ELSE IF Len(pending) < MaxPending THEN Append(pending, v)
      ELSE IF weakest # 0 THEN Append(RemoveAt(pending, weakest), v)
      ELSE pending

Keys(list, vals) == [i \in DOMAIN list |-> vals[list[i]].key]

RotateEveryTime(list, vals) ==              \* mutant: epoch guard dropped
  /\ active' = [list |-> list, epoch |-> ReturnEpoch]
  /\ oracleList' = list
  /\ tokenKeys' = Keys(list, vals)

\* The first snapshot of an epoch makes the pending list, reversed, the
\* active one and hands it to the oracle and to the Qiara token.
RotateIfEpochTurned(list, vals) ==
  IF ReturnEpoch > active.epoch
    THEN /\ active' = [list |-> list, epoch |-> ReturnEpoch]
         /\ oracleList' = list
         /\ tokenKeys' = Keys(list, vals)
    ELSE UNCHANGED <<active, oracleList, tokenKeys>>

\* The snapshot is dated with the epoch of the active list, before the list
\* is rotated; vals is the map the snapshot starts from.
TakeValidatorSnapshot(v, vals) ==
  LET dated == [vals EXCEPT ![v].power = staked[v],
                            ![v].snapshot = active.epoch]
  IN  /\ validators' = dated
      /\ pending' = PendingWith(v, dated)
      /\ RotateIfEpochTurned(Reverse(PendingWith(v, dated)), dated)

-------------------------------------------------------------------------------
(* Entry functions *)

RegisterValidator(v, key) ==
  /\ v \notin DOMAIN validators
  /\ TakeValidatorSnapshot(v,
       [ x \in DOMAIN validators \union {v} |->
           IF x = v THEN [key |-> key, isActive |-> TRUE, power |-> 0, snapshot |-> 0]
                    ELSE validators[x] ])
  /\ UNCHANGED <<now, genesis, staked>>

ChangeValidatorKeys(v, key) ==
  /\ v \in DOMAIN validators
  /\ validators' = [validators EXCEPT ![v].key = key]
  /\ UNCHANGED <<now, genesis, staked, pending, active, oracleList, tokenKeys>>

TakeSnapshot(v) ==
  /\ v \in DOMAIN validators
  /\ validators[v].snapshot < ReturnEpoch
  /\ TakeValidatorSnapshot(v, validators)
  /\ UNCHANGED <<now, genesis, staked>>

ResetGenesis ==
  /\ genesis' = now
  /\ UNCHANGED <<now, staked, validators, pending, active, oracleList, tokenKeys>>

\* The oracle's administrator may set its copy of the list.
AdminSyncActiveValidators(list) ==
  /\ oracleList' = list
  /\ UNCHANGED <<now, genesis, staked, validators, pending, active, tokenKeys>>

-------------------------------------------------------------------------------
(* The environment: time, and stakes held by Margin *)

AdvanceClock ==
  /\ now < MaxTime
  /\ now' = now + 1
  /\ UNCHANGED <<genesis, staked, validators, pending, active, oracleList, tokenKeys>>

Restake(s, amount) ==
  /\ staked' = [staked EXCEPT ![s] = amount]
  /\ UNCHANGED <<now, genesis, validators, pending, active, oracleList, tokenKeys>>

ValidatorsNext ==
  \/ \E v \in Shareds, key \in PubKeys :
       RegisterValidator(v, key) \/ ChangeValidatorKeys(v, key)
  \/ \E v \in Shareds : TakeSnapshot(v)
  \/ AdvanceClock
  \/ \E s \in Shareds, amount \in StakeLevels : Restake(s, amount)

Administration ==
  \/ ResetGenesis
  \/ AdminSyncActiveValidators(<<>>)

ValidatorsSpec ==
  ValidatorsInit /\ [][ValidatorsNext \/ Administration]_validatorVars

-------------------------------------------------------------------------------
(* Properties *)

\* The pending list holds each validator once and never exceeds its
\* capacity, whatever the order of registrations and snapshots.
PendingWellFormed ==
  /\ Len(pending) <= MaxPending
  /\ IsInjective(pending)

\* Within an epoch the active list, and the keys the Qiara token accepts,
\* are frozen: registrations and snapshots only prepare the next one.
ActiveFrozenWithinEpoch ==
  [][ active' # active \/ tokenKeys' # tokenKeys =>
        active.epoch < active'.epoch /\ active'.epoch = ReturnEpoch ]_validatorVars

\* A validator pushed out of a full list was the weakest on record, and
\* strictly weaker than the one that took its place.
WeakestDisplaced ==
  [][ \A out \in ToSet(pending) \ ToSet(pending'), in \in ToSet(pending') :
        /\ validators'[in].power >= validators[out].power
        /\ in \notin ToSet(pending) =>
             validators'[in].power > validators[out].power ]_validatorVars

\* "Skip if this specific validator already snapshotted for this epoch"
\* (validators.move:181): once its snapshot is taken, a validator counts as
\* snapshotted for the epoch it was taken in.
SnapshotDatedNow ==
  [][ \A v \in Shareds :
        TakeSnapshot(v) => validators'[v].snapshot >= ReturnEpoch ]_validatorVars
===============================================================================
