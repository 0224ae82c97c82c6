----------------------------- MODULE QiaraState ------------------------------
(***************************************************************************)
(* The accounts of the Solana program `qiara` that its instructions and    *)
(* the vault program read: the epoch clock, the variable registry, the     *)
(* validator set, and the signature check that every quorum-authorised     *)
(* instruction runs (state.rs and utils.rs).                               *)
(*                                                                         *)
(* A registry is a function from the (header, name) pairs present to       *)
(* TimedVariable records; a validator state is a function from the         *)
(* addresses present to TimedValidator records.  Both kinds of record have *)
(* the shape [active, pending, effective] (is_active, target_status and    *)
(* effective_epoch for a validator).  A value is a sequence of bytes.      *)
(***************************************************************************)
EXTENDS Integers, Sequences, FiniteSets, Functions

CONSTANTS
  Keys,             \* the (header, name) pairs a registry may hold
  MinKey,           \* ("QiaraValidators", "MINIMUM_UNIQUE_VALIDATORS")
  BridgeMinKey,     \* ("QiaraBridge", "MINIMUM_UNIQUE_VALIDATORS")
  Data,             \* the byte strings a variable may be given
  Addresses,        \* the 20-byte addresses that may be validators
  GenesisTime,      \* EpochConfig.genesis_timestamp_ms
  EpochDuration,    \* EpochConfig.epoch_duration_ms
  LocalChain        \* the chain id of this deployment, 901

Byte == 0 .. 255

ASSUME DataAssumption == Data \subseteq Seq(Byte) /\ <<>> \in Data
ASSUME TimeAssumption == GenesisTime \in Nat /\ EpochDuration \in Nat \ {0}

\* The epoch at time t: zero before genesis, then whole durations elapsed.
EpochAt(t) ==
  IF t < GenesisTime THEN 0 ELSE (t - GenesisTime) \div EpochDuration

TimedRecord(V) == [active : V, pending : V, effective : Nat]

\* t is a table of timed records for some of the names in N.
IsTimedTable(t, N, V) ==
  /\ DOMAIN t \subseteq N
  /\ t \in [DOMAIN t -> TimedRecord(V)]

Matured(rec, epoch) == rec.effective # 0 /\ epoch >= rec.effective

\* The value of a variable that the registry holds, as read in an epoch.
GetActiveVariable(reg, epoch, k) ==
  IF Matured(reg[k], epoch) THEN reg[k].pending ELSE reg[k].active

\* The status of an address, false when the state does not know it.
IsActive(vals, epoch, a) ==
  /\ a \in DOMAIN vals
  /\ IF Matured(vals[a], epoch) THEN vals[a].pending ELSE vals[a].active

\* The quorum: the last byte of the validators' own variable, or of the
\* bridge's when the first is not present; 1 when the bytes are empty.
MinUniqueValidators(reg, epoch) ==
  LET data == IF MinKey \in DOMAIN reg
                THEN GetActiveVariable(reg, epoch, MinKey)
              ELSE IF BridgeMinKey \in DOMAIN reg
                THEN GetActiveVariable(reg, epoch, BridgeMinKey)
              ELSE <<>>
  IN  IF data = <<>> THEN 1 ELSE data[Len(data)]

\* Signatures are the sequence of addresses recovered from a buffer: enough
\* of them, each active in the current epoch, none twice.
VerifySignatures(vals, reg, sigs, epoch) ==
  /\ Len(sigs) >= MinUniqueValidators(reg, epoch)
  /\ \A i \in DOMAIN sigs : IsActive(vals, epoch, sigs[i])
  /\ IsInjective(sigs)

\* A payload is for every chain (0) or for this one.
ForThisChain(msg) == msg.chain \in {0, LocalChain}

\* Insert or replace one entry of a registry-like function.
Put(f, k, v) == [x \in DOMAIN f \union {k} |-> IF x = k THEN v ELSE f[x]]
===============================================================================
