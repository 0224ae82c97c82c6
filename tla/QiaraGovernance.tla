--------------------------- MODULE QiaraGovernance ---------------------------
(***************************************************************************)
(* Epochs, the variable registry and the validator set of the Solana       *)
(* program `qiara` (variables.rs, validators.rs).  Each action is one      *)
(* instruction; a transaction that fails changes nothing, so an error      *)
(* return is a guard.                                                      *)
(*                                                                         *)
(* The variables are the accounts of one deployment.  An instruction names *)
(* the accounts it reads; registries and validator states have no fixed    *)
(* address and are the caller's to choose, so those of other deployments   *)
(* may be shown in their place.  The EpochConfig shown is assumed to be    *)
(* the deployment's own: there is one clock of epochs.                     *)
(***************************************************************************)
EXTENDS QiaraState

CONSTANTS
  VariableMessages,    \* VariablePayloads the validators may sign
  ValidatorMessages,   \* ValidatorRotationPayloads the validators may sign
  OtherMessages,       \* payloads that the instructions of other modules consume
  OtherValidators,     \* the validators of ValidatorStates of other deployments
  OtherRegistries,     \* the headers of Registries of other deployments
  MaxTime,             \* bound on the clock
  MaxSignatures,       \* bound on the signatures in one buffer
  MaxBuffers           \* bound on the buffers staged at one time

Messages == VariableMessages \union ValidatorMessages \union OtherMessages

ASSUME MessagesAssumption ==
  /\ VariableMessages \subseteq [key : Keys, data : Data, nonce : Nat, chain : Nat]
  /\ ValidatorMessages \subseteq
       [pubkey : Addresses, isRemoval : BOOLEAN, nonce : Nat, chain : Nat]

ASSUME AccountsAssumption ==
  /\ \A t \in OtherValidators : IsTimedTable(t, Addresses, BOOLEAN)
  /\ \A t \in OtherRegistries : IsTimedTable(t, Keys, Data)

VARIABLES
  now,           \* the Solana clock
  registry,      \* Registry.headers
  isLocked,      \* Registry.is_locked
  validators,    \* ValidatorState.validators
  sigBuffer      \* the SignatureBuffer accounts that exist, by message

vars == <<now, registry, isLocked, validators, sigBuffer>>

Epoch == EpochAt(now)

SignatureLists == UNION { [1 .. n -> Addresses] : n \in 0 .. MaxSignatures }

TypeOK ==
  /\ now \in Nat
  /\ IsTimedTable(registry, Keys, Data)
  /\ isLocked \in BOOLEAN
  /\ IsTimedTable(validators, Addresses, BOOLEAN)
  /\ DOMAIN sigBuffer \subseteq Messages
  /\ \A m \in DOMAIN sigBuffer : sigBuffer[m] \in Seq(Addresses)

-------------------------------------------------------------------------------
\* genesis_timestamp is not in the future.
InitializeEpoch == now \in GenesisTime .. MaxTime

InitializeRegistry == registry = <<>> /\ isLocked = FALSE

InitializeValidatorState == validators = <<>>

Init ==
  /\ InitializeEpoch
  /\ InitializeRegistry
  /\ InitializeValidatorState
  /\ sigBuffer = <<>>

\* Time passes, over any number of epochs.
AdvanceClock ==
  /\ now' \in now + 1 .. MaxTime
  /\ UNCHANGED <<registry, isLocked, validators, sigBuffer>>

-------------------------------------------------------------------------------
(* The administrator *)

AdminAddVariable(k, data) ==
  /\ ~isLocked
  /\ registry' = Put(registry, k,
                     [active |-> data, pending |-> <<>>, effective |-> 0])
  /\ UNCHANGED <<now, isLocked, validators, sigBuffer>>

AddActivePubkeyDirect(a, active) ==
  /\ validators' = Put(validators, a,
                       [active |-> active, pending |-> FALSE, effective |-> 0])
  /\ UNCHANGED <<now, registry, isLocked, sigBuffer>>

LockRegistry ==
  /\ isLocked' = TRUE
  /\ UNCHANGED <<now, registry, validators, sigBuffer>>

-------------------------------------------------------------------------------
(* The relayers and the quorum *)

\* A buffer is created once per message hash; it can be staged again only
\* after the instruction that consumes it has closed it.
StageSignatures(m, sigs) ==
  /\ m \notin DOMAIN sigBuffer
  /\ Cardinality(DOMAIN sigBuffer) < MaxBuffers
  /\ sigBuffer' = Put(sigBuffer, m, sigs)
  /\ UNCHANGED <<now, registry, isLocked, validators>>

CloseBuffer(m) == sigBuffer' = Restrict(sigBuffer, DOMAIN sigBuffer \ {m})

\* The accounts that an instruction may be shown.
ShownValidators == {validators} \union OtherValidators
ShownRegistries == {registry} \union OtherRegistries

\* The signatures staged for m suffice for these validators and this registry.
AcceptedBy(m, vals, reg) ==
  /\ m \in DOMAIN sigBuffer
  /\ VerifySignatures(vals, reg, sigBuffer[m], Epoch)

\* They suffice for the accounts of this deployment, or for some accounts.
Authorised(m) == AcceptedBy(m, validators, registry)
Accepted(m) ==
  \E vals \in ShownValidators, reg \in ShownRegistries : AcceptedBy(m, vals, reg)

StagedWithoutPromotion(k, data) ==          \* mutant: auto-promotion dropped
  [ active |-> IF k \in DOMAIN registry THEN registry[k].active ELSE <<>>,
    pending |-> data,
    effective |-> Epoch + 1 ]

\* The record of a variable after staging data: the value in force is kept
\* as the active one, and nothing is active before the first staging.
StagedVariable(k, data) ==
  [ active |-> IF k \in DOMAIN registry
                 THEN GetActiveVariable(registry, Epoch, k) ELSE <<>>,
    pending |-> data,
    effective |-> Epoch + 1 ]

FriendAddLockedVariable(m) ==               \* mutant: lock not looked at
  /\ \E vals \in ShownValidators : AcceptedBy(m, vals, registry)
  /\ ForThisChain(m)
  /\ registry' = Put(registry, m.key, StagedVariable(m.key, m.data))
  /\ CloseBuffer(m)
  /\ UNCHANGED <<now, isLocked, validators>>

FriendAddVariable(m) ==
  /\ ~isLocked
  /\ \E vals \in ShownValidators : AcceptedBy(m, vals, registry)
  /\ ForThisChain(m)
  /\ registry' = Put(registry, m.key, StagedVariable(m.key, m.data))
  /\ CloseBuffer(m)
  /\ UNCHANGED <<now, isLocked, validators>>

RotatedWithoutPromotion(a, status) ==       \* mutant: auto-promotion dropped
  [ active |-> a \in DOMAIN validators /\ validators[a].active,
    pending |-> status,
    effective |-> Epoch + 1 ]

RotatedAtOnce(a, status) ==                 \* mutant: effective this epoch
  [ active |-> IsActive(validators, Epoch, a),
    pending |-> status,
    effective |-> Epoch ]

\* The record of a validator after staging a rotation; the code does not
\* look at the chain id of a rotation.
StagedValidator(a, status) ==
  [ active |-> IsActive(validators, Epoch, a),
    pending |-> status,
    effective |-> Epoch + 1 ]

AddPendingPubkey(m) ==
  /\ \E reg \in ShownRegistries : AcceptedBy(m, validators, reg)
  /\ validators' = Put(validators, m.pubkey,
                       StagedValidator(m.pubkey, ~m.isRemoval))
  /\ CloseBuffer(m)
  /\ UNCHANGED <<now, registry, isLocked>>

\* The same instructions given the account of another deployment to write:
\* here they only close the buffer.
ConsumeElsewhere(m) ==
  /\ \/ /\ m \in VariableMessages
        /\ ForThisChain(m)
        /\ \E vals \in ShownValidators, reg \in OtherRegistries :
             AcceptedBy(m, vals, reg)
     \/ /\ m \in ValidatorMessages
        /\ \E vals \in OtherValidators, reg \in ShownRegistries :
             AcceptedBy(m, vals, reg)
  /\ CloseBuffer(m)
  /\ UNCHANGED <<now, registry, isLocked, validators>>

-------------------------------------------------------------------------------
Administrator ==
  \/ \E k \in Keys, data \in Data : AdminAddVariable(k, data)
  \/ \E a \in Addresses, active \in BOOLEAN : AddActivePubkeyDirect(a, active)
  \/ LockRegistry

Quorum ==
  \/ \E m \in VariableMessages : FriendAddVariable(m)
  \/ \E m \in ValidatorMessages : AddPendingPubkey(m)

Next ==
  \/ AdvanceClock
  \/ Administrator
  \/ \E m \in Messages, sigs \in SignatureLists : StageSignatures(m, sigs)
  \/ Quorum
  \/ \E m \in Messages : ConsumeElsewhere(m)

Spec == Init /\ [][Next]_vars

-------------------------------------------------------------------------------
(* What a reader sees of a variable or of a validator *)

VariableInForce(k) ==
  IF k \in DOMAIN registry THEN GetActiveVariable(registry, Epoch, k) ELSE <<>>

VariableScheduled(k) ==
  IF k \in DOMAIN registry /\ registry[k].effective > Epoch
    THEN registry[k].pending ELSE VariableInForce(k)

StatusInForce(a) == IsActive(validators, Epoch, a)

StatusScheduled(a) ==
  IF a \in DOMAIN validators /\ validators[a].effective > Epoch
    THEN validators[a].pending ELSE StatusInForce(a)

VariableRegisters == INSTANCE TimedRegisters
  WITH Names <- Keys, Values <- Data, Default <- <<>>,
       cur <- [k \in Keys |-> VariableInForce(k)],
       nxt <- [k \in Keys |-> VariableScheduled(k)]

StatusRegisters == INSTANCE TimedRegisters
  WITH Names <- Addresses, Values <- BOOLEAN, Default <- FALSE,
       cur <- [a \in Addresses |-> StatusInForce(a)],
       nxt <- [a \in Addresses |-> StatusScheduled(a)]

-------------------------------------------------------------------------------
(* Properties *)

\* Between two turns of the epoch only the administrator changes what is in
\* force: no staged variable and no rotation, however often and in whatever
\* order they are executed, takes effect in the epoch of its execution
\* (effective_epoch = current_epoch + 1 in variables.rs and validators.rs).
InForceUntilTheTurn ==
  [][ Epoch' = Epoch /\ ~Administrator =>
        /\ \A k \in Keys : VariableInForce(k)' = VariableInForce(k)
        /\ \A a \in Addresses : StatusInForce(a)' = StatusInForce(a) ]_vars

\* The lazily promoted variables of the registry behave, for a reader, as
\* registers whose staged value comes into force exactly when the epoch
\* turns: no staging, however late or repeated, changes what is in force.
VariablesAreRegisters == VariableRegisters!Spec

\* The same for the status of every validator: a rotation staged over an
\* earlier one that has matured does not undo it within the epoch.
ValidatorsAreRegisters == StatusRegisters!Spec

\* From the moment the registry is locked, the values scheduled for the next
\* epoch are final: they come into force and are never followed by others
\* (lock_registry and the is_locked guards of both ways to write a variable).
LockIsFinal ==
  [][ isLocked =>
        /\ isLocked'
        /\ \A k \in Keys : VariableScheduled(k)' = VariableScheduled(k) ]_vars

\* A signed buffer that could be consumed loses its authority only when the
\* epoch turns or the administrator intervenes: messages executed meanwhile,
\* rotations of its own signers included, leave it usable.  (Bytes of the
\* bridge's variable that end in zero admit a buffer without signatures; the
\* first staging of the validators' own variable ends that by requiring one.)
BuffersStayUsable ==
  [][ \A m \in DOMAIN sigBuffer \intersect DOMAIN sigBuffer' :
        sigBuffer[m] # <<>> /\ Authorised(m) /\ ~Authorised(m)' =>
          Epoch' # Epoch \/ Administrator ]_vars

\* "stages variable update to take effect next epoch" (variables.rs:69): an
\* instruction of the quorum leaves the quorum size of this epoch alone.
StagingKeepsQuorumSize ==
  [][ Quorum => MinUniqueValidators(registry, Epoch)' =
                MinUniqueValidators(registry, Epoch) ]_vars
===============================================================================
