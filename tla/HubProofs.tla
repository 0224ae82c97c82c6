------------------------------ MODULE HubProofs -------------------------------
(***************************************************************************)
(* Theorems about HubValidators and HubConsensus, for any number of shared *)
(* storages, keys and events, any stakes, fees, emissions and quorums, and *)
(* any capacity of the pending list.                                       *)
(***************************************************************************)
EXTENDS HubConsensus, SequenceTheorems, SumTheorems

-------------------------------------------------------------------------------
(* Lists of validators *)

\* What is left of a list, and where, when one place is taken out.
LEMMA RemoveAtFacts ==
  ASSUME NEW S, NEW s \in Seq(S), NEW i \in 1 .. Len(s)
  PROVE  /\ RemoveAt(s, i) \in Seq(S)
         /\ Len(RemoveAt(s, i)) = Len(s) - 1
         /\ \A j \in 1 .. Len(s) - 1 :
              RemoveAt(s, i)[j] = IF j < i THEN s[j] ELSE s[j + 1]
<1>. DEFINE before == SubSeq(s, 1, i - 1)
            after == SubSeq(s, i + 1, Len(s))
<1>1. Len(s) \in Nat /\ \A j \in 1 .. Len(s) : s[j] \in S
  BY ElementOfSeq
<1>2. /\ before \in Seq(S) /\ Len(before) = i - 1
      /\ \A j \in 1 .. i - 1 : before[j] = s[j]
  BY <1>1, SubSeqProperties
<1>3. /\ after \in Seq(S) /\ Len(after) = Len(s) - i
      /\ \A j \in 1 .. Len(s) - i : after[j] = s[i + j]
  BY <1>1, SubSeqProperties
<1>. HIDE DEF before, after
<1>4. /\ before \o after \in Seq(S)
      /\ Len(before \o after) = Len(before) + Len(after)
      /\ \A j \in 1 .. Len(before) + Len(after) : (before \o after)[j] =
           IF j <= Len(before) THEN before[j] ELSE after[j - Len(before)]
  BY <1>2, <1>3, ConcatProperties
<1>5. Len(before) + Len(after) = Len(s) - 1
  BY <1>1, <1>2, <1>3
<1>6. ASSUME NEW j \in 1 .. Len(s) - 1
      PROVE  (before \o after)[j] = IF j < i THEN s[j] ELSE s[j + 1]
  <2>1. (before \o after)[j] =
          IF j <= Len(before) THEN before[j] ELSE after[j - Len(before)]
    BY <1>4, <1>5
  <2>2. CASE j < i
    <3>1. j <= Len(before) /\ j \in 1 .. i - 1
      BY <1>1, <1>2, <2>2
    <3>. QED
      BY <1>2, <2>1, <2>2, <3>1
  <2>3. CASE ~ (j < i)
    <3>1. ~ (j <= Len(before)) /\ j - Len(before) \in 1 .. Len(s) - i
      BY <1>1, <1>2, <2>3
    <3>2. after[j - Len(before)] = s[i + (j - Len(before))]
      BY <1>3, <3>1
    <3>3. i + (j - Len(before)) = j + 1
      BY <1>1, <1>2
    <3>. QED
      BY <2>1, <2>3, <3>1, <3>2, <3>3
  <2>. QED
    BY <2>2, <2>3
<1>. QED
  BY <1>4, <1>5, <1>6 DEF RemoveAt, before, after

\* A nonempty set of naturals has its least member as Min.
LEMMA MinIsLeast ==
  ASSUME NEW T \in SUBSET Nat, T # {}
  PROVE  Min(T) \in T /\ \A m \in T : Min(T) <= m
BY LeastNatural DEF Min

\* The weakest place, if any, is one of the list, weaker than the newcomer and
\* no stronger than any other place.
LEMMA WeakestIndexFacts ==
  ASSUME NEW V, NEW list \in Seq(V), NEW vals, \A v \in V : vals[v].power \in Nat,
         NEW own \in Nat, WeakestIndex(list, vals, own) # 0
  PROVE  LET w == WeakestIndex(list, vals, own) IN
         /\ w \in 1 .. Len(list)
         /\ vals[list[w]].power < own
         /\ \A j \in 1 .. Len(list) : vals[list[w]].power <= vals[list[j]].power
<1>. DEFINE weaker == { i \in DOMAIN list : vals[list[i]].power < own }
            powers == { vals[list[i]].power : i \in weaker }
            weakest == { i \in weaker :
                           \A j \in weaker : vals[list[i]].power <= vals[list[j]].power }
<1>1. /\ Len(list) \in Nat /\ DOMAIN list = 1 .. Len(list)
      /\ \A i \in 1 .. Len(list) : vals[list[i]].power \in Nat
  BY ElementOfSeq
<1>2. weaker # {} /\ WeakestIndex(list, vals, own) = Min(weakest)
  BY DEF WeakestIndex
<1>3. PICK p \in powers : \A q \in powers : p <= q
  <2>1. powers \in SUBSET Nat /\ powers # {}
    BY <1>1, <1>2
  <2>. HIDE DEF powers
  <2>. QED
    BY <2>1, LeastNatural
<1>4. weakest \in SUBSET Nat /\ weakest # {}
  BY <1>1, <1>3
<1>5. Min(weakest) \in weakest
  <2>. HIDE DEF weakest
  <2>. QED
    BY <1>4, MinIsLeast
<1>6. ASSUME NEW j \in 1 .. Len(list)
      PROVE  vals[list[Min(weakest)]].power <= vals[list[j]].power
  <2>1. CASE j \in weaker
    BY <1>5, <2>1
  <2>2. CASE j \notin weaker
    <3>1. vals[list[Min(weakest)]].power < own /\ ~ (vals[list[j]].power < own)
      BY <1>1, <1>5, <2>2
    <3>2. Min(weakest) \in 1 .. Len(list)
      BY <1>1, <1>5
    <3>3. vals[list[Min(weakest)]].power \in Nat /\ vals[list[j]].power \in Nat
      <4>. HIDE DEF weakest
      <4>. QED
        BY <1>1, <3>2
    <3>. HIDE DEF weakest
    <3>. QED
      BY <3>1, <3>3, SMTT(20)
  <2>. QED
    BY <2>1, <2>2
<1>. QED
  BY <1>1, <1>2, <1>5, <1>6

\* The validators that a list names once each, when one is dropped or added.
LEMMA RemoveAtStaysInjective ==
  ASSUME NEW S, NEW s \in Seq(S), NEW i \in 1 .. Len(s), IsInjective(s)
  PROVE  /\ IsInjective(RemoveAt(s, i))
         /\ ToSet(RemoveAt(s, i)) = ToSet(s) \ {s[i]}
<1>. DEFINE r == RemoveAt(s, i)
<1>1. /\ r \in Seq(S) /\ Len(r) = Len(s) - 1
      /\ \A j \in 1 .. Len(s) - 1 : r[j] = IF j < i THEN s[j] ELSE s[j + 1]
  BY RemoveAtFacts
<1>. HIDE DEF r
<1>2. Len(s) \in Nat /\ DOMAIN s = 1 .. Len(s) /\ DOMAIN r = 1 .. Len(s) - 1
  BY <1>1
<1>. DEFINE from(j) == IF j < i THEN j ELSE j + 1
<1>0. ASSUME NEW j \in 1 .. Len(s) - 1
      PROVE  from(j) \in 1 .. Len(s) /\ from(j) # i /\ r[j] = s[from(j)]
  BY <1>1, <1>2
<1>3. IsInjective(r)
  <2>1. ASSUME NEW j \in 1 .. Len(s) - 1, NEW k \in 1 .. Len(s) - 1, r[j] = r[k]
        PROVE  j = k
    <3>1. from(j) = from(k)
      <4>. HIDE DEF from
      <4>. QED
        BY <1>2, <1>0, <2>1 DEF IsInjective
    <3>. QED
      BY <1>2, <3>1
  <2>. QED
    BY <1>2, <2>1 DEF IsInjective
<1>4. ASSUME NEW x \in ToSet(r)
      PROVE  x \in ToSet(s) \ {s[i]}
  <2>1. PICK j \in 1 .. Len(s) - 1 : r[j] = x
    BY <1>2, <1>4 DEF ToSet
  <2>. HIDE DEF from
  <2>. QED
    BY <1>2, <1>0, <2>1 DEF ToSet, IsInjective
<1>5. ASSUME NEW x \in ToSet(s) \ {s[i]}
      PROVE  x \in ToSet(r)
  <2>1. PICK j \in 1 .. Len(s) : s[j] = x /\ j # i
    BY <1>2, <1>5 DEF ToSet
  <2>2. CASE j < i
    <3>1. j \in DOMAIN r /\ r[j] = x
      BY <1>1, <1>2, <2>1, <2>2
    <3>. QED
      BY <3>1 DEF ToSet
  <2>3. CASE j > i
    <3>1. j - 1 \in DOMAIN r /\ r[j - 1] = x
      BY <1>1, <1>2, <2>1, <2>3
    <3>. QED
      BY <3>1 DEF ToSet
  <2>. QED
    BY <2>1, <2>2, <2>3
<1>. QED
  BY <1>3, <1>4, <1>5 DEF r

LEMMA AppendStaysInjective ==
  ASSUME NEW S, NEW s \in Seq(S), NEW v \in S, v \notin ToSet(s), IsInjective(s)
  PROVE  /\ IsInjective(Append(s, v))
         /\ ToSet(Append(s, v)) = ToSet(s) \union {v}
<1>1. /\ Len(s) \in Nat /\ DOMAIN s = 1 .. Len(s)
      /\ DOMAIN Append(s, v) = 1 .. Len(s) + 1
      /\ \A i \in 1 .. Len(s) : Append(s, v)[i] = s[i]
      /\ Append(s, v)[Len(s) + 1] = v
  OBVIOUS
<1>2. IsInjective(Append(s, v))
  BY <1>1 DEF IsInjective, ToSet
<1>3. ASSUME NEW x \in ToSet(Append(s, v))
      PROVE  x \in ToSet(s) \union {v}
  BY <1>1 DEF ToSet
<1>4. ASSUME NEW x \in ToSet(s) \union {v}
      PROVE  x \in ToSet(Append(s, v))
  <2>1. CASE x = v
    <3>1. Len(s) + 1 \in DOMAIN Append(s, v)
      BY <1>1
    <3>. QED
      BY <1>1, <2>1, <3>1 DEF ToSet
  <2>2. CASE x \in ToSet(s)
    <3>1. PICK i \in 1 .. Len(s) : s[i] = x
      BY <1>1, <2>2 DEF ToSet
    <3>2. i \in DOMAIN Append(s, v) /\ Append(s, v)[i] = x
      BY <1>1, <3>1
    <3>. QED
      BY <3>2 DEF ToSet
  <2>. QED
    BY <2>1, <2>2
<1>. QED
  BY <1>2, <1>3, <1>4

-------------------------------------------------------------------------------
(* The pending list *)

\* What the new pending list keeps of the old one, and at whose expense.
Displaces(list, vals) ==
  \A out \in ToSet(pending) \ ToSet(list), in \in ToSet(list) :
    /\ vals[in].power >= vals[out].power
    /\ in \notin ToSet(pending) => vals[in].power > vals[out].power

\* Whatever its length, the list stays well formed when a validator asks to be
\* in it, and only the weakest is displaced.
LEMMA PendingWithFacts ==
  ASSUME NEW V, pending \in Seq(V), PendingWellFormed, NEW v \in V,
         NEW vals, \A x \in V : vals[x].power \in Nat
  PROVE  LET list == PendingWith(v, vals) IN
         /\ list \in Seq(V)
         /\ Len(list) <= MaxPending /\ IsInjective(list)
         /\ Displaces(list, vals)
         /\ v \in ToSet(pending) => list = pending
<1>. DEFINE w == WeakestIndex(pending, vals, vals[v].power)
            rest == RemoveAt(pending, w)
            list == PendingWith(v, vals)
<1>1. /\ Len(pending) \in Nat /\ DOMAIN pending = 1 .. Len(pending)
      /\ \A i \in 1 .. Len(pending) : pending[i] \in V
      /\ MaxPending \in Nat \ {0} /\ Len(pending) <= MaxPending /\ IsInjective(pending)
  BY ElementOfSeq, HubValidatorsAssumption DEF PendingWellFormed
<1>2. Contains(pending, v) <=> v \in ToSet(pending)
  BY <1>1 DEF Contains, ToSet
<1>3. CASE Contains(pending, v)
  <2>1. list = pending
    BY <1>3 DEF PendingWith
  <2>. QED
    BY <1>1, <1>2, <2>1 DEF Displaces
<1>4. CASE ~Contains(pending, v) /\ Len(pending) < MaxPending
  <2>1. list = Append(pending, v)
    BY <1>4 DEF PendingWith
  <2>2. /\ list \in Seq(V) /\ Len(list) = Len(pending) + 1
        /\ IsInjective(list) /\ ToSet(list) = ToSet(pending) \union {v}
    BY <1>1, <1>2, <1>4, <2>1, AppendStaysInjective
  <2>3. Displaces(list, vals)
    BY <2>2 DEF Displaces
  <2>. QED
    BY <1>1, <1>2, <1>4, <2>2, <2>3
<1>5. CASE ~Contains(pending, v) /\ ~(Len(pending) < MaxPending) /\ w # 0
  <2>1. list = Append(rest, v)
    BY <1>5 DEF PendingWith
  <2>2. /\ w \in 1 .. Len(pending)
        /\ vals[pending[w]].power < vals[v].power
        /\ \A j \in 1 .. Len(pending) : vals[pending[w]].power <= vals[pending[j]].power
    BY <1>5, WeakestIndexFacts
  <2>. HIDE DEF w
  <2>3. /\ rest \in Seq(V) /\ Len(rest) = Len(pending) - 1 /\ IsInjective(rest)
        /\ ToSet(rest) = ToSet(pending) \ {pending[w]}
    BY <1>1, <2>2, RemoveAtFacts, RemoveAtStaysInjective
  <2>. HIDE DEF rest
  <2>4. /\ list \in Seq(V) /\ Len(list) = Len(pending)
        /\ IsInjective(list) /\ ToSet(list) = ToSet(rest) \union {v}
    <3>1. v \notin ToSet(rest)
      BY <1>2, <1>5, <2>3
    <3>2. IsInjective(list) /\ ToSet(list) = ToSet(rest) \union {v}
      BY <2>1, <2>3, <3>1, AppendStaysInjective
    <3>3. Append(rest, v) \in Seq(V) /\ Len(Append(rest, v)) = Len(rest) + 1
      BY <2>3, AppendProperties
    <3>4. Len(rest) + 1 = Len(pending)
      BY <1>1, <2>3
    <3>. QED
      BY <2>1, <3>2, <3>3, <3>4
  <2>5. ASSUME NEW out \in ToSet(pending) \ ToSet(list), NEW in \in ToSet(list)
        PROVE  /\ vals[in].power >= vals[out].power
               /\ in \notin ToSet(pending) => vals[in].power > vals[out].power
    <3>1. out = pending[w] /\ out \in V /\ vals[out].power \in Nat
      BY <1>1, <2>2, <2>3, <2>4
    <3>2. CASE in = v
      <4>1. vals[v].power \in Nat
        OBVIOUS
      <4>. QED
        BY <2>2, <3>1, <3>2, <4>1
    <3>3. CASE in # v
      <4>1. in \in ToSet(pending)
        BY <2>3, <2>4, <3>3
      <4>2. PICK j \in 1 .. Len(pending) : pending[j] = in
        BY <1>1, <4>1 DEF ToSet
      <4>3. vals[in].power \in Nat
        BY <1>1, <4>2
      <4>. QED
        BY <2>2, <3>1, <4>1, <4>2, <4>3
    <3>. QED
      BY <3>2, <3>3
  <2>6. Displaces(list, vals)
    <3>. HIDE DEF list
    <3>. QED
      BY <2>5 DEF Displaces
  <2>7. Len(list) <= MaxPending
    BY <1>1, <2>4
  <2>. QED
    BY <1>2, <1>5, <2>4, <2>6, <2>7
<1>6. CASE ~Contains(pending, v) /\ ~(Len(pending) < MaxPending) /\ w = 0
  <2>1. list = pending
    BY <1>6 DEF PendingWith
  <2>. QED
    BY <1>1, <1>2, <2>1 DEF Displaces
<1>. QED
  BY <1>3, <1>4, <1>5, <1>6

\* The active list, and the keys handed to the token, are lists of the same
\* validators and of keys.
LEMMA RotatedLists ==
  ASSUME NEW V, NEW list \in Seq(V), NEW vals, \A x \in V : vals[x].key \in PubKeys
  PROVE  /\ Reverse(list) \in Seq(V)
         /\ Keys(Reverse(list), vals) \in Seq(PubKeys)
<1>1. Len(list) \in Nat /\ \A i \in 1 .. Len(list) : list[i] \in V
  BY ElementOfSeq
<1>2. Reverse(list) \in [1 .. Len(list) -> V]
  BY <1>1 DEF Reverse
<1>3. Reverse(list) \in Seq(V)
  BY <1>1, <1>2, SeqDef
<1>4. Keys(Reverse(list), vals) \in [1 .. Len(list) -> PubKeys]
  BY <1>2 DEF Keys
<1>. QED
  BY <1>1, <1>3, <1>4, SeqDef

-------------------------------------------------------------------------------
(* The validator set *)

ValidatorsInv == ValidatorsTypeOK /\ PendingWellFormed

\* What a step may do to the members of the pending list.
OnlyTheWeakestGoes ==
  \A out \in ToSet(pending) \ ToSet(pending'), in \in ToSet(pending') :
    /\ validators'[in].power >= validators[out].power
    /\ in \notin ToSet(pending) => validators'[in].power > validators[out].power

LEMMA ReturnEpochIsNatural ==
  ASSUME ValidatorsTypeOK
  PROVE  ReturnEpoch \in Nat
<1>1. now - genesis \in Nat /\ EpochSeconds \in Nat \ {0}
  BY HubValidatorsAssumption DEF ValidatorsTypeOK
<1>. QED
  BY <1>1 DEF ReturnEpoch

\* A snapshot of a validator of the map, which may be new in it.
LEMMA SnapshotKeeps ==
  ASSUME ValidatorsInv, NEW vals, NEW v \in DOMAIN vals,
         vals \in [DOMAIN vals -> ValidatorRecord],
         DOMAIN validators \subseteq DOMAIN vals, DOMAIN vals \subseteq Shareds,
         \A x \in DOMAIN validators : vals[x] = validators[x],
         TakeValidatorSnapshot(v, vals), UNCHANGED <<now, genesis, staked>>
  PROVE  /\ ValidatorsInv'
         /\ DOMAIN validators' = DOMAIN vals
         /\ OnlyTheWeakestGoes
<1>. DEFINE dated == [vals EXCEPT ![v].power = staked[v], ![v].snapshot = active.epoch]
            V == DOMAIN vals
            list == PendingWith(v, dated)
<1>1. dated \in [V -> ValidatorRecord] /\ \A x \in V \ {v} : dated[x] = vals[x]
  <2>1. staked[v] \in Nat /\ active.epoch \in Nat
    BY HubValidatorsAssumption DEF ValidatorsInv, ValidatorsTypeOK
  <2>2. vals[v] \in ValidatorRecord
    OBVIOUS
  <2>. DEFINE r == [vals[v] EXCEPT !.power = staked[v], !.snapshot = active.epoch]
  <2>3. r \in ValidatorRecord
    BY <2>1, <2>2 DEF ValidatorRecord
  <2>4. dated = [x \in V |-> IF x = v THEN r ELSE vals[x]]
    OBVIOUS
  <2>. HIDE DEF dated, r
  <2>. QED
    BY <2>3, <2>4
<1>2. validators' = dated /\ pending' = list
  BY DEF TakeValidatorSnapshot
<1>3. \A x \in V : dated[x].power \in Nat /\ dated[x].key \in PubKeys
  BY <1>1 DEF ValidatorRecord
<1>4. /\ pending \in Seq(V) /\ oracleList \in Seq(V) /\ active.list \in Seq(V)
      /\ active.epoch \in Nat /\ tokenKeys \in Seq(PubKeys)
      /\ PendingWellFormed
  BY SeqMonotonic DEF ValidatorsInv, ValidatorsTypeOK
<1>5. RotateIfEpochTurned(Reverse(list), dated)
  BY DEF TakeValidatorSnapshot
<1>. HIDE DEF dated
<1>6. /\ list \in Seq(V) /\ Len(list) <= MaxPending /\ IsInjective(list)
      /\ Displaces(list, dated) /\ (v \in ToSet(pending) => list = pending)
  BY <1>3, <1>4, PendingWithFacts
<1>. HIDE DEF list
<1>7. Reverse(list) \in Seq(V) /\ Keys(Reverse(list), dated) \in Seq(PubKeys)
  BY <1>3, <1>6, RotatedLists
<1>8. /\ active'.list \in Seq(V) /\ active'.epoch \in Nat
      /\ oracleList' \in Seq(V) /\ tokenKeys' \in Seq(PubKeys)
  BY <1>4, <1>5, <1>7, ReturnEpochIsNatural DEF RotateIfEpochTurned, ValidatorsInv
<1>9. ValidatorsTypeOK'
  BY <1>1, <1>2, <1>6, <1>8 DEF ValidatorsInv, ValidatorsTypeOK
<1>10. \A out \in ToSet(pending) \ ToSet(list) : dated[out] = validators[out]
  <2>1. \A out \in ToSet(pending) : out \in DOMAIN validators
    BY DEF ValidatorsInv, ValidatorsTypeOK, ToSet
  <2>. QED
    BY <1>1, <1>6, <2>1
<1>11. OnlyTheWeakestGoes
  BY <1>2, <1>6, <1>10 DEF Displaces, OnlyTheWeakestGoes
<1>12. DOMAIN validators' = V
  BY <1>1, <1>2
<1>. QED
  BY <1>2, <1>6, <1>9, <1>11, <1>12 DEF ValidatorsInv, PendingWellFormed

\* Every step of the validator set: the invariant, and that the map only grows
\* and only the weakest is displaced.
LEMMA ValidatorsStep ==
  ASSUME ValidatorsInv, ValidatorsNext \/ Administration
  PROVE  /\ ValidatorsInv'
         /\ DOMAIN validators \subseteq DOMAIN validators'
         /\ OnlyTheWeakestGoes
<1>. DEFINE Kept == /\ ValidatorsInv'
                    /\ DOMAIN validators \subseteq DOMAIN validators'
                    /\ OnlyTheWeakestGoes
<1>0. pending' = pending => OnlyTheWeakestGoes
  BY DEF OnlyTheWeakestGoes
<1>1. ASSUME NEW v \in Shareds, NEW key \in PubKeys, RegisterValidator(v, key)
      PROVE  Kept
  <2>. DEFINE vals == [ x \in DOMAIN validators \union {v} |->
           IF x = v THEN [key |-> key, isActive |-> TRUE, power |-> 0, snapshot |-> 0]
                    ELSE validators[x] ]
  <2>1. /\ DOMAIN vals = DOMAIN validators \union {v}
        /\ vals \in [DOMAIN vals -> ValidatorRecord]
        /\ DOMAIN vals \subseteq Shareds
        /\ \A x \in DOMAIN validators : vals[x] = validators[x]
    BY <1>1 DEF RegisterValidator, ValidatorsInv, ValidatorsTypeOK, ValidatorRecord
  <2>2. TakeValidatorSnapshot(v, vals) /\ UNCHANGED <<now, genesis, staked>>
    BY <1>1 DEF RegisterValidator
  <2>. HIDE DEF vals
  <2>. QED
    BY <2>1, <2>2, SnapshotKeeps
<1>2. ASSUME NEW v \in Shareds, TakeSnapshot(v)
      PROVE  Kept
  BY <1>2, SnapshotKeeps DEF TakeSnapshot, ValidatorsInv, ValidatorsTypeOK
<1>3. ASSUME NEW v \in Shareds, NEW key \in PubKeys, ChangeValidatorKeys(v, key)
      PROVE  Kept
  <2>1. /\ DOMAIN validators' = DOMAIN validators
        /\ validators' \in [DOMAIN validators -> ValidatorRecord]
    BY <1>3 DEF ChangeValidatorKeys, ValidatorsInv, ValidatorsTypeOK, ValidatorRecord
  <2>. QED
    BY <1>0, <1>3, <2>1
    DEF ChangeValidatorKeys, ValidatorsInv, ValidatorsTypeOK, PendingWellFormed
<1>4. CASE AdvanceClock
  BY <1>0, <1>4 DEF AdvanceClock, ValidatorsInv, ValidatorsTypeOK, PendingWellFormed
<1>5. ASSUME NEW s \in Shareds, NEW amount \in StakeLevels, Restake(s, amount)
      PROVE  Kept
  BY <1>0, <1>5 DEF Restake, ValidatorsInv, ValidatorsTypeOK, PendingWellFormed
<1>6. CASE ResetGenesis
  BY <1>0, <1>6 DEF ResetGenesis, ValidatorsInv, ValidatorsTypeOK, PendingWellFormed
<1>7. CASE AdminSyncActiveValidators(<<>>)
  BY <1>0, <1>7
  DEF AdminSyncActiveValidators, ValidatorsInv, ValidatorsTypeOK, PendingWellFormed
<1>. QED
  BY <1>1, <1>2, <1>3, <1>4, <1>5, <1>6, <1>7 DEF ValidatorsNext, Administration

LEMMA ValidatorsStutter ==
  ASSUME ValidatorsInv, UNCHANGED validatorVars
  PROVE  ValidatorsInv' /\ OnlyTheWeakestGoes
BY DEF ValidatorsInv, ValidatorsTypeOK, PendingWellFormed, validatorVars, OnlyTheWeakestGoes

LEMMA ValidatorsStart == ValidatorsInit => ValidatorsInv
BY HubValidatorsAssumption
DEF ValidatorsInit, ValidatorsInv, ValidatorsTypeOK, PendingWellFormed, IsInjective

LEMMA ValidatorsInvHolds == ValidatorsSpec => []ValidatorsInv
<1>1. ValidatorsInv /\ [ValidatorsNext \/ Administration]_validatorVars => ValidatorsInv'
  BY ValidatorsStep, ValidatorsStutter
<1>. QED
  BY ValidatorsStart, <1>1, PTL DEF ValidatorsSpec

\* The state of the validators has its types in every behaviour: the lists name
\* registered validators and the token's keys are keys.
THEOREM ValidatorsTyped == ValidatorsSpec => []ValidatorsTypeOK
<1>1. ValidatorsInv => ValidatorsTypeOK
  BY DEF ValidatorsInv
<1>. QED
  BY <1>1, ValidatorsInvHolds, PTL

\* The pending list (validators.move, internal_add_pending_validator) holds
\* each validator once and never more than its capacity.
THEOREM PendingStaysWellFormed == ValidatorsSpec => []PendingWellFormed
<1>1. ValidatorsInv => PendingWellFormed
  BY DEF ValidatorsInv
<1>. QED
  BY <1>1, ValidatorsInvHolds, PTL

\* A validator pushed out of a full list was the weakest, strictly weaker than
\* the one that took its place.
THEOREM OnlyTheWeakestIsDisplaced == ValidatorsSpec => WeakestDisplaced
<1>1. ValidatorsInv /\ [ValidatorsNext \/ Administration]_validatorVars
        => [OnlyTheWeakestGoes]_validatorVars
  BY ValidatorsStep
<1>. QED
  BY <1>1, ValidatorsInvHolds, PTL
  DEF ValidatorsSpec, WeakestDisplaced, OnlyTheWeakestGoes

\* Registrations and snapshots within an epoch leave the active list, and the
\* keys the token accepts, as they are; both change only with the epoch.
THEOREM ActiveListFrozen == ValidatorsSpec => ActiveFrozenWithinEpoch
<1>. DEFINE Frozen == active' # active \/ tokenKeys' # tokenKeys =>
                        active.epoch < active'.epoch /\ active'.epoch = ReturnEpoch
<1>1. ASSUME NEW list, NEW vals, RotateIfEpochTurned(list, vals), ValidatorsInv
      PROVE  Frozen
  BY <1>1, ReturnEpochIsNatural
  DEF RotateIfEpochTurned, ValidatorsInv, ValidatorsTypeOK
<1>2. ValidatorsInv /\ [ValidatorsNext \/ Administration]_validatorVars
        => [Frozen]_validatorVars
  <2>. SUFFICES ASSUME ValidatorsInv, ValidatorsNext \/ Administration
                PROVE  Frozen
    OBVIOUS
  <2>1. ASSUME NEW v, NEW vals, TakeValidatorSnapshot(v, vals)
        PROVE  Frozen
    BY <1>1, <2>1 DEF TakeValidatorSnapshot
  <2>2. CASE \E v \in Shareds, key \in PubKeys : RegisterValidator(v, key)
    BY <2>1, <2>2 DEF RegisterValidator
  <2>3. CASE \E v \in Shareds : TakeSnapshot(v)
    BY <2>1, <2>3 DEF TakeSnapshot
  <2>4. CASE UNCHANGED <<active, tokenKeys>>
    BY <2>4
  <2>5. \/ \E v \in Shareds, key \in PubKeys : RegisterValidator(v, key)
        \/ \E v \in Shareds : TakeSnapshot(v)
        \/ UNCHANGED <<active, tokenKeys>>
    BY DEF ValidatorsNext, Administration, ChangeValidatorKeys, AdvanceClock,
       Restake, ResetGenesis, AdminSyncActiveValidators
  <2>. QED
    BY <2>2, <2>3, <2>4, <2>5
<1>. QED
  BY <1>2, ValidatorsInvHolds, PTL DEF ValidatorsSpec, ActiveFrozenWithinEpoch

-------------------------------------------------------------------------------
(* Maps of weights *)

Weights == UNION { [V -> Nat] : V \in SUBSET Shareds }

EventRecord == [ votes : Weights, totalWeight : Nat, isValidated : BOOLEAN ]

Ledger ==
  [ epoch : Nat, totalCredits : Nat, totalWeight : Nat, voteWeights : Weights,
    credit : [Shareds -> [value : Nat, isPositive : BOOLEAN]],
    minted : [Shareds -> Nat], collected : Nat, credited : Nat ]

\* A map of weights with one weight put into it.
LEMMA PutWeight ==
  ASSUME NEW f \in Weights, NEW v \in Shareds, NEW weight \in Nat
  PROVE  /\ Put(f, v, weight) \in Weights
         /\ DOMAIN Put(f, v, weight) = DOMAIN f \union {v}
         /\ \A x \in DOMAIN f \union {v} :
              Put(f, v, weight)[x] = IF x = v THEN weight ELSE f[x]
<1>1. DOMAIN f \subseteq Shareds /\ \A x \in DOMAIN f : f[x] \in Nat
  BY DEF Weights
<1>2. Put(f, v, weight) \in [DOMAIN f \union {v} -> Nat]
  BY <1>1 DEF Put
<1>. QED
  BY <1>1, <1>2 DEF Put, Weights

\* What a weight put into the map adds to the sum of a map.
LEMMA PutSums ==
  ASSUME NEW f \in Weights, IsFiniteSet(DOMAIN f), NEW v \in Shareds, NEW weight \in Nat
  PROVE  /\ IsFiniteSet(DOMAIN Put(f, v, weight))
         /\ SumFunction(f) \in Nat
         /\ SumFunction(Put(f, v, weight)) =
              SumFunction(f) + weight - (IF v \in DOMAIN f THEN f[v] ELSE 0)
<1>. DEFINE g == Put(f, v, weight)
<1>1. /\ DOMAIN g = DOMAIN f \union {v}
      /\ \A x \in DOMAIN f \union {v} : g[x] = IF x = v THEN weight ELSE f[x]
  BY PutWeight
<1>. HIDE DEF g
<1>2. NaturalOn(f, DOMAIN f) /\ SumFunctionOnSet(f, DOMAIN f) \in Nat
  <2>1. NaturalOn(f, DOMAIN f)
    BY DEF Weights, NaturalOn
  <2>. QED
    BY <2>1, SumIsNatural, Zenon
<1>3. IsFiniteSet(DOMAIN g)
  BY <1>1, FS_AddElement
<1>4. CASE v \in DOMAIN f
  <2>1. DOMAIN g = DOMAIN f
    BY <1>1, <1>4
  <2>2. SumFunctionOnSet(g, DOMAIN f) = SumFunctionOnSet(f, DOMAIN f) + g[v] - f[v]
    BY <1>1, <1>2, <1>4, SumChangesAtOne
  <2>. QED
    BY <1>1, <1>2, <1>3, <1>4, <2>1, <2>2 DEF SumFunction, g
<1>5. CASE v \notin DOMAIN f
  <2>1. SumFunctionOnSet(g, DOMAIN f \union {v}) = SumFunctionOnSet(f, DOMAIN f) + g[v]
    BY <1>1, <1>2, <1>5, SumGrows
  <2>. QED
    BY <1>1, <1>2, <1>3, <1>5, <2>1 DEF SumFunction, g
<1>. QED
  BY <1>4, <1>5

LEMMA NoWeights ==
  <<>> \in Weights /\ IsFiniteSet(DOMAIN <<>>) /\ DOMAIN <<>> = {} /\ SumFunction(<<>>) = 0
<1>1. DOMAIN <<>> = {}
  OBVIOUS
<1>2. <<>> \in [{} -> Nat]
  OBVIOUS
<1>. QED
  BY <1>1, <1>2, FS_EmptySet, SumOfNothing DEF Weights, SumFunction

-------------------------------------------------------------------------------
(* The ledger of an epoch *)

\* The weights of the epoch are those of its votes, and what was given back and
\* is still to be given was collected.
LedgerSound(l) ==
  /\ l \in Ledger
  /\ IsFiniteSet(DOMAIN l.voteWeights)
  /\ SumFunction(l.voteWeights) = l.totalWeight
  /\ l.credited + l.totalCredits <= l.collected

LEMMA CreditTyped ==
  ASSUME NEW c \in [value : Nat, isPositive : BOOLEAN], NEW amount \in Nat
  PROVE  /\ RemoveCredit(c, amount) \in [value : Nat, isPositive : BOOLEAN]
         /\ AddCredit(c, amount) \in [value : Nat, isPositive : BOOLEAN]
BY DEF RemoveCredit, AddCredit

\* The weights of the ledger are some of these.
WeightsOf(l, weights) ==
  \A v \in DOMAIN l.voteWeights : v \in DOMAIN weights /\ l.voteWeights[v] = weights[v]

\* A distribution gives out at most the fees of the epoch, and forgets its votes.
LEMMA DistributionSound ==
  ASSUME NEW l, LedgerSound(l), ReturnEpoch \in Nat
  PROVE  /\ LedgerSound(DistributeRewards(l))
         /\ WeightsOf(DistributeRewards(l), l.voteWeights)
<1>. DEFINE new == DistributeRewards(l)
<1>1. l \in Ledger /\ l.voteWeights \in Weights
  BY DEF LedgerSound, Ledger
<1>2. CASE l.totalWeight = 0
  <2>1. new = [l EXCEPT !.epoch = ReturnEpoch]
    BY <1>2 DEF DistributeRewards
  <2>2. new \in Ledger
    BY <1>1, <2>1 DEF Ledger
  <2>3. /\ new.voteWeights = l.voteWeights /\ new.totalWeight = l.totalWeight
        /\ new.credited = l.credited /\ new.totalCredits = l.totalCredits
        /\ new.collected = l.collected
    BY <1>1, <2>1 DEF Ledger
  <2>. QED
    BY <2>2, <2>3 DEF LedgerSound, WeightsOf
<1>3. CASE l.totalWeight # 0
  <2>. DEFINE given == SumFunction(Shares(l))
              credit == [s \in Shareds |->
                           AddCredit(l.credit[s], Distributed(l, s, l.totalCredits))]
              minted == [s \in Shareds |-> l.minted[s] + Distributed(l, s, Emissions)]
  <2>1. l.totalCredits \in Nat /\ l.totalWeight \in Nat \ {0} /\ Emissions \in Nat
    BY <1>1, <1>3, HubConsensusAssumption DEF Ledger
  <2>2. \A v \in DOMAIN l.voteWeights, amount \in Nat : Share(l, v, amount) \in Nat
    BY <1>1, <2>1, ShareOfOne DEF Share, Weights
  <2>3. \A s \in Shareds, amount \in Nat : Distributed(l, s, amount) \in Nat
    BY <2>2 DEF Distributed
  <2>4. given \in 0 .. l.totalCredits
    <3>1. DOMAIN Shares(l) = DOMAIN l.voteWeights
      BY DEF Shares
    <3>2. \A v \in DOMAIN l.voteWeights :
            Shares(l)[v] = (l.voteWeights[v] * l.totalCredits) \div l.totalWeight
      BY DEF Shares, Share
    <3>3. NaturalOn(l.voteWeights, DOMAIN l.voteWeights)
      BY <1>1 DEF NaturalOn, Weights
    <3>. QED
      BY <2>1, <3>1, <3>2, <3>3, SumOfShares DEF LedgerSound, SumFunction
  <2>5. credit \in [Shareds -> [value : Nat, isPositive : BOOLEAN]]
    BY <1>1, <2>1, <2>3, CreditTyped DEF Ledger
  <2>6. minted \in [Shareds -> Nat]
    BY <1>1, <2>1, <2>3 DEF Ledger
  <2>7. new = [l EXCEPT !.epoch = ReturnEpoch, !.credit = credit, !.minted = minted,
                        !.credited = l.credited + given, !.totalCredits = 0,
                        !.totalWeight = 0, !.voteWeights = <<>>]
    BY <1>1, <1>3 DEF DistributeRewards, Ledger
  <2>. HIDE DEF given, credit, minted, new
  <2>8. /\ new.voteWeights = <<>> /\ new.totalWeight = 0
        /\ new.credited = l.credited + given /\ new.totalCredits = 0
        /\ new.collected = l.collected
    BY <1>1, <2>7 DEF Ledger
  <2>9. new \in Ledger
    <3>1. new = [ epoch |-> ReturnEpoch, totalCredits |-> 0, totalWeight |-> 0,
                  voteWeights |-> <<>>, credit |-> credit, minted |-> minted,
                  collected |-> l.collected, credited |-> l.credited + given ]
      BY <1>1, <2>7 DEF Ledger
    <3>2. l.credited + given \in Nat /\ l.collected \in Nat
      BY <1>1, <2>4 DEF Ledger
    <3>. QED
      BY <2>5, <2>6, <3>1, <3>2, NoWeights DEF Ledger
  <2>10. new.credited + new.totalCredits <= new.collected
    BY <1>1, <2>4, <2>8 DEF LedgerSound, Ledger
  <2>11. LedgerSound(new)
    BY <2>8, <2>9, <2>10, NoWeights DEF LedgerSound
  <2>. QED
    BY <2>8, <2>11, NoWeights DEF new, WeightsOf
<1>. QED
  BY <1>2, <1>3

\* A vote adds its weight to the epoch, before a distribution if one is due.
LEMMA AccruedVoteSound ==
  ASSUME NEW l, LedgerSound(l), ReturnEpoch \in Nat, NEW v \in Shareds, NEW weight \in Nat
  PROVE  /\ LedgerSound(AccrueVote(l, v, weight))
         /\ WeightsOf(AccrueVote(l, v, weight),
                      Put(l.voteWeights, v,
                          (IF v \in DOMAIN l.voteWeights THEN l.voteWeights[v] ELSE 0) + weight))
<1>. DEFINE before == IF v \in DOMAIN l.voteWeights THEN l.voteWeights[v] ELSE 0
            weights == Put(l.voteWeights, v, before + weight)
            voted == [l EXCEPT !.voteWeights = weights,
                               !.totalWeight = @ + weight]
<1>1. l \in Ledger /\ l.voteWeights \in Weights /\ l.totalWeight \in Nat
  BY DEF LedgerSound, Ledger
<1>2. before \in Nat
  BY <1>1 DEF Weights
<1>3. /\ weights \in Weights /\ IsFiniteSet(DOMAIN weights)
      /\ DOMAIN weights = DOMAIN l.voteWeights \union {v}
  <2>1. before + weight \in Nat
    BY <1>2
  <2>. HIDE DEF before
  <2>2. IsFiniteSet(DOMAIN weights)
    BY <1>1, <2>1, PutSums DEF LedgerSound
  <2>. QED
    BY <1>1, <2>1, <2>2, PutWeight
<1>4. SumFunction(weights) = l.totalWeight + weight
  <2>1. SumFunction(weights) = SumFunction(l.voteWeights) + (before + weight) - before
    <3>1. before + weight \in Nat
      BY <1>2
    <3>. QED
      BY <1>1, <3>1, PutSums DEF LedgerSound
  <2>. QED
    BY <1>1, <1>2, <2>1 DEF LedgerSound
<1>. HIDE DEF weights
<1>5. voted \in Ledger
  <2>1. l.totalWeight + weight \in Nat
    BY <1>1
  <2>. QED
    BY <1>1, <1>3, <2>1 DEF Ledger
<1>6. /\ voted.voteWeights = weights /\ voted.totalWeight = l.totalWeight + weight
      /\ voted.credited = l.credited /\ voted.totalCredits = l.totalCredits
      /\ voted.collected = l.collected
  BY <1>1 DEF Ledger
<1>7. LedgerSound(voted)
  BY <1>3, <1>4, <1>5, <1>6 DEF LedgerSound
<1>8. AccrueVote(l, v, weight) =
        IF ReturnEpoch > l.epoch THEN DistributeRewards(voted) ELSE voted
  BY DEF AccrueVote, weights
<1>. HIDE DEF voted
<1>9. WeightsOf(AccrueVote(l, v, weight), weights)
  BY <1>6, <1>7, <1>8, DistributionSound DEF WeightsOf
<1>. QED
  BY <1>7, <1>8, <1>9, DistributionSound DEF weights

\* A fee is collected as a whole, to be distributed.
LEMMA AccruedFeeSound ==
  ASSUME NEW l, LedgerSound(l), NEW payer \in Shareds
  PROVE  LedgerSound(AccrueFee(l, payer)) /\ AccrueFee(l, payer).voteWeights = l.voteWeights
<1>. DEFINE credit == [l.credit EXCEPT ![payer] = RemoveCredit(l.credit[payer], FlatFee)]
            new == AccrueFee(l, payer)
<1>1. l \in Ledger /\ FlatFee \in Nat
  BY HubConsensusAssumption DEF LedgerSound
<1>2. credit \in [Shareds -> [value : Nat, isPositive : BOOLEAN]]
  <2>1. RemoveCredit(l.credit[payer], FlatFee) \in [value : Nat, isPositive : BOOLEAN]
    BY <1>1, CreditTyped DEF Ledger
  <2>. QED
    BY <1>1, <2>1 DEF Ledger
<1>3. new = [l EXCEPT !.credit = credit, !.totalCredits = l.totalCredits + FlatFee,
                      !.collected = l.collected + FlatFee]
  BY <1>1 DEF AccrueFee, Ledger
<1>. HIDE DEF credit, new
<1>4. new \in Ledger
  <2>1. l.totalCredits + FlatFee \in Nat /\ l.collected + FlatFee \in Nat
    BY <1>1 DEF Ledger
  <2>. QED
    BY <1>1, <1>2, <1>3, <2>1 DEF Ledger
<1>5. /\ new.voteWeights = l.voteWeights /\ new.totalWeight = l.totalWeight
      /\ new.credited = l.credited /\ new.totalCredits = l.totalCredits + FlatFee
      /\ new.collected = l.collected + FlatFee
  BY <1>1, <1>3 DEF Ledger
<1>6. new.credited + new.totalCredits <= new.collected
  BY <1>1, <1>5 DEF LedgerSound, Ledger
<1>. QED
  BY <1>4, <1>5, <1>6 DEF LedgerSound, new

-------------------------------------------------------------------------------
(* Votes on an event *)

\* A record of an event weighs what its voters weighed, all of them registered.
RecordSound(r) ==
  /\ r \in EventRecord
  /\ DOMAIN r.votes \subseteq DOMAIN validators
  /\ IsFiniteSet(DOMAIN r.votes)
  /\ \A v \in DOMAIN r.votes : r.votes[v] > 0
  /\ r.totalWeight = SumFunction(r.votes)

\* The votes of one record are votes of the other.
VotesKept(r, new) ==
  \A v \in DOMAIN r.votes : v \in DOMAIN new.votes /\ new.votes[v] = r.votes[v]

LEMMA NewEventSound == RecordSound(NewEvent)
<1>1. NewEvent \in EventRecord
  BY NoWeights DEF NewEvent, EventRecord
<1>2. NewEvent.votes = <<>> /\ NewEvent.totalWeight = 0
  BY DEF NewEvent
<1>. QED
  BY <1>1, <1>2, NoWeights DEF RecordSound

\* One more vote keeps the record sound and the earlier votes in it.
LEMMA WithVoteSound ==
  ASSUME ValidatorsInv, NEW r, RecordSound(r), NEW v \in Shareds, MayVote(v)
  PROVE  /\ RecordSound(WithVote(r, v))
         /\ VotesKept(r, WithVote(r, v))
         /\ DOMAIN WithVote(r, v).votes = DOMAIN r.votes \union {v}
         /\ v \notin DOMAIN r.votes => WithVote(r, v).votes[v] = validators[v].power
<1>1. CASE v \in DOMAIN r.votes
  BY <1>1 DEF WithVote, VotesKept
<1>2. CASE v \notin DOMAIN r.votes
  <2>. DEFINE power == validators[v].power
              votes == Put(r.votes, v, power)
              new == [r EXCEPT !.votes = votes, !.totalWeight = @ + power]
  <2>1. power \in Nat /\ power > 0 /\ v \in DOMAIN validators
    BY DEF MayVote, ValidatorsInv, ValidatorsTypeOK, ValidatorRecord
  <2>2. WithVote(r, v) = new
    BY <1>2 DEF WithVote
  <2>3. r \in EventRecord /\ r.votes \in Weights /\ r.totalWeight \in Nat
    BY DEF RecordSound, EventRecord
  <2>. HIDE DEF power
  <2>4. /\ votes \in Weights /\ DOMAIN votes = DOMAIN r.votes \union {v}
        /\ \A x \in DOMAIN r.votes \union {v} :
             votes[x] = IF x = v THEN power ELSE r.votes[x]
    <3>. DEFINE f == r.votes
    <3>1. f \in Weights /\ power \in Nat
      BY <2>1, <2>3
    <3>. HIDE DEF f
    <3>2. /\ Put(f, v, power) \in Weights
          /\ DOMAIN Put(f, v, power) = DOMAIN f \union {v}
      BY <3>1, PutWeight
    <3>3. \A x \in DOMAIN f \union {v} :
            Put(f, v, power)[x] = IF x = v THEN power ELSE f[x]
      BY DEF Put
    <3>. QED
      BY <3>2, <3>3 DEF f
  <2>5. /\ IsFiniteSet(DOMAIN votes)
        /\ SumFunction(votes) = r.totalWeight + power
    BY <1>2, <2>1, <2>3, PutSums DEF RecordSound
  <2>. HIDE DEF votes
  <2>6. new.votes = votes /\ new.totalWeight = r.totalWeight + power
    BY <2>3 DEF EventRecord
  <2>7. new \in EventRecord
    <3>1. r.totalWeight + power \in Nat
      BY <2>1, <2>3
    <3>. QED
      BY <2>3, <2>4, <3>1 DEF EventRecord
  <2>8. DOMAIN votes \subseteq DOMAIN validators /\ \A x \in DOMAIN votes : votes[x] > 0
    BY <2>1, <2>4 DEF RecordSound
  <2>. HIDE DEF new
  <2>9. RecordSound(new)
    BY <2>5, <2>6, <2>7, <2>8 DEF RecordSound
  <2>10. VotesKept(r, new)
    BY <1>2, <2>4, <2>6 DEF VotesKept
  <2>11. DOMAIN new.votes = DOMAIN r.votes \union {v} /\ new.votes[v] = validators[v].power
    BY <2>4, <2>6 DEF power
  <2>. QED
    BY <2>2, <2>9, <2>10, <2>11
<1>. QED
  BY <1>1, <1>2

-------------------------------------------------------------------------------
(* The inductive invariant *)

EventsSound ==
  /\ DOMAIN events \subseteq Events /\ IsFiniteSet(DOMAIN events)
  /\ \A e \in DOMAIN events : RecordSound(events[e])

\* TypeOK with the exact shape of the records, and the sums that votes and
\* distributions keep.
HubInv ==
  /\ ValidatorsInv
  /\ EventsSound
  /\ LedgerSound(ledger) /\ DOMAIN ledger.voteWeights \subseteq DOMAIN validators
  /\ quorum \in Quorums /\ settleable \subseteq Payloads /\ settled \in [Events -> Nat]
  /\ SettledAtMostOnce
  /\ RewardsBackedByVotes

\* What no step may do to the votes of an event.
Accumulates ==
  \A e \in DOMAIN events :
    /\ e \in DOMAIN events'
    /\ \A v \in DOMAIN events[e].votes :
         v \in DOMAIN events'[e].votes /\ events'[e].votes[v] = events[e].votes[v]
    /\ events[e].isValidated => events'[e] = events[e]

\* The votes of one validator have a sum.
LEMMA VotesOfTyped ==
  ASSUME EventsSound, NEW w
  PROVE  /\ NaturalOn(VotesOf(w), DOMAIN events)
         /\ SumFunction(VotesOf(w)) = SumFunctionOnSet(VotesOf(w), DOMAIN events)
         /\ SumFunction(VotesOf(w)) \in Nat
<1>1. ASSUME NEW e \in DOMAIN events, w \in DOMAIN events[e].votes
      PROVE  events[e].votes[w] \in Nat
  BY <1>1 DEF EventsSound, RecordSound, EventRecord, Weights
<1>2. NaturalOn(VotesOf(w), DOMAIN events)
  BY <1>1 DEF NaturalOn, VotesOf
<1>3. DOMAIN VotesOf(w) = DOMAIN events
  BY DEF VotesOf
<1>4. SumFunctionOnSet(VotesOf(w), DOMAIN events) \in Nat
  <2>1. IsFiniteSet(DOMAIN events)
    BY DEF EventsSound
  <2>. QED
    BY <1>2, <2>1, SumIsNatural
<1>. QED
  BY <1>2, <1>3, <1>4 DEF SumFunction

\* The step adds the weight of a vote that accrues to the votes of w.
GrowsBy(v, e, w, power) ==
  SumFunction(VotesOf(w))' =
    IF e \in DOMAIN events
      THEN SumFunction(VotesOf(w)) + (IF Accrues(v, e) /\ w = v THEN power ELSE 0)
      ELSE SumFunction(VotesOf(w)) + VotesOf(w)'[e]

\* A vote on an event takes nothing from what the validators have on record,
\* and one that accrues adds what it weighs.
LEMMA VotesOfGrow ==
  ASSUME EventsSound, EventsSound', NEW v, NEW e, NEW w, NEW power \in Nat,
         DOMAIN events' = DOMAIN events \union {e},
         \A x \in DOMAIN events \ {e} : events'[x] = events[x],
         e \in DOMAIN events => VotesKept(events[e], events'[e]),
         e \in DOMAIN events =>
           DOMAIN events'[e].votes = DOMAIN events[e].votes \union {v},
         Accrues(v, e) => events'[e].votes[v] = power
  PROVE  GrowsBy(v, e, w, power)
<1>. DEFINE f == VotesOf(w)
            g == VotesOf(w)'
<1>1. /\ NaturalOn(f, DOMAIN events)
      /\ SumFunction(f) = SumFunctionOnSet(f, DOMAIN events) /\ SumFunction(f) \in Nat
  BY VotesOfTyped
<1>2. /\ DOMAIN g = DOMAIN events'
      /\ \A x \in DOMAIN events' :
           g[x] = IF w \in DOMAIN events'[x].votes THEN events'[x].votes[w] ELSE 0
  BY DEF VotesOf
<1>3. \A x \in DOMAIN events :
        f[x] = IF w \in DOMAIN events[x].votes THEN events[x].votes[w] ELSE 0
  BY DEF VotesOf
<1>4. g[e] \in Nat
  BY <1>2 DEF EventsSound, RecordSound, EventRecord, Weights
<1>5. \A x \in DOMAIN events \ {e} : g[x] = f[x]
  BY <1>2, <1>3
<1>6. IsFiniteSet(DOMAIN events)
  BY DEF EventsSound
<1>7. SumFunction(g) = SumFunctionOnSet(g, DOMAIN events')
  BY <1>2 DEF SumFunction
<1>. HIDE DEF f, g
<1>8. CASE e \in DOMAIN events
  <2>1. DOMAIN events' = DOMAIN events
    BY <1>8
  <2>2. SumFunctionOnSet(g, DOMAIN events) = SumFunctionOnSet(f, DOMAIN events) + g[e] - f[e]
    BY <1>1, <1>4, <1>5, <1>6, <1>8, SumChangesAtOne
  <2>3. f[e] \in Nat
    BY <1>1, <1>8 DEF NaturalOn
  <2>4. g[e] = f[e] + (IF Accrues(v, e) /\ w = v THEN power ELSE 0)
    BY <1>2, <1>3, <1>8, <2>1, <2>3 DEF Accrues, VotesKept
  <2>5. SumFunction(g) = SumFunction(f) + (IF Accrues(v, e) /\ w = v THEN power ELSE 0)
    BY <1>1, <1>7, <2>1, <2>2, <2>3, <2>4
  <2>. QED
    BY <1>8, <2>5 DEF f, g, GrowsBy
<1>9. CASE e \notin DOMAIN events
  <2>1. SumFunctionOnSet(g, DOMAIN events \union {e}) = SumFunctionOnSet(f, DOMAIN events) + g[e]
    <3>1. \A x \in DOMAIN events : g[x] = f[x]
      BY <1>5, <1>9
    <3>. QED
      BY <1>1, <1>4, <1>6, <1>9, <3>1, SumGrows
  <2>. QED
    BY <1>1, <1>7, <1>9, <2>1 DEF f, g, GrowsBy
<1>. QED
  BY <1>8, <1>9

LEMMA RegisterEventKeeps ==
  ASSUME HubInv, NEW v \in Shareds, NEW e \in Events, NEW p \in Payloads,
         RegisterEvent(v, e, p)
  PROVE  HubInv' /\ Accumulates
<1>. DEFINE old == IF e \in DOMAIN events THEN events[e] ELSE NewEvent
            record == WithVote(old, v)
            power == validators[v].power
            before == IF v \in DOMAIN ledger.voteWeights THEN ledger.voteWeights[v] ELSE 0
            weights == IF Accrues(v, e) THEN Put(ledger.voteWeights, v, before + power)
                                        ELSE ledger.voteWeights
            voted == IF Accrues(v, e) THEN AccrueVote(ledger, v, power) ELSE ledger
            executes == ReachesQuorum(record)
            after == [record EXCEPT !.isValidated = executes]
<1>1. /\ MayVote(v) /\ StillOpen(e)
      /\ events' = Put(events, e, after)
      /\ ledger' = IF executes THEN Dispatched(voted, p) ELSE voted
      /\ settled' = [settled EXCEPT ![e] = IF executes THEN @ + 1 ELSE @]
      /\ UNCHANGED <<validatorVars, quorum, settleable>>
  BY DEF RegisterEvent
<1>2. /\ RecordSound(record) /\ VotesKept(old, record)
      /\ DOMAIN record.votes = DOMAIN old.votes \union {v}
      /\ v \notin DOMAIN old.votes => record.votes[v] = power
  <2>1. RecordSound(old)
    BY NewEventSound DEF HubInv, EventsSound
  <2>. QED
    BY <1>1, <2>1, WithVoteSound DEF HubInv
<1>3. ReturnEpoch \in Nat /\ v \in DOMAIN validators /\ power \in Nat
  BY <1>1, ReturnEpochIsNatural
  DEF HubInv, MayVote, ValidatorsInv, ValidatorsTypeOK, ValidatorRecord
<1>4. /\ LedgerSound(voted) /\ WeightsOf(voted, weights)
      /\ DOMAIN weights \subseteq DOMAIN validators
  <2>1. CASE Accrues(v, e)
    <3>1. DOMAIN Put(ledger.voteWeights, v, before + power) = DOMAIN ledger.voteWeights \union {v}
      BY DEF Put
    <3>. QED
      BY <1>3, <2>1, <3>1, AccruedVoteSound DEF HubInv
  <2>2. CASE ~Accrues(v, e)
    BY <2>2 DEF HubInv, WeightsOf
  <2>. QED
    BY <2>1, <2>2
<1>. HIDE DEF old, record, voted, power
<1>5. LedgerSound(ledger') /\ WeightsOf(ledger', weights)
  <2>1. p.payer \in Shareds
    BY HubConsensusAssumption
  <2>2. LedgerSound(Dispatched(voted, p)) /\ Dispatched(voted, p).voteWeights = voted.voteWeights
    BY <1>4, <2>1, AccruedFeeSound DEF Dispatched
  <2>. QED
    BY <1>1, <1>4, <2>2 DEF WeightsOf
<1>6. executes \in BOOLEAN
  BY Zenon DEF ReachesQuorum
<1>. HIDE DEF executes
<1>7. /\ after \in EventRecord
      /\ after.votes = record.votes /\ after.totalWeight = record.totalWeight
      /\ after.isValidated = executes
  BY <1>2, <1>6 DEF RecordSound, EventRecord
<1>. HIDE DEF after
<1>8. RecordSound(after)
  BY <1>2, <1>7 DEF RecordSound
<1>9. /\ DOMAIN events' = DOMAIN events \union {e}
      /\ events'[e] = after
      /\ \A x \in DOMAIN events \ {e} : events'[x] = events[x]
  BY <1>1 DEF Put
<1>10. UNCHANGED validatorVars /\ UNCHANGED validators
  BY <1>1 DEF validatorVars
<1>11. EventsSound'
  <2>1. IsFiniteSet(DOMAIN events')
    BY <1>9, FS_AddElement DEF HubInv, EventsSound
  <2>. QED
    BY <1>8, <1>9, <1>10, <2>1 DEF HubInv, EventsSound, RecordSound
<1>12. settled' \in [Events -> Nat] /\ SettledAtMostOnce'
  BY <1>1, <1>6, <1>7, <1>9 DEF HubInv, SettledAtMostOnce, StillOpen
<1>13. LedgerSound(ledger)' /\ DOMAIN ledger'.voteWeights \subseteq DOMAIN validators
  BY <1>4, <1>5 DEF LedgerSound, WeightsOf
<1>14. Accumulates
  <2>1. ~ (e \in DOMAIN events /\ events[e].isValidated)
    BY <1>1 DEF StillOpen
  <2>. QED
    BY <1>2, <1>7, <1>9, <2>1 DEF Accumulates, VotesKept, old
<1>15. RewardsBackedByVotes'
  <2>. SUFFICES ASSUME NEW w \in DOMAIN ledger'.voteWeights
                PROVE  ledger'.voteWeights[w] <= SumFunction(VotesOf(w))'
    BY DEF RewardsBackedByVotes
  <2>1. SumFunction(VotesOf(w)) \in Nat
    BY VotesOfTyped DEF HubInv
  <2>2. SumFunction(VotesOf(w))' =
          IF e \in DOMAIN events
            THEN SumFunction(VotesOf(w)) + (IF Accrues(v, e) /\ w = v THEN power ELSE 0)
            ELSE SumFunction(VotesOf(w)) + VotesOf(w)'[e]
    <3>1. /\ e \in DOMAIN events => VotesKept(events[e], events'[e])
          /\ e \in DOMAIN events =>
               DOMAIN events'[e].votes = DOMAIN events[e].votes \union {v}
          /\ Accrues(v, e) => events'[e].votes[v] = power
      BY <1>2, <1>7, <1>9 DEF old, VotesKept, Accrues
    <3>2. PICK added \in Nat : added = power
      BY <1>3
    <3>3. EventsSound /\ (Accrues(v, e) => events'[e].votes[v] = added)
      BY <3>1, <3>2 DEF HubInv
    <3>4. GrowsBy(v, e, w, added)
      BY <1>9, <1>11, <3>1, <3>3, VotesOfGrow
    <3>. QED
      BY <3>2, <3>4 DEF GrowsBy
  <2>3. e \notin DOMAIN events => VotesOf(w)'[e] \in Nat
    BY <1>9, <1>11 DEF VotesOf, EventsSound, RecordSound, EventRecord, Weights
  <2>4. w \in DOMAIN ledger.voteWeights =>
          /\ ledger.voteWeights[w] \in Nat
          /\ ledger.voteWeights[w] <= SumFunction(VotesOf(w))
    BY DEF HubInv, RewardsBackedByVotes, LedgerSound, Ledger, Weights
  <2>5. w \in DOMAIN weights /\ ledger'.voteWeights[w] = weights[w]
    BY <1>5 DEF WeightsOf
  <2>6. CASE Accrues(v, e) /\ w = v
    <3>1. weights[w] = before + power
      BY <2>6 DEF Put
    <3>2. before \in Nat /\ before <= SumFunction(VotesOf(w))
      BY <2>1, <2>4, <2>6
    <3>3. SumFunction(VotesOf(w))' = SumFunction(VotesOf(w)) + power
      BY <2>2, <2>6 DEF Accrues
    <3>. HIDE DEF before
    <3>. QED
      BY <1>3, <2>1, <2>5, <3>1, <3>2, <3>3
  <2>7. CASE ~ (Accrues(v, e) /\ w = v)
    <3>1. w \in DOMAIN ledger.voteWeights /\ weights[w] = ledger.voteWeights[w]
      BY <2>5, <2>7 DEF Put
    <3>2. \/ SumFunction(VotesOf(w))' = SumFunction(VotesOf(w)) + 0
          \/ /\ SumFunction(VotesOf(w))' = SumFunction(VotesOf(w)) + VotesOf(w)'[e]
             /\ VotesOf(w)'[e] \in Nat
      BY <2>2, <2>3, <2>7
    <3>. QED
      BY <2>1, <2>4, <2>5, <3>1, <3>2
  <2>. QED
    BY <2>6, <2>7
<1>16. HubInv'
  BY <1>1, <1>10, <1>11, <1>12, <1>13, <1>15, ValidatorsStutter DEF HubInv
<1>. QED
  BY <1>16, <1>14

\* Events, and what was settled, stay as they are, and no weight is accrued.
LEMMA EventsKept ==
  ASSUME HubInv, UNCHANGED <<events, settled>>, WeightsOf(ledger', ledger.voteWeights)
  PROVE  SettledAtMostOnce' /\ RewardsBackedByVotes' /\ Accumulates
<1>1. \A w : VotesOf(w)' = VotesOf(w)
  BY DEF VotesOf
<1>2. RewardsBackedByVotes'
  BY <1>1 DEF HubInv, RewardsBackedByVotes, WeightsOf
<1>. QED
  BY <1>2 DEF HubInv, SettledAtMostOnce, Accumulates

\* Every step keeps the invariant and the votes.
LEMMA HubStep ==
  ASSUME HubInv, [Next]_vars
  PROVE  HubInv' /\ Accumulates
<1>. DEFINE Kept == HubInv' /\ Accumulates
<1>1. CASE ValidatorsNext /\ UNCHANGED consensusVars
  <2>1. /\ UNCHANGED <<events, ledger, quorum, settleable, settled>>
        /\ ValidatorsInv' /\ DOMAIN validators \subseteq DOMAIN validators'
    BY <1>1, ValidatorsStep DEF HubInv, consensusVars
  <2>2. EventsSound'
    BY <2>1 DEF HubInv, EventsSound, RecordSound
  <2>3. LedgerSound(ledger)' /\ DOMAIN ledger'.voteWeights \subseteq DOMAIN validators'
    BY <2>1 DEF HubInv, LedgerSound
  <2>. QED
    BY <2>1, <2>2, <2>3, EventsKept DEF HubInv, WeightsOf
<1>2. ASSUME NEW v \in Shareds, NEW e \in Events, NEW p \in Payloads,
             RegisterEvent(v, e, p)
      PROVE  Kept
  BY <1>2, RegisterEventKeeps
<1>3. CASE TriggerEpochDistribution
  <2>1. /\ UNCHANGED <<validatorVars, events, quorum, settleable, settled>>
        /\ ledger' = DistributeRewards(ledger)
    BY <1>3 DEF TriggerEpochDistribution
  <2>2. ReturnEpoch \in Nat
    BY ReturnEpochIsNatural DEF HubInv, ValidatorsInv
  <2>3. /\ LedgerSound(ledger') /\ WeightsOf(ledger', ledger.voteWeights)
        /\ DOMAIN ledger'.voteWeights \subseteq DOMAIN validators
    BY <2>1, <2>2, DistributionSound DEF HubInv, WeightsOf
  <2>4. LedgerSound(ledger)' /\ validators' = validators /\ ValidatorsInv'
    BY <2>1, <2>3, ValidatorsStutter DEF HubInv, LedgerSound, validatorVars
  <2>5. EventsSound'
    BY <2>1, <2>4 DEF HubInv, EventsSound, RecordSound
  <2>. QED
    BY <2>1, <2>3, <2>4, <2>5, EventsKept DEF HubInv
<1>4. CASE /\ UNCHANGED <<validatorVars, events, ledger, settled>>
           /\ quorum' \in Quorums /\ settleable' \subseteq Payloads
  <2>1. validators' = validators /\ ValidatorsInv'
    BY <1>4, ValidatorsStutter DEF HubInv, validatorVars
  <2>2. EventsSound' /\ LedgerSound(ledger)'
    BY <1>4, <2>1 DEF HubInv, EventsSound, RecordSound, LedgerSound
  <2>. QED
    BY <1>4, <2>1, <2>2, EventsKept DEF HubInv, WeightsOf
<1>5. ASSUME NEW q \in Quorums, SetQuorum(q)
      PROVE  Kept
  BY <1>4, <1>5 DEF SetQuorum, HubInv
<1>6. ASSUME NEW p \in Payloads, SettlementChanges(p)
      PROVE  Kept
  BY <1>4, <1>6 DEF SettlementChanges, SymDiff, HubInv
<1>7. CASE UNCHANGED vars
  BY <1>4, <1>7 DEF vars, consensusVars, HubInv
<1>. QED
  BY <1>1, <1>2, <1>3, <1>5, <1>6, <1>7 DEF Next

LEMMA HubStart == Init => HubInv
<1>. SUFFICES ASSUME Init PROVE HubInv
  OBVIOUS
<1>1. ValidatorsInv /\ ReturnEpoch \in Nat
  BY ValidatorsStart, ReturnEpochIsNatural DEF Init, ValidatorsInv
<1>2. EventsSound /\ SettledAtMostOnce /\ settled \in [Events -> Nat]
  BY FS_EmptySet DEF Init, EventsSound, SettledAtMostOnce
<1>3. ledger \in Ledger
  BY <1>1, NoWeights DEF Init, Ledger
<1>4. /\ ledger.voteWeights = <<>> /\ ledger.totalWeight = 0
      /\ ledger.credited = 0 /\ ledger.totalCredits = 0 /\ ledger.collected = 0
  BY DEF Init
<1>5. LedgerSound(ledger) /\ DOMAIN ledger.voteWeights \subseteq DOMAIN validators
  BY <1>3, <1>4, NoWeights DEF LedgerSound
<1>6. RewardsBackedByVotes
  BY <1>4, NoWeights DEF RewardsBackedByVotes
<1>. QED
  BY <1>1, <1>2, <1>5, <1>6 DEF Init, HubInv

LEMMA HubInvHolds == Spec => []HubInv
<1>1. HubInv /\ [Next]_vars => HubInv'
  BY HubStep
<1>. QED
  BY HubStart, <1>1, PTL DEF Spec

-------------------------------------------------------------------------------
(* What holds in every behaviour of the hub *)

\* The hub implements its validator set: votes, dispatches, distributions and
\* settings are no steps of it, so that what is proved of the pending list, of
\* the active list and of rotations holds while the hub votes and settles.
THEOREM HubImplementsValidators == Spec => ValidatorsSpec
<1>1. Init => ValidatorsInit
  BY DEF Init
<1>2. [Next]_vars => [ValidatorsNext \/ Administration]_validatorVars
  <2>. SUFFICES ASSUME [Next]_vars
                PROVE  ValidatorsNext \/ UNCHANGED validatorVars
    OBVIOUS
  <2>1. ASSUME NEW v \in Shareds, NEW e \in Events, NEW p \in Payloads,
               RegisterEvent(v, e, p)
        PROVE  UNCHANGED validatorVars
    BY <2>1 DEF RegisterEvent
  <2>2. CASE TriggerEpochDistribution
    BY <2>2 DEF TriggerEpochDistribution
  <2>3. ASSUME NEW q \in Quorums, SetQuorum(q)
        PROVE  UNCHANGED validatorVars
    BY <2>3 DEF SetQuorum
  <2>4. ASSUME NEW p \in Payloads, SettlementChanges(p)
        PROVE  UNCHANGED validatorVars
    BY <2>4 DEF SettlementChanges
  <2>5. CASE UNCHANGED vars
    BY <2>5 DEF vars
  <2>. QED
    BY <2>1, <2>2, <2>3, <2>4, <2>5 DEF Next
<1>. QED
  BY <1>1, <1>2, PTL DEF Spec, ValidatorsSpec

\* The state of votes and accounting has its types in every behaviour: only
\* registered validators are recorded as voters, each with a positive weight.
THEOREM HubTyped == Spec => []TypeOK
<1>1. ASSUME HubInv
      PROVE  TypeOK
  <2>1. \A e \in DOMAIN events :
          /\ DOMAIN events[e].votes \subseteq DOMAIN validators
          /\ \A v \in DOMAIN events[e].votes : events[e].votes[v] \in Nat \ {0}
          /\ events[e].totalWeight \in Nat
          /\ events[e].isValidated \in BOOLEAN
    <3>. SUFFICES ASSUME NEW e \in DOMAIN events
                  PROVE  /\ DOMAIN events[e].votes \subseteq DOMAIN validators
                         /\ \A v \in DOMAIN events[e].votes : events[e].votes[v] \in Nat \ {0}
                         /\ events[e].totalWeight \in Nat
                         /\ events[e].isValidated \in BOOLEAN
      OBVIOUS
    <3>1. RecordSound(events[e])
      BY <1>1 DEF HubInv, EventsSound
    <3>2. /\ events[e].votes \in Weights /\ events[e].totalWeight \in Nat
          /\ events[e].isValidated \in BOOLEAN
      BY <3>1 DEF RecordSound, EventRecord
    <3>3. \A v \in DOMAIN events[e].votes : events[e].votes[v] \in Nat
      BY <3>2 DEF Weights
    <3>. QED
      BY <3>1, <3>2, <3>3 DEF RecordSound
  <2>2. /\ ledger.epoch \in Nat /\ ledger.totalCredits \in Nat /\ ledger.totalWeight \in Nat
        /\ ledger.credit \in [Shareds -> [value : Nat, isPositive : BOOLEAN]]
        /\ ledger.minted \in [Shareds -> Nat]
    BY <1>1 DEF HubInv, LedgerSound, Ledger
  <2>. QED
    BY <1>1, <2>1, <2>2 DEF TypeOK, HubInv, ValidatorsInv, EventsSound
<1>. QED
  BY <1>1, HubInvHolds, PTL

\* No event is ever dispatched twice, and it is dispatched exactly when it is
\* marked validated (chains.move, register_event).
THEOREM NoEventSettledTwice == Spec => []SettledAtMostOnce
<1>1. HubInv => SettledAtMostOnce
  BY DEF HubInv
<1>. QED
  BY <1>1, HubInvHolds, PTL

\* The weight of every event stays the sum of the votes recorded for it,
\* whatever happens to the stakes of its voters afterwards.
THEOREM EventWeightIsSumOfVotes == Spec => []WeightIsSumOfVotes
<1>1. HubInv => WeightIsSumOfVotes
  BY DEF HubInv, EventsSound, RecordSound, WeightIsSumOfVotes
<1>. QED
  BY <1>1, HubInvHolds, PTL

\* The rounded shares of all voters never exceed the fees of their epoch, so
\* that over all epochs no more is given back than was collected.
THEOREM FeesAreNeverOverpaid == Spec => []FeesNotOverpaid
<1>1. HubInv => FeesNotOverpaid
  BY DEF HubInv, LedgerSound, FeesNotOverpaid
<1>. QED
  BY <1>1, HubInvHolds, PTL

\* No step takes a vote from an event or changes its weight, and a validated
\* event is final.
THEOREM VotesAreNeverLost == Spec => VotesOnlyAccumulate
<1>1. HubInv /\ [Next]_vars => [Accumulates]_vars
  BY HubStep
<1>. QED
  BY <1>1, HubInvHolds, PTL DEF Spec, VotesOnlyAccumulate, Accumulates

\* What an epoch holds for a validator never exceeds the votes it has on
\* record, so that a distribution (distribute_rewards) shares fees and
\* emissions over votes that were given, each of them counted once.
THEOREM RewardsAreBacked == Spec => []RewardsBackedByVotes
<1>1. HubInv => RewardsBackedByVotes
  BY DEF HubInv
<1>. QED
  BY <1>1, HubInvHolds, PTL
===============================================================================
