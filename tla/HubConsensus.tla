---------------------------- MODULE HubConsensus -----------------------------
(***************************************************************************)
(* Votes of the validators on bridge events (Bridge/sources/chains.move),  *)
(* and the per-epoch accounting of fees and vote rewards                   *)
(* (Bridge/sources/validators.move, PerEpoch), on top of the validator set.*)
(* An event is its nullifier, the hash of a raw payload. What a call asks  *)
(* to be dispatched are its own arguments, type_names and payload, which   *)
(* nothing binds to the nullifier, and the caller names the validator it   *)
(* votes for, which nothing compares with the recovered signer: any call   *)
(* is made with any validator, any nullifier and any payload.              *)
(***************************************************************************)
EXTENDS HubValidators

CONSTANTS
  Events,            \* nullifiers
  Payloads,          \* what a call submits with one: [kind, payer]
  FlatFee,           \* ("QiaraBridge", "FLAT_USD_FEE")
  Emissions,         \* TokensQiara::calculate_emissions
  Quorums            \* the settings [weight, unique] governance may choose

\* What the event type dispatches to: a fee and a settlement call, nothing
\* ("Modular Qiara Bridge"), or an abort (a type the hub does not know). A
\* payload of consensus type "none" makes the call return at once: a stutter.
Kinds == {"settled", "empty", "unknown"}

ASSUME HubConsensusAssumption ==
  /\ Payloads \subseteq [kind : Kinds, payer : Shareds]
  /\ FlatFee \in Nat /\ Emissions \in Nat
  /\ Quorums \subseteq [weight : Nat, unique : Nat]

VARIABLES
  events,        \* EventsStore.main: votes, total_weight and is_validated
  ledger,        \* PerEpoch, and what it took from and gave to accounts
  quorum,        \* MINIMUM_REQUIRED_VOTED_WEIGHT and MINIMUM_UNIQUE_VALIDATORS
  settleable,    \* the payloads whose settlement call would not abort now
  settled        \* history: how often each event was dispatched

consensusVars == <<events, ledger, quorum, settleable, settled>>
vars == <<validatorVars, consensusVars>>

Put(f, k, v) == [x \in DOMAIN f \union {k} |-> IF x = k THEN v ELSE f[x]]

\* The ledger: PerEpoch (epoch, totalCredits, totalWeight, voteWeights), the
\* credit of each shared storage in Margin, the Qiara minted to each owner;
\* collected and credited are history: all fees taken and all given back.
TypeOK ==
  /\ ValidatorsTypeOK
  /\ DOMAIN events \subseteq Events
  /\ \A e \in DOMAIN events :
       /\ DOMAIN events[e].votes \subseteq DOMAIN validators
       /\ \A v \in DOMAIN events[e].votes : events[e].votes[v] \in Nat \ {0}
       /\ events[e].totalWeight \in Nat
       /\ events[e].isValidated \in BOOLEAN
  /\ ledger.epoch \in Nat /\ ledger.totalCredits \in Nat
  /\ ledger.totalWeight \in Nat
  /\ DOMAIN ledger.voteWeights \subseteq DOMAIN validators
  /\ ledger.credit \in [Shareds -> [value : Nat, isPositive : BOOLEAN]]
  /\ ledger.minted \in [Shareds -> Nat]
  /\ quorum \in Quorums
  /\ settleable \subseteq Payloads
  /\ settled \in [Events -> Nat]

Init ==
  /\ ValidatorsInit
  /\ events = <<>>
  /\ ledger = [ epoch |-> ReturnEpoch, totalCredits |-> 0, totalWeight |-> 0,
                voteWeights |-> <<>>,
                credit |-> [s \in Shareds |-> [value |-> 0, isPositive |-> TRUE]],
                minted |-> [s \in Shareds |-> 0],
                collected |-> 0, credited |-> 0 ]
  /\ quorum \in Quorums
  /\ settleable \in SUBSET Payloads
  /\ settled = [e \in Events |-> 0]

-------------------------------------------------------------------------------
(* The per-epoch accounting *)

\* Margin::remove_credit: a credit that is too small turns into a debt.
RemoveCredit(credit, amount) ==
  IF ~credit.isPositive THEN [credit EXCEPT !.value = @ + amount]
  ELSE IF amount > credit.value
    THEN [value |-> amount - credit.value, isPositive |-> FALSE]
  ELSE [credit EXCEPT !.value = @ - amount]

\* Margin::add_credit adds to the magnitude, whatever the sign.
AddCredit(credit, amount) == [credit EXCEPT !.value = @ + amount]

AccrueFee(l, payer) ==
  [l EXCEPT !.credit = [l.credit EXCEPT ![payer] = RemoveCredit(l.credit[payer], FlatFee)],
            !.totalCredits = @ + FlatFee,
            !.collected = @ + FlatFee]

Share(l, v, amount) == (l.voteWeights[v] * amount) \div l.totalWeight

Distributed(l, v, amount) ==
  IF v \in DOMAIN l.voteWeights THEN Share(l, v, amount) ELSE 0

\* All that the voters of the epoch get of its fees.
Shares(l) == [v \in DOMAIN l.voteWeights |-> Share(l, v, l.totalCredits)]

DistributeRewardsKeepingCredits(l) ==       \* mutant: total_credits not reset
  IF l.totalWeight = 0 THEN [l EXCEPT !.epoch = ReturnEpoch]
  ELSE [l EXCEPT
          !.epoch = ReturnEpoch,
          !.credit = [s \in Shareds |->
                        AddCredit(l.credit[s], Distributed(l, s, l.totalCredits))],
          !.minted = [s \in Shareds |-> l.minted[s] + Distributed(l, s, Emissions)],
          !.credited = @ + SumFunction(Shares(l)),
          !.totalWeight = 0,
          !.voteWeights = <<>>]

\* Every voter of the epoch gets its share, rounded down, of the fees and of
\* the emissions; without votes only the epoch moves on. The code aborts when
\* an owner is no address or a product is too wide: here it never does, which
\* adds behaviours in which a distribution goes through.
DistributeRewards(l) ==
  IF l.totalWeight = 0 THEN [l EXCEPT !.epoch = ReturnEpoch]
  ELSE [l EXCEPT
          !.epoch = ReturnEpoch,
          !.credit = [s \in Shareds |->
                        AddCredit(l.credit[s], Distributed(l, s, l.totalCredits))],
          !.minted = [s \in Shareds |-> l.minted[s] + Distributed(l, s, Emissions)],
          !.credited = @ + SumFunction(Shares(l)),
          !.totalCredits = 0,
          !.totalWeight = 0,
          !.voteWeights = <<>>]

\* A vote is added first; when it is the first of a new epoch, the rewards
\* of the past one are then distributed.
AccrueVote(l, v, weight) ==
  LET before == IF v \in DOMAIN l.voteWeights THEN l.voteWeights[v] ELSE 0
      voted == [l EXCEPT !.voteWeights = Put(l.voteWeights, v, before + weight),
                         !.totalWeight = @ + weight]
  IN  IF ReturnEpoch > l.epoch THEN DistributeRewards(voted) ELSE voted

TriggerEpochDistribution ==
  /\ ReturnEpoch > ledger.epoch
  /\ ledger' = DistributeRewards(ledger)
  /\ UNCHANGED <<validatorVars, events, quorum, settleable, settled>>

-------------------------------------------------------------------------------
(* Voting *)

NewEvent == [votes |-> <<>>, totalWeight |-> 0, isValidated |-> FALSE]

CountedTwice(record, v) ==                  \* mutant: a repeated vote adds weight
  [record EXCEPT !.votes = Put(record.votes, v, validators[v].power),
                 !.totalWeight = @ + validators[v].power]

VoteAlone(record, v) ==                     \* mutant: the map of votes built anew
  [record EXCEPT !.votes = Put(<<>>, v, validators[v].power),
                 !.totalWeight = validators[v].power]

\* The event record with the vote of v, whose weight is its recorded power;
\* a validator that votes again changes nothing.
WithVote(record, v) ==
  IF v \in DOMAIN record.votes THEN record
  ELSE [record EXCEPT !.votes = Put(record.votes, v, validators[v].power),
                      !.totalWeight = @ + validators[v].power]

ReachesQuorum(record) ==
  /\ record.totalWeight >= quorum.weight
  /\ Cardinality(DOMAIN record.votes) >= quorum.unique

Dispatched(l, p) == IF p.kind = "settled" THEN AccrueFee(l, p.payer) ELSE l

MayVoteWithoutPower(v) ==                   \* mutant: INVALID_VOTING_POWER dropped
  v \in DOMAIN validators /\ validators[v].isActive

MayVote(v) ==
  v \in DOMAIN validators /\ validators[v].isActive /\ validators[v].power > 0

AlwaysOpen(e) == e \in Events               \* mutant: DUPLICATE_EVENT dropped

StillOpen(e) == e \in DOMAIN events => ~events[e].isValidated

AccruesAgain(v, e) == e \in DOMAIN events   \* mutant: a repeated vote is rewarded

\* The vote that opens an event is not accrued for rewards, later ones are.
Accrues(v, e) == e \in DOMAIN events /\ v \notin DOMAIN events[e].votes

\* When the vote completes the quorum, the payload of this very call is
\* dispatched in the same transaction: if the dispatch aborts, the vote is not
\* recorded either.
RegisterEvent(v, e, p) ==
  LET record == WithVote(IF e \in DOMAIN events THEN events[e] ELSE NewEvent, v)
      voted == IF Accrues(v, e) THEN AccrueVote(ledger, v, validators[v].power)
                                ELSE ledger
      executes == ReachesQuorum(record)
  IN  /\ MayVote(v)
      /\ StillOpen(e)
      /\ executes => p.kind # "unknown" /\ p \in settleable
      /\ events' = Put(events, e, [record EXCEPT !.isValidated = executes])
      /\ ledger' = IF executes THEN Dispatched(voted, p) ELSE voted
      /\ settled' = [settled EXCEPT ![e] = IF executes THEN @ + 1 ELSE @]
      /\ UNCHANGED <<validatorVars, quorum, settleable>>

-------------------------------------------------------------------------------
(* The environment: governance constants, and the modules that settle *)

SetQuorum(q) ==
  /\ quorum' = q
  /\ UNCHANGED <<validatorVars, events, ledger, settleable, settled>>

SettlementChanges(p) ==
  /\ settleable' = SymDiff(settleable, {p})
  /\ UNCHANGED <<validatorVars, events, ledger, quorum, settled>>

Next ==
  \/ ValidatorsNext /\ UNCHANGED consensusVars
  \/ \E v \in Shareds, e \in Events, p \in Payloads : RegisterEvent(v, e, p)
  \/ TriggerEpochDistribution
  \/ \E q \in Quorums : SetQuorum(q)
  \/ \E p \in Payloads : SettlementChanges(p)

Spec == Init /\ [][Next]_vars

-------------------------------------------------------------------------------
(* Properties *)

\* An event is dispatched at most once, exactly when it is marked validated,
\* however often and by whomever it is submitted again.
SettledAtMostOnce ==
  \A e \in Events :
    settled[e] = IF e \in DOMAIN events /\ events[e].isValidated THEN 1 ELSE 0

\* The weight an event has gathered is the sum of the weights of different
\* validators, each as recorded when it voted.
WeightIsSumOfVotes ==
  \A e \in DOMAIN events : events[e].totalWeight = SumFunction(events[e].votes)

\* An event that is not dispatched by a step keeps its standing: stakes that
\* move after a vote, rotations and changes of the quorum neither add to nor
\* take from the votes, and a validated event never changes.
VotesOnlyAccumulate ==
  [][ \A e \in DOMAIN events :
        /\ e \in DOMAIN events'
        /\ \A v \in DOMAIN events[e].votes :
             v \in DOMAIN events'[e].votes /\ events'[e].votes[v] = events[e].votes[v]
        /\ events[e].isValidated => events'[e] = events[e] ]_vars

\* The votes that v has on record, by event.
VotesOf(v) ==
  [e \in DOMAIN events |->
     IF v \in DOMAIN events[e].votes THEN events[e].votes[v] ELSE 0]

\* No validator is rewarded for more than it voted: the weight an epoch holds
\* for it (acrue_vote) is backed by different recorded votes of it, however
\* often it votes again, and whoever else votes, dispatches or distributes.
RewardsBackedByVotes ==
  \A v \in DOMAIN ledger.voteWeights :
    ledger.voteWeights[v] <= SumFunction(VotesOf(v))

\* The weights of an epoch add up, so that no distribution hands out more
\* than its fees: what validators were credited and what is still to be
\* distributed never exceeds the fees collected.
FeesNotOverpaid ==
  /\ SumFunction(ledger.voteWeights) = ledger.totalWeight
  /\ ledger.credited + ledger.totalCredits <= ledger.collected

\* "Validate validator permissions and active status" (chains.move:118): a
\* vote is counted only from a validator of the active list, once there is one.
VotersAreActive ==
  [][ \A e \in DOMAIN events', v \in Shareds :
        /\ v \in DOMAIN events'[e].votes
        /\ e \in DOMAIN events => v \notin DOMAIN events[e].votes
        /\ active.list # <<>>
        => Contains(active.list, v) ]_vars
===============================================================================
