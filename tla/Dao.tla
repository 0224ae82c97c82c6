--------------------------------- MODULE Dao ----------------------------------
(***************************************************************************)
(* Proposals and votes of the shared storages                              *)
(* (Aptos/Governance/sources/Governance.move), by entry functions on Aptos *)
(* or by events of other chains (Solana/programs/governance/src/lib.rs)    *)
(* that the hub settles later and in any order.  A passed proposal lets    *)
(* the script it names act for the DAO, once.                              *)
(***************************************************************************)
EXTENDS SharedStorages, Sequences

CONSTANTS
  Voters,          \* storages that calls name
  Scripts,         \* name, description, code and execution_hash of a proposal
  Durations,
  Stakes,          \* amounts of staked Qiara
  MaxProposals, MaxTime,   \* bounds
  MaxU64

DaoRequests ==
  [ kind : {"propose"}, user : Addresses, name : Texts, script : Scripts,
    duration : Durations ]
  \union
  [ kind : {"vote"}, user : Addresses, name : Texts, proposalId : Nat, isYes : BOOLEAN ]

ASSUME DaoAssumption ==
  /\ Voters \subseteq Texts
  /\ Durations \subseteq Nat /\ Stakes \subseteq Nat
  /\ MaxProposals \in Nat /\ MaxTime \in Nat \ {0} /\ MaxU64 \in Nat
  /\ Asked("propose") \union Asked("vote") \subseteq DaoRequests

VARIABLES
  now,             \* timestamp::now_seconds
  staked,          \* Margin::get_user_total_staked_qiara of each storage
  proposals,       \* GovernanceStorage.proposals
  cast,            \* history: the Vote events
  executions       \* history: how often each proposal lent out the signer

daoVars == <<now, staked, proposals, cast, executions>>
vars == <<sharedVars, daoVars>>

Votes == [id : Nat, shared : Texts, weight : Nat, isYes : BOOLEAN]

Proposal ==
  [ shared : Texts, script : Scripts, end : Nat, yes : Nat, no : Nat,
    voters : SUBSET Texts, executed : BOOLEAN ]

DaoTypeOK ==
  /\ now \in Nat
  /\ staked \in [Texts -> Stakes \union {0}]
  /\ proposals \in Seq(Proposal)
  /\ cast \subseteq Votes
  /\ executions \in [1 .. Len(proposals) -> Nat]

DaoInit ==
  /\ now = 1
  /\ staked \in {f \in [Texts -> Stakes \union {0}] :
                  \A n \in Texts \ Voters : f[n] = 0}
  /\ proposals = <<>>
  /\ cast = {}
  /\ executions = <<>>

Tick ==
  /\ now < MaxTime
  /\ now' = now + 1
  /\ UNCHANGED <<sharedVars, staked, proposals, cast, executions>>

\* Qiara is staked and unstaked at any time, before and after a vote.
MoveStake(shared, amount) ==
  /\ staked' = [staked EXCEPT ![shared] = amount]
  /\ UNCHANGED <<sharedVars, now, proposals, cast, executions>>

-------------------------------------------------------------------------------
(* Governance.move; a proposal's id is its place, counted from zero *)

Propose(shared, script, duration) ==
  /\ Len(proposals) < MaxProposals
  /\ now + duration <= MaxU64
  /\ proposals' = Append(proposals,
       [ shared |-> shared, script |-> script, end |-> now + duration,
         yes |-> 0, no |-> 0, voters |-> {}, executed |-> FALSE ])
  /\ executions' = Append(executions, 0)
  /\ UNCHANGED <<now, staked, cast>>

OpenTooLong(p) == now <= p.end + 1           \* mutant: off by one

Open(p) == now <= p.end

CountedYesOnly(p, shared, weight, isYes) ==  \* mutant: only yes is remembered
  IF isYes THEN [p EXCEPT !.yes = p.yes + weight, !.voters = p.voters \union {shared}]
           ELSE [p EXCEPT !.no = p.no + weight]

Counted(p, shared, weight, isYes) ==
  IF isYes THEN [p EXCEPT !.yes = p.yes + weight, !.voters = p.voters \union {shared}]
           ELSE [p EXCEPT !.no = p.no + weight, !.voters = p.voters \union {shared}]

Vote(shared, id, isYes) ==
  LET weight == staked[shared] IN
  /\ id < Len(proposals)
  /\ shared \notin proposals[id + 1].voters
  /\ Open(proposals[id + 1])
  /\ proposals' = [proposals EXCEPT ![id + 1] =
                     Counted(proposals[id + 1], shared, weight, isYes)]
  /\ cast' = cast \union
       {[id |-> id, shared |-> shared, weight |-> weight, isYes |-> isYes]}
  /\ UNCHANGED <<now, staked, executions>>

Passed(p) == now > p.end /\ p.yes > p.no

\* mutant: a proposal may be executed again
ResolveAgain(id, script) ==
  /\ id < Len(proposals)
  /\ Passed(proposals[id + 1])
  /\ script = proposals[id + 1].script
  /\ proposals' = [proposals EXCEPT ![id + 1].executed = TRUE]
  /\ executions' = [executions EXCEPT ![id + 1] = executions[id + 1] + 1]
  /\ UNCHANGED <<now, staked, cast>>

\* The script runs with the signer of the DAO.
resolve(id, script) ==
  /\ id < Len(proposals)
  /\ ~proposals[id + 1].executed
  /\ Passed(proposals[id + 1])
  /\ script = proposals[id + 1].script
  /\ proposals' = [proposals EXCEPT ![id + 1].executed = TRUE]
  /\ executions' = [executions EXCEPT ![id + 1] = executions[id + 1] + 1]
  /\ UNCHANGED <<now, staked, cast>>

-------------------------------------------------------------------------------
(* Entry functions ask for no storage of the signer's own *)

propose(shared, script, duration) ==
  Propose(shared, script, duration) /\ UNCHANGED sharedVars

vote(shared, id, isYes) == Vote(shared, id, isYes) /\ UNCHANGED sharedVars

(* Events of other chains, and their settlement after the fee was charged *)

m_propose(r) == emit_event(r) /\ UNCHANGED daoVars
m_vote(r) == emit_event(r) /\ UNCHANGED daoVars

SettlePropose(r) ==
  /\ Chargeable(r)
  /\ Settle(r) /\ UNCHANGED tables
  /\ Propose(r.name, r.script, r.duration)

SettleVote(r) ==
  /\ Chargeable(r)
  /\ Settle(r) /\ UNCHANGED tables
  /\ Vote(r.name, r.proposalId, r.isYes)

-------------------------------------------------------------------------------
DaoStep ==
  \/ \E shared \in Voters, script \in Scripts, duration \in Durations :
       propose(shared, script, duration)
  \/ \E shared \in Voters, id \in 0 .. MaxProposals, isYes \in BOOLEAN :
       vote(shared, id, isYes)
  \/ \E id \in 0 .. MaxProposals, script \in Scripts :
       resolve(id, script) /\ UNCHANGED sharedVars
  \/ \E r \in Asked("propose") : m_propose(r) \/ SettlePropose(r)
  \/ \E r \in Asked("vote") : m_vote(r) \/ SettleVote(r)
  \/ \E shared \in Voters, amount \in Stakes : MoveStake(shared, amount)
  \/ Tick

Init == SharedInit /\ DaoInit
Next == DaoStep \/ (SharedNext /\ UNCHANGED daoVars)

Spec == Init /\ [][Next]_vars

-------------------------------------------------------------------------------
(* Properties *)

WeightOf(votes) == SumFunction([v \in votes |-> v.weight])

Tally(id, isYes) == WeightOf({v \in cast : v.id = id /\ v.isYes = isYes})

\* A tally is the sum of the votes, weighed when they were counted and never
\* again, and a storage has one voice, whether it votes on Aptos, on Solana or
\* on both while a settlement is under way (Governance.move:131-141).
TallyIsVotes ==
  \A i \in DOMAIN proposals :
    LET p == proposals[i] ballots == {v \in cast : v.id = i - 1} IN
    /\ p.yes = Tally(i - 1, TRUE) /\ p.no = Tally(i - 1, FALSE)
    /\ \A v, w \in ballots : v.shared = w.shared => v = w

\* Voting and executing never overlap: from the first moment a proposal could
\* be executed its votes stay as they are, so late settlements of votes and
\* moved stakes cannot change its fate (Governance.move:132, 165).
FateSealed ==
  [][ \A i \in DOMAIN proposals :
        now > proposals[i].end =>
          /\ proposals'[i].yes = proposals[i].yes /\ proposals'[i].no = proposals[i].no
          /\ proposals'[i].executed =>
               proposals[i].executed \/ proposals[i].yes > proposals[i].no ]_vars

\* A proposal lends the signer of the DAO once, and never while its votes can
\* still change (Governance.move:164-172).
ExecutedAtMostOnce ==
  \A i \in DOMAIN proposals :
    /\ executions[i] = (IF proposals[i].executed THEN 1 ELSE 0)
    /\ proposals[i].executed =>
         now > proposals[i].end /\ proposals[i].yes > proposals[i].no

\* An id means one proposal for ever: what was voted for on another chain is
\* what the vote is counted for, however late (Governance.move:79, 129).
ProposalsStay ==
  [][ /\ Len(proposals) <= Len(proposals')
      /\ \A i \in DOMAIN proposals :
           /\ proposals'[i].shared = proposals[i].shared
           /\ proposals'[i].script = proposals[i].script
           /\ proposals'[i].end = proposals[i].end
           /\ proposals[i].voters \subseteq proposals'[i].voters ]_vars
===============================================================================
