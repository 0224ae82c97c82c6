-------------------------------- MODULE MCDao ---------------------------------
(* An instance of Dao: two storages were created on Solana, whose owner votes *)
(* there while anybody votes on Aptos.                                        *)
EXTENDS Dao

CONSTANTS alice, sol, A, B, empty

MCTexts == {empty, A, B}

\* What is emitted: a proposal, a vote, and the owner that leaves a storage.
Ballots ==
  { [ kind |-> "propose", user |-> sol, name |-> A, script |-> "s", duration |-> 1 ],
    [ kind |-> "vote", user |-> sol, name |-> A, proposalId |-> 0, isYes |-> FALSE ],
    [ kind |-> "remove", chain |-> "solana", user |-> sol, name |-> A, subOwner |-> sol ] }

\* A vote that nobody emitted.
Foreign ==
  { [ kind |-> "vote", user |-> sol, name |-> B, proposalId |-> 0, isYes |-> TRUE ] }

MCRequests == Ballots \union Foreign
MCUnemitted == [r \in MCRequests |-> IF r \in Foreign THEN 1 ELSE 0]

\* Both storages exist, and have no users of their codes.
MCInit ==
  /\ DaoInit
  /\ storage = [n \in {A, B} |->
       [ owner |-> sol, subOwners |-> {sol}, refCode |-> n, tax |-> 1,
         usedRefCode |-> empty, users |-> 0 ]]
  /\ storageRegistry = [u \in {sol} |-> {A, B}]
  /\ refCodeRegistry = [c \in {A, B} |-> 1]
  /\ refCodeToShared = [c \in {A, B} |-> c]
  /\ emitted = [r \in Requests |-> 0] /\ settled = emitted

\* Only A proposes, and what nobody emits is not emitted.
MCNext ==
  /\ DaoStep \/ ((OnOtherChains \/ Settlement) /\ UNCHANGED daoVars)
  /\ \A r \in Foreign : emitted'[r] = 0
  /\ \A i \in DOMAIN proposals' : proposals'[i].shared = A

MCSpec == MCInit /\ [][MCNext]_vars
===============================================================================
