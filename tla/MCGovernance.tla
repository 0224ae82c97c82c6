---------------------------- MODULE MCGovernance -----------------------------
(* Small instances of QiaraGovernance for TLC. *)
EXTENDS QiaraGovernance

CONSTANTS min, bridgeMin, v1, v2

MCKeys == {min, bridgeMin}
MCAddresses == {v1, v2}
MCData == {<<>>, <<1>>, <<2>>}

\* Two values for the same variable, one for the other, one for another chain.
MCVariableMessages ==
  { [key |-> min, data |-> <<2>>, nonce |-> 1, chain |-> 0],
    [key |-> min, data |-> <<1>>, nonce |-> 2, chain |-> 901],
    [key |-> bridgeMin, data |-> <<2>>, nonce |-> 3, chain |-> 1] }

\* Removal and return of one validator, arrival of the other.
MCValidatorMessages ==
  { [pubkey |-> v1, isRemoval |-> TRUE, nonce |-> 1, chain |-> 0],
    [pubkey |-> v1, isRemoval |-> FALSE, nonce |-> 2, chain |-> 0],
    [pubkey |-> v2, isRemoval |-> FALSE, nonce |-> 3, chain |-> 1] }

NoMessages == {}

\* Another deployment, in which both are validators and nothing is set.
MCOtherValidators ==
  { [a \in Addresses |-> [active |-> TRUE, pending |-> FALSE, effective |-> 0]] }
MCOtherRegistries == { <<>> }

\* What a behaviour is about: every kind of message with the keys the
\* administrator sets and the buffers staged at a time.
Agendas ==
  { [messages |-> VariableMessages, keys |-> Keys, buffers |-> 1],
    [messages |-> ValidatorMessages, keys |-> {min}, buffers |-> 2] }

VARIABLE agenda

MCInit == Init /\ agenda \in Agendas

MCNext ==
  /\ Next
  /\ DOMAIN sigBuffer' \subseteq agenda.messages
  /\ Cardinality(DOMAIN sigBuffer') <= agenda.buffers
  /\ DOMAIN registry' \subseteq agenda.keys
  /\ UNCHANGED agenda

MCSpec == MCInit /\ [][MCNext]_<<vars, agenda>>
===============================================================================
