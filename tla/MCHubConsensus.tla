--------------------------- MODULE MCHubConsensus ----------------------------
(* Small instances of HubConsensus for TLC. *)
EXTENDS HubConsensus, TLC

CONSTANTS s1, s2, k1

MCTwo == {s1, s2}
MCKeys == {k1}

\* A payload that settles, one with an empty dispatch, and one that the hub
\* does not know how to dispatch.
MCPayloads == [kind : Kinds, payer : {s1}]
MCOnePayload == [kind : {"settled"}, payer : {s1}]

MCQuorums == { [weight |-> 2, unique |-> 2], [weight |-> 3, unique |-> 1] }
MCOneQuorum == { [weight |-> 2, unique |-> 2] }

EventSymmetry == Permutations(Events)

\* The empty dispatch always goes through, the one that moves a fee may abort.
Steady == { p \in Payloads : p.kind = "empty" }
Settling == { Steady, { p \in Payloads : p.kind # "unknown" } }

MCInit == Init /\ settleable \in Settling
MCNext == Next /\ settleable' \in Settling
MCSpec == MCInit /\ [][MCNext]_vars
===============================================================================
