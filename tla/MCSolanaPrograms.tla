--------------------------- MODULE MCSolanaPrograms ----------------------------
(* The faucet and the token program, which share nothing on the chain: a     *)
(* behaviour is about one of them, and the other rests.                      *)
EXTENDS Faucet, SplToken

CONSTANTS gold, silver, u1, u2

MCMints == {gold, silver}
MCForeign == {silver}

Of(m) == [mint |-> m, config |-> m]

\* One token, both, one of them twice, none, and a configuration of another.
MCBatches ==
  { <<Of(gold)>>, <<Of(gold), Of(silver)>>, <<Of(gold), Of(gold)>>, <<>>,
    <<[mint |-> gold, config |-> silver]>> }

VARIABLE program

mcVars == <<vars, splVars, program>>

MCInit == Init /\ SplInit /\ program \in {"minter", "token"}

Minter(A) == program = "minter" /\ A /\ UNCHANGED <<splVars, program>>

MCNext ==
  \/ Minter(Next)
  \/ program = "token" /\ SplNext /\ UNCHANGED <<vars, program>>

\* The fairness of FairSpec: time passes.
MCSpec == MCInit /\ [][MCNext]_mcVars /\ WF_mcVars(Minter(Tick))
===============================================================================
