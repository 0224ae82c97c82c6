------------------------------- MODULE MCToken --------------------------------
(* Small instances of QiaraToken for TLC.  A behaviour is about transactions, *)
(* or about quotes: the fees that Solana and the EVM ask of all small amounts *)
(* under all small prices, which no transaction changes.                      *)
EXTENDS QiaraToken, FeeQuotes

CONSTANTS
  min, bridgeMin, burnFee, burnMinimal, bridgeTax, receiver, unset, v1

MCKeys == {min, burnFee, burnMinimal, bridgeTax, receiver}
MCAddresses == {v1}

\* Keys of two wallets, and words of two bytes.
Alice == <<9, 9, 1>>
Bob == <<9, 9, 2>>
MCWallets == {Alice, Bob}
MCData == {<<>>, <<0, 1>>, <<0, 3>>, Bob}

MCReceivers == <<receiver, unset>>

Deployed(data) == [active |-> data, pending |-> <<>>, effective |-> 0]

\* Prices are deployed; the recipient of the tax is staged for epoch 1.
MCRegistry ==
  [k \in {burnFee, burnMinimal, bridgeTax, receiver} |->
     CASE k = bridgeTax -> Deployed(<<0, 3>>)
       [] k = receiver -> [active |-> <<>>, pending |-> Bob, effective |-> 1]
       [] OTHER -> Deployed(<<0, 1>>)]
MCValidators ==
  [a \in MCAddresses |-> [active |-> TRUE, pending |-> FALSE, effective |-> 0]]

\* A fee is raised.
MCVariableMessages ==
  { [key |-> burnFee, data |-> <<0, 3>>, nonce |-> 1, chain |-> 0] }

MCMintMessages ==
  { [recipient |-> Bob, amount |-> 3, nonce |-> 1, chain |-> 901],
    [recipient |-> Alice, amount |-> 1, nonce |-> 2, chain |-> 1] }

NoMessages == {}

\* Another deployment, where transfers are free and nobody is a validator.
MCOtherValidators == { <<>> }
MCOtherRegistries == { <<>> }

\* Words, and padded ones of which the last word counts.  Solana takes the
\* words from <<2, 189>> = 701 on for little endian.
MCRates == {<<>>, <<0, 1>>, <<0, 3>>, <<0, 7>>, <<1, 0, 9>>, <<2, 189>>}
MCMinimals == {<<>>, <<0, 1>>, <<0, 3>>, <<0, 0, 4>>, <<0, 6>>}

-------------------------------------------------------------------------------
VARIABLE topic

mcVars == <<allVars, quoteVars, topic>>

FreeOfCharge == [base |-> <<>>, increase |-> <<>>, maximal |-> <<>>, minimal |-> <<>>]

MCInit ==
  /\ TokenInit
  /\ \/ topic = "transactions" /\ variables = FreeOfCharge /\ quotedEpoch = 0 /\ quoted = 0
     \/ topic = "quotes" /\ now = MaxTime /\ QuotesInit

Inquire ==
  /\ topic = "quotes"
  /\ Quote
  /\ UNCHANGED <<allVars, topic>>

\* The administrator touches only the fee of a transfer, and does not lock.
Transact ==
  /\ topic = "transactions"
  /\ TokenNext
  /\ UNCHANGED isLocked
  /\ DOMAIN registry' = DOMAIN MCRegistry
  /\ \A k \in DOMAIN registry' : k # burnFee => registry'[k] = MCRegistry[k]
  /\ UNCHANGED <<quoteVars, topic>>

MCSpec == MCInit /\ [][Inquire \/ Transact]_mcVars
===============================================================================
