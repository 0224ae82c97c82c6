------------------------------ MODULE FeeQuotes -------------------------------
(***************************************************************************)
(* Quotes of fees: what Solana and the EVM ask for one amount after the    *)
(* other under the same governance variables in the same epoch.            *)
(***************************************************************************)
EXTENDS TokenFees

CONSTANTS
  Rates,             \* bytes of BURN_FEE, BURN_INCREASE, BURN_FEE_MAXIMAL
  Minimals,          \* bytes of BURN_FEE_MINIMAL
  Epochs,
  QuotedAmounts

ASSUME QuotesAssumption ==
  /\ Rates \subseteq Seq(0 .. 255) /\ Minimals \subseteq Seq(0 .. 255)
  /\ Epochs \subseteq Nat /\ QuotedAmounts \subseteq Nat

VARIABLES
  variables,           \* the bytes of the governance variables
  quotedEpoch,         \* the epoch they are read in
  quoted               \* the amount quoted last

quoteVars == <<variables, quotedEpoch, quoted>>

QuotesInit ==
  /\ variables \in [base : Rates, increase : Rates, maximal : Rates, minimal : Minimals]
  /\ quotedEpoch \in Epochs
  /\ quoted = 0

Quote ==
  /\ quoted' \in QuotedAmounts
  /\ UNCHANGED <<variables, quotedEpoch>>

QuotesSpec == QuotesInit /\ [][Quote]_quoteVars

-------------------------------------------------------------------------------
(* Properties *)

\* For the same bytes of the variables, epoch and amount, a transfer burns as
\* much on Solana (calculate_transfer_fee) as on the EVM (calculateTransferFee):
\* they cap the rate in different orders, and a word on which their readings
\* of the bytes differ is above a hundred times the whole.
FeesAgreeAcrossChains ==
  PortableFees(variables) => AgreeOn(variables, quotedEpoch, quoted)

\* Sending or bridging more never costs less and never delivers less, in
\* spite of the rounding, the minimal fee and the clamps of the fee of a
\* transfer, and at any rate of the tax of a bridge request.
MoreDeliversMore ==
  \A more \in QuotedAmounts :
    /\ GrowsBetween(SolanaFees(variables), quotedEpoch, quoted, more)
    /\ TaxGrowsBetween(SolanaFees(variables).base, quoted, more)
===============================================================================
