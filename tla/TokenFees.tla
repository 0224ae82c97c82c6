------------------------------ MODULE TokenFees -------------------------------
(***************************************************************************)
(* The fee arithmetic of the Qiara token, as the Solana program (token.rs) *)
(* and the EVM contract (qiara.sol) each compute it from the bytes of the  *)
(* governance variables.  Rates are in units of 1/FeeDenominator.  Solana  *)
(* computes in u128 and the EVM in u256: with 64-bit variables and amounts *)
(* neither overflows, so the integers here are unbounded.                  *)
(***************************************************************************)
EXTENDS Integers, SequencesExt

CONSTANTS
  FeeDenominator,    \* FEE_DENOMINATOR, 100_000_000
  MinimumThreshold,  \* from here on BURN_FEE_MINIMAL is taken as it is, 100_000
  MinimumScale,      \* below it is in units of this many tokens, 1000
  WordBytes,         \* the bytes of a u64, 8
  WideBytes          \* the bytes of a padded value or of a public key, 32

ASSUME FeesAssumption ==
  /\ FeeDenominator \in Nat \ {0}
  /\ MinimumThreshold \in Nat /\ MinimumScale \in Nat \ {0}
  /\ WordBytes \in Nat \ {0} /\ WideBytes \in Nat /\ WordBytes < WideBytes

\* BURN_FEE, BURN_INCREASE, BURN_FEE_MAXIMAL and BURN_FEE_MINIMAL; a variable
\* that is not set counts as 0 in every one of their uses.
FeeVariables == [base : Nat, increase : Nat, maximal : Nat, minimal : Nat]

-------------------------------------------------------------------------------
(* Decoding a variable *)

BigEndian(bytes) ==
  LET value[i \in 0 .. Len(bytes)] ==
        IF i = 0 THEN 0 ELSE value[i - 1] * 256 + bytes[i]
  IN  value[Len(bytes)]

LittleEndian(bytes) == BigEndian(Reverse(bytes))

\* A word is read big endian when that gives a plausible rate, and little
\* endian otherwise; of a padded value the last word counts.
ReadU64(bytes) ==
  IF Len(bytes) = WordBytes
    THEN LET be == BigEndian(bytes)
         IN  IF be > 0 /\ be <= FeeDenominator * 100 THEN be ELSE LittleEndian(bytes)
  ELSE IF Len(bytes) = WideBytes
    THEN BigEndian(SubSeq(bytes, WideBytes - WordBytes + 1, WideBytes))
  ELSE 0

EvmReadSwapped(bytes) ==                    \* mutant: words read little endian
  IF Len(bytes) \in {WordBytes, WideBytes}
    THEN LittleEndian(SubSeq(bytes, Len(bytes) - WordBytes + 1, Len(bytes)))
  ELSE 0

\* The EVM has no second reading.  Of the 256 bits it loads of a padded value
\* the conversion of the result from uint64 keeps the last word.
EvmReadU64(bytes) ==
  IF Len(bytes) \in {WordBytes, WideBytes}
    THEN BigEndian(SubSeq(bytes, Len(bytes) - WordBytes + 1, Len(bytes)))
  ELSE 0

FeesRead(base, increase, maximal, minimal) ==
  [base |-> base, increase |-> increase, maximal |-> maximal, minimal |-> minimal]

\* The fee variables that each chain reads in the same bytes.
SolanaFees(v) ==
  FeesRead(ReadU64(v.base), ReadU64(v.increase), ReadU64(v.maximal), ReadU64(v.minimal))

EvmFees(v) ==
  FeesRead(EvmReadU64(v.base), EvmReadU64(v.increase),
           EvmReadU64(v.maximal), EvmReadU64(v.minimal))

\* Bytes that Solana does not take for little endian ones.
Portable(bytes) ==
  Len(bytes) = WordBytes => BigEndian(bytes) <= FeeDenominator * 100

PortableFees(v) ==
  Portable(v.base) /\ Portable(v.increase) /\ Portable(v.maximal) /\ Portable(v.minimal)

-------------------------------------------------------------------------------
(* Solana *)

Smaller(a, b) == IF a <= b THEN a ELSE b
Larger(a, b) == IF a >= b THEN a ELSE b

\* The rate rises with the epochs, up to the maximal one and to the whole.
TransferRate(f, epoch) ==
  LET rate == f.base + f.increase * epoch
      capped == IF f.maximal > 0 THEN Smaller(rate, f.maximal) ELSE rate
  IN  Smaller(capped, FeeDenominator)

MinimumFee(raw) ==
  IF raw >= MinimumThreshold THEN raw ELSE raw * MinimumScale

FeeAboveAmount(f, epoch, amount) ==         \* mutant: fee > amount not clamped
  IF f.base = 0 THEN 0
  ELSE Larger((amount * TransferRate(f, epoch)) \div FeeDenominator,
              MinimumFee(f.minimal))

\* What a transfer of amount burns.
TransferFee(f, epoch, amount) ==
  IF f.base = 0 THEN 0
  ELSE Smaller(amount,
               Larger((amount * TransferRate(f, epoch)) \div FeeDenominator,
                      MinimumFee(f.minimal)))

TaxAboveWhole(rate, amount) ==              \* mutant: effective_rate not capped
  (amount * rate) \div FeeDenominator

\* What a bridge request pays to the fee recipient.
BridgeTax(rate, amount) ==
  (amount * Smaller(rate, FeeDenominator)) \div FeeDenominator

-------------------------------------------------------------------------------
(* EVM: the maximal rate, where it applies, is not capped any further *)

EvmTransferRate(f, epoch) ==
  LET rate == f.base + f.increase * epoch
  IN  IF f.maximal > 0 /\ rate > f.maximal THEN f.maximal
      ELSE Smaller(rate, FeeDenominator)

EvmTransferFee(f, epoch, value) ==
  IF f.base = 0 THEN 0
  ELSE Smaller(value,
               Larger((value * EvmTransferRate(f, epoch)) \div FeeDenominator,
                      MinimumFee(f.minimal)))

-------------------------------------------------------------------------------
(* What the arithmetic promises, of any two amounts *)

Delivered(f, epoch, amount) == amount - TransferFee(f, epoch, amount)

\* Of the bytes of the variables.
AgreeOn(v, epoch, amount) ==
  TransferFee(SolanaFees(v), epoch, amount) = EvmTransferFee(EvmFees(v), epoch, amount)

GrowsBetween(f, epoch, amount, more) ==
  amount <= more =>
    /\ TransferFee(f, epoch, amount) <= TransferFee(f, epoch, more)
    /\ 0 <= Delivered(f, epoch, amount)
    /\ Delivered(f, epoch, amount) <= Delivered(f, epoch, more)

TaxGrowsBetween(rate, amount, more) ==
  amount <= more =>
    /\ BridgeTax(rate, amount) <= BridgeTax(rate, more)
    /\ 0 <= amount - BridgeTax(rate, amount)
    /\ amount - BridgeTax(rate, amount) <= more - BridgeTax(rate, more)
===============================================================================
