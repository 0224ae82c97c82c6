-------------------------- MODULE QiaraTokenProofs ----------------------------
(***************************************************************************)
(* Theorems about QiaraToken and the fees it charges: what the arithmetic  *)
(* guarantees for all values of the governance variables, all epochs and   *)
(* all amounts, and what the composition of the token with the governance  *)
(* it reads guarantees for all wallets, messages and settings.             *)
(***************************************************************************)
EXTENDS QiaraToken, FeeQuotes, QiaraGovernanceProofs, SequenceTheorems, SumTheorems

-------------------------------------------------------------------------------
(* The fee arithmetic *)

\* Integer division: the quotient and what is left of the dividend.
LEMMA Quotient ==
  ASSUME NEW n \in Nat, NEW d \in Nat \ {0}
  PROVE  /\ n \div d \in Nat
         /\ (n \div d) * d <= n
         /\ n < (n \div d + 1) * d
<1>1. n = d * (n \div d) + (n % d) /\ n % d \in 0 .. d - 1 /\ n \div d \in Nat
  BY SMT
<1> QED BY <1>1, SMT

\* A product with a larger factor is no smaller.
LEMMA ProductMonotone ==
  ASSUME NEW a \in Nat, NEW b \in Nat, NEW c \in Nat, a <= b
  PROVE  a * c \in Nat /\ a * c <= b * c
<1>1. b * c = a * c + (b - a) * c BY SMT
<1>2. a * c \in Nat /\ (b - a) * c \in Nat BY SMT
<1> QED BY <1>1, <1>2, SMT

\* A share of a growing amount, at a rate of at most the whole, grows, and
\* never by more than the amount does.
LEMMA ShareGrows ==
  ASSUME NEW d \in Nat \ {0}, NEW rate \in 0 .. d,
         NEW a \in Nat, NEW b \in Nat, a <= b
  PROVE  /\ (a * rate) \div d \in Nat /\ (b * rate) \div d \in Nat
         /\ (a * rate) \div d <= a
         /\ (a * rate) \div d <= (b * rate) \div d
         /\ (b * rate) \div d - (a * rate) \div d <= b - a
<1> DEFINE qa == (a * rate) \div d
           qb == (b * rate) \div d
<1>1. /\ a * rate \in Nat /\ b * rate \in Nat
      /\ a * rate <= b * rate
      /\ a * rate <= a * d
      /\ b * rate - a * rate <= (b - a) * d
  <2>1. a * rate \in Nat /\ b * rate \in Nat /\ a * rate <= b * rate
    BY ProductMonotone, SMT
  <2>2. rate * a <= d * a /\ rate * (b - a) <= d * (b - a)
    BY ProductMonotone, SMT
  <2>3. b * rate - a * rate = rate * (b - a) BY SMT
  <2> QED BY <2>1, <2>2, <2>3, SMT
<1>2. /\ qa \in Nat /\ qa * d <= a * rate /\ a * rate < (qa + 1) * d
      /\ qb \in Nat /\ qb * d <= b * rate /\ b * rate < (qb + 1) * d
  BY <1>1, Quotient
<1> HIDE DEF qa, qb
<1>3. qa <= a
  <2> SUFFICES ASSUME a + 1 <= qa PROVE FALSE BY <1>2
  <2>1. (a + 1) * d <= qa * d BY <1>2, ProductMonotone
  <2> QED BY <2>1, <1>1, <1>2, SMT
<1>4. qa <= qb
  <2> SUFFICES ASSUME qb + 1 <= qa PROVE FALSE BY <1>2
  <2>1. (qb + 1) * d <= qa * d BY <1>2, ProductMonotone
  <2> QED BY <2>1, <1>1, <1>2, SMT
<1>5. qb - qa <= b - a
  <2> SUFFICES ASSUME (b - a) + (qa + 1) <= qb PROVE FALSE BY <1>2
  <2>1. ((b - a) + (qa + 1)) * d <= qb * d BY <1>2, ProductMonotone
  <2>2. ((b - a) + (qa + 1)) * d = (b - a) * d + (qa + 1) * d BY <1>2, SMT
  <2> QED BY <2>1, <2>2, <1>1, <1>2, SMT
<1> QED BY <1>2, <1>3, <1>4, <1>5 DEF qa, qb

\* The rate a transfer is charged never exceeds the whole.
LEMMA RateType ==
  ASSUME NEW f \in FeeVariables, NEW epoch \in Nat
  PROVE  TransferRate(f, epoch) \in 0 .. FeeDenominator
<1>1. f.base + f.increase * epoch \in Nat BY SMT DEF FeeVariables
<1> QED BY <1>1, FeesAssumption, SMT DEF TransferRate, Smaller, FeeVariables

LEMMA MinimumType ==
  ASSUME NEW f \in FeeVariables
  PROVE  MinimumFee(f.minimal) \in Nat
BY FeesAssumption, SMT DEF MinimumFee, FeeVariables

\* Sending more never costs less and never delivers less, for whatever the
\* governance variables hold (calculate_transfer_fee and its clamps).
THEOREM TransferGrows ==
  ASSUME NEW f \in FeeVariables, NEW epoch \in Nat,
         NEW amount \in Nat, NEW more \in Nat
  PROVE  GrowsBetween(f, epoch, amount, more)
<1> SUFFICES ASSUME amount <= more
             PROVE  /\ TransferFee(f, epoch, amount) <= TransferFee(f, epoch, more)
                    /\ 0 <= Delivered(f, epoch, amount)
                    /\ Delivered(f, epoch, amount) <= Delivered(f, epoch, more)
  BY DEF GrowsBetween
<1> DEFINE rate == TransferRate(f, epoch)
           minimum == MinimumFee(f.minimal)
           small == (amount * rate) \div FeeDenominator
           large == (more * rate) \div FeeDenominator
<1>1. rate \in 0 .. FeeDenominator /\ minimum \in Nat BY RateType, MinimumType
<1>2. /\ small \in Nat /\ large \in Nat /\ small <= amount
      /\ small <= large /\ large - small <= more - amount
  BY <1>1, ShareGrows, FeesAssumption
<1>3. /\ TransferFee(f, epoch, amount) =
           IF f.base = 0 THEN 0 ELSE Smaller(amount, Larger(small, minimum))
      /\ TransferFee(f, epoch, more) =
           IF f.base = 0 THEN 0 ELSE Smaller(more, Larger(large, minimum))
  BY DEF TransferFee
<1> HIDE DEF rate, minimum, small, large
<1> QED BY <1>1, <1>2, <1>3, SMT DEF Delivered, Smaller, Larger

\* The same for the tax of a bridge request (calculate_bridge_tax).
THEOREM BridgingGrows ==
  ASSUME NEW rate \in Nat, NEW amount \in Nat, NEW more \in Nat
  PROVE  TaxGrowsBetween(rate, amount, more)
<1> DEFINE capped == Smaller(rate, FeeDenominator)
<1>1. capped \in 0 .. FeeDenominator BY FeesAssumption DEF Smaller
<1> HIDE DEF capped
<1>2. amount <= more =>
        /\ (amount * capped) \div FeeDenominator \in Nat
        /\ (more * capped) \div FeeDenominator \in Nat
        /\ (amount * capped) \div FeeDenominator <= amount
        /\ (amount * capped) \div FeeDenominator <= (more * capped) \div FeeDenominator
        /\ (more * capped) \div FeeDenominator - (amount * capped) \div FeeDenominator
             <= more - amount
  BY <1>1, ShareGrows, FeesAssumption
<1> QED BY <1>2, SMT DEF TaxGrowsBetween, BridgeTax, capped

\* With the variables decoded, a maximal rate above the whole, which only
\* Solana caps, makes a fee that both clamp to the amount.
LEMMA CapsAgree ==
  ASSUME NEW f \in FeeVariables, NEW epoch \in Nat, NEW amount \in Nat
  PROVE  TransferFee(f, epoch, amount) = EvmTransferFee(f, epoch, amount)
<1> DEFINE rate == TransferRate(f, epoch)
           evmRate == EvmTransferRate(f, epoch)
           share == (amount * rate) \div FeeDenominator
           evmShare == (amount * evmRate) \div FeeDenominator
           minimum == MinimumFee(f.minimal)
<1>1. f.base + f.increase * epoch \in Nat /\ minimum \in Nat
  BY MinimumType, SMT DEF FeeVariables
<1>2. CASE evmRate = rate
  BY <1>2 DEF TransferFee, EvmTransferFee
<1>3. CASE evmRate # rate
  <2>1. rate = FeeDenominator /\ evmRate \in Nat /\ FeeDenominator <= evmRate
    BY <1>1, <1>3, FeesAssumption, SMT
    DEF TransferRate, EvmTransferRate, Smaller, FeeVariables
  <2>2. share = amount BY <2>1, FeesAssumption, SMT
  <2>3. evmShare \in Nat /\ amount <= evmShare
    <3>1. FeeDenominator * amount <= evmRate * amount
      BY <2>1, ProductMonotone, FeesAssumption
    <3>2. amount * evmRate \in Nat BY <2>1, SMT
    <3>3. evmShare \in Nat /\ amount * evmRate < (evmShare + 1) * FeeDenominator
      BY <3>2, Quotient, FeesAssumption
    <3> HIDE DEF evmShare, evmRate
    <3>4. ~ (evmShare + 1 <= amount)
      <4> SUFFICES ASSUME evmShare + 1 <= amount PROVE FALSE OBVIOUS
      <4>1. (evmShare + 1) * FeeDenominator <= amount * FeeDenominator
        BY <3>3, ProductMonotone, FeesAssumption
      <4> QED BY <4>1, <3>1, <3>3, <3>2, <2>1, FeesAssumption, SMT
    <3> QED BY <3>3, <3>4
  <2> HIDE DEF share, evmShare, minimum
  <2>4. Smaller(amount, Larger(share, minimum)) = amount
    BY <2>2, <1>1, SMT DEF Smaller, Larger
  <2>5. Smaller(amount, Larger(evmShare, minimum)) = amount
    BY <2>3, <1>1, SMT DEF Smaller, Larger
  <2> QED BY <2>4, <2>5 DEF TransferFee, EvmTransferFee, share, evmShare, minimum
<1> QED BY <1>2, <1>3

-------------------------------------------------------------------------------
(* Reading a variable *)

\* One step of the recursive reading of bytes.
ReadingBody(bytes, f, i) == IF i = 0 THEN 0 ELSE f[i - 1] * 256 + bytes[i]

IsReading(bytes, f, n) == f = [i \in 0 .. n |-> ReadingBody(bytes, f, i)]

\* The bytes up to any place can be read.
LEMMA ReadingExists ==
  ASSUME NEW bytes \in Seq(Nat), NEW n \in 0 .. Len(bytes)
  PROVE  \E f \in [0 .. n -> Nat] : IsReading(bytes, f, n)
<1>. DEFINE Bad == { m \in 0 .. Len(bytes) : ~ \E f \in [0 .. m -> Nat] : IsReading(bytes, f, m) }
<1>. SUFFICES ASSUME Bad # {} PROVE FALSE
  OBVIOUS
<1>0. Len(bytes) \in Nat /\ \A i \in 1 .. Len(bytes) : bytes[i] \in Nat
  BY ElementOfSeq
<1>1. PICK m \in Bad : \A k \in Bad : m <= k
  <2>1. Bad \in SUBSET Nat
    BY <1>0
  <2>. HIDE DEF Bad
  <2> QED BY <2>1, LeastNatural
<1>2. CASE m = 0
  <2>1. [i \in 0 .. 0 |-> 0] \in [0 .. 0 -> Nat]
    OBVIOUS
  <2>2. IsReading(bytes, [i \in 0 .. 0 |-> 0], 0)
    BY DEF IsReading, ReadingBody
  <2> QED BY <1>2, <2>1, <2>2
<1>3. CASE m # 0
  <2>1. m \in Nat /\ m - 1 \in 0 .. Len(bytes) /\ m \in 1 .. Len(bytes)
    BY <1>0, <1>3
  <2>2. m - 1 \notin Bad
    <3>. HIDE DEF Bad
    <3> QED BY <1>1, <2>1
  <2>3. PICK g \in [0 .. m - 1 -> Nat] : IsReading(bytes, g, m - 1)
    BY <2>1, <2>2
  <2>. DEFINE h == [i \in 0 .. m |-> IF i = m THEN g[m - 1] * 256 + bytes[m] ELSE g[i]]
  <2>4. h \in [0 .. m -> Nat]
    <3>1. g[m - 1] * 256 + bytes[m] \in Nat
      <4>1. m - 1 \in 0 .. m - 1
        BY <2>1
      <4>2. PICK x \in Nat, y \in Nat : x = g[m - 1] /\ y = bytes[m]
        BY <1>0, <2>1, <4>1, Zenon
      <4>3. x * 256 + y \in Nat
        OBVIOUS
      <4> QED BY <4>2, <4>3, Zenon
    <3>2. \A i \in 0 .. m : i # m => g[i] \in Nat
      BY <2>1
    <3> QED BY <3>1, <3>2
  <2>5. ASSUME NEW i \in 0 .. m
        PROVE  h[i] = ReadingBody(bytes, h, i)
    <3>1. CASE i = m
      BY <1>3, <2>1, <3>1 DEF ReadingBody
    <3>2. CASE i # m
      <4>1. i \in 0 .. m - 1
        BY <2>1, <3>2
      <4>2. g[i] = ReadingBody(bytes, g, i)
        BY <2>3, <4>1 DEF IsReading
      <4>3. i # 0 => h[i - 1] = g[i - 1]
        BY <2>1, <4>1
      <4> QED BY <3>2, <4>2, <4>3 DEF ReadingBody
    <3> QED BY <3>1, <3>2
  <2>6. h = [i \in 0 .. m |-> h[i]]
    OBVIOUS
  <2>7. h = [i \in 0 .. m |-> ReadingBody(bytes, h, i)]
    <3>. HIDE DEF h
    <3> QED BY <2>5, <2>6
  <2> QED BY <2>4, <2>7 DEF IsReading
<1> QED BY <1>2, <1>3

\* Whatever satisfies the equation of a reading reads naturals.
LEMMA ReadingIsNatural ==
  ASSUME NEW bytes \in Seq(Nat), NEW f, IsReading(bytes, f, Len(bytes))
  PROVE  /\ f[Len(bytes)] \in Nat
         /\ \A i \in 0 .. Len(bytes) : f[i] \in Nat
<1>. DEFINE Bad == { i \in 0 .. Len(bytes) : f[i] \notin Nat }
<1>0. Len(bytes) \in Nat /\ \A i \in 1 .. Len(bytes) : bytes[i] \in Nat
  BY ElementOfSeq
<1>1. Bad = {}
  <2>. SUFFICES ASSUME Bad # {} PROVE FALSE
    OBVIOUS
  <2>1. PICK m \in Bad : \A k \in Bad : m <= k
    <3>1. Bad \in SUBSET Nat
      BY <1>0
    <3>. HIDE DEF Bad
    <3> QED BY <3>1, LeastNatural
  <2>2. f[m] = ReadingBody(bytes, f, m)
    BY DEF IsReading
  <2>3. CASE m = 0
    BY <2>2, <2>3 DEF ReadingBody
  <2>4. CASE m # 0
    <3>1. m \in Nat /\ m - 1 \in 0 .. Len(bytes) /\ m \in 1 .. Len(bytes)
      BY <1>0, <2>4
    <3>2. m - 1 \notin Bad
      <4>. HIDE DEF Bad
      <4> QED BY <2>1, <3>1
    <3>3. f[m - 1] \in Nat
      BY <3>1, <3>2
    <3>4. PICK x \in Nat, y \in Nat : x = f[m - 1] /\ y = bytes[m]
      BY <1>0, <3>1, <3>3, Zenon
    <3>5. x * 256 + y \in Nat
      OBVIOUS
    <3>6. f[m] = f[m - 1] * 256 + bytes[m]
      BY <2>2, <2>4, Zenon DEF ReadingBody
    <3> QED BY <3>4, <3>5, <3>6, Zenon
  <2> QED BY <2>3, <2>4
<1> QED BY <1>0, <1>1

\* The number read is the reading of the last place.
LEMMA NumberRead ==
  ASSUME NEW bytes \in Seq(Nat)
  PROVE  \E f : IsReading(bytes, f, Len(bytes)) /\ BigEndian(bytes) = f[Len(bytes)]
<1>. DEFINE value == CHOOSE f : IsReading(bytes, f, Len(bytes))
<1>1. BigEndian(bytes) = value[Len(bytes)]
  BY Zenon DEF BigEndian, IsReading, ReadingBody
<1>2. IsReading(bytes, value, Len(bytes))
  <2>1. Len(bytes) \in 0 .. Len(bytes)
    OBVIOUS
  <2> QED BY <2>1, ReadingExists
<1> QED BY <1>1, <1>2

\* Bytes read as a number, in either order, are a natural number.
LEMMA BytesAreNumbers ==
  ASSUME NEW bytes \in Seq(Nat)
  PROVE  BigEndian(bytes) \in Nat /\ LittleEndian(bytes) \in Nat
<1>1. ASSUME NEW b \in Seq(Nat)
      PROVE  BigEndian(b) \in Nat
  BY NumberRead, ReadingIsNatural
<1>2. Reverse(bytes) \in Seq(Nat)
  <2>1. Len(bytes) \in Nat /\ \A i \in 1 .. Len(bytes) : bytes[i] \in Nat
    BY ElementOfSeq
  <2>2. Reverse(bytes) \in [1 .. Len(bytes) -> Nat]
    BY <2>1 DEF Reverse
  <2> QED BY <2>1, <2>2, SeqDef
<1> QED BY <1>1, <1>2 DEF LittleEndian

\* The last word of a padded value is a string of bytes.
LEMMA LastWord ==
  ASSUME NEW bytes \in Seq(Nat), Len(bytes) = WideBytes
  PROVE  SubSeq(bytes, WideBytes - WordBytes + 1, WideBytes) \in Seq(Nat)
<1>1. WideBytes - WordBytes + 1 \in 1 .. WideBytes + 1 /\ WideBytes \in Nat
  BY FeesAssumption
<1> QED BY <1>1, SubSeqProperties

\* Whatever a variable holds is read as a number.
LEMMA ReadingTypes ==
  ASSUME NEW bytes \in Seq(Nat)
  PROVE  ReadU64(bytes) \in Nat
<1>1. Len(bytes) = WideBytes =>
        BigEndian(SubSeq(bytes, WideBytes - WordBytes + 1, WideBytes)) \in Nat
  BY LastWord, BytesAreNumbers
<1> QED BY <1>1, BytesAreNumbers DEF ReadU64

\* A number that is zero was read from zeros.
LEMMA ZeroIsReadFromZeros ==
  ASSUME NEW bytes \in Seq(Nat), BigEndian(bytes) = 0
  PROVE  \A i \in 1 .. Len(bytes) : bytes[i] = 0
<1>. DEFINE n == Len(bytes)
<1>0. n \in Nat /\ \A i \in 1 .. n : bytes[i] \in Nat
  BY ElementOfSeq
<1>1. PICK f : IsReading(bytes, f, n) /\ f[n] = 0
  BY NumberRead
<1>2. \A i \in 0 .. n : f[i] \in Nat
  BY <1>1, ReadingIsNatural
<1>3. ASSUME NEW i \in 1 .. n
      PROVE  f[i] = f[i - 1] * 256 + bytes[i]
  <2>1. i \in 0 .. n /\ i # 0
    BY <1>0
  <2>2. f[i] = ReadingBody(bytes, f, i)
    BY <1>1, <2>1 DEF IsReading
  <2> QED BY <2>1, <2>2, Zenon DEF ReadingBody
<1>. HIDE DEF n
<1>4. ASSUME NEW i \in 1 .. n, f[i] = 0
      PROVE  f[i - 1] = 0 /\ bytes[i] = 0
  <2>1. PICK x \in Nat, y \in Nat : x = f[i - 1] /\ y = bytes[i]
    <3>1. i - 1 \in 0 .. n
      BY <1>0
    <3> QED BY <1>0, <1>2, <3>1
  <2>2. x * 256 + y = 0
    BY <1>3, <1>4, <2>1, Zenon
  <2>3. x = 0 /\ y = 0
    BY <2>2
  <2> QED BY <2>1, <2>3
<1>. DEFINE Bad == { d \in 0 .. n : f[n - d] # 0 }
<1>5. Bad = {}
  <2>. SUFFICES ASSUME Bad # {} PROVE FALSE
    OBVIOUS
  <2>1. PICK d \in Bad : \A k \in Bad : d <= k
    <3>1. Bad \in SUBSET Nat
      BY <1>0
    <3>. HIDE DEF Bad
    <3> QED BY <3>1, LeastNatural
  <2>2. d \in 1 .. n
    BY <1>0, <1>1
  <2>3. d - 1 \in 0 .. n /\ d - 1 \notin Bad /\ n - (d - 1) \in 1 .. n
    <3>. HIDE DEF Bad
    <3>1. d - 1 \in 0 .. n /\ ~(d <= d - 1) /\ n - (d - 1) \in 1 .. n
      BY <1>0, <2>2
    <3> QED BY <2>1, <3>1
  <2>4. f[n - (d - 1)] = 0 /\ (n - (d - 1)) - 1 = n - d
    BY <1>0, <2>2, <2>3
  <2>5. f[n - d] = 0
    BY <1>4, <2>3, <2>4
  <2> QED BY <2>5
<1>6. ASSUME NEW i \in 1 .. n
      PROVE  bytes[i] = 0
  <2>1. n - i \in 0 .. n /\ n - (n - i) = i
    BY <1>0
  <2>2. f[i] = 0
    BY <1>5, <2>1
  <2> QED BY <1>4, <2>2
<1> QED BY <1>6 DEF n

\* Zeros are read as zero.
LEMMA ZerosAreReadAsZero ==
  ASSUME NEW bytes \in Seq(Nat), \A i \in 1 .. Len(bytes) : bytes[i] = 0
  PROVE  BigEndian(bytes) = 0
<1>. DEFINE n == Len(bytes)
<1>0. n \in Nat
  OBVIOUS
<1>1. PICK f : IsReading(bytes, f, n) /\ BigEndian(bytes) = f[n]
  BY NumberRead
<1>. DEFINE Bad == { i \in 0 .. n : f[i] # 0 }
<1>2. Bad = {}
  <2>. SUFFICES ASSUME Bad # {} PROVE FALSE
    OBVIOUS
  <2>1. PICK m \in Bad : \A k \in Bad : m <= k
    <3>1. Bad \in SUBSET Nat
      BY <1>0
    <3>. HIDE DEF Bad
    <3> QED BY <3>1, LeastNatural
  <2>2. f[m] = ReadingBody(bytes, f, m)
    BY <1>1 DEF IsReading
  <2>3. m # 0
    BY <2>2 DEF ReadingBody
  <2>4. m - 1 \in 0 .. n /\ m \in 1 .. n /\ ~(m <= m - 1)
    BY <1>0, <2>3
  <2>5. f[m - 1] = 0 /\ bytes[m] = 0
    BY <2>1, <2>4
  <2>6. f[m] = 0 * 256 + 0
    BY <2>2, <2>3, <2>5, Zenon DEF ReadingBody
  <2> QED BY <2>6
<1> QED BY <1>0, <1>1, <1>2

\* So a word that is zero big endian is zero little endian.
LEMMA ZeroReading ==
  ASSUME NEW bytes \in Seq(Nat), BigEndian(bytes) = 0
  PROVE  LittleEndian(bytes) = 0
<1>1. Len(bytes) \in Nat /\ \A i \in 1 .. Len(bytes) : bytes[i] = 0
  BY ZeroIsReadFromZeros
<1>2. Reverse(bytes) = [i \in 1 .. Len(bytes) |-> 0]
  BY <1>1 DEF Reverse
<1>3. [i \in 1 .. Len(bytes) |-> 0] \in [1 .. Len(bytes) -> Nat]
  OBVIOUS
<1>4. Reverse(bytes) \in Seq(Nat) /\ Len(Reverse(bytes)) = Len(bytes)
  BY <1>1, <1>2, <1>3, SeqDef
<1>5. \A i \in 1 .. Len(Reverse(bytes)) : Reverse(bytes)[i] = 0
  BY <1>2, <1>4
<1> QED BY <1>4, <1>5, ZerosAreReadAsZero DEF LittleEndian

\* Both chains read the same number, unless a word is too large for Solana.
LEMMA PortableReading ==
  ASSUME NEW bytes \in Seq(Nat), Portable(bytes)
  PROVE  EvmReadU64(bytes) = ReadU64(bytes)
<1>. DEFINE word == SubSeq(bytes, Len(bytes) - WordBytes + 1, Len(bytes))
<1>1. CASE Len(bytes) = WordBytes
  <2>1. WordBytes - WordBytes + 1 = 1
    BY FeesAssumption
  <2>2. word = bytes
    BY <1>1, <2>1, SubSeqFull
  <2>3. EvmReadU64(bytes) = BigEndian(bytes)
    BY <1>1, <2>2 DEF EvmReadU64
  <2>4. BigEndian(bytes) \in Nat /\ BigEndian(bytes) <= FeeDenominator * 100
    BY <1>1, BytesAreNumbers DEF Portable
  <2>5. BigEndian(bytes) = 0 => LittleEndian(bytes) = 0
    BY ZeroReading
  <2> QED BY <1>1, <2>3, <2>4, <2>5 DEF ReadU64
<1>2. CASE Len(bytes) # WordBytes
  BY <1>2, FeesAssumption DEF EvmReadU64, ReadU64
<1> QED BY <1>1, <1>2

ByteStrings == Seq(0 .. 255)

\* The bytes of the four variables of a fee.
FeeBytes ==
  [base : ByteStrings, increase : ByteStrings, maximal : ByteStrings, minimal : ByteStrings]

LEMMA BytesOfFees ==
  ASSUME NEW v \in FeeBytes
  PROVE  /\ v.base \in Seq(Nat) /\ v.increase \in Seq(Nat)
         /\ v.maximal \in Seq(Nat) /\ v.minimal \in Seq(Nat)
<1>1. 0 .. 255 \subseteq Nat
  OBVIOUS
<1>2. ByteStrings \subseteq Seq(Nat)
  BY <1>1, SeqMonotonic DEF ByteStrings
<1> QED BY <1>2 DEF FeeBytes

\* What Solana reads are fee variables.
LEMMA FeesAreRead ==
  ASSUME NEW v \in FeeBytes
  PROVE  SolanaFees(v) \in FeeVariables
BY BytesOfFees, ReadingTypes DEF SolanaFees, FeesRead, FeeVariables

\* The Solana program and the EVM contract burn the same for the same bytes of
\* the variables, epoch and amount, unless a word is above a hundred times the
\* whole: there Solana reads little endian and the EVM does not.
THEOREM FeesAgree ==
  ASSUME NEW v \in FeeBytes, PortableFees(v), NEW epoch \in Nat, NEW amount \in Nat
  PROVE  AgreeOn(v, epoch, amount)
<1>1. EvmFees(v) = SolanaFees(v)
  BY BytesOfFees, PortableReading DEF EvmFees, SolanaFees, PortableFees
<1> QED BY <1>1, FeesAreRead, CapsAgree DEF AgreeOn

-------------------------------------------------------------------------------
(* Quotes *)

\* The variables of the quotes, and the amount quoted, are what the
\* arithmetic is meant for.
QuotesInv == variables \in FeeBytes /\ quotedEpoch \in Nat /\ quoted \in Nat

LEMMA QuotesInvHolds == QuotesSpec => []QuotesInv
<1>1. QuotesInit => QuotesInv
  <2> SUFFICES ASSUME QuotesInit PROVE QuotesInv
    OBVIOUS
  <2>1. PICK b \in Rates, i \in Rates, x \in Rates, n \in Minimals :
          variables = [base |-> b, increase |-> i, maximal |-> x, minimal |-> n]
    BY DEF QuotesInit
  <2>2. /\ b \in ByteStrings /\ i \in ByteStrings
        /\ x \in ByteStrings /\ n \in ByteStrings
    BY QuotesAssumption DEF ByteStrings
  <2> QED BY <2>1, <2>2, QuotesAssumption DEF QuotesInit, QuotesInv, FeeBytes
<1>2. QuotesInv /\ [Quote]_quoteVars => QuotesInv'
  BY QuotesAssumption DEF QuotesInv, Quote, quoteVars
<1> QED BY <1>1, <1>2, PTL DEF QuotesSpec

\* Every quote is the same on Solana (calculate_transfer_fee) and on the EVM
\* (calculateTransferFee) for bytes that both read alike.
THEOREM QuotesAgree == QuotesSpec => []FeesAgreeAcrossChains
<1>1. QuotesInv => FeesAgreeAcrossChains
  BY FeesAgree DEF QuotesInv, FeesAgreeAcrossChains
<1> QED BY <1>1, QuotesInvHolds, PTL

\* No quote, of a transfer or of a bridge request, asks less for more or
\* delivers less of it.
THEOREM QuotesGrow == QuotesSpec => []MoreDeliversMore
<1>1. QuotesInv => MoreDeliversMore
  <2> SUFFICES ASSUME QuotesInv, NEW more \in QuotedAmounts
               PROVE  /\ GrowsBetween(SolanaFees(variables), quotedEpoch, quoted, more)
                      /\ TaxGrowsBetween(SolanaFees(variables).base, quoted, more)
    BY DEF MoreDeliversMore
  <2>. DEFINE f == SolanaFees(variables)
  <2>1. f \in FeeVariables
    BY FeesAreRead DEF QuotesInv
  <2>. HIDE DEF f
  <2>2. more \in Nat /\ f.base \in Nat
    BY <2>1, QuotesAssumption DEF FeeVariables
  <2>3. /\ GrowsBetween(f, quotedEpoch, quoted, more)
        /\ TaxGrowsBetween(f.base, quoted, more)
    BY <2>1, <2>2, TransferGrows, BridgingGrows DEF QuotesInv
  <2> QED BY <2>3 DEF f
<1> QED BY <1>1, QuotesInvHolds, PTL

-------------------------------------------------------------------------------
(* Moving tokens *)

LEMMA TakenFacts ==
  ASSUME NEW b \in [Wallets -> Nat], NEW w \in Wallets, NEW amount \in Nat, amount <= b[w]
  PROVE  /\ Taken(b, w, amount) \in [Wallets -> Nat]
         /\ Taken(b, w, amount)[w] = b[w] - amount
         /\ SumFunction(b) \in Nat
         /\ SumFunction(Taken(b, w, amount)) = SumFunction(b) - amount
<1>. DEFINE g == Taken(b, w, amount)
<1>1. /\ g \in [Wallets -> Nat] /\ g[w] = b[w] - amount
      /\ \A x \in Wallets \ {w} : g[x] = b[x]
  BY DEF Taken
<1>2. IsFiniteSet(Wallets) /\ NaturalOn(b, Wallets)
  BY TokenAssumption DEF NaturalOn
<1>. HIDE DEF g
<1>3. SumFunctionOnSet(b, Wallets) \in Nat
  BY <1>2, SumIsNatural
<1>4. SumFunctionOnSet(g, Wallets) = SumFunctionOnSet(b, Wallets) + g[w] - b[w]
  BY <1>1, <1>2, SumChangesAtOne
<1>5. DOMAIN g = Wallets /\ DOMAIN b = Wallets
  BY <1>1
<1>6. g[w] - b[w] = 0 - amount
  BY <1>1
<1> QED BY <1>1, <1>3, <1>4, <1>5, <1>6 DEF SumFunction, g

LEMMA GivenFacts ==
  ASSUME NEW b \in [Wallets -> Nat], NEW w \in Wallets, NEW amount \in Nat
  PROVE  /\ Given(b, w, amount) \in [Wallets -> Nat]
         /\ \A x \in Wallets : b[x] <= Given(b, w, amount)[x]
         /\ SumFunction(Given(b, w, amount)) = SumFunction(b) + amount
<1>. DEFINE g == Given(b, w, amount)
<1>1. /\ g \in [Wallets -> Nat] /\ g[w] = b[w] + amount
      /\ \A x \in Wallets \ {w} : g[x] = b[x]
  BY DEF Given
<1>2. IsFiniteSet(Wallets) /\ NaturalOn(b, Wallets)
  BY TokenAssumption DEF NaturalOn
<1>. HIDE DEF g
<1>3. SumFunctionOnSet(b, Wallets) \in Nat
  BY <1>2, SumIsNatural
<1>4. SumFunctionOnSet(g, Wallets) = SumFunctionOnSet(b, Wallets) + g[w] - b[w]
  BY <1>1, <1>2, SumChangesAtOne
<1>5. DOMAIN g = Wallets /\ DOMAIN b = Wallets
  BY <1>1
<1>6. g[w] - b[w] = amount
  BY <1>1
<1>7. \A x \in Wallets : b[x] <= g[x]
  BY <1>1
<1> QED BY <1>1, <1>3, <1>4, <1>5, <1>6, <1>7 DEF SumFunction, g

\* Moving a part of an amount, even to oneself, leaves the rest to be burnt.
LEMMA MovedAndBurnt ==
  ASSUME balances \in [Wallets -> Nat], NEW from \in Wallets, NEW to \in Wallets,
         NEW amount \in Nat, NEW rest \in Nat, amount <= balances[from],
         rest <= Moved(from, to, amount)[from]
  PROVE  /\ Taken(Moved(from, to, amount), from, rest) \in [Wallets -> Nat]
         /\ SumFunction(balances) \in Nat
         /\ SumFunction(Taken(Moved(from, to, amount), from, rest))
              = SumFunction(balances) - rest
         /\ rest <= SumFunction(balances)
<1>. DEFINE taken == Taken(balances, from, amount)
            moved == Given(taken, to, amount)
<1>1. /\ taken \in [Wallets -> Nat] /\ taken[from] = balances[from] - amount
      /\ SumFunction(balances) \in Nat
      /\ SumFunction(taken) = SumFunction(balances) - amount
  BY TakenFacts
<1>. HIDE DEF taken
<1>2. /\ moved \in [Wallets -> Nat] /\ taken[from] <= moved[from]
      /\ SumFunction(moved) = SumFunction(taken) + amount
  BY <1>1, GivenFacts
<1>4. Moved(from, to, amount) = moved
  BY DEF Moved, taken
<1>3. rest <= moved[from]
  BY <1>4
<1>. HIDE DEF moved
<1>5. /\ Taken(moved, from, rest) \in [Wallets -> Nat]
      /\ SumFunction(Taken(moved, from, rest)) = SumFunction(moved) - rest
  BY <1>2, <1>3, TakenFacts
<1>6. SumFunction(moved) = SumFunction(balances)
  BY <1>1, <1>2
<1>7. rest <= SumFunction(balances)
  <2>1. SumFunction(Taken(moved, from, rest)) \in Nat
    <3>1. IsFiniteSet(Wallets) /\ NaturalOn(Taken(moved, from, rest), Wallets)
      BY <1>5, TokenAssumption DEF NaturalOn
    <3>2. DOMAIN Taken(moved, from, rest) = Wallets
      BY <1>5
    <3> QED BY <3>1, <3>2, SumIsNatural DEF SumFunction
  <2> QED BY <1>1, <1>5, <1>6, <2>1
<1> QED BY <1>1, <1>4, <1>5, <1>6, <1>7

\* What a registry that may be shown holds under a name are bytes.
LEMMA BytesAreShown ==
  ASSUME TypeOK, NEW reg \in ShownRegistries, NEW k
  PROVE  Bytes(reg, k) \in ByteStrings
<1>1. IsTimedTable(reg, Keys, Data) /\ <<>> \in Data
  BY AccountsAssumption, DataAssumption DEF ShownRegistries, TypeOK
<1>2. Bytes(reg, k) \in Data
  BY <1>1 DEF Bytes, GetActiveVariable, IsTimedTable, TimedRecord
<1> QED BY <1>2, DataAssumption DEF ByteStrings, Byte

\* A transfer never burns more than its amount, nor a bridge request more
\* than its amount for its recipient.
LEMMA ChargesAreShares ==
  ASSUME TypeOK, NEW reg \in ShownRegistries, NEW amount \in Nat
  PROVE  /\ CalculateTransferFee(reg, amount) \in 0 .. amount
         /\ CalculateBridgeTax(reg, amount) \in 0 .. amount
<1>. DEFINE f == FeeSettings(reg)
            rate == TransferRate(f, Epoch)
            share == (amount * rate) \div FeeDenominator
<1>1. f \in FeeVariables /\ Epoch \in Nat
  <2>. DEFINE v == [base |-> Bytes(reg, BurnFee), increase |-> Bytes(reg, BurnIncrease),
                    maximal |-> Bytes(reg, BurnFeeMaximal),
                    minimal |-> Bytes(reg, BurnFeeMinimal)]
  <2>1. v \in FeeBytes
    BY BytesAreShown DEF FeeBytes
  <2>. HIDE DEF v
  <2> QED BY <2>1, FeesAreRead, EpochMonotone DEF FeeSettings, Epoch, TypeOK, v
<1>. HIDE DEF f
<1>2. rate \in 0 .. FeeDenominator /\ MinimumFee(f.minimal) \in Nat
  BY <1>1, RateType, MinimumType
<1>. HIDE DEF rate
<1>3. share \in Nat
  BY <1>2, FeesAssumption, ShareGrows
<1>. HIDE DEF share
<1>4. Larger(share, MinimumFee(f.minimal)) \in Nat
  BY <1>2, <1>3 DEF Larger
<1>5. TransferFee(f, Epoch, amount) =
        IF f.base = 0 THEN 0 ELSE Smaller(amount, Larger(share, MinimumFee(f.minimal)))
  BY DEF TransferFee, share, rate
<1>6. TransferFee(f, Epoch, amount) \in 0 .. amount
  BY <1>4, <1>5 DEF Smaller
<1>. DEFINE taxRate == Smaller(ReadU64(Bytes(reg, BridgeTaxFee)), FeeDenominator)
<1>7. taxRate \in 0 .. FeeDenominator
  <2>1. Bytes(reg, BridgeTaxFee) \in Seq(Nat)
    <3>1. 0 .. 255 \subseteq Nat
      OBVIOUS
    <3> QED BY <3>1, BytesAreShown, SeqMonotonic DEF ByteStrings
  <2>2. ReadU64(Bytes(reg, BridgeTaxFee)) \in Nat
    BY <2>1, ReadingTypes
  <2> QED BY <2>2, FeesAssumption DEF Smaller
<1>. HIDE DEF taxRate
<1>8. (amount * taxRate) \div FeeDenominator \in 0 .. amount
  <2>1. /\ (amount * taxRate) \div FeeDenominator \in Nat
        /\ (amount * taxRate) \div FeeDenominator <= amount
    BY <1>7, FeesAssumption, ShareGrows
  <2> QED BY <2>1
<1> QED BY <1>6, <1>8 DEF CalculateTransferFee, CalculateBridgeTax, BridgeTax, f, taxRate

-------------------------------------------------------------------------------
(* The accounts of the token *)

\* All tokens minted by the messages of a set.
MintedBy(ms) == SumFunction([m \in ms |-> m.amount])

AccountsSound ==
  /\ balances \in [Wallets -> Nat]
  /\ supply \in 0 .. MaxSupply
  /\ feeRecipient \in SUBSET Wallets /\ Cardinality(feeRecipient) <= 1
  /\ nullifiers \subseteq MintMessages /\ IsFiniteSet(nullifiers)
  /\ burnt \in Nat /\ bridged \in Nat
  /\ supply = SumFunction(balances)
  /\ supply + burnt + bridged = InitialSupply + MintedBy(nullifiers)

LEMMA OneMoreMint ==
  ASSUME NEW ms \in SUBSET MintMessages, IsFiniteSet(ms), NEW m \in MintMessages \ ms
  PROVE  MintedBy(ms \union {m}) = MintedBy(ms) + m.amount
<1>. DEFINE f == [x \in ms |-> x.amount]
            g == [x \in ms \union {m} |-> x.amount]
<1>1. \A x \in MintMessages : x.amount \in Nat
  BY TokenAssumption
<1>2. NaturalOn(f, ms) /\ g[m] = m.amount /\ m.amount \in Nat /\ \A x \in ms : g[x] = f[x]
  BY <1>1 DEF NaturalOn
<1>3. DOMAIN f = ms /\ DOMAIN g = ms \union {m} /\ m \notin ms
  OBVIOUS
<1>. HIDE DEF f, g
<1>4. SumFunctionOnSet(g, ms \union {m}) = SumFunctionOnSet(f, ms) + g[m]
  BY <1>2, <1>3, SumGrows
<1> QED BY <1>2, <1>3, <1>4 DEF MintedBy, SumFunction, f, g

LEMMA AccountsStart == InitializeToken => AccountsSound
<1> SUFFICES ASSUME InitializeToken PROVE AccountsSound
  OBVIOUS
<1>. DEFINE nothing == [w \in Wallets |-> 0]
<1>1. balances \in [Wallets -> Nat] /\ balances = Given(nothing, Authority, InitialSupply)
  BY TokenAssumption DEF InitializeToken, Given
<1>2. SumFunction(nothing) = 0
  <2>1. \A w \in Wallets : nothing[w] = 0
    OBVIOUS
  <2>2. DOMAIN nothing = Wallets
    OBVIOUS
  <2>. HIDE DEF nothing
  <2> QED BY <2>1, <2>2, TokenAssumption, SumOfZeros DEF SumFunction
<1>3. SumFunction(balances) = InitialSupply
  <2>1. nothing \in [Wallets -> Nat] /\ Authority \in Wallets /\ InitialSupply \in Nat
    BY TokenAssumption
  <2>. HIDE DEF nothing
  <2>2. SumFunction(Given(nothing, Authority, InitialSupply))
          = SumFunction(nothing) + InitialSupply
    BY <2>1, GivenFacts
  <2> QED BY <1>1, <1>2, <2>1, <2>2
<1>4. MintedBy({}) = 0
  BY SumOfNothing DEF MintedBy, SumFunction
<1>5. IsFiniteSet({}) /\ Cardinality({}) = 0
  BY FS_EmptySet
<1> QED BY <1>1, <1>3, <1>4, <1>5, TokenAssumption DEF InitializeToken, AccountsSound

LEMMA AccountsStep ==
  ASSUME TypeOK, AccountsSound, [TokenNext]_allVars
  PROVE  AccountsSound'
<1>1. CASE UNCHANGED <<balances, supply, nullifiers, burnt, bridged>>
           /\ feeRecipient' \in SUBSET Wallets /\ Cardinality(feeRecipient') <= 1
  BY <1>1 DEF AccountsSound
<1>2. ASSUME NEW user \in Wallets, NEW amount \in Amounts,
             NEW reg \in ShownRegistries, RequestBridge(user, amount, reg)
      PROVE  AccountsSound'
  <2>. DEFINE tax == CalculateBridgeTax(reg, amount)
              to == IF tax > 0 THEN GetFeeRecipient(reg) ELSE user
  <2>1. amount \in Nat /\ tax \in 0 .. amount
    BY TokenAssumption, ChargesAreShares
  <2>2. /\ amount - tax > 0 /\ to \in Wallets /\ tax <= balances[user]
        /\ amount - tax <= Moved(user, to, tax)[user]
        /\ balances' = Taken(Moved(user, to, tax), user, amount - tax)
        /\ supply' = supply - (amount - tax)
        /\ bridged' = bridged + (amount - tax)
        /\ UNCHANGED <<feeRecipient, nullifiers, burnt>>
    <3>1. balances[user] >= tax /\ Moved(user, to, tax)[user] >= amount - tax
      BY <1>2 DEF RequestBridge
    <3>2. Moved(user, to, tax)[user] \in Int /\ balances[user] \in Int
      <4>1. balances \in [Wallets -> Nat]
        BY DEF AccountsSound
      <4>2. \A x, y \in Wallets, z \in Nat : Moved(x, y, z) \in [Wallets -> Int]
        BY <4>1 DEF Moved, Taken, Given
      <4>3. to \in Wallets /\ tax \in Nat
        BY <1>2, <2>1 DEF RequestBridge
      <4>. HIDE DEF tax, to
      <4> QED BY <4>1, <4>2, <4>3
    <3>3. tax \in Int /\ amount - tax \in Int
      BY <2>1
    <3>4. tax <= balances[user] /\ amount - tax <= Moved(user, to, tax)[user]
      <4>. HIDE DEF tax, to
      <4> QED BY <3>1, <3>2, <3>3
    <3> QED BY <1>2, <3>4, Zenon DEF RequestBridge
  <2>. HIDE DEF tax, to
  <2>3. PICK rest \in Nat : rest = amount - tax
    BY <2>1
  <2>4. /\ balances' \in [Wallets -> Nat] /\ rest <= SumFunction(balances)
        /\ SumFunction(balances') = SumFunction(balances) - rest
    <3>1. /\ balances \in [Wallets -> Nat] /\ tax \in Nat /\ tax <= balances[user]
          /\ rest <= Moved(user, to, tax)[user]
      BY <2>1, <2>2, <2>3 DEF AccountsSound
    <3> QED BY <2>2, <2>3, <3>1, MovedAndBurnt
  <2>5. supply' \in 0 .. MaxSupply /\ bridged' \in Nat
    BY <2>2, <2>3, <2>4, TokenAssumption DEF AccountsSound
  <2>6. supply' + burnt' + bridged' = supply + burnt + bridged
    BY <2>2, <2>3, TokenAssumption DEF AccountsSound
  <2>7. supply' = SumFunction(balances')
    BY <2>2, <2>3, <2>4 DEF AccountsSound
  <2> QED BY <2>2, <2>4, <2>5, <2>6, <2>7 DEF AccountsSound
<1>3. ASSUME NEW m \in MintMessages, NEW to \in Wallets, ConsensusMint(m, to)
      PROVE  AccountsSound'
  <2>1. /\ m \notin nullifiers /\ supply + m.amount <= MaxSupply
        /\ nullifiers' = nullifiers \union {m}
        /\ balances' = Given(balances, to, m.amount)
        /\ supply' = supply + m.amount
        /\ UNCHANGED <<feeRecipient, burnt, bridged>>
    BY <1>3 DEF ConsensusMint
  <2>2. m.recipient \in Wallets /\ m.amount \in Nat
    BY TokenAssumption
  <2>3. /\ balances' \in [Wallets -> Nat]
        /\ SumFunction(balances') = SumFunction(balances) + m.amount
    BY <2>1, <2>2, GivenFacts DEF AccountsSound
  <2>4. IsFiniteSet(nullifiers') /\ MintedBy(nullifiers') = MintedBy(nullifiers) + m.amount
    <3>1. nullifiers \in SUBSET MintMessages /\ IsFiniteSet(nullifiers)
      BY DEF AccountsSound
    <3> QED BY <2>1, <3>1, OneMoreMint, FS_AddElement
  <2>5. supply' \in 0 .. MaxSupply
    BY <2>1, <2>2, TokenAssumption DEF AccountsSound
  <2>6. MintedBy(nullifiers) = supply + burnt + bridged - InitialSupply
    <3>1. MintedBy(nullifiers) \in Nat
      <4>. DEFINE f == [x \in nullifiers |-> x.amount]
      <4>1. NaturalOn(f, nullifiers) /\ DOMAIN f = nullifiers
        BY TokenAssumption DEF NaturalOn, AccountsSound
      <4>. HIDE DEF f
      <4>2. SumFunctionOnSet(f, nullifiers) \in Nat
        BY <4>1, SumIsNatural DEF AccountsSound
      <4> QED BY <4>1, <4>2 DEF MintedBy, SumFunction, f
    <3>2. supply \in Nat /\ burnt \in Nat /\ bridged \in Nat /\ InitialSupply \in Nat
      BY TokenAssumption DEF AccountsSound
    <3>3. supply + burnt + bridged = InitialSupply + MintedBy(nullifiers)
      BY DEF AccountsSound
    <3> QED BY <3>1, <3>2, <3>3
  <2>7. supply' + burnt' + bridged' = InitialSupply + MintedBy(nullifiers')
    BY <2>1, <2>2, <2>4, <2>6, TokenAssumption DEF AccountsSound
  <2>8. supply' = SumFunction(balances')
    BY <2>1, <2>3 DEF AccountsSound
  <2> QED BY <2>1, <2>3, <2>4, <2>5, <2>7, <2>8 DEF AccountsSound
<1>4. ASSUME NEW from \in Wallets, NEW to \in Wallets, NEW amount \in Amounts,
             NEW reg \in ShownRegistries, TransferWithFee(from, to, amount, reg)
      PROVE  AccountsSound'
  <2>. DEFINE fee == CalculateTransferFee(reg, amount)
  <2>1. amount \in Nat /\ fee \in 0 .. amount
    BY TokenAssumption, ChargesAreShares
  <2>2. /\ amount - fee <= balances[from]
        /\ fee <= Moved(from, to, amount - fee)[from]
        /\ balances' = Taken(Moved(from, to, amount - fee), from, fee)
        /\ supply' = supply - fee
        /\ burnt' = burnt + fee
        /\ UNCHANGED <<feeRecipient, nullifiers, bridged>>
    <3>1. balances[from] >= amount - fee /\ Moved(from, to, amount - fee)[from] >= fee
      BY <1>4 DEF TransferWithFee
    <3>2. Moved(from, to, amount - fee)[from] \in Int /\ balances[from] \in Int
      <4>1. balances \in [Wallets -> Nat] /\ amount - fee \in Int
        BY <2>1 DEF AccountsSound
      <4>. HIDE DEF fee
      <4> QED BY <4>1 DEF Moved, Taken, Given
    <3>3. amount - fee <= balances[from] /\ fee <= Moved(from, to, amount - fee)[from]
      <4>. HIDE DEF fee
      <4> QED BY <2>1, <3>1, <3>2
    <3> QED BY <1>4, <3>3, Zenon DEF TransferWithFee
  <2>. HIDE DEF fee
  <2>3. PICK sent \in Nat : sent = amount - fee
    BY <2>1
  <2>4. /\ balances' \in [Wallets -> Nat] /\ fee <= SumFunction(balances)
        /\ SumFunction(balances') = SumFunction(balances) - fee
    <3>1. /\ balances \in [Wallets -> Nat] /\ fee \in Nat /\ sent <= balances[from]
          /\ fee <= Moved(from, to, sent)[from]
      BY <2>1, <2>2, <2>3 DEF AccountsSound
    <3> QED BY <2>2, <2>3, <3>1, MovedAndBurnt
  <2>5. supply' \in 0 .. MaxSupply /\ burnt' \in Nat
    BY <2>1, <2>2, <2>4, TokenAssumption DEF AccountsSound
  <2>6. supply' + burnt' + bridged' = supply + burnt + bridged
    BY <2>1, <2>2, TokenAssumption DEF AccountsSound
  <2>7. supply' = SumFunction(balances')
    BY <2>2, <2>4 DEF AccountsSound
  <2> QED BY <2>2, <2>4, <2>5, <2>6, <2>7 DEF AccountsSound
<1>6. ASSUME NEW w \in Wallets, SetFeeRecipient(w)
      PROVE  AccountsSound'
  <2>1. Cardinality({w}) = 1
    BY FS_Singleton
  <2> QED BY <1>1, <1>6, <2>1 DEF SetFeeRecipient, AccountsSound
<1>7. CASE GovernanceStep \/ UNCHANGED allVars
  BY <1>1, <1>7 DEF GovernanceStep, allVars, tokenVars, AccountsSound
<1> QED BY <1>2, <1>3, <1>4, <1>6, <1>7 DEF TokenNext

\* A mint counts the nullifiers exactly.
CountedByNullifiers ==
  /\ minted \in [MintMessages -> Nat]
  /\ \A m \in MintMessages : minted[m] = IF m \in nullifiers THEN 1 ELSE 0

TokenInv == TypeOK /\ CountedByNullifiers /\ AccountsSound

\* What a step of the token's specification does to the governance accounts:
\* a step of the governance, or a mint that closes a buffer.
LEMMA GovernanceSeen ==
  ASSUME [TokenNext]_allVars
  PROVE  \/ [Next]_vars /\ UNCHANGED <<minted, nullifiers>>
         \/ \E m \in MintMessages, to \in Wallets : ConsensusMint(m, to)
BY DEF TokenNext, GovernanceStep, allVars, tokenVars, RequestBridge,
   TransferWithFee, SetFeeRecipient

LEMMA TokenInvHolds == TokenSpec => []TokenInv
<1>1. TokenInit => TokenInv
  <2> SUFFICES ASSUME TokenInit PROVE TokenInv
    OBVIOUS
  <2>1. now \in Nat
    BY TimeAssumption DEF TokenInit, InitializeEpoch
  <2>2. TypeOK
    <3>1. /\ DOMAIN sigBuffer \subseteq Messages
          /\ \A m \in DOMAIN sigBuffer : sigBuffer[m] \in Seq(Addresses)
      BY DEF TokenInit
    <3>2. /\ IsTimedTable(registry, Keys, Data) /\ isLocked \in BOOLEAN
          /\ IsTimedTable(validators, Addresses, BOOLEAN)
      BY TokenAssumption DEF TokenInit
    <3> QED BY <2>1, <3>1, <3>2 DEF TypeOK
  <2>3. CountedByNullifiers
    BY DEF TokenInit, InitializeToken, CountedByNullifiers
  <2>4. AccountsSound
    BY AccountsStart DEF TokenInit
  <2> QED BY <2>2, <2>3, <2>4 DEF TokenInv
<1>2. TokenInv /\ [TokenNext]_allVars => TokenInv'
  <2> SUFFICES ASSUME TokenInv, [TokenNext]_allVars PROVE TokenInv'
    OBVIOUS
  <2>0. AccountsSound'
    BY AccountsStep DEF TokenInv
  <2>1. CASE [Next]_vars /\ UNCHANGED <<minted, nullifiers>>
    BY <2>1, <2>0, TypeStep DEF TokenInv, CountedByNullifiers
  <2>2. ASSUME NEW m \in MintMessages, NEW to \in Wallets, ConsensusMint(m, to)
        PROVE  TokenInv'
    <3>1. TypeOK'
      BY <2>2, CloseTypes DEF TokenInv, TypeOK, ConsensusMint
    <3>2. CountedByNullifiers'
      BY <2>2 DEF TokenInv, CountedByNullifiers, ConsensusMint
    <3> QED BY <2>0, <3>1, <3>2 DEF TokenInv
  <2> QED BY <2>1, <2>2, GovernanceSeen
<1> QED BY <1>1, <1>2, PTL DEF TokenSpec

\* No message is minted twice, however often its signatures are staged again.
THEOREM MintedOnce == TokenSpec => []MintedAtMostOnce
<1>1. TokenInv => MintedAtMostOnce
  BY DEF TokenInv, CountedByNullifiers, MintedAtMostOnce
<1> QED BY <1>1, TokenInvHolds, PTL

\* The token's accounts are well typed in every behaviour: above all, no
\* balance and no supply is ever taken below zero by a fee, a tax or a rounding.
THEOREM TokenTypeCorrect == TokenSpec => []TokenTypeOK
<1>1. TokenInv => TokenTypeOK
  BY DEF TokenInv, CountedByNullifiers, AccountsSound, TokenTypeOK
<1> QED BY <1>1, TokenInvHolds, PTL

\* All tokens are held in accounts, and each was minted, at first or by a
\* message, and neither burnt nor bridged since, for any number of wallets.
THEOREM SupplyIsAccounted == TokenSpec => []SupplyAccountedFor
<1>1. TokenInv => SupplyAccountedFor
  BY DEF TokenInv, AccountsSound, SupplyAccountedFor, MintedBy
<1> QED BY <1>1, TokenInvHolds, PTL
===============================================================================
