----------------------------- MODULE VaultProofs ------------------------------
(***************************************************************************)
(* Theorems about Vault, for all users, vaults, tokens, messages, amounts  *)
(* and rates.                                                              *)
(***************************************************************************)
EXTENDS Vault, ProviderRegistryProofs, SumTheorems

\* The records of paid messages count the payments exactly.
PaidByRecords ==
  /\ paid \in [WithdrawMessages -> Nat]
  /\ \A m \in WithdrawMessages : paid[m] = IF m \in nullifierRecords THEN 1 ELSE 0

\* The pots are well formed, and each holds what it counts as its reserves,
\* save what was sent elsewhere.
Backed(p) == PotOf(p) <= tokens[p] + astray[p]

PotsBacked ==
  /\ tokens \in [TokenAccounts -> Nat]
  /\ astray \in [Pots -> Nat]
  /\ DOMAIN pots \subseteq Pots
  /\ pots \in [DOMAIN pots -> [name : Tokens, reserves : Nat]]
  /\ \A p \in Pots : Backed(p)

VaultInv == PaidByRecords /\ PotsBacked

Deposits ==
  \E u \in Users, p \in DOMAIN pots, t \in Tokens, amount \in DepositAmounts,
     to \in TokenAccounts :
    \/ \E rate \in PseudoRandomRange(p[1]) : Deposit(u, p, t, amount, to, rate)
    \/ Stake(u, p, t, amount, to)

\* The steps, by what they do to the pots: of the governance, opening and
\* setting up a vault, listing a token, taking tokens in and paying them out.
LEMMA StepKinds ==
  ASSUME [VaultNext]_allVars
  PROVE  \/ UNCHANGED allVars
         \/ QiaraStep
         \/ \E v \in Vaults : CreateVault(v)
         \/ \E v \in Vaults, range \in Ranges : SetProviderRange(v, range)
         \/ \E p \in Pots, t \in Tokens : ListNewToken(p, t)
         \/ Deposits
         \/ Withdrawal
BY DEF VaultNext, UserStep, Deposits

\* A step that pays no one leaves the count of payments alone.
LEMMA OthersPayNothing ==
  ASSUME [VaultNext]_allVars
  PROVE  UNCHANGED <<paid, nullifierRecords>> \/ Withdrawal
<1>1. CASE UNCHANGED allVars \/ QiaraStep
  BY <1>1 DEF allVars, vaultVars, QiaraStep
<1>2. ASSUME NEW v, CreateVault(v)
      PROVE  UNCHANGED <<paid, nullifierRecords>>
  BY <1>2 DEF CreateVault
<1>3. ASSUME NEW v, NEW range, SetProviderRange(v, range)
      PROVE  UNCHANGED <<paid, nullifierRecords>>
  BY <1>3 DEF SetProviderRange
<1>4. ASSUME NEW p, NEW t, ListNewToken(p, t)
      PROVE  UNCHANGED <<paid, nullifierRecords>>
  BY <1>4 DEF ListNewToken
<1>5. CASE Deposits
  BY <1>5 DEF Deposits, Deposit, Stake
<1> QED BY <1>1, <1>2, <1>3, <1>4, <1>5, StepKinds

\* A transfer takes from no account but the first, and gives to the second.
LEMMA TransferMoves ==
  ASSUME tokens \in [TokenAccounts -> Nat], NEW from \in TokenAccounts,
         NEW to \in TokenAccounts, NEW amount \in Nat, Transfer(from, to, amount)
  PROVE  /\ tokens' \in [TokenAccounts -> Nat]
         /\ tokens'[from] >= tokens[from] - amount
         /\ \A a \in TokenAccounts \ {from} :
              tokens'[a] = tokens[a] + IF a = to THEN amount ELSE 0
<1>1. /\ tokens[from] \in Nat /\ tokens[to] \in Nat /\ tokens[from] >= amount
      /\ tokens' = [tokens EXCEPT ![from] = @ - amount, ![to] = @ + amount]
  BY DEF Transfer
<1>2. CASE from = to
  <2>1. tokens' = tokens
    BY <1>1, <1>2
  <2> QED BY <1>1, <1>2, <2>1
<1>3. CASE from # to
  BY <1>1, <1>3
<1> QED BY <1>2, <1>3

\* No user's account is a pot's.
LEMMA UserAccounts ==
  ASSUME NEW u \in Users, NEW p \in Pots
  PROVE  /\ <<u, p[2]>> \in TokenAccounts /\ <<u, p[2]>> \notin Pots
         /\ Pots \subseteq TokenAccounts
BY VaultAssumption DEF Pots, TokenAccounts

LEMMA ReceiveBacks ==
  ASSUME PotsBacked, NEW u \in Users, NEW p \in DOMAIN pots, NEW amount \in Nat,
         NEW to \in TokenAccounts, Receive(u, p, amount, to)
  PROVE  PotsBacked'
<1>1. p \in Pots /\ pots[p] \in [name : Tokens, reserves : Nat] /\ astray[p] \in Nat
  BY DEF PotsBacked
<1>2. /\ pots' = [pots EXCEPT ![p].reserves = @ + amount]
      /\ astray' = [astray EXCEPT ![p] = astray[p] + IF to = p THEN 0 ELSE amount]
      /\ Transfer(<<u, p[2]>>, to, amount)
  BY DEF Receive
<1>3. /\ tokens' \in [TokenAccounts -> Nat]
      /\ \A q \in Pots : tokens'[q] = tokens[q] + IF q = to THEN amount ELSE 0
  <2>1. PICK from \in TokenAccounts : from = <<u, p[2]>> /\ from \notin Pots
    BY <1>1, UserAccounts
  <2>2. Transfer(from, to, amount) /\ Pots \subseteq TokenAccounts \ {from}
    BY <1>1, <1>2, <2>1, UserAccounts
  <2> QED BY <2>2, TransferMoves DEF PotsBacked
<1>4. DOMAIN pots' = DOMAIN pots /\ astray' \in [Pots -> Nat]
  BY <1>1, <1>2 DEF PotsBacked
<1>5. pots' \in [DOMAIN pots' -> [name : Tokens, reserves : Nat]]
  BY <1>1, <1>2, <1>4 DEF PotsBacked
<1>6. ASSUME NEW q \in Pots PROVE Backed(q)'
  <2>1. /\ PotOf(q) <= tokens[q] + astray[q] /\ PotOf(q) \in Nat
        /\ tokens[q] \in Nat /\ astray[q] \in Nat
        /\ tokens'[q] = tokens[q] + IF q = to THEN amount ELSE 0
    BY <1>1, <1>3, UserAccounts DEF PotsBacked, PotOf, Backed
  <2>2. CASE q = p
    <3>1. PotOf(q)' = PotOf(q) + amount
          /\ astray'[q] = astray[q] + IF to = p THEN 0 ELSE amount
      BY <1>1, <1>2, <1>4, <2>2 DEF PotOf, PotsBacked
    <3> QED BY <2>1, <2>2, <3>1 DEF Backed
  <2>3. CASE q # p
    <3>1. PotOf(q)' = PotOf(q) /\ astray'[q] = astray[q]
      BY <1>1, <1>2, <1>4, <2>3 DEF PotOf, PotsBacked
    <3> QED BY <2>1, <3>1 DEF Backed
  <2> QED BY <2>2, <2>3
<1> QED BY <1>3, <1>4, <1>5, <1>6 DEF PotsBacked

LEMMA WithdrawalBacks ==
  ASSUME PotsBacked, NEW m \in WithdrawMessages, NEW p \in DOMAIN pots,
         NEW to \in TokenAccounts, NEW rate, DirectWithdraw(m, p, to, rate)
  PROVE  PotsBacked'
<1>1. /\ p \in Pots /\ pots[p] \in [name : Tokens, reserves : Nat]
      /\ Pots \subseteq TokenAccounts
  BY DEF PotsBacked, Pots, TokenAccounts
<1>2. /\ pots' = [pots EXCEPT ![p].reserves = @ - m.amount]
      /\ Transfer(p, to, m.amount) /\ astray' = astray
      /\ pots[p].reserves >= m.amount /\ m.amount \in Nat
  BY VaultAssumption DEF DirectWithdraw, Pay, Serves
<1>3. /\ tokens' \in [TokenAccounts -> Nat]
      /\ tokens'[p] >= tokens[p] - m.amount
      /\ \A q \in Pots \ {p} : tokens'[q] >= tokens[q]
  BY <1>1, <1>2, TransferMoves DEF PotsBacked
<1>4. DOMAIN pots' = DOMAIN pots
  BY <1>2
<1>5. pots' \in [DOMAIN pots' -> [name : Tokens, reserves : Nat]]
  BY <1>1, <1>2, <1>4 DEF PotsBacked
<1>6. ASSUME NEW q \in Pots PROVE Backed(q)'
  <2>1. /\ PotOf(q) <= tokens[q] + astray[q] /\ PotOf(q) \in Nat
        /\ tokens[q] \in Nat /\ tokens'[q] \in Nat /\ astray[q] \in Nat
    BY <1>1, <1>3 DEF PotsBacked, PotOf, Backed
  <2>2. CASE q = p
    <3>1. PotOf(q)' = PotOf(q) - m.amount
      BY <1>1, <1>2, <1>4, <2>2 DEF PotOf, PotsBacked
    <3> QED BY <1>2, <1>3, <2>1, <2>2, <3>1 DEF Backed
  <2>3. CASE q # p
    <3>1. PotOf(q)' = PotOf(q)
      BY <1>1, <1>2, <1>4, <2>3 DEF PotOf, PotsBacked
    <3> QED BY <1>2, <1>3, <2>1, <2>3, <3>1 DEF Backed
  <2> QED BY <2>2, <2>3
<1> QED BY <1>2, <1>3, <1>4, <1>5, <1>6 DEF PotsBacked

LEMMA PotsStayBacked ==
  ASSUME PotsBacked, [VaultNext]_allVars
  PROVE  PotsBacked'
<1>1. CASE UNCHANGED <<pots, tokens, astray>>
  BY <1>1 DEF PotsBacked, PotOf, Backed
<1>2. ASSUME NEW p \in Pots, NEW t \in Tokens, ListNewToken(p, t)
      PROVE  PotsBacked'
  <2>1. /\ pots' = Put(pots, p, [name |-> t, reserves |-> 0])
        /\ UNCHANGED <<tokens, astray>> /\ p \notin DOMAIN pots
    BY <1>2 DEF ListNewToken
  <2>2. DOMAIN pots' = DOMAIN pots \union {p}
        /\ pots' \in [DOMAIN pots' -> [name : Tokens, reserves : Nat]]
    BY <2>1 DEF Put, PotsBacked
  <2>3. ASSUME NEW q \in Pots PROVE Backed(q)'
    <3>1. PotOf(q)' = PotOf(q) /\ PotOf(q) <= tokens[q] + astray[q]
      BY <2>1, <2>2 DEF PotsBacked, Put, PotOf, Backed
    <3> QED BY <2>1, <3>1 DEF Backed
  <2> QED BY <2>1, <2>2, <2>3 DEF PotsBacked
<1>3. ASSUME NEW u \in Users, NEW p \in DOMAIN pots, NEW amount \in DepositAmounts,
             NEW to \in TokenAccounts, Receive(u, p, amount, to)
      PROVE  PotsBacked'
  BY <1>3, ReceiveBacks, VaultAssumption
<1>4. CASE Withdrawal
  BY <1>4, WithdrawalBacks DEF Withdrawal
<1>5. CASE Deposits
  <2>1. PICK u \in Users, p \in DOMAIN pots, t \in Tokens, amount \in DepositAmounts,
             to \in TokenAccounts :
          \/ \E rate \in PseudoRandomRange(p[1]) : Deposit(u, p, t, amount, to, rate)
          \/ Stake(u, p, t, amount, to)
    BY <1>5 DEF Deposits
  <2>2. Receive(u, p, amount, to)
    BY <2>1 DEF Deposit, Stake
  <2> QED BY <1>3, <2>2
<1>6. CASE UNCHANGED allVars \/ QiaraStep
  BY <1>1, <1>6 DEF allVars, vaultVars, QiaraStep
<1>7. ASSUME NEW v, CreateVault(v)
      PROVE  PotsBacked'
  BY <1>1, <1>7 DEF CreateVault
<1>8. ASSUME NEW v, NEW range, SetProviderRange(v, range)
      PROVE  PotsBacked'
  BY <1>1, <1>8 DEF SetProviderRange
<1> QED BY <1>2, <1>4, <1>5, <1>6, <1>7, <1>8, StepKinds

LEMMA VaultInvHolds == VaultSpec => []VaultInv
<1>1. VaultInit => VaultInv
  <2> SUFFICES ASSUME VaultInit PROVE VaultInv
    OBVIOUS
  <2>1. tokens \in [TokenAccounts -> Nat] /\ astray \in [Pots -> Nat]
    BY VaultAssumption DEF VaultInit, VaultsInit
  <2>2. \A p \in Pots : PotOf(p) = 0 /\ tokens[p] \in Nat /\ astray[p] = 0
    BY <2>1 DEF VaultInit, VaultsInit, PotOf, Pots, TokenAccounts
  <2>3. \A p \in Pots : Backed(p)
    BY <2>2 DEF Backed
  <2>4. DOMAIN <<>> = {} /\ <<>> \in [{} -> [name : Tokens, reserves : Nat]]
    OBVIOUS
  <2> QED BY <2>1, <2>3, <2>4 DEF VaultInit, VaultsInit, VaultInv, PaidByRecords, PotsBacked
<1>2. VaultInv /\ [VaultNext]_allVars => VaultInv'
  <2> SUFFICES ASSUME VaultInv, [VaultNext]_allVars PROVE VaultInv'
    OBVIOUS
  <2>1. PotsBacked'
    BY PotsStayBacked DEF VaultInv
  <2>2. PaidByRecords'
    <3>1. CASE UNCHANGED <<paid, nullifierRecords>>
      BY <3>1 DEF VaultInv, PaidByRecords
    <3>2. ASSUME NEW m \in WithdrawMessages, NEW p, NEW to, NEW rate,
                 DirectWithdraw(m, p, to, rate)
          PROVE  PaidByRecords'
      BY <3>2 DEF VaultInv, PaidByRecords, DirectWithdraw, Pay
    <3> QED BY <3>1, <3>2, OthersPayNothing DEF Withdrawal
  <2> QED BY <2>1, <2>2 DEF VaultInv
<1> QED BY <1>1, <1>2, PTL DEF VaultSpec

\* No message is paid twice, although its signatures stay staged and any
\* vault of the provider may serve it.
THEOREM PaidOnce == VaultSpec => []PaidAtMostOnce
<1>1. VaultInv => PaidAtMostOnce
  BY DEF VaultInv, PaidByRecords, PaidAtMostOnce
<1> QED BY <1>1, VaultInvHolds, PTL

\* What a pot lacks of its reserves its depositors sent elsewhere; a pot all
\* of whose depositors named its own account holds its reserves.
THEOREM ReservesAreHeld ==
  VaultSpec => []( /\ \A p \in Pots : PotOf(p) <= tokens[p] + astray[p]
                   /\ \A p \in Pots : astray[p] = 0 => PotOf(p) <= tokens[p] )
<1>1. VaultInv => /\ \A p \in Pots : PotOf(p) <= tokens[p] + astray[p]
                  /\ \A p \in Pots : astray[p] = 0 => PotOf(p) <= tokens[p]
  <2> SUFFICES ASSUME VaultInv, NEW p \in Pots
               PROVE  /\ PotOf(p) <= tokens[p] + astray[p]
                      /\ astray[p] = 0 => PotOf(p) <= tokens[p]
    OBVIOUS
  <2>1. PotOf(p) <= tokens[p] + astray[p] /\ tokens[p] \in Nat
    BY DEF VaultInv, PotsBacked, Backed, Pots, TokenAccounts
  <2> QED BY <2>1
<1> QED BY <1>1, VaultInvHolds, PTL

-------------------------------------------------------------------------------
(* Yields *)

\* Whatever the rate and the time, a yield is a number of 64 bits.
LEMMA YieldIsNatural ==
  ASSUME NEW balance \in Nat, NEW last \in Nat, NEW rate \in Nat, now \in Nat,
         NEW s, s.balance = balance, s.last = last
  PROVE  CalculateYield(s, rate) \in Nat
<1>1. ASSUME NEW n \in Nat
      PROVE  (n \div YieldDenominator) % (MaxAmount + 1) \in Nat
  <2>1. PICK d \in Nat \ {0} : d = YieldDenominator
    BY VaultAssumption
  <2>2. PICK e \in Nat \ {0} : e = MaxAmount + 1
    BY VaultAssumption
  <2>3. n \div d \in Nat
    BY SMT
  <2>4. PICK q \in Nat : q = n \div d
    BY <2>3
  <2>5. q % e \in 0 .. e - 1
    BY SMT
  <2> QED BY <2>1, <2>2, <2>4, <2>5
<1>. USE DEF Earning
<1>2. CASE balance > 0 /\ last > 0 /\ now > last
  <2>1. now - last \in Nat
    BY <1>2
  <2>2. PICK t \in Nat : t = now - last
    BY <2>1
  <2>3. balance * rate \in Nat
    BY SMT
  <2>4. balance * rate * t \in Nat
    BY <2>3, SMT
  <2> QED BY <1>1, <1>2, <2>2, <2>4 DEF CalculateYield
<1>3. CASE ~ (balance > 0 /\ last > 0 /\ now > last)
  BY <1>3 DEF CalculateYield
<1> QED BY <1>2, <1>3

-------------------------------------------------------------------------------
(* What the users of a pot may claim *)

StatesUntil(n) == [Users -> [Pots -> [balance : 0 .. MaxAmount, last : 0 .. n]]]

WithState(states, u, p, b, l) ==
  [states EXCEPT ![u][p] = [balance |-> b, last |-> l]]

BalancesIn(states, p) == [u \in Users |-> states[u][p].balance]

Claims(states, p) == SumFunction(BalancesIn(states, p))

OtherClaimsStay(states, new, p) ==
  \A q \in Pots \ {p} : Claims(new, q) = Claims(states, q)

\* A new balance of one user in one pot moves the claims on that pot, and on
\* no other.
LEMMA OneBalanceChanges ==
  ASSUME NEW n \in Nat, NEW states \in StatesUntil(n), NEW u \in Users, NEW p \in Pots,
         NEW b \in 0 .. MaxAmount, NEW l \in 0 .. n,
         NEW new, new = WithState(states, u, p, b, l)
  PROVE  /\ new \in StatesUntil(n)
         /\ Claims(new, p) = Claims(states, p) + b - states[u][p].balance
         /\ OtherClaimsStay(states, new, p)
<1>1. /\ new \in StatesUntil(n)
      /\ new[u][p].balance = b
      /\ \A x \in Users, q \in Pots : x # u \/ q # p => new[x][q] = states[x][q]
  BY DEF StatesUntil, WithState
<1>2. \A x \in Users, q \in Pots : states[x][q].balance \in Nat
  <2>. TAKE x \in Users, q \in Pots
  <2>1. states[x][q] \in [balance : 0 .. MaxAmount, last : 0 .. n]
    BY DEF StatesUntil
  <2> QED BY <2>1, VaultAssumption
<1>3. \A q \in Pots : NaturalOn(BalancesIn(states, q), Users)
  BY <1>2 DEF NaturalOn, BalancesIn
<1>4. IsFiniteSet(Users)
  BY VaultAssumption
<1>5. Claims(new, p) = Claims(states, p) + b - states[u][p].balance
  <2>. DEFINE f == BalancesIn(states, p)
              g == BalancesIn(new, p)
  <2>1. /\ DOMAIN f = Users /\ DOMAIN g = Users
        /\ f[u] = states[u][p].balance /\ g[u] = b
        /\ \A x \in Users \ {u} : g[x] = f[x]
    BY <1>1 DEF BalancesIn
  <2>2. NaturalOn(f, Users)
    BY <1>3
  <2>3. g[u] \in Nat
    <3>1. MaxAmount \in Nat
      BY VaultAssumption
    <3>. HIDE DEF g
    <3> QED BY <2>1, <3>1
  <2>. HIDE DEF f, g
  <2>4. SumFunctionOnSet(g, Users) = SumFunctionOnSet(f, Users) + g[u] - f[u]
    BY <1>4, <2>1, <2>2, <2>3, SumChangesAtOne
  <2> QED BY <2>1, <2>4 DEF Claims, SumFunction, f, g
<1>6. ASSUME NEW q \in Pots \ {p}
      PROVE  Claims(new, q) = Claims(states, q)
  <2>1. BalancesIn(new, q) = BalancesIn(states, q)
    BY <1>1 DEF BalancesIn
  <2> QED BY <2>1 DEF Claims
<1> QED BY <1>1, <1>5, <1>6 DEF OtherClaimsStay

\* Nobody has a claim on a pot before the first deposit.
LEMMA NoClaims ==
  ASSUME NEW p \in Pots
  PROVE  Claims([u \in Users |-> [q \in Pots |-> NoState]], p) = 0
<1>. DEFINE f == BalancesIn([u \in Users |-> [q \in Pots |-> NoState]], p)
<1>1. DOMAIN f = Users /\ \A u \in Users : f[u] = 0
  BY DEF BalancesIn, NoState
<1>. HIDE DEF f
<1>2. SumFunctionOnSet(f, Users) = 0
  BY <1>1, VaultAssumption, SumOfZeros
<1> QED BY <1>1, <1>2 DEF Claims, SumFunction, f

-------------------------------------------------------------------------------
(* The books of the vaults *)

RangesSound ==
  /\ DOMAIN ranges \subseteq Vaults
  /\ ranges \in [DOMAIN ranges -> [min : Nat, max : Nat]]
  /\ \A v \in DOMAIN ranges : ranges[v].min <= ranges[v].max
  /\ DOMAIN pots \subseteq { p \in Pots : p[1] \in DOMAIN ranges }
  /\ \A p \in DOMAIN pots : pots[p].reserves <= MaxAmount

Balanced(p) == Claims(userStates, p) = PotOf(p) + yields[p] + shortfalls[p]

\* Everything that users may claim of a pot is reserved, was credited as yield, or
\* was paid beyond a balance.
BooksSound ==
  /\ now \in Nat
  /\ userStates \in StatesUntil(now)
  /\ nullifierRecords \subseteq WithdrawMessages
  /\ yields \in [Pots -> Nat] /\ shortfalls \in [Pots -> Nat]
  /\ \A p \in Pots : Balanced(p)

\* One change of a user's state in one pot, with what it does to the books.
LEMMA BooksMove ==
  ASSUME BooksSound, \A q \in Pots : PotOf(q) \in Nat, NEW u \in Users, NEW p \in Pots,
         NEW b \in 0 .. MaxAmount, NEW l \in 0 .. now,
         NEW h \in Nat, NEW y \in Nat, NEW short \in Nat,
         now' = now, userStates' = [userStates EXCEPT ![u][p] = [balance |-> b, last |-> l]],
         PotOf(p)' = h, \A q \in Pots \ {p} : PotOf(q)' = PotOf(q),
         yields' = [yields EXCEPT ![p] = yields[p] + y],
         shortfalls' = [shortfalls EXCEPT ![p] = shortfalls[p] + short],
         nullifierRecords' \subseteq WithdrawMessages,
         b - userStates[u][p].balance = h - PotOf(p) + y + short
  PROVE  BooksSound'
<1>1. /\ userStates' \in StatesUntil(now)
      /\ Claims(userStates', p) = Claims(userStates, p) + b - userStates[u][p].balance
      /\ \A q \in Pots \ {p} : Claims(userStates', q) = Claims(userStates, q)
  <2>. DEFINE states == userStates
              new == userStates'
  <2>1. states \in StatesUntil(now) /\ now \in Nat
    BY DEF BooksSound
  <2>2. new = WithState(states, u, p, b, l)
    BY DEF WithState
  <2>. HIDE DEF states, new
  <2>3. /\ new \in StatesUntil(now)
        /\ Claims(new, p) = Claims(states, p) + b - states[u][p].balance
        /\ OtherClaimsStay(states, new, p)
    BY <2>1, <2>2, OneBalanceChanges
  <2> QED BY <2>3 DEF states, new, OtherClaimsStay
<1>2. /\ yields' \in [Pots -> Nat] /\ shortfalls' \in [Pots -> Nat]
      /\ yields'[p] = yields[p] + y /\ shortfalls'[p] = shortfalls[p] + short
      /\ \A q \in Pots \ {p} : yields'[q] = yields[q] /\ shortfalls'[q] = shortfalls[q]
  BY DEF BooksSound
<1>4. Claims(userStates', p) = PotOf(p)' + yields'[p] + shortfalls'[p]
  <2>1. Claims(userStates, p) = PotOf(p) + yields[p] + shortfalls[p]
    BY DEF BooksSound, Balanced
  <2>2. PotOf(p) \in Nat /\ yields[p] \in Nat /\ shortfalls[p] \in Nat
    BY DEF BooksSound
  <2>3. userStates[u][p].balance \in Nat
    <3>1. userStates[u][p] \in [balance : 0 .. MaxAmount, last : 0 .. now]
      BY DEF BooksSound, StatesUntil
    <3> QED BY <3>1, VaultAssumption
  <2>4. b \in Nat
    BY VaultAssumption
  <2>5. PICK r \in Nat : r = PotOf(p)
    BY <2>2
  <2>6. Claims(userStates, p) = r + yields[p] + shortfalls[p]
        /\ b - userStates[u][p].balance = h - r + y + short
    BY <2>1, <2>5
  <2>7. Claims(userStates', p) = h + yields'[p] + shortfalls'[p]
    <3>1. PICK ys \in Nat, ss \in Nat, old \in Nat :
            ys = yields[p] /\ ss = shortfalls[p] /\ old = userStates[u][p].balance
      BY <2>2, <2>3
    <3>2. r + ys + ss + b - old = h + (ys + y) + (ss + short)
      <4>1. b - old = h - r + y + short
        BY <2>6, <3>1
      <4> QED BY <2>4, <4>1
    <3>3. Claims(userStates', p) = r + ys + ss + b - old
      BY <1>1, <2>6, <3>1
    <3>4. yields'[p] = ys + y /\ shortfalls'[p] = ss + short
      BY <1>2, <3>1
    <3> QED BY <3>2, <3>3, <3>4
  <2> QED BY <2>7
<1>5. \A q \in Pots : Balanced(q)'
  <2>1. ASSUME NEW q \in Pots \ {p}
        PROVE  Claims(userStates', q) = PotOf(q)' + yields'[q] + shortfalls'[q]
    BY <1>1, <1>2 DEF BooksSound, Balanced
  <2>2. ASSUME NEW q \in Pots
        PROVE  Balanced(q)'
    <3>1. Claims(userStates', q) = PotOf(q)' + yields'[q] + shortfalls'[q]
      BY <1>4, <2>1
    <3>2. Claims(userStates, q)' = Claims(userStates', q)
      BY DEF Claims, BalancesIn
    <3> QED BY <3>1, <3>2 DEF Balanced
  <2> QED BY <2>2
<1> QED BY <1>1, <1>2, <1>5 DEF BooksSound

\* The state of a user in a pot, as numbers.
LEMMA StateTypes ==
  ASSUME BooksSound, PotsBacked, NEW u \in Users, NEW p \in DOMAIN pots
  PROVE  /\ p \in Pots /\ MaxAmount \in Nat
         /\ userStates[u][p] \in [balance : 0 .. MaxAmount, last : 0 .. now]
         /\ userStates[u][p].balance \in Nat /\ userStates[u][p].last \in Nat
         /\ yields[p] \in Nat /\ shortfalls[p] \in Nat
         /\ pots[p].reserves \in Nat /\ PotOf(p) = pots[p].reserves
         /\ \A q \in Pots : PotOf(q) \in Nat
<1>1. p \in Pots /\ p[2] \in Mints /\ MaxAmount \in Nat /\ now \in Nat
  BY VaultAssumption DEF PotsBacked, Pots, BooksSound
<1>2. userStates[u][p] \in [balance : 0 .. MaxAmount, last : 0 .. now]
  BY <1>1 DEF BooksSound, StatesUntil
<1>3. userStates[u][p].balance \in Nat /\ userStates[u][p].last \in Nat
  BY <1>1, <1>2
<1>4. \A q \in Pots : PotOf(q) \in Nat
  BY DEF PotsBacked, PotOf
<1> QED BY <1>1, <1>2, <1>3, <1>4 DEF PotsBacked, BooksSound, PotOf

\* A rate within the range of a vault is a natural.
LEMMA RatesAreNatural ==
  ASSUME RangesSound, NEW p \in DOMAIN pots, NEW rate \in PseudoRandomRange(p[1])
  PROVE  rate \in Nat
<1>1. ranges[p[1]] \in [min : Nat, max : Nat]
  BY DEF RangesSound
<1> QED BY <1>1 DEF PseudoRandomRange

\* Tokens taken in raise the reserves within their limit.
LEMMA ReserveLimitKept ==
  ASSUME PotsBacked, RangesSound, UNCHANGED ranges, NEW p \in DOMAIN pots, NEW amount \in Nat,
         \/ pots' = [pots EXCEPT ![p].reserves = @ + amount]
              /\ pots[p].reserves + amount <= MaxAmount
         \/ pots' = [pots EXCEPT ![p].reserves = @ - amount]
  PROVE  RangesSound'
<1>1. pots \in [DOMAIN pots -> [name : Tokens, reserves : Nat]] /\ MaxAmount \in Nat
  BY VaultAssumption DEF PotsBacked
<1>2. pots[p].reserves \in Nat /\ pots[p].reserves <= MaxAmount
  BY <1>1 DEF RangesSound
<1>3. DOMAIN pots' = DOMAIN pots /\ \A q \in DOMAIN pots : pots'[q].reserves <= MaxAmount
  BY <1>1, <1>2 DEF RangesSound
<1> QED BY <1>3 DEF RangesSound

\* The reserves of one pot move.
LEMMA PotMoves ==
  ASSUME PotsBacked, NEW p \in DOMAIN pots, NEW n \in Nat,
         pots' = [pots EXCEPT ![p].reserves = n]
  PROVE  PotOf(p)' = n /\ \A q \in Pots \ {p} : PotOf(q)' = PotOf(q)
<1>1. DOMAIN pots' = DOMAIN pots /\ pots[p] \in [name : Tokens, reserves : Nat]
  BY DEF PotsBacked
<1> QED BY <1>1 DEF PotOf

LEMMA DepositKeepsBooks ==
  ASSUME VaultInv, RangesSound, BooksSound,
         NEW u \in Users, NEW p \in DOMAIN pots, NEW t, NEW amount \in DepositAmounts,
         NEW to, NEW rate \in Nat,
         Deposit(u, p, t, amount, to, rate) \/ Stake(u, p, t, amount, to)
  PROVE  RangesSound' /\ BooksSound'
<1>. DEFINE s == userStates[u][p]
            y == IF Deposit(u, p, t, amount, to, rate) THEN CalculateYield(s, rate) ELSE 0
            last == IF Deposit(u, p, t, amount, to, rate) THEN now ELSE s.last
<1>1. /\ p \in Pots /\ amount \in Nat /\ MaxAmount \in Nat
      /\ s \in [balance : 0 .. MaxAmount, last : 0 .. now]
      /\ s.balance \in Nat /\ s.last \in Nat
      /\ PotOf(p) \in Nat /\ yields[p] \in Nat /\ shortfalls[p] \in Nat
      /\ PotOf(p) = pots[p].reserves /\ now \in Nat
      /\ \A q \in Pots : PotOf(q) \in Nat
  BY StateTypes, VaultAssumption DEF VaultInv, BooksSound
<1>2. y \in Nat /\ last \in 0 .. now
  <2>2. CalculateYield(s, rate) \in Nat
    <3>. HIDE DEF s
    <3> QED BY <1>1, YieldIsNatural
  <2>3. s.last \in 0 .. now
    BY <1>1
  <2> QED BY <1>1, <2>2, <2>3
<1>3. /\ Receive(u, p, amount, to) /\ s.balance + amount + y <= MaxAmount
      /\ userStates' = [userStates EXCEPT ![u][p] =
                          [balance |-> s.balance + amount + y, last |-> last]]
      /\ yields' = [yields EXCEPT ![p] = yields[p] + y]
      /\ UNCHANGED <<now, ranges, nullifierRecords, shortfalls>>
  <2>1. CASE Deposit(u, p, t, amount, to, rate)
    BY <2>1 DEF Deposit, vars
  <2>2. CASE ~Deposit(u, p, t, amount, to, rate)
    <3>1. Stake(u, p, t, amount, to) /\ y = 0 /\ last = s.last
      BY <2>2
    <3>2. yields' = yields /\ yields = [yields EXCEPT ![p] = yields[p] + 0]
      BY <1>1, <3>1 DEF Stake, BooksSound
    <3>3. s.balance + amount + 0 = s.balance + amount
      BY <1>1
    <3>. HIDE DEF y, last
    <3> QED BY <3>1, <3>2, <3>3 DEF Stake, vars
  <2> QED BY <2>1, <2>2
<1>. HIDE DEF y, last
<1>4. RangesSound'
  BY <1>1, <1>3, ReserveLimitKept DEF VaultInv, Receive
<1>5. PICK b \in 0 .. MaxAmount : b = s.balance + amount + y
  BY <1>1, <1>2, <1>3
<1>6. PICK h \in Nat : h = PotOf(p) + amount
  BY <1>1
<1>7. PotOf(p)' = h /\ \A q \in Pots \ {p} : PotOf(q)' = PotOf(q)
  <2>1. pots' = [pots EXCEPT ![p].reserves = h]
    BY <1>1, <1>3, <1>6 DEF Receive
  <2> QED BY <2>1, PotMoves DEF VaultInv
<1>8. shortfalls' = [shortfalls EXCEPT ![p] = shortfalls[p] + 0]
  BY <1>1, <1>3 DEF BooksSound
<1>9. b - userStates[u][p].balance = h - PotOf(p) + y + 0
  BY <1>1, <1>2, <1>5, <1>6
<1>10. nullifierRecords' \subseteq WithdrawMessages
       /\ userStates' = [userStates EXCEPT ![u][p] = [balance |-> b, last |-> last]]
       /\ yields' = [yields EXCEPT ![p] = yields[p] + y] /\ now' = now
  BY <1>3, <1>5 DEF BooksSound
<1>11. BooksSound'
  <2>. HIDE DEF s
  <2>1. p \in Pots /\ \A q \in Pots : PotOf(q) \in Nat
    BY <1>1
  <2> QED BY <1>2, <1>7, <1>8, <1>9, <1>10, <2>1, BooksMove
<1> QED BY <1>4, <1>11

LEMMA WithdrawalKeepsBooks ==
  ASSUME VaultInv, RangesSound, BooksSound,
         NEW m \in WithdrawMessages, NEW p \in DOMAIN pots, NEW to,
         NEW rate \in Nat, DirectWithdraw(m, p, to, rate)
  PROVE  RangesSound' /\ BooksSound'
<1>. DEFINE u == m.user
            s == userStates[u][p]
            available == s.balance + CalculateYield(s, rate)
            left == IF available >= m.amount THEN available - m.amount ELSE 0
            missing == IF available >= m.amount THEN 0 ELSE m.amount - available
<1>1. u \in Users /\ m.amount \in Nat
  BY VaultAssumption
<1>2. /\ p \in Pots /\ MaxAmount \in Nat
      /\ s \in [balance : 0 .. MaxAmount, last : 0 .. now]
      /\ s.balance \in Nat /\ s.last \in Nat
      /\ yields[p] \in Nat /\ shortfalls[p] \in Nat
      /\ pots[p].reserves \in Nat /\ PotOf(p) = pots[p].reserves /\ now \in Nat
      /\ \A q \in Pots : PotOf(q) \in Nat
  BY <1>1, StateTypes DEF VaultInv, BooksSound
<1>3. PICK y \in Nat : y = CalculateYield(s, rate)
  <2>. HIDE DEF s
  <2> QED BY <1>2, YieldIsNatural
<1>4. /\ available = s.balance + y /\ available \in Nat
      /\ available - s.balance = y /\ available <= MaxAmount
  <2>1. available = s.balance + y
    BY <1>3, Zenon
  <2>2. available <= MaxAmount
    BY DEF DirectWithdraw, Pay, YieldFits
  <2>. HIDE DEF available, s
  <2>3. PICK b \in Nat : b = s.balance
    BY <1>2
  <2>4. available = b + y
    BY <2>1, <2>3, Zenon
  <2>5. available \in Nat /\ available - b = y
    BY <2>4
  <2>6. available - s.balance = y
    BY <2>3, <2>5, Zenon
  <2> QED BY <2>1, <2>2, <2>5, <2>6, Zenon
<1>5. /\ pots[p].reserves >= m.amount
      /\ nullifierRecords' = nullifierRecords \union {m}
      /\ pots' = [pots EXCEPT ![p].reserves = @ - m.amount]
      /\ userStates' = [userStates EXCEPT ![u][p] = [balance |-> left, last |-> now]]
      /\ yields' = [yields EXCEPT ![p] = yields[p] + (available - s.balance)]
      /\ shortfalls' = [shortfalls EXCEPT ![p] = shortfalls[p] + missing]
      /\ UNCHANGED <<now, ranges>>
  BY DEF DirectWithdraw, Pay, Serves, vars
<1>. HIDE DEF available
<1>6. left \in 0 .. MaxAmount /\ missing \in Nat
      /\ left - s.balance = y - m.amount + missing
  <2>1. PICK b \in Nat, a \in Nat, x \in Nat, top \in Nat :
          b = s.balance /\ a = m.amount /\ x = available /\ top = MaxAmount
    <3>. HIDE DEF s
    <3> QED BY <1>1, <1>2, <1>4, Zenon
  <2>2. x = b + y /\ x <= top
    BY <1>4, <2>1, Zenon
  <2>3. CASE x >= a
    <3>1. x - a \in 0 .. top /\ x - a - b = y - a + 0
      BY <2>2, <2>3
    <3>2. left = x - a /\ missing = 0
      BY <2>1, <2>3, Zenon
    <3>. HIDE DEF s, left, missing
    <3> QED BY <2>1, <3>1, <3>2
  <2>4. CASE ~ (x >= a)
    <3>1. a - x \in Nat /\ 0 \in 0 .. top /\ 0 - b = y - a + (a - x)
      BY <2>2, <2>4
    <3>2. left = 0 /\ missing = a - x
      BY <2>1, <2>4, Zenon
    <3>. HIDE DEF s, left, missing
    <3> QED BY <2>1, <3>1, <3>2
  <2> QED BY <2>3, <2>4
<1>. HIDE DEF left, missing
<1>7. RangesSound'
  BY <1>1, <1>5, ReserveLimitKept DEF VaultInv
<1>8. PICK h \in Nat : h = PotOf(p) - m.amount
  BY <1>1, <1>2, <1>5
<1>9. PotOf(p)' = h /\ \A q \in Pots \ {p} : PotOf(q)' = PotOf(q)
  <2>1. pots' = [pots EXCEPT ![p].reserves = h]
    BY <1>2, <1>5, <1>8
  <2> QED BY <2>1, PotMoves DEF VaultInv
<1>10. left - userStates[u][p].balance = h - PotOf(p) + y + missing
  BY <1>1, <1>2, <1>3, <1>6, <1>8
<1>11. yields' = [yields EXCEPT ![p] = yields[p] + y]
  BY <1>4, <1>5
<1>12. nullifierRecords' \subseteq WithdrawMessages
  BY <1>5 DEF BooksSound
<1>13. now \in 0 .. now
  BY <1>2
<1>. HIDE DEF u, s
<1>14. userStates' = [userStates EXCEPT ![u][p] = [balance |-> left, last |-> now]]
       /\ shortfalls' = [shortfalls EXCEPT ![p] = shortfalls[p] + missing]
  BY <1>5
<1>15. now' = now /\ u \in Users /\ p \in Pots /\ \A q \in Pots : PotOf(q) \in Nat
  BY <1>1, <1>2, <1>5
<1>16. BooksSound'
  BY <1>6, <1>9, <1>10, <1>11, <1>12, <1>13, <1>14, <1>15, BooksMove
<1> QED BY <1>7, <1>16

\* Of the program `qiara`, only the clock's own step moves the clock.
LEMMA QiaraClock ==
  ASSUME QiaraStep
  PROVE  now' = now \/ AdvanceClock
<1>1. CASE Next
  BY <1>1 DEF Next, Administrator, Quorum, vars, AdminAddVariable, LockRegistry,
     AddActivePubkeyDirect, StageSignatures, FriendAddVariable, AddPendingPubkey,
     ConsumeElsewhere
<1>2. CASE Developer
  BY <1>2 DEF Developer, DevAddTokens, DevSetTokenAddress, RevokeDevAccess,
     SetChain, vars
<1>3. CASE ProviderUpdate
  BY <1>3 DEF ProviderUpdate, UpdateTokens, UpdateTokenAddress, Consume
<1> QED BY <1>1, <1>2, <1>3 DEF QiaraStep, ProvidersNext

\* The clock only moves forward, and nothing else of the program `qiara` is
\* part of the books.
LEMMA QiaraKeepsBooks ==
  ASSUME BooksSound, RangesSound, QiaraStep
  PROVE  BooksSound' /\ RangesSound'
<1>1. UNCHANGED vaultVars
  BY DEF QiaraStep
<1>2. /\ UNCHANGED <<ranges, pots, tokens, userStates, nullifierRecords>>
      /\ UNCHANGED <<yields, shortfalls>>
  BY <1>1 DEF vaultVars
<1>3. now' \in Nat /\ now <= now'
  <2>1. CASE AdvanceClock
    BY <2>1 DEF AdvanceClock, BooksSound
  <2>2. now' = now \/ AdvanceClock
    BY QiaraClock
  <2> QED BY <2>1, <2>2 DEF BooksSound
<1>4. userStates \in StatesUntil(now')
  <2>1. 0 .. now \subseteq 0 .. now'
    BY <1>3 DEF BooksSound
  <2>2. [balance : 0 .. MaxAmount, last : 0 .. now]
          \subseteq [balance : 0 .. MaxAmount, last : 0 .. now']
    BY <2>1
  <2>3. \A u \in Users, p \in Pots :
          userStates[u][p] \in [balance : 0 .. MaxAmount, last : 0 .. now']
    BY <2>2 DEF BooksSound, StatesUntil
  <2>4. \A u \in Users :
          userStates[u] \in [Pots -> [balance : 0 .. MaxAmount, last : 0 .. now']]
    BY <2>3 DEF BooksSound, StatesUntil
  <2> QED BY <2>4 DEF BooksSound, StatesUntil
<1>5. StatesUntil(now)' = StatesUntil(now')
  BY DEF StatesUntil
<1>6. \A p \in Pots : Balanced(p)' = Balanced(p)
  BY <1>2 DEF Balanced, Claims, BalancesIn, PotOf
<1> QED BY <1>2, <1>3, <1>4, <1>5, <1>6 DEF BooksSound, RangesSound

LEMMA BooksStep ==
  ASSUME VaultInv, RangesSound, BooksSound, [VaultNext]_allVars
  PROVE  RangesSound' /\ BooksSound'
<1>1. ASSUME UNCHANGED <<now, userStates, nullifierRecords, yields, shortfalls>>,
             \A p \in Pots : PotOf(p)' = PotOf(p)
      PROVE  BooksSound'
  <2>1. \A p \in Pots : Balanced(p)' = Balanced(p)
    BY <1>1 DEF Balanced, Claims, BalancesIn
  <2> QED BY <1>1, <2>1 DEF BooksSound, StatesUntil
<1>2. CASE QiaraStep
  BY <1>2, QiaraKeepsBooks
<1>3. CASE UNCHANGED allVars
  BY <1>1, <1>3 DEF allVars, vars, vaultVars, RangesSound, PotOf
<1>4. ASSUME NEW v \in Vaults, CreateVault(v)
      PROVE  RangesSound' /\ BooksSound'
  <2>1. BooksSound'
    BY <1>1, <1>4 DEF CreateVault, vars, PotOf
  <2>2. DOMAIN ranges' = DOMAIN ranges \union {v}
        /\ ranges' \in [DOMAIN ranges' -> [min : Nat, max : Nat]]
        /\ \A x \in DOMAIN ranges' : ranges'[x].min <= ranges'[x].max
    BY <1>4, VaultAssumption DEF CreateVault, Put, RangesSound
  <2> QED BY <1>4, <2>1, <2>2 DEF CreateVault, RangesSound
<1>5. ASSUME NEW v \in Vaults, NEW range \in Ranges, SetProviderRange(v, range)
      PROVE  RangesSound' /\ BooksSound'
  <2>1. BooksSound'
    BY <1>1, <1>5 DEF SetProviderRange, vars, PotOf
  <2>2. range \in [min : Nat, max : Nat] /\ range.min <= range.max
    BY <1>5, VaultAssumption DEF SetProviderRange
  <2> QED BY <1>5, <2>1, <2>2 DEF SetProviderRange, RangesSound
<1>6. ASSUME NEW p \in Pots, NEW t \in Tokens, ListNewToken(p, t)
      PROVE  RangesSound' /\ BooksSound'
  <2>1. BooksSound'
    BY <1>1, <1>6 DEF ListNewToken, vars, PotOf, Put
  <2>2. DOMAIN pots' = DOMAIN pots \union {p}
        /\ \A q \in DOMAIN pots' : pots'[q].reserves <= MaxAmount
    BY <1>6, VaultAssumption DEF ListNewToken, Put, RangesSound
  <2> QED BY <1>6, <2>1, <2>2 DEF ListNewToken, RangesSound
<1>7. CASE Deposits
  <2>1. PICK u \in Users, p \in DOMAIN pots, t \in Tokens, amount \in DepositAmounts,
             to \in TokenAccounts :
          \/ \E rate \in PseudoRandomRange(p[1]) : Deposit(u, p, t, amount, to, rate)
          \/ Stake(u, p, t, amount, to)
    BY <1>7 DEF Deposits
  <2>2. PICK rate \in Nat : Deposit(u, p, t, amount, to, rate) \/ Stake(u, p, t, amount, to)
    BY <2>1, RatesAreNatural
  <2> QED BY <2>2, DepositKeepsBooks
<1>8. CASE Withdrawal
  <2>1. PICK m \in WithdrawMessages, p \in DOMAIN pots, to \in TokenAccounts :
          \E rate \in PseudoRandomRange(p[1]) : DirectWithdraw(m, p, to, rate)
    BY <1>8 DEF Withdrawal
  <2>2. PICK rate \in Nat : DirectWithdraw(m, p, to, rate)
    BY <2>1, RatesAreNatural
  <2> QED BY <2>2, WithdrawalKeepsBooks
<1> QED BY <1>2, <1>3, <1>4, <1>5, <1>6, <1>7, <1>8, StepKinds

LEMMA BooksStart == VaultInit => RangesSound /\ BooksSound
<1> SUFFICES ASSUME VaultInit PROVE RangesSound /\ BooksSound
  OBVIOUS
<1>1. RangesSound
  <2>1. DOMAIN <<>> = {} /\ <<>> \in [{} -> [min : Nat, max : Nat]]
    OBVIOUS
  <2> QED BY <2>1 DEF VaultInit, VaultsInit, RangesSound
<1>2. now \in Nat
  BY TimeAssumption DEF VaultInit, VaultsInit, InitializeEpoch
<1>3. userStates \in StatesUntil(now)
  <2>1. NoState \in [balance : 0 .. MaxAmount, last : 0 .. now]
    BY <1>2, VaultAssumption DEF NoState
  <2> QED BY <2>1 DEF VaultInit, VaultsInit, StatesUntil
<1>4. ASSUME NEW p \in Pots
      PROVE  Balanced(p)
  BY NoClaims DEF VaultInit, VaultsInit, Balanced, PotOf
<1> QED BY <1>1, <1>2, <1>3, <1>4 DEF VaultInit, VaultsInit, BooksSound

LEMMA BooksHold == VaultSpec => [](VaultInv /\ RangesSound /\ BooksSound)
<1>1. VaultInv /\ RangesSound /\ BooksSound /\ [VaultNext]_allVars
        => RangesSound' /\ BooksSound'
  BY BooksStep
<1> QED BY <1>1, BooksStart, VaultInvHolds, PTL DEF VaultSpec

\* The vaults are well typed in every behaviour: a rate's range is never upside
\* down, and balances and reserves stay within 64 bits.
THEOREM VaultTyped == VaultSpec => []VaultTypeOK
<1>1. VaultInv /\ RangesSound /\ BooksSound => VaultTypeOK
  <2> SUFFICES ASSUME VaultInv, RangesSound, BooksSound PROVE VaultTypeOK
    OBVIOUS
  <2>1. \A p \in DOMAIN pots : pots[p].name \in Tokens /\ pots[p].reserves \in 0 .. MaxAmount
    <3>. TAKE p \in DOMAIN pots
    <3>1. pots[p] \in [name : Tokens, reserves : Nat] /\ pots[p].reserves <= MaxAmount
      BY DEF VaultInv, PotsBacked, RangesSound
    <3> QED BY <3>1, VaultAssumption
  <2> QED BY <2>1 DEF VaultInv, PaidByRecords, PotsBacked, RangesSound, BooksSound,
                      StatesUntil, VaultTypeOK
<1> QED BY <1>1, BooksHold, PTL

\* For any number of users, what they may claim of a pot is its reserves, the
\* yields it was charged, and what was withdrawn beyond their balances; and the
\* reserves are held but for what depositors sent elsewhere.
THEOREM ClaimsAreAccounted == VaultSpec => []ClaimsAccountedFor
<1>1. VaultInv /\ BooksSound => ClaimsAccountedFor
  BY DEF VaultInv, PotsBacked, Backed, BooksSound, Balanced, Claims, BalancesIn,
         ClaimsAccountedFor
<1> QED BY <1>1, BooksHold, PTL

-------------------------------------------------------------------------------
(* The program that the vault reads *)

\* A step of the vault's specification is, for the program that the vault
\* reads, one of its own or none.
LEMMA QiaraSeen ==
  ASSUME [VaultNext]_allVars
  PROVE  [ProvidersNext]_<<vars, providerVars>>
<1>1. CASE QiaraStep
  BY <1>1 DEF QiaraStep
<1>2. CASE UNCHANGED allVars
  BY <1>2 DEF allVars
<1>3. ASSUME NEW v, CreateVault(v) PROVE UNCHANGED <<vars, providerVars>>
  BY <1>3 DEF CreateVault
<1>4. ASSUME NEW v, NEW range, SetProviderRange(v, range)
      PROVE  UNCHANGED <<vars, providerVars>>
  BY <1>4 DEF SetProviderRange
<1>5. ASSUME NEW p, NEW t, ListNewToken(p, t) PROVE UNCHANGED <<vars, providerVars>>
  BY <1>5 DEF ListNewToken
<1>6. CASE Deposits
  BY <1>6 DEF Deposits, Deposit, Stake
<1>7. CASE Withdrawal
  BY <1>7 DEF Withdrawal, DirectWithdraw, Pay
<1> QED BY <1>1, <1>2, <1>3, <1>4, <1>5, <1>6, <1>7, StepKinds

QiaraInv == Inv /\ ProviderInv

LEMMA QiaraInvHolds == VaultSpec => []QiaraInv
<1>1. VaultInit => QiaraInv
  <2> SUFFICES ASSUME VaultInit PROVE QiaraInv
    OBVIOUS
  <2>1. now \in Nat
    BY TimeAssumption DEF VaultInit, VaultsInit, InitializeEpoch
  <2>2. IsTimedTable(registry, Keys, Data) /\ IsTimedTable(validators, Addresses, BOOLEAN)
    <3>1. [active |-> TRUE, pending |-> FALSE, effective |-> 0] \in TimedRecord(BOOLEAN)
      BY DEF TimedRecord
    <3> QED BY <3>1 DEF VaultInit, VaultsInit, IsTimedTable
  <2>3. ProviderInv
    BY DEF VaultInit, VaultsInit, ProviderInv, ListsAgree, AppliedByRecords
  <2>4. TypeOK
    BY <2>1, <2>2, VaultAssumption DEF VaultInit, VaultsInit, TypeOK
  <2>5. NothingBeyondNextEpoch
    <3>1. Epoch \in Nat
      BY <2>1, EpochMonotone DEF Epoch
    <3> QED BY <3>1 DEF VaultInit, VaultsInit, NothingBeyondNextEpoch
  <2> QED BY <2>3, <2>4, <2>5 DEF Inv, QiaraInv
<1>2. QiaraInv /\ [VaultNext]_allVars => QiaraInv'
  <2> SUFFICES ASSUME QiaraInv, [VaultNext]_allVars PROVE QiaraInv'
    OBVIOUS
  <2>1. [ProvidersNext]_<<vars, providerVars>>
    BY QiaraSeen
  <2>2. Inv'
    BY <2>1, GovernanceServesProviders DEF QiaraInv
  <2>3. ProviderInv'
    <3>1. UNCHANGED providerVars => ProviderInv'
      BY DEF QiaraInv, ProviderInv, ListsAgree, AppliedByRecords, providerVars, lists
    <3> QED BY <2>1, <3>1, DeveloperKeeps, UpdateKeeps DEF QiaraInv, ProvidersNext
  <2> QED BY <2>2, <2>3 DEF QiaraInv
<1> QED BY <1>1, <1>2, PTL DEF VaultSpec

\* The provider registry keeps its promises while vaults read it: its two lists
\* agree, so that a token can be supported only by a supported provider, and no
\* update is applied twice.
THEOREM RegistryServesVaults ==
  VaultSpec => [](ListsAgree /\ AppliedAtMostOnce
                  /\ \A p, t : IsTokenSupported(p, t) => IsProviderSupported(p))
<1>1. QiaraInv => /\ ListsAgree /\ AppliedAtMostOnce
                  /\ \A p, t : IsTokenSupported(p, t) => IsProviderSupported(p)
  BY DEF QiaraInv, ProviderInv, ListsAgree, AppliedByRecords, AppliedAtMostOnce,
         IsTokenSupported, IsProviderSupported
<1> QED BY <1>1, QiaraInvHolds, PTL

-------------------------------------------------------------------------------
(* Withdrawals stay possible *)

\* No other message that is consumed by closing its buffer is a withdrawal.
LEMMA WithdrawalsApart ==
  ASSUME NEW m \in WithdrawMessages,
         NEW n \in VariableMessages \union ValidatorMessages \union UpdateMessages
  PROVE  n # m
<1>1. "user" \in DOMAIN m
  BY VaultAssumption
<1>2. "user" \notin DOMAIN n
  BY MessagesAssumption, ProvidersAssumption DEF UpdateMessages
<1> QED BY <1>1, <1>2

\* The buffer of a withdrawal that is staged stays as it is.
LEMMA BufferStays ==
  ASSUME NEW m \in WithdrawMessages, m \in DOMAIN sigBuffer,
         [ProvidersNext]_<<vars, providerVars>>
  PROVE  m \in DOMAIN sigBuffer' /\ sigBuffer'[m] = sigBuffer[m]
<1>. DEFINE Stays == m \in DOMAIN sigBuffer' /\ sigBuffer'[m] = sigBuffer[m]
<1>1. ASSUME NEW n, CloseBuffer(n), n # m
      PROVE  Stays
  BY <1>1 DEF CloseBuffer, Restrict
<1>2. ASSUME UNCHANGED sigBuffer
      PROVE  Stays
  BY <1>2
<1>3. ASSUME NEW n, NEW sigs, StageSignatures(n, sigs)
      PROVE  Stays
  BY <1>3 DEF StageSignatures, Put
<1>4. ASSUME Quorum
      PROVE  Stays
  BY <1>1, <1>4, WithdrawalsApart DEF Quorum, FriendAddVariable, AddPendingPubkey
<1>5. ASSUME NEW n, ConsumeElsewhere(n)
      PROVE  Stays
  BY <1>1, <1>5, WithdrawalsApart DEF ConsumeElsewhere
<1>6. ASSUME ProviderUpdate
      PROVE  Stays
  BY <1>1, <1>6, UpdateConsumes, WithdrawalsApart DEF Consume
<1>7. ASSUME AdvanceClock \/ Administrator \/ UNCHANGED vars \/ Developer
      PROVE  Stays
  BY <1>2, <1>7 DEF AdvanceClock, Administrator, AdminAddVariable, LockRegistry,
     AddActivePubkeyDirect, vars, Developer, DevAddTokens, DevSetTokenAddress,
     RevokeDevAccess, SetChain
<1>. HIDE DEF Stays
<1>8. ASSUME Next
      PROVE  Stays
  BY <1>3, <1>4, <1>5, <1>7, <1>8 DEF Next
<1>9. Stays
  BY <1>6, <1>7, <1>8 DEF ProvidersNext
<1> QED BY <1>9 DEF Stays

\* Within an epoch only the administrator takes the authority of a withdrawal.
LEMMA AuthorityStays ==
  ASSUME QiaraInv, [ProvidersNext]_<<vars, providerVars>>, Epoch' = Epoch, ~Administrator,
         NEW m \in WithdrawMessages, m \in DOMAIN sigBuffer, sigBuffer[m] # <<>>,
         Authorised(m)
  PROVE  Authorised(m)'
<1>1. m \in DOMAIN sigBuffer \intersect DOMAIN sigBuffer'
  BY BufferStays
<1>2. CASE [Next]_vars
  BY <1>1, <1>2, UsableStep DEF QiaraInv
<1>3. CASE Developer
  <2>1. UNCHANGED vars
    BY <1>3 DEF Developer, DevAddTokens, DevSetTokenAddress, RevokeDevAccess, SetChain
  <2> QED BY <1>2, <2>1
<1>4. CASE ProviderUpdate
  <2>1. UNCHANGED <<registry, validators>> /\ sigBuffer'[m] = sigBuffer[m]
    BY <1>4, UpdateConsumes, BufferStays DEF Consume
  <2> QED BY <1>1, <2>1 DEF Authorised, AcceptedBy, VerifySignatures, IsActive, Matured,
          MinUniqueValidators, GetActiveVariable
<1> QED BY <1>2, <1>3, <1>4 DEF ProvidersNext

\* A pot that is listed stays so, under its name, and only a withdrawal from it
\* takes tokens out of its account.
LEMMA PotsStay ==
  ASSUME VaultInv, [VaultNext]_allVars, NEW p \in DOMAIN pots, ~(PotOf(p)' < PotOf(p))
  PROVE  /\ p \in DOMAIN pots' /\ pots'[p].name = pots[p].name
         /\ tokens'[p] >= tokens[p]
         /\ \A m \in WithdrawMessages : \A to, rate : ~DirectWithdraw(m, p, to, rate)
<1>. DEFINE Stays == /\ p \in DOMAIN pots' /\ pots'[p].name = pots[p].name
                     /\ tokens'[p] >= tokens[p]
<1>1. /\ p \in Pots /\ Pots \subseteq TokenAccounts /\ DOMAIN pots \subseteq Pots
      /\ tokens[p] \in Nat /\ pots[p] \in [name : Tokens, reserves : Nat]
  BY DEF VaultInv, PotsBacked, Pots, TokenAccounts
<1>2. ASSUME UNCHANGED <<pots, tokens>>
      PROVE  Stays
  BY <1>1, <1>2
<1>3. ASSUME NEW q, NEW t, ListNewToken(q, t)
      PROVE  Stays
  BY <1>1, <1>3 DEF ListNewToken, Put
<1>4. ASSUME NEW q \in DOMAIN pots, NEW reserves,
             pots' = [pots EXCEPT ![q].reserves = reserves]
      PROVE  p \in DOMAIN pots' /\ pots'[p].name = pots[p].name
  BY <1>1, <1>4
<1>5. ASSUME Deposits
      PROVE  Stays
  <2>1. PICK u \in Users, q \in DOMAIN pots, amount \in DepositAmounts,
             to \in TokenAccounts : Receive(u, q, amount, to)
    BY <1>5 DEF Deposits, Deposit, Stake
  <2>2. pots' = [pots EXCEPT ![q].reserves = pots[q].reserves + amount]
    BY <2>1 DEF Receive
  <2>3. PICK from \in TokenAccounts : from = <<u, q[2]>> /\ from # p
    BY <1>1, UserAccounts
  <2>4. Transfer(from, to, amount) /\ amount \in Nat
    BY <2>1, <2>3, VaultAssumption DEF Receive
  <2>5. tokens'[p] = tokens[p] + IF p = to THEN amount ELSE 0
    BY <1>1, <2>3, <2>4, TransferMoves DEF VaultInv, PotsBacked
  <2> QED BY <1>1, <1>4, <2>2, <2>4, <2>5
<1>6. ASSUME NEW m \in WithdrawMessages, NEW to, NEW rate, DirectWithdraw(m, p, to, rate)
      PROVE  FALSE
  <2>1. /\ pots' = [pots EXCEPT ![p].reserves = pots[p].reserves - m.amount]
        /\ m.amount \in 1 .. MaxAmount
    BY <1>6 DEF DirectWithdraw, Pay, Serves
  <2>2. PotOf(p)' = pots[p].reserves - m.amount /\ PotOf(p) = pots[p].reserves
    BY <1>1, <2>1 DEF PotOf
  <2>3. pots[p].reserves \in Nat /\ m.amount \in Nat /\ m.amount > 0
    BY <1>1, <2>1, VaultAssumption
  <2> QED BY <2>2, <2>3
<1>7. ASSUME Withdrawal
      PROVE  Stays
  <2>0. PICK m \in WithdrawMessages, q \in DOMAIN pots, to \in TokenAccounts :
          \E rate : DirectWithdraw(m, q, to, rate)
    BY <1>7 DEF Withdrawal
  <2>1. PICK rate : DirectWithdraw(m, q, to, rate)
    BY <2>0
  <2>2. q # p
    BY <1>6, <2>1
  <2>3. /\ pots' = [pots EXCEPT ![q].reserves = pots[q].reserves - m.amount]
        /\ Transfer(q, to, m.amount) /\ m.amount \in Nat
    BY <2>1, VaultAssumption DEF DirectWithdraw, Pay
  <2>4. tokens'[p] = tokens[p] + IF p = to THEN m.amount ELSE 0
    BY <1>1, <2>2, <2>3, TransferMoves DEF VaultInv, PotsBacked
  <2> QED BY <1>1, <1>4, <2>3, <2>4
<1>8. ASSUME UNCHANGED allVars \/ QiaraStep
      PROVE  Stays
  BY <1>2, <1>8 DEF allVars, vaultVars, QiaraStep
<1>9. ASSUME NEW v, CreateVault(v) PROVE Stays
  BY <1>2, <1>9 DEF CreateVault
<1>10. ASSUME NEW v, NEW range, SetProviderRange(v, range) PROVE Stays
  BY <1>2, <1>10 DEF SetProviderRange
<1>. HIDE DEF Stays
<1>11. Stays
  BY <1>3, <1>5, <1>7, <1>8, <1>9, <1>10, StepKinds
<1> QED BY <1>6, <1>11 DEF Stays

LEMMA ServesKept ==
  ASSUME VaultInv, VaultInv', [VaultNext]_allVars, NEW m \in WithdrawMessages, NEW p,
         Serves(m, p), ~(PotOf(p)' < PotOf(p))
  PROVE  Serves(m, p)'
<1>1. /\ p \in DOMAIN pots /\ m.amount \in Nat /\ pots[p].reserves \in Nat
      /\ p \in Pots /\ tokens[p] \in Nat
      /\ pots[p].reserves >= m.amount /\ tokens[p] >= m.amount
  BY VaultAssumption DEF Serves, VaultInv, PotsBacked, Pots, TokenAccounts
<1>2. p \in DOMAIN pots' /\ pots'[p].name = pots[p].name /\ tokens'[p] >= tokens[p]
  BY <1>1, PotsStay
<1>3. pots'[p].reserves \in Nat /\ tokens'[p] \in Nat
  BY <1>1, <1>2 DEF VaultInv, PotsBacked, Pots, TokenAccounts
<1>4. pots'[p].reserves >= pots[p].reserves
  BY <1>1, <1>2, <1>3 DEF PotOf
<1>5. pots'[p].reserves >= m.amount /\ tokens'[p] >= m.amount
  BY <1>1, <1>2, <1>3, <1>4
<1> QED BY <1>2, <1>5 DEF Serves, ForThisChain

\* What the yield of a user depends on.
LEMMA ComputableKept ==
  ASSUME NEW u, NEW p, Computable(u, p), now' = now, ranges'[p[1]] = ranges[p[1]],
         userStates'[u][p] = userStates[u][p]
  PROVE  Computable(u, p)'
BY DEF Computable, YieldFits, CalculateYield, Earning, PseudoRandomRange

\* The yield of a user stays computable but for time, the vault's authority
\* and the user's own steps.
LEMMA YieldStaysComputable ==
  ASSUME VaultInv, RangesSound, BooksSound, [VaultNext]_allVars,
         NEW u \in Users, NEW p \in DOMAIN pots, ~(PotOf(p)' < PotOf(p)), Computable(u, p)
  PROVE  \/ Computable(u, p)'
         \/ AdvanceClock
         \/ \E range \in Ranges : SetProviderRange(p[1], range)
         \/ UserStep(u, p)
<1>. DEFINE Others == \/ AdvanceClock
                      \/ \E range \in Ranges : SetProviderRange(p[1], range)
                      \/ UserStep(u, p)
            Same == now' = now /\ ranges'[p[1]] = ranges[p[1]]
                    /\ userStates'[u][p] = userStates[u][p]
<1>1. p \in Pots /\ p[1] \in DOMAIN ranges
  BY DEF RangesSound
<1>2. ASSUME QiaraStep
      PROVE  Same \/ Others
  <2>1. UNCHANGED <<ranges, userStates>>
    BY <1>2 DEF QiaraStep, vaultVars
  <2>2. now' = now \/ AdvanceClock
    BY <1>2, QiaraClock
  <2> QED BY <2>1, <2>2
<1>3. ASSUME UNCHANGED allVars
      PROVE  Same \/ Others
  BY <1>3 DEF allVars, vaultVars, vars
<1>4. ASSUME NEW v \in Vaults, CreateVault(v)
      PROVE  Same
  BY <1>1, <1>4 DEF CreateVault, Put, vars
<1>5. ASSUME NEW v \in Vaults, NEW range \in Ranges, SetProviderRange(v, range)
      PROVE  Same \/ Others
  <2>1. CASE v = p[1]
    BY <1>5, <2>1
  <2>2. CASE v # p[1]
    BY <1>1, <1>5, <2>2 DEF SetProviderRange, vars
  <2> QED BY <2>1, <2>2
<1>6. ASSUME NEW q, NEW t, ListNewToken(q, t)
      PROVE  Same
  BY <1>6 DEF ListNewToken, vars
<1>7. ASSUME NEW x \in Users, NEW q \in Pots, NEW state, UNCHANGED <<now, ranges>>,
             userStates' = [userStates EXCEPT ![x][q] = state], x # u \/ q # p
      PROVE  Same
  BY <1>1, <1>7 DEF BooksSound, StatesUntil
<1>8. ASSUME Deposits
      PROVE  Same \/ Others
  <2>1. PICK x \in Users, q \in DOMAIN pots, t \in Tokens, amount \in DepositAmounts,
             to \in TokenAccounts :
          \/ \E rate \in PseudoRandomRange(q[1]) : Deposit(x, q, t, amount, to, rate)
          \/ Stake(x, q, t, amount, to)
    BY <1>8 DEF Deposits
  <2>2. CASE x = u /\ q = p
    BY <2>1, <2>2 DEF UserStep
  <2>3. CASE x # u \/ q # p
    <3>1. /\ \E state : userStates' = [userStates EXCEPT ![x][q] = state]
          /\ UNCHANGED <<now, ranges>>
      BY <2>1 DEF Deposit, Stake, vars
    <3>2. q \in Pots
      BY DEF VaultInv, PotsBacked
    <3> QED BY <1>7, <2>3, <3>1, <3>2
  <2> QED BY <2>2, <2>3
<1>9. ASSUME Withdrawal
      PROVE  Same \/ Others
  <2>0. PICK m \in WithdrawMessages, q \in DOMAIN pots, to \in TokenAccounts :
          \E rate : DirectWithdraw(m, q, to, rate)
    BY <1>9 DEF Withdrawal
  <2>1. PICK rate : DirectWithdraw(m, q, to, rate)
    BY <2>0
  <2>2. q # p
    BY <2>1, PotsStay
  <2>3. /\ \E state : userStates' = [userStates EXCEPT ![m.user][q] = state]
        /\ UNCHANGED <<now, ranges>>
    BY <2>1 DEF DirectWithdraw, Pay, vars
  <2>4. m.user \in Users /\ q \in Pots
    BY VaultAssumption DEF VaultInv, PotsBacked
  <2> QED BY <1>7, <2>2, <2>3, <2>4
<1>10. Same => Computable(u, p)'
  BY ComputableKept
<1>. HIDE DEF Same, Others
<1>11. Computable(u, p)' \/ Others
  BY <1>2, <1>3, <1>4, <1>5, <1>6, <1>8, <1>9, <1>10, StepKinds
<1> QED BY <1>11 DEF Others

\* A withdrawal that nothing refuses is stopped by nothing but the end of its
\* epoch, the administrator, a withdrawal from its pot, and a yield grown too
\* large by time, the vault's authority or its own user.
THEOREM ExitsStayOpen == VaultSpec => WithdrawalsStayPossible
<1> DEFINE Open == \A m \in WithdrawMessages \ nullifierRecords, p \in Pots :
                     Payable(m, p) /\ ~Payable(m, p)' =>
                       \/ Epoch' # Epoch \/ Administrator
                       \/ PotOf(p)' < PotOf(p)
                       \/ /\ ~Computable(m.user, p)'
                          /\ \/ AdvanceClock
                             \/ \E range \in Ranges : SetProviderRange(p[1], range)
                             \/ UserStep(m.user, p)
           AllInv == VaultInv /\ RangesSound /\ BooksSound /\ QiaraInv
<1>1. AllInv /\ AllInv' /\ [VaultNext]_allVars => Open
  <2> SUFFICES ASSUME AllInv, AllInv', [VaultNext]_allVars, Epoch' = Epoch, ~Administrator,
                      NEW m \in WithdrawMessages, NEW p \in Pots, Payable(m, p),
                      ~(PotOf(p)' < PotOf(p)), ~Payable(m, p)'
               PROVE  /\ ~Computable(m.user, p)'
                      /\ \/ AdvanceClock
                         \/ \E range \in Ranges : SetProviderRange(p[1], range)
                         \/ UserStep(m.user, p)
    OBVIOUS
  <2>1. [ProvidersNext]_<<vars, providerVars>>
    BY QiaraSeen
  <2>2. /\ m \in DOMAIN sigBuffer /\ sigBuffer[m] # <<>> /\ Authorised(m)
        /\ Serves(m, p) /\ p \in DOMAIN pots /\ Computable(m.user, p) /\ m.user \in Users
    BY VaultAssumption DEF Payable, Serves
  <2>3. m \in DOMAIN sigBuffer' /\ sigBuffer'[m] # <<>> /\ Authorised(m)'
    BY <2>1, <2>2, BufferStays, AuthorityStays
  <2>4. Serves(m, p)'
    BY <2>2, ServesKept
  <2>5. ~Computable(m.user, p)'
    BY <2>3, <2>4 DEF Payable
  <2> QED BY <2>2, <2>5, YieldStaysComputable
<1>2. VaultSpec => []AllInv
  BY BooksHold, QiaraInvHolds, PTL
<1>. HIDE DEF AllInv
<1>3. VaultSpec => [][Open]_allVars
  BY <1>1, <1>2, PTL DEF VaultSpec
<1> QED BY <1>3 DEF WithdrawalsStayPossible
===============================================================================
