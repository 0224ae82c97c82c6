----------------------------- MODULE SumTheorems -----------------------------
(***************************************************************************)
(* Facts about finite sums of functions into the naturals, SumFunction and *)
(* SumFunctionOnSet of the community modules, that hold for every finite   *)
(* set of indices: what an empty sum is, what a sum does when an index is  *)
(* added or a value changes, and that shares rounded down never add up to  *)
(* more than what is shared.  The models keep their accounts with them.    *)
(***************************************************************************)
EXTENDS Integers, Functions, FiniteSets, FiniteSetTheorems, WellFoundedInduction, TLAPS

\* A nonempty set of naturals has a least member.  Facts about sums are
\* proved by looking at a least counterexample, as the sums of the models are
\* compared over finite sets only.
LEMMA LeastNatural ==
  ASSUME NEW T \in SUBSET Nat, T # {}
  PROVE  \E n \in T : \A m \in T : n <= m
<1>1. \E n \in T : \A m \in T : ~ (<<m, n>> \in OpToRel(<, Nat))
  BY NatLessThanWellFounded, WFMin, Zenon
<1>2. PICK n \in T : \A m \in T : ~ (<<m, n>> \in OpToRel(<, Nat))
  BY <1>1
<1>3. \A m \in T : ~ (m < n)
  BY <1>2 DEF OpToRel
<1>. QED
  BY <1>3

\* Among some subsets of a finite set there is one that contains no other.
LEMMA LeastSubset ==
  ASSUME NEW S, IsFiniteSet(S), NEW T \in SUBSET SUBSET S, T # {}
  PROVE  \E U \in T : \A V \in T : V \subseteq U => V = U
<1>1. \A U \in T : IsFiniteSet(U) /\ Cardinality(U) \in Nat
  BY FS_Subset, FS_CardinalityType
<1>. DEFINE sizes == { Cardinality(U) : U \in T }
<1>2. PICK n \in sizes : \A m \in sizes : n <= m
  <2>1. sizes \in SUBSET Nat /\ sizes # {}
    BY <1>1
  <2>. HIDE DEF sizes
  <2>. QED
    BY <2>1, LeastNatural
<1>3. PICK U \in T : Cardinality(U) = n
  OBVIOUS
<1>4. ASSUME NEW V \in T, V \subseteq U
      PROVE  V = U
  <2>1. Cardinality(V) <= Cardinality(U) /\ Cardinality(U) <= Cardinality(V)
    BY <1>1, <1>2, <1>3, <1>4, FS_Subset
  <2>2. Cardinality(V) = Cardinality(U)
    BY <1>1, <2>1
  <2>. QED
    BY <1>1, <1>4, <2>2, FS_Subset
<1>. QED
  BY <1>4

\* The sum over s takes this index first (Functions and Folds of the
\* community modules).
Chosen(s) == CHOOSE x \in s : TRUE

\* The recursive equation of a sum: g holds the sums over smaller sets.
SumBody(f, g, s) ==
  IF s = {} THEN 0 ELSE f[Chosen(s)] + g[s \ {Chosen(s)}]

\* g holds the sum of f over every subset of S, or of its small ones.
IsSumTable(f, S, g) == g = [s \in SUBSET S |-> SumBody(f, g, s)]

IsSumTableUpTo(f, S, g, n) ==
  \A s \in SUBSET S : Cardinality(s) <= n => g[s] = SumBody(f, g, s)

\* What is summed are naturals.
NaturalOn(f, S) == \A x \in S : f[x] \in Nat

\* The index a sum takes next is one of its indices.
LEMMA ChosenIsMember ==
  ASSUME NEW s, s # {}
  PROVE  Chosen(s) \in s
BY DEF Chosen

\* A sum is looked up in a table of the sums over all subsets of its
\* indices, which is chosen by its recursive equation.
LEMMA SumIsChosenTable ==
  ASSUME NEW f, NEW S
  PROVE  SumFunctionOnSet(f, S) = (CHOOSE g : IsSumTable(f, S, g))[S]
BY Zenon DEF SumFunctionOnSet, FoldFunctionOnSet, MapThenFoldSet, IsSumTable, SumBody, Chosen

\* There is a table that satisfies the equation for the sets of up to n
\* indices.
LEMMA TableUpTo ==
  ASSUME NEW f, NEW S, IsFiniteSet(S), NaturalOn(f, S), NEW n \in Nat
  PROVE  \E g \in [SUBSET S -> Nat] : IsSumTableUpTo(f, S, g, n)
<1>. DEFINE Bad == { m \in Nat : ~ \E g \in [SUBSET S -> Nat] : IsSumTableUpTo(f, S, g, m) }
<1>1. \A s \in SUBSET S : IsFiniteSet(s) /\ Cardinality(s) \in Nat
  BY FS_Subset, FS_CardinalityType
<1>2. SUFFICES Bad = {}
  OBVIOUS
<1>3. SUFFICES ASSUME NEW m \in Bad, \A k \in Bad : m <= k
               PROVE  FALSE
  <2>1. Bad \in SUBSET Nat
    OBVIOUS
  <2>. HIDE DEF Bad
  <2>. QED
    BY <2>1, LeastNatural
<1>4. CASE m = 0
  <2>1. [s \in SUBSET S |-> 0] \in [SUBSET S -> Nat]
    OBVIOUS
  <2>2. IsSumTableUpTo(f, S, [s \in SUBSET S |-> 0], 0)
    BY <1>1, FS_EmptySet DEF IsSumTableUpTo, SumBody
  <2>. QED
    BY <1>4, <2>1, <2>2
<1>5. CASE m # 0
  <2>1. m - 1 \in Nat /\ m - 1 \notin Bad
    <3>1. m \in Nat
      OBVIOUS
    <3>. HIDE DEF Bad
    <3>. QED
      BY <1>3, <1>5, <3>1
  <2>2. PICK g \in [SUBSET S -> Nat] : IsSumTableUpTo(f, S, g, m - 1)
    BY <2>1
  <2>. DEFINE h == [s \in SUBSET S |-> IF Cardinality(s) = m THEN SumBody(f, g, s) ELSE g[s]]
  <2>3. ASSUME NEW s \in SUBSET S, s # {}
        PROVE  /\ Chosen(s) \in S
               /\ s \ {Chosen(s)} \in SUBSET S
               /\ Cardinality(s \ {Chosen(s)}) = Cardinality(s) - 1
    BY <1>1, <2>3, ChosenIsMember, FS_RemoveElement
  <2>4. ASSUME NEW s \in SUBSET S
        PROVE  SumBody(f, g, s) \in Nat
    <3>1. CASE s = {}
      BY <3>1 DEF SumBody
    <3>2. CASE s # {}
      <4>1. f[Chosen(s)] \in Nat /\ g[s \ {Chosen(s)}] \in Nat
        BY <2>3, <3>2 DEF NaturalOn
      <4>. QED
        BY <3>2, <4>1 DEF SumBody
    <3>. QED
      BY <3>1, <3>2
  <2>5. h \in [SUBSET S -> Nat]
    BY <2>4
  <2>6. ASSUME NEW s \in SUBSET S, Cardinality(s) <= m
        PROVE  h[s] = SumBody(f, h, s)
    <3>1. SumBody(f, h, s) = SumBody(f, g, s)
      <4>1. CASE s = {}
        BY <4>1 DEF SumBody
      <4>2. CASE s # {}
        <5>1. Cardinality(s \ {Chosen(s)}) # m
          BY <1>1, <2>3, <2>6, <4>2
        <5>2. h[s \ {Chosen(s)}] = g[s \ {Chosen(s)}]
          BY <2>3, <4>2, <5>1
        <5>. QED
          BY <5>2 DEF SumBody
      <4>. QED
        BY <4>1, <4>2
    <3>2. CASE Cardinality(s) = m
      BY <3>1, <3>2
    <3>3. CASE Cardinality(s) # m
      <4>1. Cardinality(s) <= m - 1
        BY <1>1, <2>6, <3>3
      <4>. QED
        BY <2>2, <3>1, <3>3, <4>1 DEF IsSumTableUpTo
    <3>. QED
      BY <3>2, <3>3
  <2>. QED
    BY <2>5, <2>6 DEF IsSumTableUpTo
<1>. QED
  BY <1>4, <1>5

\* There is a table of all sums.
LEMMA TableExists ==
  ASSUME NEW f, NEW S, IsFiniteSet(S), NaturalOn(f, S)
  PROVE  \E g \in [SUBSET S -> Nat] : IsSumTable(f, S, g)
<1>1. PICK g \in [SUBSET S -> Nat] :
        \A s \in SUBSET S : Cardinality(s) <= Cardinality(S) => g[s] = SumBody(f, g, s)
  <2>1. PICK n \in Nat : n = Cardinality(S)
    BY FS_CardinalityType
  <2>2. PICK g \in [SUBSET S -> Nat] : IsSumTableUpTo(f, S, g, n)
    BY TableUpTo
  <2>. QED
    BY <2>1, <2>2 DEF IsSumTableUpTo
<1>2. \A s \in SUBSET S : g[s] = SumBody(f, g, s)
  BY <1>1, FS_Subset
<1>3. g = [s \in SUBSET S |-> g[s]]
  OBVIOUS
<1>4. g = [s \in SUBSET S |-> SumBody(f, g, s)]
  BY <1>2, <1>3
<1>. QED
  BY <1>4 DEF IsSumTable

\* Tables for a set and for a subset of it agree where both are defined.
LEMMA TablesAgree ==
  ASSUME NEW f, NEW S, IsFiniteSet(S), NEW T \in SUBSET S,
         NEW g, NEW h, IsSumTable(f, S, g), IsSumTable(f, T, h)
  PROVE  \A s \in SUBSET T : g[s] = h[s]
<1>. DEFINE Bad == { s \in SUBSET T : g[s] # h[s] }
<1>. SUFFICES ASSUME Bad # {}
              PROVE  FALSE
  OBVIOUS
<1>1. PICK s \in Bad : \A r \in Bad : r \subseteq s => r = s
  <2>1. Bad \in SUBSET SUBSET S
    OBVIOUS
  <2>. HIDE DEF Bad
  <2>. QED
    BY <2>1, LeastSubset
<1>2. g[s] = SumBody(f, g, s) /\ h[s] = SumBody(f, h, s)
  <2>1. s \in SUBSET S /\ s \in SUBSET T
    OBVIOUS
  <2>2. g[s] = [r \in SUBSET S |-> SumBody(f, g, r)][s]
    BY DEF IsSumTable
  <2>3. h[s] = [r \in SUBSET T |-> SumBody(f, h, r)][s]
    BY DEF IsSumTable
  <2>. QED
    BY <2>1, <2>2, <2>3
<1>3. CASE s = {}
  BY <1>2, <1>3 DEF SumBody
<1>4. CASE s # {}
  <2>1. s \ {Chosen(s)} \notin Bad
    BY <1>1, <1>4, ChosenIsMember
  <2>2. g[s \ {Chosen(s)}] = h[s \ {Chosen(s)}]
    BY <2>1
  <2>. QED
    BY <1>2, <1>4, <2>2 DEF SumBody
<1>. QED
  BY <1>3, <1>4

\* One table holds the sums over all subsets of a finite set.
LEMMA SumFromTable ==
  ASSUME NEW f, NEW S, IsFiniteSet(S), NaturalOn(f, S)
  PROVE  \E g \in [SUBSET S -> Nat] :
           /\ IsSumTable(f, S, g)
           /\ \A s \in SUBSET S : SumFunctionOnSet(f, s) = g[s]
<1>1. PICK g \in [SUBSET S -> Nat] : IsSumTable(f, S, g)
  BY TableExists
<1>2. ASSUME NEW s \in SUBSET S
      PROVE  SumFunctionOnSet(f, s) = g[s]
  <2>1. IsFiniteSet(s) /\ NaturalOn(f, s)
    BY FS_Subset DEF NaturalOn
  <2>2. IsSumTable(f, s, CHOOSE h : IsSumTable(f, s, h))
    BY <2>1, TableExists
  <2>. QED
    BY <1>1, <2>2, SumIsChosenTable, TablesAgree
<1>. QED
  BY <1>1, <1>2

\* The sum over no index is 0.
LEMMA SumOfNothing ==
  ASSUME NEW f
  PROVE  SumFunctionOnSet(f, {}) = 0
<1>1. IsFiniteSet({}) /\ NaturalOn(f, {})
  BY FS_EmptySet DEF NaturalOn
<1>2. PICK g \in [SUBSET {} -> Nat] : IsSumTable(f, {}, g) /\ SumFunctionOnSet(f, {}) = g[{}]
  BY <1>1, SumFromTable
<1>3. g[{}] = [s \in SUBSET {} |-> SumBody(f, g, s)][{}]
  BY <1>2 DEF IsSumTable
<1>. QED
  BY <1>2, <1>3 DEF SumBody

\* A finite sum of naturals is a natural.
LEMMA SumIsNatural ==
  ASSUME NEW f, NEW S, IsFiniteSet(S), NaturalOn(f, S)
  PROVE  SumFunctionOnSet(f, S) \in Nat
<1>1. PICK g \in [SUBSET S -> Nat] :
        IsSumTable(f, S, g) /\ \A s \in SUBSET S : SumFunctionOnSet(f, s) = g[s]
  BY SumFromTable, Zenon
<1>2. S \in SUBSET S
  OBVIOUS
<1>3. SumFunctionOnSet(f, S) = g[S]
  BY <1>1, <1>2, Zenon
<1>4. g[S] \in Nat
  BY <1>2
<1>. QED
  BY <1>3, <1>4, Zenon

\* A sum is its chosen summand and the sum of the others.
LEMMA SumTakesChosen ==
  ASSUME NEW f, NEW S, IsFiniteSet(S), NaturalOn(f, S), S # {}
  PROVE  SumFunctionOnSet(f, S)
           = f[Chosen(S)] + SumFunctionOnSet(f, S \ {Chosen(S)})
<1>1. PICK g \in [SUBSET S -> Nat] :
        IsSumTable(f, S, g) /\ \A s \in SUBSET S : SumFunctionOnSet(f, s) = g[s]
  BY SumFromTable
<1>2. g[S] = [s \in SUBSET S |-> SumBody(f, g, s)][S]
  BY <1>1 DEF IsSumTable
<1>3. g[S] = f[Chosen(S)] + g[S \ {Chosen(S)}]
  BY <1>2 DEF SumBody
<1>. QED
  BY <1>1, <1>3

\* A sum is any one of its summands and the sum of the others.
LEMMA SumTakesOne ==
  ASSUME NEW f, NEW S, IsFiniteSet(S), NaturalOn(f, S), NEW x \in S
  PROVE  SumFunctionOnSet(f, S) = f[x] + SumFunctionOnSet(f, S \ {x})
<1>. DEFINE Bad == { U \in SUBSET S : \E y \in U :
                       SumFunctionOnSet(f, U) # f[y] + SumFunctionOnSet(f, U \ {y}) }
<1>. SUFFICES ASSUME Bad # {}
              PROVE  FALSE
  OBVIOUS
<1>1. PICK U \in Bad : \A V \in Bad : V \subseteq U => V = U
  <2>1. Bad \in SUBSET SUBSET S
    OBVIOUS
  <2>. HIDE DEF Bad
  <2>. QED
    BY <2>1, LeastSubset
<1>2. PICK y \in U : SumFunctionOnSet(f, U) # f[y] + SumFunctionOnSet(f, U \ {y})
  OBVIOUS
<1>. DEFINE c == Chosen(U)
<1>3. \A V \in SUBSET U : IsFiniteSet(V) /\ NaturalOn(f, V)
  BY FS_Subset DEF NaturalOn
<1>4. c \in U /\ SumFunctionOnSet(f, U) = f[c] + SumFunctionOnSet(f, U \ {c})
  BY <1>3, ChosenIsMember, SumTakesChosen
<1>5. c # y
  BY <1>2, <1>4
<1>. HIDE DEF c
<1>6. U \ {c} \notin Bad /\ U \ {y} \notin Bad
  BY <1>1, <1>4
<1>7. SumFunctionOnSet(f, U \ {c}) = f[y] + SumFunctionOnSet(f, (U \ {c}) \ {y})
  BY <1>5, <1>6
<1>8. SumFunctionOnSet(f, U \ {y}) = f[c] + SumFunctionOnSet(f, (U \ {y}) \ {c})
  BY <1>4, <1>5, <1>6
<1>9. (U \ {c}) \ {y} = (U \ {y}) \ {c}
  OBVIOUS
<1>10. SumFunctionOnSet(f, (U \ {c}) \ {y}) \in Nat /\ f[c] \in Nat /\ f[y] \in Nat
  BY <1>3, <1>4, SumIsNatural DEF NaturalOn
<1>. QED
  BY <1>2, <1>4, <1>7, <1>8, <1>9, <1>10

\* A sum depends only on the values that are summed.
LEMMA SumAgrees ==
  ASSUME NEW f, NEW g, NEW S, IsFiniteSet(S), NaturalOn(f, S),
         \A x \in S : g[x] = f[x]
  PROVE  SumFunctionOnSet(g, S) = SumFunctionOnSet(f, S)
<1>. DEFINE Bad == { U \in SUBSET S : SumFunctionOnSet(g, U) # SumFunctionOnSet(f, U) }
<1>. SUFFICES ASSUME Bad # {}
              PROVE  FALSE
  OBVIOUS
<1>1. PICK U \in Bad : \A V \in Bad : V \subseteq U => V = U
  <2>1. Bad \in SUBSET SUBSET S
    OBVIOUS
  <2>. HIDE DEF Bad
  <2>. QED
    BY <2>1, LeastSubset
<1>2. CASE U = {}
  BY <1>2, SumOfNothing
<1>3. CASE U # {}
  <2>1. PICK x \in U : TRUE
    BY <1>3
  <2>2. SumFunctionOnSet(g, U \ {x}) = SumFunctionOnSet(f, U \ {x})
    <3>1. U \ {x} \notin Bad
      BY <1>1
    <3>. QED
      BY <3>1
  <2>3. IsFiniteSet(U) /\ NaturalOn(f, U) /\ NaturalOn(g, U)
    BY FS_Subset DEF NaturalOn
  <2>4. /\ SumFunctionOnSet(f, U) = f[x] + SumFunctionOnSet(f, U \ {x})
        /\ SumFunctionOnSet(g, U) = g[x] + SumFunctionOnSet(g, U \ {x})
    BY <2>3, SumTakesOne
  <2>. QED
    BY <2>2, <2>4
<1>. QED
  BY <1>2, <1>3

\* With a new index a sum grows by its value: a vote, a mint, a ballot.
LEMMA SumGrows ==
  ASSUME NEW f, NEW S, IsFiniteSet(S), NEW x, x \notin S, NEW g,
         NaturalOn(f, S), \A y \in S : g[y] = f[y], g[x] \in Nat
  PROVE  SumFunctionOnSet(g, S \union {x}) = SumFunctionOnSet(f, S) + g[x]
<1>1. IsFiniteSet(S \union {x}) /\ NaturalOn(g, S \union {x})
  BY FS_AddElement DEF NaturalOn
<1>2. SumFunctionOnSet(g, S \union {x})
        = g[x] + SumFunctionOnSet(g, (S \union {x}) \ {x})
  BY <1>1, SumTakesOne
<1>3. (S \union {x}) \ {x} = S
  OBVIOUS
<1>4. SumFunctionOnSet(g, S) = SumFunctionOnSet(f, S)
  BY SumAgrees
<1>5. SumFunctionOnSet(f, S) \in Nat
  BY SumIsNatural
<1>6. SumFunctionOnSet(g, (S \union {x}) \ {x}) = SumFunctionOnSet(f, S)
  BY <1>3, <1>4
<1>. QED
  BY <1>2, <1>5, <1>6

\* When one summand changes the sum changes as much: a balance, a fee.
LEMMA SumChangesAtOne ==
  ASSUME NEW f, NEW S, IsFiniteSet(S), NEW x \in S, NEW g,
         NaturalOn(f, S), \A y \in S \ {x} : g[y] = f[y], g[x] \in Nat
  PROVE  SumFunctionOnSet(g, S) = SumFunctionOnSet(f, S) + g[x] - f[x]
<1>1. NaturalOn(g, S) /\ NaturalOn(f, S \ {x}) /\ IsFiniteSet(S \ {x})
  BY FS_RemoveElement DEF NaturalOn
<1>2. /\ SumFunctionOnSet(f, S) = f[x] + SumFunctionOnSet(f, S \ {x})
      /\ SumFunctionOnSet(g, S) = g[x] + SumFunctionOnSet(g, S \ {x})
  BY <1>1, SumTakesOne
<1>3. SumFunctionOnSet(g, S \ {x}) = SumFunctionOnSet(f, S \ {x})
  BY <1>1, SumAgrees
<1>4. SumFunctionOnSet(f, S \ {x}) \in Nat /\ f[x] \in Nat
  BY <1>1, SumIsNatural DEF NaturalOn
<1>. QED
  BY <1>2, <1>3, <1>4

\* The same, of functions into the naturals: all balances but one stay.
LEMMA ValueChanges ==
  ASSUME NEW S, IsFiniteSet(S), NEW f \in [S -> Nat], NEW g \in [S -> Nat], NEW x \in S,
         \A y \in S \ {x} : g[y] = f[y]
  PROVE  SumFunctionOnSet(g, S) = SumFunctionOnSet(f, S) + g[x] - f[x]
<1>1. NaturalOn(f, S) /\ g[x] \in Nat
  BY DEF NaturalOn
<1>. QED
  BY <1>1, SumChangesAtOne

\* A sum of zeros is 0.
LEMMA SumOfZeros ==
  ASSUME NEW f, NEW S, IsFiniteSet(S), \A x \in S : f[x] = 0
  PROVE  SumFunctionOnSet(f, S) = 0
<1>. DEFINE Bad == { U \in SUBSET S : SumFunctionOnSet(f, U) # 0 }
<1>. SUFFICES ASSUME Bad # {}
              PROVE  FALSE
  OBVIOUS
<1>1. PICK U \in Bad : \A V \in Bad : V \subseteq U => V = U
  <2>1. Bad \in SUBSET SUBSET S
    OBVIOUS
  <2>. HIDE DEF Bad
  <2>. QED
    BY <2>1, LeastSubset
<1>2. CASE U = {}
  BY <1>2, SumOfNothing
<1>3. CASE U # {}
  <2>1. PICK x \in U : TRUE
    BY <1>3
  <2>2. SumFunctionOnSet(f, U \ {x}) = 0
    <3>1. U \ {x} \notin Bad
      BY <1>1
    <3>. QED
      BY <3>1
  <2>3. IsFiniteSet(U) /\ NaturalOn(f, U)
    BY FS_Subset DEF NaturalOn
  <2>. QED
    BY <2>2, <2>3, SumTakesOne
<1>. QED
  BY <1>2, <1>3

\* A share, rounded down, is at most the exact one.
LEMMA ShareOfOne ==
  ASSUME NEW part \in Nat, NEW amount \in Nat, NEW total \in Nat \ {0}
  PROVE  /\ (part * amount) \div total \in Nat
         /\ ((part * amount) \div total) * total <= part * amount
<1>. DEFINE n == part * amount
<1>1. n \in Nat
  OBVIOUS
<1>. HIDE DEF n
<1>2. n \div total \in Nat /\ (n \div total) * total <= n
  BY <1>1
<1>. QED
  BY <1>2 DEF n

\* When an amount is divided in proportion to parts, and every share is
\* rounded down, no more than the amount is given away.
LEMMA SumOfShares ==
  ASSUME NEW parts, NEW S, IsFiniteSet(S), NaturalOn(parts, S),
         NEW amount \in Nat, NEW total \in Nat \ {0},
         SumFunctionOnSet(parts, S) = total,
         NEW shares, \A x \in S : shares[x] = (parts[x] * amount) \div total
  PROVE  SumFunctionOnSet(shares, S) \in 0 .. amount
<1>. DEFINE Bad == { U \in SUBSET S :
       ~ (SumFunctionOnSet(shares, U) * total <= SumFunctionOnSet(parts, U) * amount) }
<1>1. \A x \in S : shares[x] \in Nat /\ shares[x] * total <= parts[x] * amount
  BY ShareOfOne DEF NaturalOn
<1>2. \A U \in SUBSET S :
        /\ IsFiniteSet(U) /\ NaturalOn(parts, U) /\ NaturalOn(shares, U)
        /\ SumFunctionOnSet(parts, U) \in Nat /\ SumFunctionOnSet(shares, U) \in Nat
  <2>1. ASSUME NEW U \in SUBSET S
        PROVE  IsFiniteSet(U) /\ NaturalOn(parts, U) /\ NaturalOn(shares, U)
    BY <1>1, FS_Subset DEF NaturalOn
  <2>. QED
    BY <2>1, SumIsNatural
<1>3. ASSUME Bad # {}
      PROVE  FALSE
  <2>1. PICK U \in Bad : \A V \in Bad : V \subseteq U => V = U
    <3>1. Bad \in SUBSET SUBSET S
      OBVIOUS
    <3>. HIDE DEF Bad
    <3>. QED
      BY <1>3, <3>1, LeastSubset
  <2>2. CASE U = {}
    BY <2>2, SumOfNothing
  <2>3. CASE U # {}
    <3>1. PICK x \in U : TRUE
      BY <2>3
    <3>. DEFINE p == SumFunctionOnSet(parts, U \ {x})
                s == SumFunctionOnSet(shares, U \ {x})
    <3>2. s * total <= p * amount
      <4>1. U \ {x} \notin Bad
        BY <2>1
      <4>. QED
        BY <4>1
    <3>3. /\ SumFunctionOnSet(parts, U) = parts[x] + p
          /\ SumFunctionOnSet(shares, U) = shares[x] + s
      BY <1>2, SumTakesOne
    <3>4. p \in Nat /\ s \in Nat /\ parts[x] \in Nat /\ shares[x] \in Nat
      BY <1>1, <1>2 DEF NaturalOn
    <3>5. shares[x] * total <= parts[x] * amount
      BY <1>1
    <3>. HIDE DEF p, s
    <3>6. (shares[x] + s) * total <= (parts[x] + p) * amount
      BY <3>2, <3>4, <3>5
    <3>. QED
      BY <3>3, <3>6
  <2>. QED
    BY <2>2, <2>3
<1>4. SumFunctionOnSet(shares, S) * total <= total * amount
  BY <1>3
<1>. DEFINE s == SumFunctionOnSet(shares, S)
<1>5. s \in Nat /\ s * total <= total * amount
  BY <1>2, <1>4
<1>. HIDE DEF s
<1>6. s <= amount
  BY <1>5
<1>. QED
  BY <1>5, <1>6 DEF s
=============================================================================
