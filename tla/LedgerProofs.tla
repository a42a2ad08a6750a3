---------------------------- MODULE LedgerProofs ----------------------------
(***************************************************************************)
(* What FinalizeBlock does to balances, what the mempool says is promised  *)
(* of them, and how the node implements the account book.                  *)
(***************************************************************************)
EXTENDS TxFlowProofs, TxFlowBook, FiniteSetTheorems

-----------------------------------------------------------------------------
\* Sums over finite sets

First(s) == CHOOSE x \in s : TRUE

\* The step of the recursion in SumFunctionOnSet
SumStep(f, g, s) == IF s = {} THEN 0 ELSE f[First(s)] + g[s \ {First(s)}]

IsSum(f, g, S) == g = [s \in SUBSET S |-> SumStep(f, g, s)]

LEMMA FirstIn == ASSUME NEW s, s # {} PROVE First(s) \in s
BY DEF First

LEMMA SumIsIter ==
    ASSUME NEW f, NEW S
    PROVE  SumFunctionOnSet(f, S) = (CHOOSE g : IsSum(f, g, S))[S]
BY DEF SumFunctionOnSet, FoldFunctionOnSet, MapThenFoldSet, IsSum, SumStep, First

\* What is left of a finite set without one of its elements
LEMMA OneLess ==
    ASSUME NEW S, IsFiniteSet(S), NEW x \in S
    PROVE  /\ IsFiniteSet(S \ {x}) /\ Cardinality(S) \in Nat /\ Cardinality(S \ {x}) \in Nat
           /\ Cardinality(S \ {x}) = Cardinality(S) - 1 /\ Cardinality(S \ {x}) < Cardinality(S)
<1>1. Cardinality(S) \in Nat /\ IsFiniteSet(S \ {x}) /\ Cardinality(S \ {x}) = Cardinality(S) - 1
  BY FS_CardinalityType, FS_RemoveElement
<1>2. Cardinality(S \ {x}) \in Nat
  BY <1>1, FS_CardinalityType
<1> QED BY <1>1, <1>2

\* There is a function that satisfies the recursion on the small subsets.
LEMMA SumExists ==
    ASSUME NEW f, NEW S, IsFiniteSet(S)
    PROVE  \E g : IsSum(f, g, S)
<1> DEFINE Small(n) == {s \in SUBSET S : Cardinality(s) <= n}
           P(n) == \E g : g = [s \in Small(n) |-> SumStep(f, g, s)]
           Bad == {n \in Nat : ~ P(n)}
<1>0. \A s \in SUBSET S : IsFiniteSet(s) /\ Cardinality(s) \in Nat
  BY FS_Subset, FS_CardinalityType
<1>1. Bad = {}
  <2> SUFFICES ASSUME Bad # {} PROVE FALSE
    OBVIOUS
  <2>1. Bad \in SUBSET Nat
    OBVIOUS
  <2>2. PICK m \in Bad : \A k \in Bad : m <= k
    <3> HIDE DEF Bad
    <3> QED BY <2>1, Least
  <2>3. m \in Nat /\ ~ P(m)
    BY Zenon
  <2>4. CASE m = 0
    <3> DEFINE g == [s \in Small(0) |-> 0]
    <3>1. \A s \in Small(0) : s = {}
      BY <1>0, FS_EmptySet
    <3>2. \A s \in Small(0) : g[s] = SumStep(f, g, s)
      BY <3>1 DEF SumStep
    <3>3. g = [s \in Small(0) |-> SumStep(f, g, s)]
      BY <3>2
    <3> QED BY <2>3, <2>4, <3>3, Zenon
  <2>5. CASE m # 0
    <3>1. m - 1 \in Nat /\ m - 1 \notin Bad
      <4>1. m - 1 \in Nat /\ ~ (m <= m - 1)
        BY <2>3, <2>5
      <4> HIDE DEF Bad
      <4> QED BY <2>2, <4>1
    <3>2. PICK g : g = [s \in Small(m - 1) |-> SumStep(f, g, s)]
      BY <3>1, Zenon
    <3> DEFINE h == [s \in Small(m) |-> IF s \in Small(m - 1) THEN g[s] ELSE SumStep(f, g, s)]
    <3>3. ASSUME NEW s \in Small(m) PROVE h[s] = SumStep(f, h, s)
      <4>1. h[s] = SumStep(f, g, s)
        BY <3>2
      <4>2. CASE s = {}
        BY <4>1, <4>2 DEF SumStep
      <4>3. CASE s # {}
        <5> DEFINE r == s \ {First(s)}
        <5>1. First(s) \in s /\ IsFiniteSet(s) /\ Cardinality(s) \in Nat
          BY <1>0, <4>3, FirstIn
        <5>2. Cardinality(r) \in Nat /\ Cardinality(r) = Cardinality(s) - 1
          BY <5>1, OneLess
        <5>3. r \in SUBSET S /\ Cardinality(r) <= m - 1 /\ Cardinality(r) <= m
          <6> HIDE DEF r
          <6>1. Cardinality(s) <= m
            OBVIOUS
          <6>2. Cardinality(r) <= m - 1 /\ Cardinality(r) <= m
            BY <2>3, <5>1, <5>2, <6>1
          <6>3. r \in SUBSET S
            BY DEF r
          <6> QED BY <6>2, <6>3
        <5>4. r \in Small(m - 1) /\ r \in Small(m)
          BY <5>3
        <5>5. h[r] = g[r]
          BY <5>4
        <5>6. SumStep(f, h, s) = SumStep(f, g, s)
          BY <5>5 DEF SumStep
        <5> QED BY <4>1, <5>6
      <4> QED BY <4>2, <4>3
    <3>4. h = [s \in Small(m) |-> h[s]]
      OBVIOUS
    <3> HIDE DEF h
    <3>5. h = [s \in Small(m) |-> SumStep(f, h, s)]
      BY <3>3, <3>4
    <3> QED BY <2>3, <3>5, Zenon
  <2> QED BY <2>4, <2>5
<1>2. Cardinality(S) \in Nat /\ Small(Cardinality(S)) = SUBSET S
  BY <1>0, FS_Subset
<1>3. P(Cardinality(S))
  <2> HIDE DEF P
  <2> QED BY <1>1, <1>2
<1>4. PICK g : g = [s \in Small(Cardinality(S)) |-> SumStep(f, g, s)]
  BY <1>3, Zenon
<1> QED BY <1>2, <1>4, Zenon DEF IsSum

\* Two such functions agree where both are defined.
LEMMA SumUnique ==
    ASSUME NEW f, NEW S, IsFiniteSet(S), NEW T \in SUBSET S,
           NEW g, IsSum(f, g, S), NEW h, IsSum(f, h, T)
    PROVE  g[T] = h[T]
<1> DEFINE Bad == {n \in Nat : \E s \in SUBSET T : Cardinality(s) = n /\ g[s] # h[s]}
<1>0. \A s \in SUBSET T : IsFiniteSet(s) /\ Cardinality(s) \in Nat /\ s \in SUBSET S
  BY FS_Subset, FS_CardinalityType
<1>1. Bad = {}
  <2> SUFFICES ASSUME Bad # {} PROVE FALSE
    OBVIOUS
  <2>1. Bad \in SUBSET Nat
    OBVIOUS
  <2>2. PICK m \in Bad : \A k \in Bad : m <= k
    <3> HIDE DEF Bad
    <3> QED BY <2>1, Least
  <2>3. PICK s \in SUBSET T : Cardinality(s) = m /\ g[s] # h[s]
    OBVIOUS
  <2>4. g[s] = SumStep(f, g, s) /\ h[s] = SumStep(f, h, s)
    BY <1>0 DEF IsSum
  <2>5. s # {}
    BY <2>3, <2>4 DEF SumStep
  <2> DEFINE r == s \ {First(s)}
  <2>6. First(s) \in s /\ r \in SUBSET T
    BY <2>5, FirstIn
  <2>7. Cardinality(r) \in Nat /\ Cardinality(r) < m
    BY <1>0, <2>3, <2>6, OneLess
  <2>8. g[r] = h[r]
    <3>1. Cardinality(r) \notin Bad
      <4> HIDE DEF Bad, r
      <4> QED BY <2>1, <2>2, <2>7
    <3> HIDE DEF r
    <3> QED BY <2>6, <2>7, <3>1
  <2> QED BY <2>3, <2>4, <2>5, <2>8 DEF SumStep
<1>2. T \in SUBSET T /\ Cardinality(T) \in Nat
  BY <1>0
<1> QED BY <1>1, <1>2

\* The recursion, for the sum itself
LEMMA SumRecursion ==
    ASSUME NEW f, NEW S, IsFiniteSet(S)
    PROVE  SumFunctionOnSet(f, S) =
             IF S = {} THEN 0
             ELSE f[First(S)] + SumFunctionOnSet(f, S \ {First(S)})
<1> DEFINE g == CHOOSE k : IsSum(f, k, S)
           r == S \ {First(S)}
           h == CHOOSE k : IsSum(f, k, r)
<1>1. SumFunctionOnSet(f, S) = g[S] /\ SumFunctionOnSet(f, r) = h[r]
  BY SumIsIter
<1>2. IsFiniteSet(r) /\ r \in SUBSET S
  BY FS_Subset
<1>3. IsSum(f, g, S)
  <2>1. \E k : IsSum(f, k, S)
    BY SumExists
  <2> QED BY <2>1
<1>4. IsSum(f, h, r)
  <2>1. \E k : IsSum(f, k, r)
    <3> HIDE DEF r
    <3> QED BY <1>2, SumExists
  <2> QED BY <2>1
<1> HIDE DEF g, h
<1>5. g[r] = h[r]
  <2> HIDE DEF r
  <2> QED BY <1>2, <1>3, <1>4, SumUnique
<1>6. g[S] = SumStep(f, g, S)
  BY <1>3 DEF IsSum
<1> QED BY <1>1, <1>5, <1>6 DEF SumStep

LEMMA SumEmpty == ASSUME NEW f PROVE SumFunctionOnSet(f, {}) = 0
BY SumRecursion, FS_EmptySet, Zenon

\* A sum of integers is an integer, and any element can be taken out of it.
LEMMA SumSplits ==
    ASSUME NEW f, NEW S, IsFiniteSet(S), \A x \in S : f[x] \in Int
    PROVE  /\ SumFunctionOnSet(f, S) \in Int
           /\ \A x \in S : SumFunctionOnSet(f, S) = f[x] + SumFunctionOnSet(f, S \ {x})
<1> DEFINE Sum(s) == SumFunctionOnSet(f, s)
           P(s) == Sum(s) \in Int /\ \A x \in s : Sum(s) = f[x] + Sum(s \ {x})
           Bad == {n \in Nat : \E s \in SUBSET S : Cardinality(s) = n /\ ~ P(s)}
<1>0. \A s \in SUBSET S : IsFiniteSet(s) /\ Cardinality(s) \in Nat
  BY FS_Subset, FS_CardinalityType
<1>1. \A s \in SUBSET S : Sum(s) = IF s = {} THEN 0 ELSE f[First(s)] + Sum(s \ {First(s)})
  BY <1>0, SumRecursion
<1> HIDE DEF Sum
<1>2. Bad = {}
  <2> SUFFICES ASSUME Bad # {} PROVE FALSE
    OBVIOUS
  <2>1. Bad \in SUBSET Nat
    OBVIOUS
  <2>2. PICK m \in Bad : \A k \in Bad : m <= k
    <3> HIDE DEF Bad
    <3> QED BY <2>1, Least
  <2>3. PICK s \in SUBSET S : Cardinality(s) = m /\ ~ P(s)
    OBVIOUS
  <2>4. ASSUME NEW x \in s PROVE P(s \ {x})
    <3> DEFINE r == s \ {x}
    <3>1. Cardinality(r) \in Nat /\ Cardinality(r) < m
      BY <1>0, <2>3, OneLess
    <3>2. r \in SUBSET S
      OBVIOUS
    <3>3. Cardinality(r) \notin Bad
      <4> HIDE DEF Bad, r
      <4> QED BY <2>1, <2>2, <3>1
    <3> HIDE DEF r, P
    <3>4. P(r)
      BY <3>1, <3>2, <3>3
    <3> QED BY <3>4 DEF r
  <2>5. s # {}
    <3> SUFFICES ASSUME s = {} PROVE P(s)
      BY <2>3
    <3>1. Sum(s) = 0
      BY <1>1, Zenon
    <3>2. Sum(s) \in Int
      BY <3>1
    <3> QED BY <3>2
  <2> DEFINE y == First(s)
  <2>6. y \in s /\ Sum(s) = f[y] + Sum(s \ {y}) /\ f[y] \in Int
    BY <1>1, <2>5, FirstIn
  <2> HIDE DEF y
  <2>7. Sum(s) \in Int
    <3>1. Sum(s \ {y}) \in Int
      BY <2>4, <2>6, Zenon
    <3> QED BY <2>6, <3>1
  <2>8. ASSUME NEW x \in s PROVE Sum(s) = f[x] + Sum(s \ {x})
    <3>1. CASE x = y
      BY <2>6, <3>1
    <3>2. CASE x # y
      <4>1. x \in s \ {y} /\ y \in s \ {x} /\ (s \ {y}) \ {x} = (s \ {x}) \ {y}
        BY <2>6, <3>2
      <4>2. Sum(s \ {y}) = f[x] + Sum((s \ {y}) \ {x})
        BY <2>4, <2>6, <4>1, Zenon
      <4>3. Sum(s \ {x}) = f[y] + Sum((s \ {x}) \ {y})
        BY <2>4, <4>1, Zenon
      <4>4. P((s \ {x}))
        BY <2>4
      <4>5. Sum((s \ {x}) \ {y}) \in Int
        <5>1. Sum(s \ {x}) \in Int /\ IsFiniteSet(s \ {x})
          BY <1>0, <4>4
        <5>2. Cardinality((s \ {x}) \ {y}) \in Nat /\ Cardinality((s \ {x}) \ {y}) < m
          <6>1. Cardinality(s \ {x}) \in Nat /\ Cardinality(s \ {x}) < m /\ IsFiniteSet(s \ {x})
            BY <1>0, <2>3, OneLess
          <6>2. Cardinality((s \ {x}) \ {y}) \in Nat
                /\ Cardinality((s \ {x}) \ {y}) < Cardinality(s \ {x})
            BY <4>1, <6>1, OneLess
          <6> QED BY <2>1, <6>1, <6>2
        <5>3. PICK r \in SUBSET S : r = (s \ {x}) \ {y}
          BY Zenon
        <5>4. Cardinality(r) \notin Bad
          <6> HIDE DEF Bad
          <6> QED BY <2>1, <2>2, <5>2, <5>3
        <5>5. P(r)
          <6> HIDE DEF P
          <6> QED BY <5>2, <5>3, <5>4
        <5> QED BY <5>3, <5>5
      <4>6. f[x] \in Int /\ f[y] \in Int
        BY <2>6
      <4>7. PICK c \in Int : c = Sum((s \ {x}) \ {y})
        BY <4>5
      <4>8. Sum(s) = f[y] + (f[x] + c) /\ Sum(s \ {x}) = f[y] + c
        BY <2>6, <4>1, <4>2, <4>3, <4>7, Zenon
      <4> QED BY <4>6, <4>8
    <3> QED BY <3>1, <3>2
  <2> QED BY <2>3, <2>7, <2>8
<1>3. P(S)
  <2>1. S \in SUBSET S /\ Cardinality(S) \in Nat
    BY <1>0
  <2> HIDE DEF P
  <2> QED BY <1>2, <2>1
<1> QED BY <1>3 DEF Sum

\* A sum depends only on the values it adds up.
LEMMA SumCongruent ==
    ASSUME NEW f, NEW g, NEW S, IsFiniteSet(S), \A x \in S : f[x] = g[x]
    PROVE  SumFunctionOnSet(f, S) = SumFunctionOnSet(g, S)
<1> DEFINE SumF(s) == SumFunctionOnSet(f, s)
           SumG(s) == SumFunctionOnSet(g, s)
           Bad == {n \in Nat : \E s \in SUBSET S : Cardinality(s) = n /\ SumF(s) # SumG(s)}
<1>0. \A s \in SUBSET S : IsFiniteSet(s) /\ Cardinality(s) \in Nat
  BY FS_Subset, FS_CardinalityType
<1>1. \A s \in SUBSET S : s # {} =>
         SumF(s) = f[First(s)] + SumF(s \ {First(s)}) /\ SumG(s) = g[First(s)] + SumG(s \ {First(s)})
  BY <1>0, SumRecursion
<1>2. SumF({}) = 0 /\ SumG({}) = 0
  BY SumEmpty
<1> HIDE DEF SumF, SumG
<1>3. Bad = {}
  <2> SUFFICES ASSUME Bad # {} PROVE FALSE
    OBVIOUS
  <2>1. Bad \in SUBSET Nat
    OBVIOUS
  <2>2. PICK m \in Bad : \A k \in Bad : m <= k
    <3> HIDE DEF Bad
    <3> QED BY <2>1, Least
  <2>3. PICK s \in SUBSET S : Cardinality(s) = m /\ SumF(s) # SumG(s)
    OBVIOUS
  <2>4. s # {}
    BY <1>2, <2>3
  <2> DEFINE r == s \ {First(s)}
  <2>5. First(s) \in s /\ r \in SUBSET S
    BY <2>4, FirstIn
  <2>6. Cardinality(r) \in Nat /\ Cardinality(r) < m
    BY <1>0, <2>3, <2>5, OneLess
  <2>7. Cardinality(r) \notin Bad
    <3> HIDE DEF Bad, r
    <3> QED BY <2>1, <2>2, <2>6
  <2>8. SumF(r) = SumG(r)
    <3> HIDE DEF r
    <3> QED BY <2>5, <2>6, <2>7
  <2>9. f[First(s)] = g[First(s)]
    BY <2>5
  <2> QED BY <1>1, <2>3, <2>4, <2>8, <2>9
<1>4. S \in SUBSET S /\ Cardinality(S) \in Nat
  BY <1>0
<1>5. SumF(S) = SumG(S)
  BY <1>3, <1>4
<1> QED BY <1>5 DEF SumF, SumG

\* A sum of naturals is a natural.
LEMMA SumIsNat ==
    ASSUME NEW f, NEW S, IsFiniteSet(S), \A x \in S : f[x] \in Nat
    PROVE  SumFunctionOnSet(f, S) \in Nat
<1> DEFINE Sum(s) == SumFunctionOnSet(f, s)
           Bad == {n \in Nat : \E s \in SUBSET S : Cardinality(s) = n /\ Sum(s) \notin Nat}
<1>0. \A s \in SUBSET S : IsFiniteSet(s) /\ Cardinality(s) \in Nat
  BY FS_Subset, FS_CardinalityType
<1>1. \A s \in SUBSET S : s # {} => Sum(s) = f[First(s)] + Sum(s \ {First(s)})
  BY <1>0, SumRecursion
<1>2. Sum({}) = 0
  BY SumEmpty
<1> HIDE DEF Sum
<1>3. Bad = {}
  <2> SUFFICES ASSUME Bad # {} PROVE FALSE
    OBVIOUS
  <2>1. Bad \in SUBSET Nat
    OBVIOUS
  <2>2. PICK m \in Bad : \A k \in Bad : m <= k
    <3> HIDE DEF Bad
    <3> QED BY <2>1, Least
  <2>3. PICK s \in SUBSET S : Cardinality(s) = m /\ Sum(s) \notin Nat
    OBVIOUS
  <2>4. s # {}
    BY <1>2, <2>3
  <2> DEFINE r == s \ {First(s)}
  <2>5. First(s) \in s /\ r \in SUBSET S /\ f[First(s)] \in Nat
    BY <2>4, FirstIn
  <2>6. Cardinality(r) \in Nat /\ Cardinality(r) < m
    BY <1>0, <2>3, <2>5, OneLess
  <2>7. Cardinality(r) \notin Bad
    <3> HIDE DEF Bad, r
    <3> QED BY <2>1, <2>2, <2>6
  <2>8. Sum(r) \in Nat
    <3> HIDE DEF r
    <3> QED BY <2>5, <2>6, <2>7
  <2> QED BY <1>1, <2>3, <2>4, <2>5, <2>8
<1>4. S \in SUBSET S /\ Cardinality(S) \in Nat
  BY <1>0
<1>5. Sum(S) \in Nat
  BY <1>3, <1>4
<1> QED BY <1>5 DEF Sum

\* Raising one balance raises the supply by as much.
LEMMA SupplyShifts ==
    ASSUME NEW f \in [Accounts -> Int], NEW a \in Accounts, NEW d \in Int
    PROVE  Supply([f EXCEPT ![a] = @ + d]) = Supply(f) + d /\ Supply(f) \in Int
<1> DEFINE g == [f EXCEPT ![a] = @ + d]
           others == Accounts \ {a}
<1>1. IsFiniteSet(Accounts) /\ IsFiniteSet(others)
  BY TxAssumption, FS_RemoveElement
<1>2. g[a] = f[a] + d /\ f[a] \in Int /\ (\A b \in Accounts : f[b] \in Int /\ g[b] \in Int)
      /\ \A b \in others : g[b] = f[b]
  OBVIOUS
<1> HIDE DEF g
<1>3. /\ SumFunctionOnSet(f, Accounts) \in Int
      /\ SumFunctionOnSet(f, Accounts) = f[a] + SumFunctionOnSet(f, others)
      /\ SumFunctionOnSet(g, Accounts) = g[a] + SumFunctionOnSet(g, others)
  BY <1>1, <1>2, SumSplits
<1>4. SumFunctionOnSet(f, others) \in Int
  BY <1>1, <1>2, SumSplits
<1>5. SumFunctionOnSet(g, others) = SumFunctionOnSet(f, others)
  BY <1>1, <1>2, SumCongruent
<1>6. SumFunctionOnSet(g, Accounts) = SumFunctionOnSet(f, Accounts) + d
  BY <1>2, <1>3, <1>4, <1>5
<1> QED BY <1>3, <1>6 DEF Supply, g

-----------------------------------------------------------------------------
\* Applying a transfer

LEMMA TxFields ==
    ASSUME NEW h \in Txs
    PROVE  Tx[h].sender \in Accounts /\ Tx[h].recipient \in Accounts /\ Tx[h].amount \in Nat
<1>1. Tx[h] \in TxRecord
  BY TxAssumption
<1> QED BY <1>1 DEF TxRecord

\* A transfer leaves no balance below zero, keeps the supply, and makes only its
\* sender poorer and only its recipient richer.
LEMMA ApplyTxFacts ==
    ASSUME NEW state \in [Accounts -> Nat], NEW h \in Txs
    PROVE  /\ ApplyTx(state, h) \in [Accounts -> Nat]
           /\ Supply(ApplyTx(state, h)) = Supply(state)
           /\ \A a \in Accounts :
                /\ ApplyTx(state, h)[a] < state[a] => a = Tx[h].sender
                /\ ApplyTx(state, h)[a] > state[a] => a = Tx[h].recipient
<1> DEFINE s == Tx[h].sender
           r == Tx[h].recipient
           amt == Tx[h].amount
           debited == [state EXCEPT ![s] = @ - amt]
           paid == [debited EXCEPT ![r] = @ + amt]
<1>1. s \in Accounts /\ r \in Accounts /\ amt \in Nat
  BY TxFields
<1>2. ApplyTx(state, h) = IF state[s] < amt THEN state ELSE paid
  BY DEF ApplyTx
<1> HIDE DEF s, r, amt
<1>3. CASE state[s] < amt
  BY <1>2, <1>3
<1>4. CASE ~ (state[s] < amt)
  <2>1. state[s] \in Nat /\ state[s] - amt \in Nat
    BY <1>1, <1>4
  <2>2. debited \in [Accounts -> Nat] /\ paid \in [Accounts -> Nat]
    BY <1>1, <2>1
  <2>3. \A a \in Accounts : /\ paid[a] < state[a] => a = s
                            /\ paid[a] > state[a] => a = r
    BY <1>1, <2>1
  <2> DEFINE d == 0 - amt
  <2>4. d \in Int /\ state[s] - amt = state[s] + d
    BY <1>1, <2>1
  <2>5. debited = [state EXCEPT ![s] = @ + d]
    <3> HIDE DEF d
    <3> QED BY <2>4, Zenon
  <2>6. Supply(debited) = Supply(state) + d /\ Supply(state) \in Int
    <3> HIDE DEF d
    <3>1. state \in [Accounts -> Int]
      OBVIOUS
    <3>2. Supply([state EXCEPT ![s] = @ + d]) = Supply(state) + d /\ Supply(state) \in Int
      BY <1>1, <2>4, <3>1, SupplyShifts, Zenon
    <3> QED BY <2>5, <3>2
  <2>7. Supply(paid) = Supply(debited) + amt
    <3>1. debited \in [Accounts -> Int] /\ amt \in Int
      BY <1>1, <2>2
    <3> HIDE DEF debited
    <3> QED BY <1>1, <3>1, SupplyShifts, Zenon
  <2>8. Supply(paid) = Supply(state)
    BY <1>1, <2>6, <2>7
  <2> QED BY <1>2, <1>4, <2>2, <2>3, <2>8, Zenon DEF s, r
<1> QED BY <1>3, <1>4

-----------------------------------------------------------------------------
\* Balances

\* The balances in memory differ from the stored ones only as the transfers
\* of the block explain.
Money ==
    /\ accounts \in [Accounts -> Nat] /\ Supply(accounts) = Supply(InitialBalance)
    /\ work \in [Accounts -> Nat]
    /\ finPc # "idle" =>
         /\ Supply(work) = Supply(accounts)
         /\ \A a \in Accounts :
              /\ work[a] < accounts[a] => \E h \in Range(FinTxs) : Transfer(h) /\ Tx[h].sender = a
              /\ work[a] > accounts[a] => \E h \in Range(FinTxs) : Transfer(h) /\ Tx[h].recipient = a

moneyVars == <<accounts, work, finPc>>

LEMMA MoneyInductive == Inv /\ Money /\ [Next]_vars => Money'
<1> SUFFICES ASSUME Inv, Money, [Next]_vars PROVE Money'
  OBVIOUS
<1> USE DEF storeVars, finVars
<1>0. Store /\ Money
  BY DEF Inv
<1>1. ASSUME UNCHANGED moneyVars, finPc # "idle" => FinTxs' = FinTxs PROVE Money'
  BY <1>0, <1>1, Zenon DEF moneyVars, Money
<1>2. ASSUME NEW a \in Adders, NEW h \in Submitted, AddTxCheck(a, h) PROVE Money'
  BY <1>1, <1>2 DEF AddTxCheck, moneyVars, FinTxs
<1>3. ASSUME NEW a \in Adders, AddTxLocked(a) PROVE Money'
  BY <1>1, <1>3 DEF AddTxLocked, moneyVars, FinTxs
<1>4. CASE PullLocked \/ PullDedup \/ TrackLook \/ TrackStore \/ Record
  BY <1>1, <1>4, Zenon DEF PullLocked, PullDedup, TrackLook, TrackStore, Record, moneyVars, FinTxs
<1>5. CASE LeaderStart \/ LeaderEnd \/ SlotEnd
  BY <1>1, <1>5, Zenon DEF LeaderStart, LeaderEnd, SlotEnd, moneyVars, FinTxs
<1>6. CASE StoreOwn
  <2>1. UNCHANGED <<moneyVars, finSlot>>
    BY <1>6 DEF StoreOwn, moneyVars
  <2>2. finPc # "idle" => FinTxs' = FinTxs
    BY <1>6, <2>1, BlockBeingApplied
  <2> QED BY <1>1, <2>1, <2>2
<1>7. ASSUME NEW s \in Slots, NEW ts \in PeerBlocks, RecvVerify(s, ts) PROVE Money'
  BY <1>1, <1>7 DEF RecvVerify, moneyVars, FinTxs
<1>8. ASSUME NEW bad \in PohFlaws, RecvStore(bad) PROVE Money'
  <2>1. UNCHANGED <<moneyVars, finSlot>>
    BY <1>8 DEF RecvStore, moneyVars
  <2>2. finPc # "idle" => FinTxs' = FinTxs
    BY <1>8, <2>1, BlockBeingApplied
  <2> QED BY <1>1, <2>1, <2>2
<1>9. CASE RecvDedup \/ RecvCleanup
  BY <1>1, <1>9 DEF RecvDedup, RecvCleanup, moneyVars, FinTxs
<1>10. ASSUME NEW s \in Slots, FinStart(s) PROVE Money'
  <2>1. UNCHANGED <<accounts, blocks>> /\ finPc = "idle"
        /\ (\/ UNCHANGED <<finPc, work>>
            \/ finPc' = "apply" /\ work' = accounts)
    BY <1>10 DEF FinStart
  <2>2. accounts \in [Accounts -> Nat]
    BY <1>0, Zenon DEF Money
  <2>3. \A a \in Accounts : ~ (accounts[a] < accounts[a]) /\ ~ (accounts[a] > accounts[a])
    BY <2>2
  <2> QED BY <1>0, <2>1, <2>2, <2>3, Zenon DEF Money
<1>11. CASE FinApply
  <2>1. /\ finPc = "apply" /\ finAt <= Len(FinTxs) /\ finPc' \in {"apply", "mark"}
        /\ UNCHANGED <<accounts, blocks, finSlot>>
        /\ work' = IF Transfer(FinTx) THEN ApplyTx(work, FinTx) ELSE work
    BY <1>11, Zenon DEF FinApply
  <2>2. FinTxs' = FinTxs
    BY <2>1 DEF FinTxs
  <2>3. FinTx \in Range(FinTxs) /\ FinTx \in Txs
    BY <1>0, <2>1, FinTxInBlock
  <2>4. CASE ~ Transfer(FinTx)
    BY <1>0, <2>1, <2>2, <2>4, Zenon DEF Money
  <2>5. CASE Transfer(FinTx)
    <3>1. work \in [Accounts -> Nat] /\ accounts \in [Accounts -> Nat]
          /\ Supply(work) = Supply(accounts)
      BY <1>0, <2>1, Zenon DEF Money
    <3>2. PICK w \in [Accounts -> Nat], h \in Txs : w = work /\ h = FinTx
      BY <2>3, <3>1
    <3>3. /\ ApplyTx(w, h) \in [Accounts -> Nat] /\ Supply(ApplyTx(w, h)) = Supply(w)
          /\ \A a \in Accounts :
               /\ ApplyTx(w, h)[a] < w[a] => a = Tx[h].sender
               /\ ApplyTx(w, h)[a] > w[a] => a = Tx[h].recipient
      BY ApplyTxFacts
    <3>4. work' = ApplyTx(w, h)
      BY <2>1, <2>5, <3>2
    <3>5. work' \in [Accounts -> Nat] /\ Supply(work') = Supply(accounts')
      BY <2>1, <3>1, <3>2, <3>3, <3>4, Zenon
    <3>6. ASSUME NEW a \in Accounts
          PROVE  /\ work'[a] < accounts[a] =>
                      \E g \in Range(FinTxs) : Transfer(g) /\ Tx[g].sender = a
                 /\ work'[a] > accounts[a] =>
                      \E g \in Range(FinTxs) : Transfer(g) /\ Tx[g].recipient = a
      <4>1. work'[a] \in Nat /\ w[a] \in Nat /\ accounts[a] \in Nat
        BY <3>1, <3>5
      <4>2. (w[a] < accounts[a] => \E g \in Range(FinTxs) : Transfer(g) /\ Tx[g].sender = a)
            /\ (w[a] > accounts[a] => \E g \in Range(FinTxs) : Transfer(g) /\ Tx[g].recipient = a)
        BY <1>0, <2>1, <3>2, Zenon DEF Money
      <4>3. (work'[a] < w[a] => a = Tx[h].sender) /\ (work'[a] > w[a] => a = Tx[h].recipient)
        BY <3>3, <3>4, Zenon
      <4>4. work'[a] < w[a] => \E g \in Range(FinTxs) : Transfer(g) /\ Tx[g].sender = a
        BY <2>3, <2>5, <3>2, <4>3
      <4>5. work'[a] > w[a] => \E g \in Range(FinTxs) : Transfer(g) /\ Tx[g].recipient = a
        BY <2>3, <2>5, <3>2, <4>3
      <4>6. work'[a] < accounts[a] => work'[a] < w[a] \/ w[a] < accounts[a]
        BY <4>1
      <4>7. work'[a] > accounts[a] => work'[a] > w[a] \/ w[a] > accounts[a]
        BY <4>1
      <4> QED BY <4>2, <4>4, <4>5, <4>6, <4>7, Zenon
    <3> QED BY <1>0, <2>1, <2>2, <3>5, <3>6, Zenon DEF Money
  <2> QED BY <2>4, <2>5
<1>12. CASE FinMark
  <2>1. UNCHANGED <<accounts, work, blocks, finSlot>> /\ finPc = "mark"
    BY <1>12 DEF FinMark
  <2> QED BY <1>0, <2>1, Zenon DEF Money, FinTxs
<1>13. CASE FinCommit
  <2>1. finPc = "apply" /\ accounts' = work /\ finPc' = "idle" /\ work' = [a \in Accounts |-> 0]
    BY <1>13, Zenon DEF FinCommit, FinReturn
  <2>2. work' \in [Accounts -> Nat]
    BY <2>1
  <2> QED BY <1>0, <2>1, <2>2, Zenon DEF Money
<1>14. CASE FinFail \/ Crash
  <2>1. UNCHANGED accounts /\ finPc' = "idle" /\ work' = [a \in Accounts |-> 0]
    BY <1>14 DEF FinFail, Crash, FinReturn
  <2>2. work' \in [Accounts -> Nat]
    BY <2>1
  <2> QED BY <1>0, <2>1, <2>2, Zenon DEF Money
<1>15. CASE UNCHANGED vars
  BY <1>1, <1>15 DEF vars, moneyVars, FinTxs
<1> QED BY <1>2, <1>3, <1>4, <1>5, <1>6, <1>7, <1>8, <1>9, <1>10, <1>11, <1>12, <1>13, <1>14,
           <1>15 DEF Next

-----------------------------------------------------------------------------
\* What the pool promises of each balance

Totals == [Accounts -> 0 .. Uint256 - 1]

LEMMA ModRange == ASSUME NEW x \in Int PROVE x % Uint256 \in 0 .. Uint256 - 1
<1>1. Uint256 \in Nat \ {0}
  BY MempoolAssumption
<1> QED BY <1>1

LEMMA ModSum ==
    ASSUME NEW x \in Int, NEW y \in Nat
    PROVE  (x + y) % Uint256 \in 0 .. Uint256 - 1 /\ (x - y) % Uint256 \in 0 .. Uint256 - 1
<1>1. x + y \in Int /\ x - y \in Int
  OBVIOUS
<1> QED BY <1>1, ModRange, Zenon

LEMMA Rest == ASSUME NEW x \in Nat, NEW y \in Nat, NEW z \in Nat, x = y + z PROVE z = x - y
OBVIOUS

LEMMA ModSmall == ASSUME NEW x \in Nat, x < Uint256 PROVE x % Uint256 = x
<1>1. Uint256 \in Nat \ {0}
  BY MempoolAssumption
<1> QED BY <1>1

LEMMA ReleasedType ==
    ASSUME NEW total \in Totals, NEW h \in Txs
    PROVE  Released(total, h) \in Totals
<1>1. Tx[h].sender \in Accounts /\ Tx[h].amount \in Nat
  BY TxFields
<1>2. total[Tx[h].sender] \in Int
  BY <1>1, MempoolAssumption DEF Totals
<1>3. (total[Tx[h].sender] - Tx[h].amount) % Uint256 \in 0 .. Uint256 - 1
  BY <1>1, <1>2, ModSum, Zenon
<1> QED BY <1>1, <1>3, Zenon DEF Released, Totals

\* The totals as the transactions of s leave the pool one by one
IsRelease(f, total, s) ==
    f = [i \in 0 .. Len(s) |-> IF i = 0 THEN total ELSE Released(f[i - 1], s[i])]

LEMMA ReleaseLoop ==
    ASSUME NEW total \in Totals, NEW s \in Seq(Txs)
    PROVE  \E f : IsRelease(f, total, s) /\ ReleasedAll(total, s) = f[Len(s)]
<1> DEFINE n == Len(s)
           I == 1 .. n
           F == [p \in I \X Totals |-> Released(p[2], s[p[1]])]
           g == CHOOSE f : IsRelease(f, total, s)
<1>1. n \in Nat /\ \A i \in I : s[i] \in Txs
  OBVIOUS
<1>2. F \in [I \X Totals -> Totals]
      /\ \A i \in I, v \in Totals : F[<<i, v>>] = Released(v, s[i])
  BY <1>1, ReleasedType, Zenon
<1>3. \E f : IsRelease(f, total, s)
  <2> HIDE DEF F
  <2>1. PICK f \in [0 .. n -> Totals] : Iterates(f, total, F, n)
    BY <1>1, <1>2, Recursion, Zenon
  <2>2. \A i \in 0 .. n : i = 0 \/ (i \in I /\ i - 1 \in 0 .. n)
    BY <1>1
  <2>3. \A i \in 0 .. n : f[i] = IF i = 0 THEN total ELSE Released(f[i - 1], s[i])
    BY <1>2, <2>1, <2>2, Zenon DEF Iterates
  <2> QED BY <2>3 DEF IsRelease
<1>4. ReleasedAll(total, s) = g[n]
  BY DEF ReleasedAll, IsRelease
<1> QED BY <1>3, <1>4, Zenon

LEMMA ReleasedAllType ==
    ASSUME NEW total \in Totals, NEW s \in Seq(Txs)
    PROVE  ReleasedAll(total, s) \in Totals
<1>1. PICK f : IsRelease(f, total, s) /\ ReleasedAll(total, s) = f[Len(s)]
  BY ReleaseLoop
<1>2. Len(s) \in Nat /\ \A i \in 1 .. Len(s) : s[i] \in Txs
  OBVIOUS
<1>3. \A i \in 0 .. Len(s) : f[i] = IF i = 0 THEN total ELSE Released(f[i - 1], s[i])
  BY <1>1 DEF IsRelease
<1> DEFINE Bad == {i \in 0 .. Len(s) : f[i] \notin Totals}
<1>4. Bad = {}
  <2> SUFFICES ASSUME Bad # {} PROVE FALSE
    OBVIOUS
  <2>1. Bad \in SUBSET Nat
    OBVIOUS
  <2>2. PICK m \in Bad : \A k \in Bad : m <= k
    <3> HIDE DEF Bad
    <3> QED BY <2>1, Least
  <2>3. m \in 0 .. Len(s) /\ f[m] \notin Totals
    OBVIOUS
  <2>4. m # 0
    BY <1>3, <2>3
  <2>5. m - 1 \in 0 .. Len(s) /\ ~ (m <= m - 1) /\ m \in 1 .. Len(s)
    BY <1>2, <2>3, <2>4
  <2>6. f[m - 1] \in Totals
    <3>1. m - 1 \notin Bad
      <4> HIDE DEF Bad
      <4> QED BY <2>2, <2>5
    <3> QED BY <2>5, <3>1
  <2> QED BY <1>2, <1>3, <2>3, <2>4, <2>5, <2>6, ReleasedType
<1>5. Len(s) \in 0 .. Len(s)
  BY <1>2
<1> QED BY <1>1, <1>4, <1>5

\* The transfers among the transactions S that account a pays for
PaidBy(a, S) == {h \in S : Transfer(h) /\ Tx[h].sender = a}

\* The totals of the transactions S
Owes(total, S) ==
    \A a \in Accounts : total[a] = SumFunctionOnSet(Amounts, PaidBy(a, S))

\* Contents carry no amount.  AddTx counts only the amounts of transfers, but a
\* transaction of any type has its amount taken off when it leaves the pool.
ContentsAreFree == \A h \in Txs : ~ Transfer(h) => Tx[h].amount = 0

LEMMA SumOfAmounts ==
    ASSUME NEW S \in SUBSET Txs, IsFiniteSet(S)
    PROVE  /\ SumFunctionOnSet(Amounts, S) \in Nat
           /\ \A h \in S : SumFunctionOnSet(Amounts, S) =
                           Tx[h].amount + SumFunctionOnSet(Amounts, S \ {h})
<1>1. \A h \in S : Amounts[h] \in Nat /\ Amounts[h] \in Int /\ Amounts[h] = Tx[h].amount
  BY TxFields DEF Amounts
<1> QED BY <1>1, SumSplits, SumIsNat

\* Taking one transaction off the totals of S leaves the totals of the others.
LEMMA ReleaseOne ==
    ASSUME ContentsAreFree, NEW S \in SUBSET Txs, IsFiniteSet(S), NEW h \in S,
           NEW total \in Totals, Owes(total, S)
    PROVE  Owes(Released(total, h), S \ {h})
<1> DEFINE b == Tx[h].sender
           amt == Tx[h].amount
           Sum(a, T) == SumFunctionOnSet(Amounts, PaidBy(a, T))
<1>1. b \in Accounts /\ amt \in Nat
  BY TxFields
<1>2. \A a \in Accounts : total[a] \in Nat /\ total[a] < Uint256 /\ total[a] = Sum(a, S)
  BY MempoolAssumption DEF Totals, Owes
<1>3. Released(total, h) = IF total[b] = 0 THEN total
                           ELSE [total EXCEPT ![b] = (@ - amt) % Uint256]
  BY DEF Released
<1>4. DOMAIN total = Accounts
  BY DEF Totals
<1> SUFFICES ASSUME NEW a \in Accounts
             PROVE  Released(total, h)[a] = Sum(a, S \ {h})
  BY Zenon DEF Owes
<1>5. CASE Transfer(h) /\ b = a
  <2>1. h \in PaidBy(a, S) /\ PaidBy(a, S \ {h}) = PaidBy(a, S) \ {h}
    BY <1>5 DEF PaidBy
  <2>2. IsFiniteSet(PaidBy(a, S)) /\ IsFiniteSet(PaidBy(a, S) \ {h})
        /\ PaidBy(a, S) \in SUBSET Txs /\ PaidBy(a, S) \ {h} \in SUBSET Txs
    <3>1. PaidBy(a, S) \in SUBSET S /\ PaidBy(a, S) \ {h} \in SUBSET S
      BY DEF PaidBy
    <3> QED BY <3>1, FS_Subset
  <2>3. Sum(a, S) = amt + Sum(a, S \ {h})
    BY <2>1, <2>2, SumOfAmounts, Zenon
  <2>4. Sum(a, S \ {h}) \in Nat
    BY <2>1, <2>2, SumOfAmounts, Zenon
  <2> HIDE DEF Sum, amt
  <2>5. Sum(a, S \ {h}) = total[a] - amt
    <3>1. total[a] \in Nat /\ total[a] = amt + Sum(a, S \ {h})
      BY <1>2, <2>3, Zenon
    <3> QED BY <1>1, <2>4, <3>1, Rest, Zenon
  <2>6. CASE total[a] = 0
    BY <1>1, <1>2, <1>3, <1>5, <2>4, <2>5, <2>6
  <2>7. CASE total[a] # 0
    <3>1. Released(total, h)[a] = (total[a] - amt) % Uint256
      BY <1>3, <1>4, <1>5, <2>7
    <3>2. (total[a] - amt) % Uint256 = total[a] - amt
      <4>1. PICK x \in Nat : x = total[a] - amt
        BY <2>4, <2>5
      <4>2. x < Uint256
        BY <1>1, <1>2, <4>1, MempoolAssumption
      <4> QED BY <4>1, <4>2, ModSmall
    <3> QED BY <2>5, <3>1, <3>2, Zenon
  <2> QED BY <2>6, <2>7, Zenon
<1>6. CASE ~ (Transfer(h) /\ b = a)
  <2>1. PaidBy(a, S \ {h}) = PaidBy(a, S)
    BY <1>6 DEF PaidBy
  <2>2. Sum(a, S \ {h}) = total[a]
    BY <1>2, <2>1
  <2>3. CASE b # a
    BY <1>3, <1>4, <2>2, <2>3, Zenon
  <2>4. CASE b = a
    <3>1. amt = 0
      BY <1>6, <2>4 DEF ContentsAreFree
    <3>2. (total[a] - 0) % Uint256 = total[a]
      BY <1>2, ModSmall
    <3> HIDE DEF amt, Sum
    <3> QED BY <1>3, <1>4, <2>2, <2>4, <3>1, <3>2
  <2> QED BY <2>3, <2>4, Zenon
<1> QED BY <1>5, <1>6, Zenon

\* Taking a sequence of different transactions off the totals of S leaves the
\* totals of the others, in whatever order they are taken.
LEMMA ReleaseMany ==
    ASSUME ContentsAreFree, NEW S \in SUBSET Txs, IsFiniteSet(S),
           NEW s \in Seq(S), IsInjective(s), NEW total \in Totals, Owes(total, S)
    PROVE  Owes(ReleasedAll(total, s), S \ Range(s))
<1>0. Len(s) \in Nat /\ DOMAIN s = 1 .. Len(s) /\ s \in Seq(Txs)
      /\ \A i \in 1 .. Len(s) : s[i] \in S /\ s[i] \in Txs
  OBVIOUS
<1>1. PICK f : IsRelease(f, total, s) /\ ReleasedAll(total, s) = f[Len(s)]
  BY <1>0, ReleaseLoop
<1>2. \A i \in 0 .. Len(s) : f[i] = IF i = 0 THEN total ELSE Released(f[i - 1], s[i])
  BY <1>1 DEF IsRelease
<1> DEFINE Gone(i) == {s[j] : j \in 1 .. i}
           P(i) == f[i] \in Totals /\ Owes(f[i], S \ Gone(i))
           Bad == {i \in 0 .. Len(s) : ~ P(i)}
<1>3. Bad = {}
  <2> SUFFICES ASSUME Bad # {} PROVE FALSE
    BY Zenon
  <2>1. Bad \in SUBSET Nat
    OBVIOUS
  <2>2. PICK m \in Bad : \A k \in Bad : m <= k
    <3> HIDE DEF Bad
    <3> QED BY <2>1, Least
  <2>3. m \in 0 .. Len(s) /\ ~ P(m)
    BY Zenon
  <2>4. m # 0
    <3> SUFFICES ASSUME m = 0 PROVE P(m)
      BY <2>3, Zenon
    <3>1. Gone(m) = {} /\ f[m] = total
      <4>1. 1 .. 0 = {}
        OBVIOUS
      <4> QED BY <1>2, <2>3, <4>1, Zenon
    <3>2. S \ Gone(m) = S
      <4> HIDE DEF Gone
      <4> QED BY <3>1
    <3> HIDE DEF Gone
    <3> QED BY <3>1, <3>2, Zenon
  <2>5. /\ m - 1 \in 0 .. Len(s) /\ ~ (m <= m - 1) /\ m \in 1 .. Len(s)
        /\ 1 .. m = (1 .. m - 1) \cup {m} /\ m \notin 1 .. m - 1
        /\ 1 .. m - 1 \subseteq 1 .. Len(s)
    BY <1>0, <2>3, <2>4, Previous, Zenon
  <2>6. P(m - 1)
    <3>1. m - 1 \notin Bad
      <4> HIDE DEF Bad
      <4> QED BY <2>2, <2>5
    <3> HIDE DEF P
    <3> QED BY <2>5, <3>1
  <2> DEFINE R == S \ Gone(m - 1)
  <2>7. s[m] \in R /\ R \in SUBSET Txs /\ R \in SUBSET S
    <3>1. \A j \in 1 .. m - 1 : j \in DOMAIN s /\ j # m
      BY <1>0, <2>5, Zenon
    <3>2. m \in DOMAIN s /\ s[m] \in S
      BY <1>0, <2>5, Zenon
    <3>3. \A j \in 1 .. m - 1 : s[j] # s[m]
      BY <3>1, <3>2, Zenon DEF IsInjective
    <3> QED BY <3>2, <3>3, Zenon
  <2>8. S \ Gone(m) = R \ {s[m]}
    <3>2. Gone(m) = Gone(m - 1) \cup {s[m]}
      BY <2>5, Zenon
    <3> HIDE DEF Gone
    <3> QED BY <3>2, Zenon
  <2> HIDE DEF Gone, R
  <2>9. IsFiniteSet(R) /\ f[m - 1] \in Totals /\ Owes(f[m - 1], R)
    BY <2>6, <2>7, FS_Subset DEF R
  <2>10. f[m] = Released(f[m - 1], s[m])
    BY <1>2, <2>3, <2>4
  <2>11. PICK h \in R : h = s[m]
    BY <2>7
  <2>12. Owes(Released(f[m - 1], h), R \ {h}) /\ Released(f[m - 1], h) \in Totals
    <3>1. Owes(Released(f[m - 1], h), R \ {h})
      BY <2>7, <2>9, ReleaseOne
    <3>2. h \in Txs
      BY <2>7
    <3> QED BY <2>9, <3>1, <3>2, ReleasedType
  <2> QED BY <2>3, <2>8, <2>10, <2>11, <2>12, Zenon
<1>4. P(Len(s))
  <2>1. Len(s) \in 0 .. Len(s)
    BY <1>0
  <2> HIDE DEF P
  <2> QED BY <1>3, <2>1
<1>5. Gone(Len(s)) = Range(s)
  BY <1>0, Zenon DEF Range
<1> HIDE DEF Gone
<1> QED BY <1>1, <1>4, <1>5

\* The pool is finite, and ranging over a part of it lists that part.
LEMMA PoolIsFinite == PoolCore => IsFiniteSet(txs) /\ Cardinality(txs) = Len(txOrder)
<1> SUFFICES ASSUME PoolCore PROVE IsFiniteSet(txs) /\ Cardinality(txs) = Len(txOrder)
  OBVIOUS
<1>1. txOrder \in [1 .. Len(txOrder) -> Txs] /\ Len(txOrder) \in Nat
  BY DEF PoolCore
<1>2. txOrder \in [1 .. Len(txOrder) -> txs]
  BY <1>1 DEF PoolCore, Range
<1>3. txOrder \in Surjection(1 .. Len(txOrder), txs)
  BY <1>1, <1>2 DEF PoolCore, Range, Surjection
<1>4. ExistsBijection(1 .. Len(txOrder), txs)
  BY <1>1, <1>2, <1>3 DEF PoolCore, ExistsBijection, Bijection, Injection
<1> QED BY <1>1, <1>4, FS_CountingElements, FS_NatBijection

LEMMA OrdersList ==
    ASSUME NEW S, IsFiniteSet(S), NEW s \in Orders(S)
    PROVE  s \in Seq(S) /\ IsInjective(s) /\ Range(s) = S
<1> DEFINE n == Cardinality(S)
<1>1. n \in Nat /\ s \in Injection(1 .. n, S)
  BY FS_CardinalityType DEF Orders
<1>2. s \in [1 .. n -> S] /\ IsInjective(s)
  BY <1>1 DEF Injection
<1>3. s \in Seq(S) /\ DOMAIN s = 1 .. n
  BY <1>1, <1>2
<1>4. IsFiniteSet(1 .. n) /\ Cardinality(1 .. n) = n
  BY <1>1, FS_Interval
<1>5. s \in Surjection(1 .. n, S)
  BY <1>1, <1>4, FS_Injection
<1>6. Range(s) = S
  BY <1>2, <1>5 DEF Surjection, Range
<1> QED BY <1>2, <1>3, <1>6

-----------------------------------------------------------------------------
\* The collections of the pool

LEMMA CoreIsConsistent == PoolCore => PoolConsistent
<1> SUFFICES ASSUME PoolCore PROVE PoolConsistent
  OBVIOUS
<1>1. Cardinality(txs) = Len(txOrder) /\ IsFiniteSet(txs)
  BY PoolIsFinite
<1>2. ExistsBijection(txs, Keys(txs))
  <2> DEFINE f == [h \in txs |-> Key(h)]
  <2>1. f \in [txs -> Keys(txs)] /\ IsInjective(f)
    BY DEF PoolCore, Keys, IsInjective
  <2>2. f \in Surjection(txs, Keys(txs))
    BY <2>1 DEF Keys, Surjection
  <2> QED BY <2>1, <2>2 DEF ExistsBijection, Bijection, Injection
<1>3. Cardinality(Keys(txs)) = Cardinality(txs)
  BY <1>1, <1>2, FS_Bijection
<1> QED BY <1>1, <1>3 DEF PoolCore, PoolConsistent

-----------------------------------------------------------------------------
\* Totals of the senders

\* What a step does to the pool: it inserts a transaction, takes some out one by
\* one, or forgets the pool in a restart.
LEMMA PoolMoves ==
    ASSUME Inv, [Next]_vars
    PROVE  \/ UNCHANGED <<txs, senderTotalAmount>>
           \/ \E h \in Txs : h \notin txs /\ Insert(h)
           \/ \E s \in Seq(txs) : /\ IsInjective(s) /\ txs' = txs \ Range(s)
                                  /\ senderTotalAmount' = ReleasedAll(senderTotalAmount, s)
           \/ txs' = {} /\ senderTotalAmount' = [a \in Accounts |-> 0]
<1> DEFINE Goal == \/ UNCHANGED <<txs, senderTotalAmount>>
                   \/ \E h \in Txs : h \notin txs /\ Insert(h)
                   \/ \E s \in Seq(txs) :
                        /\ IsInjective(s) /\ txs' = txs \ Range(s)
                        /\ senderTotalAmount' = ReleasedAll(senderTotalAmount, s)
                   \/ txs' = {} /\ senderTotalAmount' = [a \in Accounts |-> 0]
<1>0. PoolCore /\ Carry
  BY DEF Inv
<1>1. CASE UNCHANGED poolVars
  BY <1>1 DEF poolVars
<1>2. ASSUME NEW a \in Adders, AddTxLocked(a) PROVE Goal
  <2>1. PICK h \in Txs : h = adding[a]
    BY <1>0, <1>2 DEF AddTxLocked, Carry
  <2>2. CASE Valid(h, accounts, Stored, latest)
    <3>1. Insert(h) /\ Key(h) \notin dedupTxHashSet
      BY <1>2, <2>1, <2>2 DEF AddTxLocked, Valid
    <3>2. h \notin txs
      BY <1>0, <3>1 DEF PoolCore, Keys
    <3> QED BY <3>1, <3>2
  <2>3. CASE ~ Valid(h, accounts, Stored, latest)
    BY <1>1, <1>2, <2>1, <2>3 DEF AddTxLocked
  <2> QED BY <2>2, <2>3
<1>3. CASE PullLocked
  <2> DEFINE s == Selected(BatchSize)
  <2>1. Pull(BatchSize) /\ BatchSize \in Nat
    BY <1>3, TxFlowAssumption DEF PullLocked
  <2>2. s \in Seq(Txs) /\ IsInjective(s) /\ Range(s) \subseteq txs
    BY <1>0, <2>1, PullKeepsPool
  <2>3. txs' = txs \ Range(s) /\ senderTotalAmount' = ReleasedAll(senderTotalAmount, s)
    BY <2>1 DEF Pull
  <2> HIDE DEF s
  <2>4. s \in Seq(txs)
    BY <2>2, SeqOfRange
  <2> QED BY <2>2, <2>3, <2>4
<1>4. CASE RecvCleanup
  <2> DEFINE out == txs \cap Range(recvTxs)
  <2>1. txs' = txs \ out
        /\ \E s \in Orders(out) : senderTotalAmount' = ReleasedAll(senderTotalAmount, s)
    BY <1>4 DEF RecvCleanup, Cleanup
  <2>2. IsFiniteSet(out) /\ out \subseteq txs
    BY <1>0, PoolIsFinite, FS_Subset
  <2> HIDE DEF out
  <2>3. PICK s \in Orders(out) : senderTotalAmount' = ReleasedAll(senderTotalAmount, s)
    BY <2>1
  <2>4. s \in Seq(out) /\ IsInjective(s) /\ Range(s) = out
    BY <2>2, OrdersList
  <2>5. s \in Seq(txs)
    BY <2>2, <2>4, SeqOfRange
  <2> QED BY <2>1, <2>3, <2>4, <2>5
<1>5. CASE Crash
  BY <1>5 DEF Crash
<1> HIDE DEF Goal
<1>6. CASE PullDedup \/ TrackLook \/ TrackStore \/ Record
  BY <1>1, <1>6, Zenon DEF Goal, PullDedup, TrackLook, TrackStore, Record
<1>7. CASE LeaderStart \/ LeaderEnd \/ SlotEnd \/ StoreOwn
  BY <1>1, <1>7, Zenon DEF Goal, LeaderStart, LeaderEnd, SlotEnd, StoreOwn
<1>8. ASSUME NEW a \in Adders, NEW h \in Submitted, AddTxCheck(a, h) PROVE Goal
  BY <1>1, <1>8 DEF Goal, AddTxCheck
<1>9. ASSUME NEW s \in Slots, NEW ts \in PeerBlocks, RecvVerify(s, ts) PROVE Goal
  BY <1>1, <1>9 DEF Goal, RecvVerify
<1>10. ASSUME NEW bad \in PohFlaws, RecvStore(bad) PROVE Goal
  BY <1>1, <1>10 DEF Goal, RecvStore
<1>11. ASSUME NEW s \in Slots, FinStart(s) PROVE Goal
  BY <1>1, <1>11 DEF Goal, FinStart
<1>12. CASE RecvDedup \/ FinApply \/ FinMark \/ FinCommit \/ FinFail
  BY <1>1, <1>12, Zenon DEF Goal, RecvDedup, FinApply, FinMark, FinCommit, FinFail
<1>13. CASE UNCHANGED vars
  BY <1>1, <1>13 DEF Goal, vars
<1>14. Goal
  BY <1>2, <1>3, <1>4, <1>5, <1>6, <1>7, <1>8, <1>9, <1>10, <1>11, <1>12, <1>13, Zenon DEF Goal, Next
<1> QED BY <1>14 DEF Goal

\* A total stays below the width of an amount.
LEMMA TotalsInductive ==
    Inv /\ senderTotalAmount \in Totals /\ [Next]_vars => senderTotalAmount' \in Totals
<1> SUFFICES ASSUME Inv, senderTotalAmount \in Totals, [Next]_vars
             PROVE  senderTotalAmount' \in Totals
  OBVIOUS
<1>1. CASE UNCHANGED senderTotalAmount
  BY <1>1
<1>2. ASSUME NEW h \in Txs, Insert(h) PROVE senderTotalAmount' \in Totals
  <2>1. Tx[h].sender \in Accounts /\ Tx[h].amount \in Nat
    BY TxFields
  <2>2. senderTotalAmount[Tx[h].sender] \in Int
    BY <2>1, MempoolAssumption DEF Totals
  <2>3. (senderTotalAmount[Tx[h].sender] + Tx[h].amount) % Uint256 \in 0 .. Uint256 - 1
    BY <2>1, <2>2, ModSum, Zenon
  <2> QED BY <1>2, <2>1, <2>3, Zenon DEF Insert, Totals
<1>3. ASSUME NEW s \in Seq(txs), senderTotalAmount' = ReleasedAll(senderTotalAmount, s)
      PROVE  senderTotalAmount' \in Totals
  <2>1. s \in Seq(Txs)
    BY SeqOfRange, RangeIn DEF Inv, PoolCore
  <2> QED BY <1>3, <2>1, ReleasedAllType
<1>4. CASE senderTotalAmount' = [a \in Accounts |-> 0]
  <2>1. 0 \in 0 .. Uint256 - 1
    BY MempoolAssumption
  <2> QED BY <1>4, <2>1 DEF Totals
<1> QED BY <1>1, <1>2, <1>3, <1>4, PoolMoves

\* The transfers in the pool do not add up to more than an amount can be.
PromisesFit == \A a \in Accounts : Promised(a) < Uint256

LEMMA ExactMeansOwes == SenderTotalExact <=> Owes(senderTotalAmount, txs)
<1>1. \A a : TransfersOf(a) = PaidBy(a, txs)
  BY DEF TransfersOf, PaidBy
<1> QED BY <1>1 DEF SenderTotalExact, Owes, Promised

LEMMA ExactInductive ==
    ASSUME ContentsAreFree, Inv, senderTotalAmount \in Totals, SenderTotalExact, PromisesFit',
           [Next]_vars
    PROVE  SenderTotalExact'
<1>0. PoolCore /\ txs \in SUBSET Txs /\ IsFiniteSet(txs) /\ Owes(senderTotalAmount, txs)
  BY ExactMeansOwes, PoolIsFinite DEF Inv, PoolCore
<1>1. SenderTotalExact' <=> Owes(senderTotalAmount', txs')
  <2>1. \A a : TransfersOf(a)' = PaidBy(a, txs')
    BY DEF TransfersOf, PaidBy
  <2> QED BY <2>1, Zenon DEF SenderTotalExact, Owes, Promised
<1>2. CASE UNCHANGED <<txs, senderTotalAmount>>
  BY <1>0, <1>1, <1>2
<1>3. ASSUME NEW h \in Txs, h \notin txs, Insert(h) PROVE SenderTotalExact'
  <2> DEFINE b == Tx[h].sender
             amt == Tx[h].amount
             Sum(a, T) == SumFunctionOnSet(Amounts, PaidBy(a, T))
  <2>1. b \in Accounts /\ amt \in Nat /\ txs' = txs \cup {h} /\ DOMAIN senderTotalAmount = Accounts
    BY <1>3, TxFields, Zenon DEF Insert, Totals
  <2>2. senderTotalAmount' = IF Transfer(h)
                             THEN [senderTotalAmount EXCEPT ![b] = (@ + amt) % Uint256]
                             ELSE senderTotalAmount
    BY <1>3, Zenon DEF Insert
  <2>3. ASSUME NEW a \in Accounts PROVE senderTotalAmount'[a] = Sum(a, txs')
    <3>1. senderTotalAmount[a] = Sum(a, txs)
      BY <1>0 DEF Owes
    <3>2. CASE ~ (Transfer(h) /\ b = a)
      <4>1. PaidBy(a, txs') = PaidBy(a, txs)
        BY <2>1, <3>2, Zenon DEF PaidBy
      <4>2. senderTotalAmount'[a] = senderTotalAmount[a]
        BY <2>1, <2>2, <3>2, Zenon
      <4> QED BY <3>1, <4>1, <4>2, Zenon
    <3>3. CASE Transfer(h) /\ b = a
      <4>1. h \in PaidBy(a, txs') /\ PaidBy(a, txs') \ {h} = PaidBy(a, txs)
        BY <1>3, <2>1, <3>3, Zenon DEF PaidBy
      <4>2. IsFiniteSet(PaidBy(a, txs')) /\ PaidBy(a, txs') \in SUBSET Txs
        <5>1. IsFiniteSet(txs') /\ txs' \in SUBSET Txs
          BY <1>0, <2>1, FS_AddElement, Zenon
        <5>2. PaidBy(a, txs') \in SUBSET txs'
          BY DEF PaidBy
        <5> QED BY <5>1, <5>2, FS_Subset
      <4>3. Sum(a, txs') \in Nat /\ Sum(a, txs') = amt + Sum(a, txs)
        BY <4>1, <4>2, SumOfAmounts, Zenon
      <4>4. Sum(a, txs') < Uint256
        <5>1. Promised(a)' = Sum(a, txs')
          BY DEF Promised, TransfersOf, PaidBy
        <5> QED BY <5>1 DEF PromisesFit
      <4>5. senderTotalAmount'[a] = (senderTotalAmount[a] + amt) % Uint256
        BY <2>1, <2>2, <3>3, Zenon
      <4> HIDE DEF Sum, amt
      <4>7. senderTotalAmount[a] + amt = Sum(a, txs')
        <5>1. PICK x \in Nat, y \in Nat : x = senderTotalAmount[a] /\ y = amt
          BY <2>1, MempoolAssumption DEF Totals
        <5>2. Sum(a, txs) = x
          BY <3>1, <5>1, Zenon
        <5>3. Sum(a, txs') = y + x
          BY <4>3, <5>1, <5>2, Zenon
        <5> QED BY <5>1, <5>3
      <4>8. Sum(a, txs') % Uint256 = Sum(a, txs')
        BY <4>3, <4>4, ModSmall
      <4> QED BY <4>5, <4>7, <4>8, Zenon
    <3> QED BY <3>2, <3>3, Zenon
  <2> QED BY <1>1, <2>3 DEF Owes
<1>4. ASSUME NEW s \in Seq(txs), IsInjective(s), txs' = txs \ Range(s),
             senderTotalAmount' = ReleasedAll(senderTotalAmount, s)
      PROVE  SenderTotalExact'
  <2>1. Owes(ReleasedAll(senderTotalAmount, s), txs \ Range(s))
    BY <1>0, <1>4, ReleaseMany
  <2> QED BY <1>1, <1>4, <2>1
<1>5. CASE txs' = {} /\ senderTotalAmount' = [a \in Accounts |-> 0]
  <2>1. \A a : PaidBy(a, {}) = {}
    BY DEF PaidBy
  <2>2. SumFunctionOnSet(Amounts, {}) = 0
    BY SumEmpty
  <2> QED BY <1>1, <1>5, <2>1, <2>2 DEF Owes
<1> QED BY <1>2, <1>3, <1>4, <1>5, PoolMoves

-----------------------------------------------------------------------------
\* Theorems

LEMMA InitTotals == Init => senderTotalAmount \in Totals
<1> SUFFICES ASSUME Init PROVE senderTotalAmount \in Totals
  OBVIOUS
<1>1. senderTotalAmount = [a \in Accounts |-> 0]
  BY Zenon DEF Init, PoolEmpty
<1>2. 0 \in 0 .. Uint256 - 1
  BY MempoolAssumption
<1> QED BY <1>1, <1>2, Zenon DEF Totals

TotalsTyped == senderTotalAmount \in Totals

LEMMA TotalsInvariant == Spec => []TotalsTyped
<1>1. Init => TotalsTyped
  BY InitTotals, Zenon DEF TotalsTyped
<1>2. Inv /\ TotalsTyped /\ [Next]_vars => TotalsTyped'
  BY TotalsInductive, Zenon DEF TotalsTyped
<1> QED BY <1>1, <1>2, Invariant, PTL DEF Spec

LEMMA InitMoney == Init => Money
<1> SUFFICES ASSUME Init PROVE Money
  OBVIOUS
<1>1. accounts = InitialBalance /\ work = [a \in Accounts |-> 0] /\ finPc = "idle"
  BY Zenon DEF Init
<1>2. work \in [Accounts -> Nat]
  BY <1>1
<1> QED BY <1>1, <1>2, TxFlowAssumption, Zenon DEF Money

LEMMA MoneyInvariant == Spec => []Money
BY InitMoney, Invariant, MoneyInductive, PTL DEF Spec

\* The four collections of the mempool describe one set of transactions, without
\* two copies of a signed one, whatever AddTx, PullBatch and BlockCleanup do to
\* them in which order.
THEOREM PoolAlwaysConsistent == Spec => []PoolConsistent
<1>1. Inv => PoolConsistent
  BY CoreIsConsistent DEF Inv
<1> QED BY <1>1, Invariant, PTL

\* FinalizeBlock neither makes nor destroys money, for any number of accounts and
\* whatever the blocks carry: transfers to oneself, transfers the sender cannot
\* pay, blocks whose write fails, and crashes.
THEOREM SupplyAlwaysConserved == Spec => []SupplyConserved
<1>1. Money => SupplyConserved
  BY Zenon DEF Money, SupplyConserved
<1> QED BY <1>1, MoneyInvariant, PTL

\* Writing a block to a slot without one is a step of the account book.
LEMMA WriteIsBookStep ==
    ASSUME Store, NEW s \in Slots, ~ blocks[s].stored, NEW ts \in Seq(Txs), NEW bad \in BOOLEAN,
           blocks' = [blocks EXCEPT ![s] = Block(ts, bad)], UNCHANGED <<accounts, applied>>
    PROVE  Book!BookNext
<1> DEFINE content == [t \in Slots |-> Range(blocks[t].txs)]
           stored == {t \in Slots : blocks[t].stored}
<1>1. /\ \A t \in Slots : t # s => blocks'[t] = blocks[t]
      /\ blocks'[s].stored = TRUE /\ blocks'[s].txs = ts
  BY BlockWritten, Zenon
<1>2. s \notin stored /\ stored' = stored \cup {s}
  BY <1>1
<1>3. \A t \in Slots : Range(blocks[t].txs) \subseteq Txs /\ Range(blocks'[t].txs) \subseteq Txs
  BY <1>1, BlockRecordFields, RangeIn, Zenon DEF Store
<1>4. content' = [content EXCEPT ![s] = content'[s]] /\ content'[s] \subseteq Txs
  <2>1. content \in [Slots -> SUBSET Txs] /\ content' \in [Slots -> SUBSET Txs]
    BY <1>3, Zenon
  <2>2. \A t \in Slots : t # s => content'[t] = content[t]
    <3>1. content' = [t \in Slots |-> Range(blocks'[t].txs)]
      OBVIOUS
    <3> QED BY <1>1, <3>1
  <2>3. PICK f \in [Slots -> SUBSET Txs], g \in [Slots -> SUBSET Txs] :
               f = content /\ g = content'
    BY <2>1, Zenon
  <2>4. \A t \in Slots : t # s => g[t] = f[t]
    BY <2>2, <2>3, Zenon
  <2>5. g = [f EXCEPT ![s] = g[s]] /\ g[s] \subseteq Txs
    BY <2>4
  <2> HIDE DEF content
  <2> QED BY <2>3, <2>5, Zenon
<1>5. Book!Store(s)
  BY <1>2, <1>4, Zenon DEF Book!Store
<1> QED BY <1>5 DEF Book!BookNext

\* The write of FinalizeBlock settles the block in the account book.
LEMMA CommitIsBookStep == ASSUME Inv, Money, FinCommit PROVE Book!BookNext
<1>1. /\ finPc = "apply" /\ accounts' = work /\ applied' = applied \cup {finSlot}
      /\ UNCHANGED blocks
  BY Zenon DEF FinCommit
<1>2. finSlot \in Slots /\ blocks[finSlot].stored /\ finSlot \notin applied
  BY <1>1, Zenon DEF Inv, Store
<1>3. work \in [Accounts -> Nat]
      /\ \A a \in Accounts :
           /\ work[a] < accounts[a] => \E h \in Range(FinTxs) : Transfer(h) /\ Tx[h].sender = a
           /\ work[a] > accounts[a] => \E h \in Range(FinTxs) : Transfer(h) /\ Tx[h].recipient = a
  BY <1>1, Zenon DEF Money
<1>4. Book!Settle(finSlot)
  BY <1>1, <1>2, <1>3, Zenon
  DEF Book!Settle, Book!Senders, Book!Recipients, Book!Transfer, Transfer, FinTxs
<1> QED BY <1>2, <1>4 DEF Book!BookNext

\* The node implements the account book: a slot gets at most one block and never
\* changes it, a block is applied at most once, and balances change only in the
\* one write of FinalizeBlock, downward for senders and upward for recipients of
\* the block.  AddTx, PullBatch, the tracker, leadership, failed writes and
\* crashes are steps the book does not see.
THEOREM NodeKeepsAccountBook == Spec => KeepsAccountBook
<1>1. Init => Book!BookInit
  <2> SUFFICES ASSUME Init PROVE Book!BookInit
    OBVIOUS
  <2>1. Store /\ Money
    BY InitInv, InitMoney, Zenon DEF Inv
  <2>2. \A s \in Slots : Range(blocks[s].txs) \subseteq Txs
    BY <2>1, BlockRecordFields, RangeIn, Zenon DEF Store
  <2> QED BY <2>1, <2>2, Zenon DEF Book!BookInit, Store, Money
<1>2. Inv /\ Money /\ [Next]_vars => [Book!BookNext]_(Book!bookVars)
  <2> SUFFICES ASSUME Inv, Money, [Next]_vars PROVE [Book!BookNext]_(Book!bookVars)
    OBVIOUS
  <2> USE DEF storeVars
  <2>1. ASSUME UNCHANGED <<accounts, blocks, applied>> PROVE UNCHANGED Book!bookVars
    BY <2>1 DEF Book!bookVars
  <2>2. ASSUME NEW a \in Adders, NEW h \in Submitted, AddTxCheck(a, h)
        PROVE  UNCHANGED Book!bookVars
    BY <2>1, <2>2 DEF AddTxCheck
  <2>3. ASSUME NEW a \in Adders, AddTxLocked(a) PROVE UNCHANGED Book!bookVars
    BY <2>1, <2>3 DEF AddTxLocked
  <2>4. CASE PullLocked \/ PullDedup \/ TrackLook \/ TrackStore \/ Record
    BY <2>1, <2>4, Zenon DEF PullLocked, PullDedup, TrackLook, TrackStore, Record
  <2>5. CASE LeaderStart \/ LeaderEnd \/ SlotEnd
    BY <2>1, <2>5, Zenon DEF LeaderStart, LeaderEnd, SlotEnd
  <2>6. CASE StoreOwn
    <3>1. UNCHANGED <<accounts, applied>>
      BY <2>6 DEF StoreOwn
    <3>2. CASE UNCHANGED blocks
      BY <2>1, <3>1, <3>2
    <3>3. ASSUME NEW s \in OwnSlots, NEW ts \in Seq(Txs), s \in Slots, ~ blocks[s].stored,
                 blocks' = [blocks EXCEPT ![s] = Block(ts, FALSE)]
          PROVE  Book!BookNext
      BY <3>1, <3>3, WriteIsBookStep, Zenon DEF Inv
    <3> QED BY <2>6, <3>2, <3>3, OwnBlockWritten, Zenon
  <2>7. ASSUME NEW s \in Slots, NEW ts \in PeerBlocks, RecvVerify(s, ts)
        PROVE  UNCHANGED Book!bookVars
    BY <2>1, <2>7 DEF RecvVerify
  <2>8. ASSUME NEW bad \in PohFlaws, RecvStore(bad) PROVE Book!BookNext
    <3>1. UNCHANGED <<accounts, applied>>
      BY <2>8 DEF RecvStore
    <3>2. PICK s \in Slots, ts \in Seq(Txs) : s = recvSlot /\ ts = recvTxs
      BY <2>8, PeerBlockWritten
    <3>3. bad \in BOOLEAN /\ ~ blocks[s].stored /\ blocks' = [blocks EXCEPT ![s] = Block(ts, bad)]
      BY <2>8, <3>2, PeerBlockWritten
    <3> QED BY <3>1, <3>3, WriteIsBookStep, Zenon DEF Inv
  <2>9. CASE RecvDedup \/ RecvCleanup
    BY <2>1, <2>9 DEF RecvDedup, RecvCleanup
  <2>10. ASSUME NEW s \in Slots, FinStart(s) PROVE UNCHANGED Book!bookVars
    BY <2>1, <2>10 DEF FinStart
  <2>11. CASE FinApply \/ FinMark \/ FinFail
    BY <2>1, <2>11, Zenon DEF FinApply, FinMark, FinFail
  <2>12. CASE FinCommit
    BY <2>12, CommitIsBookStep
  <2>13. CASE Crash
    BY <2>1, <2>13 DEF Crash
  <2>14. CASE UNCHANGED vars
    BY <2>1, <2>14 DEF vars
  <2> QED BY <2>2, <2>3, <2>4, <2>5, <2>6, <2>7, <2>8, <2>9, <2>10, <2>11, <2>12, <2>13, <2>14
          DEF Next
<1> QED BY <1>1, <1>2, Invariant, MoneyInvariant, PTL DEF Spec, KeepsAccountBook, Book!BookSpec

\* A content is free when its amount is zero.  If all are, and as long as what a
\* sender has promised fits into 256 bits, senderTotalAmount is exactly the sum of the
\* transfers of the sender in the pool: every way out of the pool gives back what
\* AddTx booked, once.
THEOREM SenderTotalAlwaysExact ==
    ASSUME ContentsAreFree
    PROVE  Spec /\ []PromisesFit => []SenderTotalExact
<1>1. Init => SenderTotalExact
  <2> SUFFICES ASSUME Init PROVE SenderTotalExact
    OBVIOUS
  <2>1. txs = {} /\ senderTotalAmount = [a \in Accounts |-> 0]
    BY Zenon DEF Init, PoolEmpty
  <2>2. \A a : TransfersOf(a) = {}
    BY <2>1, Zenon DEF TransfersOf
  <2>3. \A a : Promised(a) = 0
    BY <2>2, SumEmpty DEF Promised
  <2> QED BY <2>1, <2>3 DEF SenderTotalExact
<1>2. Inv /\ TotalsTyped /\ PromisesFit' /\ SenderTotalExact /\ [Next]_vars => SenderTotalExact'
  BY ExactInductive, Zenon DEF TotalsTyped
<1> QED BY <1>1, <1>2, Invariant, TotalsInvariant, PTL DEF Spec
=============================================================================
