---------------------------- MODULE TxFlowProofs ----------------------------
(***************************************************************************)
(* What the operations of the mempool do to its collections, and the       *)
(* invariant of the way of a transaction: pool, blocks and tracker.        *)
(* Balances and content versions are the subject of module LedgerProofs.   *)
(***************************************************************************)
EXTENDS TxFlow, WellFoundedInduction, TLAPS

\* A number that is not the first has one before it.
LEMMA Previous ==
    ASSUME NEW n \in Nat, NEW m \in 0 .. n, m # 0
    PROVE  /\ m \in 1 .. n /\ m - 1 \in 0 .. n /\ ~ (m <= m - 1)
           /\ 1 .. m = (1 .. m - 1) \cup {m} /\ m \notin 1 .. m - 1
           /\ 1 .. m - 1 \subseteq 1 .. n
OBVIOUS

\* A nonempty set of naturals has a least member.
LEMMA Least == ASSUME NEW S \in SUBSET Nat, S # {} PROVE \E m \in S : \A k \in S : m <= k
<1> DEFINE R == {ss \in Nat \X Nat : ss[1] < ss[2]}
<1>1. IsWellFoundedOn(R, Nat)
  BY NatLessThanWellFounded DEF OpToRel
<1>2. PICK m \in S : \A k \in S : <<k, m>> \notin R
  <2> HIDE DEF R
  <2> QED BY <1>1, WFMin, Zenon
<1>3. \A k \in S : ~ (k < m)
  BY <1>2, Zenon
<1> QED BY <1>3

\* So has a nonempty bounded one a greatest member.
LEMMA Greatest ==
    ASSUME NEW n \in Nat, NEW S \in SUBSET (0 .. n), S # {}
    PROVE  \E m \in S : \A k \in S : k <= m
<1> DEFINE T == {k \in 0 .. n : n - k \in S}
<1>1. PICK x \in S : x \in 0 .. n
  BY Zenon
<1>2. n - x \in 0 .. n /\ n - (n - x) = x
  BY <1>1
<1>3. T \in SUBSET Nat /\ n - x \in T
  BY <1>1, <1>2
<1>4. PICK m \in T : \A k \in T : m <= k
  <2> HIDE DEF T
  <2> QED BY <1>3, Least
<1>5. m \in 0 .. n /\ n - m \in S
  OBVIOUS
<1>6. ASSUME NEW k \in S PROVE k <= n - m
  <2>1. k \in 0 .. n /\ n - k \in 0 .. n /\ n - (n - k) = k
    OBVIOUS
  <2>2. n - k \in T
    BY <2>1
  <2>3. m <= n - k
    <3> HIDE DEF T
    <3> QED BY <1>4, <2>2
  <2> QED BY <1>5, <2>1, <2>3
<1> QED BY <1>5, <1>6

\* A step function defines a sequence of values from any first one.  The loops of
\* the model are such recursions.
Iterates(f, base, F, n) == f[0] = base /\ \A i \in 1 .. n : f[i] = F[<<i, f[i - 1]>>]

LEMMA Recursion ==
    ASSUME NEW n \in Nat, NEW V, NEW base \in V, NEW F \in [(1 .. n) \X V -> V]
    PROVE  \E f \in [0 .. n -> V] : Iterates(f, base, F, n)
<1> DEFINE Is(f, k) == Iterates(f, base, F, k)
           P(k) == \E f \in [0 .. k -> V] : Is(f, k)
           Bad == {k \in 0 .. n : ~ P(k)}
<1>1. Bad = {}
  <2> SUFFICES ASSUME Bad # {} PROVE FALSE
    OBVIOUS
  <2>1. Bad \in SUBSET Nat
    OBVIOUS
  <2>2. PICK m \in Bad : \A k \in Bad : m <= k
    <3> HIDE DEF Bad
    <3> QED BY <2>1, Least
  <2>3. m \in 0 .. n /\ ~ P(m)
    OBVIOUS
  <2>4. CASE m = 0
    <3> DEFINE g == [i \in 0 .. 0 |-> base]
    <3>1. g \in [0 .. 0 -> V] /\ g[0] = base /\ \A i \in 1 .. 0 : FALSE
      OBVIOUS
    <3> HIDE DEF g
    <3>2. P(0)
      BY <3>1, Zenon DEF Iterates
    <3> QED BY <2>3, <2>4, <3>2, Zenon
  <2>5. CASE m # 0
    <3>1. m - 1 \in 0 .. n /\ ~ (m <= m - 1) /\ m \in 1 .. n
      BY <2>3, <2>5
    <3>2. P(m - 1)
      <4>1. m - 1 \notin Bad
        <5> HIDE DEF Bad
        <5> QED BY <2>2, <3>1
      <4> HIDE DEF P
      <4> QED BY <3>1, <4>1
    <3>3. PICK f \in [0 .. m - 1 -> V] : Is(f, m - 1)
      BY <3>2
    <3> DEFINE g == [i \in 0 .. m |-> IF i < m THEN f[i] ELSE F[<<m, f[m - 1]>>]]
    <3>4. f[m - 1] \in V /\ \A i \in 0 .. m : i < m => i \in 0 .. m - 1 /\ f[i] \in V
      BY <3>1
    <3>5. F[<<m, f[m - 1]>>] \in V
      BY <3>1, <3>4
    <3>6. g \in [0 .. m -> V]
      BY <3>4, <3>5
    <3>7. g[0] = base
      BY <3>1, <3>3 DEF Iterates
    <3>8. ASSUME NEW i \in 1 .. m PROVE g[i] = F[<<i, g[i - 1]>>]
      <4>1. g[i - 1] = f[i - 1]
        BY <3>1
      <4>2. CASE i < m
        <5>1. g[i] = f[i] /\ i \in 1 .. m - 1
          BY <3>1, <4>2
        <5> HIDE DEF g
        <5> QED BY <3>3, <4>1, <5>1 DEF Iterates
      <4>3. CASE ~ (i < m)
        <5>1. i = m /\ g[i] = F[<<m, f[m - 1]>>]
          BY <3>1, <4>3
        <5> HIDE DEF g
        <5> QED BY <4>1, <5>1
      <4> QED BY <4>2, <4>3
    <3> HIDE DEF g
    <3>9. P(m)
      BY <3>6, <3>7, <3>8 DEF Iterates
    <3> QED BY <2>3, <3>9
  <2> QED BY <2>4, <2>5
<1>2. P(n)
  <2>1. n \in 0 .. n
    OBVIOUS
  <2> HIDE DEF P
  <2> QED BY <1>1, <2>1
<1> QED BY <1>2

-----------------------------------------------------------------------------
\* Filtering a sequence

\* The step of the recursion in Only
Kept(f, s, T, i) ==
    IF i = 0 THEN <<>> ELSE IF s[i] \in T THEN Append(f[i - 1], s[i]) ELSE f[i - 1]

IsKept(f, s, T) == f = [i \in 0 .. Len(s) |-> Kept(f, s, T, i)]

LEMMA KeptExists ==
    ASSUME NEW S, NEW s \in Seq(S), NEW T
    PROVE  \E f : IsKept(f, s, T)
<1> DEFINE I == 1 .. Len(s)
           V == Seq(S)
           F == [p \in I \X V |-> IF s[p[1]] \in T THEN Append(p[2], s[p[1]]) ELSE p[2]]
<1>1. Len(s) \in Nat /\ <<>> \in V
  OBVIOUS
<1>2. F \in [I \X V -> V] /\ \A i \in I, v \in V :
         F[<<i, v>>] = IF s[i] \in T THEN Append(v, s[i]) ELSE v
  OBVIOUS
<1> HIDE DEF V, F
<1>3. PICK f \in [0 .. Len(s) -> V] : Iterates(f, <<>>, F, Len(s))
  BY <1>1, <1>2, Recursion, Zenon
<1>4. \A i \in 0 .. Len(s) : i = 0 \/ (i \in I /\ i - 1 \in 0 .. Len(s))
  BY <1>1
<1>5. \A i \in 0 .. Len(s) : f[i] = Kept(f, s, T, i)
  BY <1>2, <1>3, <1>4, Zenon DEF Kept, Iterates
<1> QED BY <1>5 DEF IsKept

LEMMA RangeEmpty == Range(<<>>) = {}
BY DEF Range

LEMMA InRange ==
    ASSUME NEW S, NEW s \in Seq(S), NEW i \in Nat \ {0}, i <= Len(s)
    PROVE  s[i] \in Range(s) /\ s[i] \in S
<1>1. Len(s) \in Nat /\ DOMAIN s = 1 .. Len(s) /\ i \in 1 .. Len(s)
  OBVIOUS
<1> QED BY <1>1 DEF Range

LEMMA RangeAppend ==
    ASSUME NEW S, NEW s \in Seq(S), NEW e \in S
    PROVE  Range(Append(s, e)) = Range(s) \cup {e}
<1> DEFINE t == Append(s, e)
<1>1. Len(s) \in Nat /\ DOMAIN s = 1 .. Len(s) /\ DOMAIN t = 1 .. Len(s) + 1
  OBVIOUS
<1>2. t[Len(s) + 1] = e /\ \A i \in 1 .. Len(s) : t[i] = s[i]
  OBVIOUS
<1> HIDE DEF t
<1>3. \A i \in 1 .. Len(s) + 1 : i \in 1 .. Len(s) \/ i = Len(s) + 1
  BY <1>1
<1>4. 1 .. Len(s) \subseteq 1 .. Len(s) + 1 /\ Len(s) + 1 \in 1 .. Len(s) + 1
  BY <1>1
<1>5. Range(t) \subseteq Range(s) \cup {e}
  BY <1>1, <1>2, <1>3 DEF Range
<1>6. Range(s) \cup {e} \subseteq Range(t)
  BY <1>1, <1>2, <1>4 DEF Range
<1> QED BY <1>5, <1>6 DEF t

LEMMA RangeConcat ==
    ASSUME NEW S, NEW s \in Seq(S), NEW t \in Seq(S)
    PROVE  s \o t \in Seq(S) /\ Range(s \o t) \subseteq Range(s) \cup Range(t)
<1> DEFINE c == s \o t
<1>1. /\ c \in Seq(S) /\ Len(c) = Len(s) + Len(t)
      /\ \A i \in 1 .. Len(s) + Len(t) : c[i] = IF i <= Len(s) THEN s[i] ELSE t[i - Len(s)]
  OBVIOUS
<1>2. Len(s) \in Nat /\ Len(t) \in Nat /\ DOMAIN s = 1 .. Len(s) /\ DOMAIN t = 1 .. Len(t)
      /\ DOMAIN c = 1 .. Len(s) + Len(t)
  BY <1>1
<1> HIDE DEF c
<1>3. ASSUME NEW i \in 1 .. Len(s) + Len(t) PROVE c[i] \in Range(s) \cup Range(t)
  <2>1. CASE i <= Len(s)
    BY <1>1, <1>2, <2>1 DEF Range
  <2>2. CASE ~ (i <= Len(s))
    <3>1. i - Len(s) \in 1 .. Len(t)
      BY <1>2, <2>2
    <3> QED BY <1>1, <1>2, <2>2, <3>1 DEF Range
  <2> QED BY <2>1, <2>2
<1>4. Range(c) \subseteq Range(s) \cup Range(t)
  BY <1>2, <1>3 DEF Range
<1> QED BY <1>1, <1>4 DEF c

LEMMA RangeSubSeq ==
    ASSUME NEW S, NEW s \in Seq(S), NEW m \in 1 .. Len(s) + 1, NEW n \in 0 .. Len(s)
    PROVE  SubSeq(s, m, n) \in Seq(S) /\ Range(SubSeq(s, m, n)) \subseteq Range(s)
<1> DEFINE c == SubSeq(s, m, n)
<1>1. Len(s) \in Nat /\ DOMAIN s = 1 .. Len(s)
  OBVIOUS
<1>2. CASE m <= n
  <2>1. c \in Seq(S) /\ Len(c) = n - m + 1 /\ \A i \in 1 .. n - m + 1 : c[i] = s[m + i - 1]
    BY <1>1, <1>2
  <2> HIDE DEF c
  <2>2. \A i \in 1 .. n - m + 1 : m + i - 1 \in 1 .. Len(s)
    BY <1>1
  <2>3. DOMAIN c = 1 .. n - m + 1
    BY <2>1
  <2>4. Range(c) \subseteq Range(s)
    BY <1>1, <2>1, <2>2, <2>3, Zenon DEF Range
  <2> QED BY <2>1, <2>4 DEF c
<1>3. CASE ~ (m <= n)
  <2>1. c = <<>>
    BY <1>1, <1>3
  <2> QED BY <2>1 DEF Range
<1> QED BY <1>2, <1>3

LEMMA SeqOfRange ==
    ASSUME NEW S, NEW s \in Seq(S), NEW T, Range(s) \subseteq T
    PROVE  s \in Seq(T)
<1>1. Len(s) \in Nat /\ s = [i \in 1 .. Len(s) |-> s[i]] /\ DOMAIN s = 1 .. Len(s)
  OBVIOUS
<1>2. \A i \in 1 .. Len(s) : s[i] \in T
  BY <1>1 DEF Range
<1> QED BY <1>1, <1>2

\* What Only returns: a sequence of exactly the elements of s that are in T,
\* without repetition if s is without.
LEMMA OnlyKeeps ==
    ASSUME NEW S, NEW s \in Seq(S), NEW T
    PROVE  /\ Only(s, T) \in Seq(S)
           /\ Range(Only(s, T)) = Range(s) \cap T
           /\ IsInjective(s) => IsInjective(Only(s, T))
<1>0. Len(s) \in Nat /\ DOMAIN s = 1 .. Len(s) /\ \A i \in 1 .. Len(s) : s[i] \in S
  OBVIOUS
<1> DEFINE F == CHOOSE f : IsKept(f, s, T)
<1>1. Only(s, T) = F[Len(s)]
  BY DEF Only, Kept, IsKept
<1>2. F = [i \in 0 .. Len(s) |-> Kept(F, s, T, i)]
  <2>1. \E f : IsKept(f, s, T)
    BY KeptExists, Zenon
  <2> QED BY <2>1, Zenon DEF IsKept
<1> HIDE DEF F
<1> DEFINE Prefix(i) == {s[j] : j \in 1 .. i}
           P(i) == /\ F[i] \in Seq(S)
                   /\ Range(F[i]) = Prefix(i) \cap T
                   /\ IsInjective(s) => IsInjective(F[i])
           Bad == {i \in 0 .. Len(s) : ~ P(i)}
<1>3. Bad = {}
  <2> SUFFICES ASSUME Bad # {} PROVE FALSE
    BY Zenon
  <2>1. Bad \in SUBSET Nat
    OBVIOUS
  <2>2. PICK m \in Bad : \A k \in Bad : m <= k
    <3> HIDE DEF Bad
    <3> QED BY <2>1, Least
  <2>3. m \in Nat /\ ~ P(m) /\ m <= Len(s) /\ m \in 0 .. Len(s)
    OBVIOUS
  <2>4. CASE m = 0
    <3>1. F[m] = <<>>
      BY <1>2, <2>3, <2>4 DEF Kept
    <3>2. F[m] \in Seq(S) /\ Range(F[m]) = {} /\ IsInjective(F[m])
      BY <3>1 DEF Range, IsInjective
    <3>3. Prefix(m) = {}
      BY <2>4
    <3> QED BY <2>3, <3>2, <3>3, Zenon
  <2>5. CASE m # 0
    <3>1. m - 1 \in 0 .. Len(s) /\ m - 1 < m /\ m \in 1 .. Len(s)
      BY <1>0, <2>3, <2>5
    <3>2. P(m - 1)
      <4>1. m - 1 \notin Bad
        <5> HIDE DEF Bad
        <5> QED BY <2>2, <2>3, <3>1
      <4> HIDE DEF P
      <4> QED BY <3>1, <4>1
    <3>3. F[m] = IF s[m] \in T THEN Append(F[m - 1], s[m]) ELSE F[m - 1]
      BY <1>2, <2>3, <2>5, Zenon DEF Kept
    <3>4. Prefix(m) = Prefix(m - 1) \cup {s[m]}
      BY <3>1, SMTT(40)
    <3>5. CASE s[m] \notin T
      <4>1. F[m] = F[m - 1]
        BY <3>3, <3>5
      <4>2. Prefix(m) \cap T = Prefix(m - 1) \cap T
        <5> HIDE DEF Prefix
        <5> QED BY <3>4, <3>5
      <4> HIDE DEF Prefix
      <4> QED BY <2>3, <3>2, <4>1, <4>2
    <3>6. CASE s[m] \in T
      <4> DEFINE r == F[m - 1]
      <4>1. F[m] = Append(r, s[m]) /\ r \in Seq(S) /\ s[m] \in S
        BY <1>0, <3>1, <3>2, <3>3, <3>6
      <4>2. F[m] \in Seq(S)
        BY <4>1
      <4> HIDE DEF r
      <4>3. Range(F[m]) = Range(r) \cup {s[m]}
        BY <4>1, RangeAppend
      <4>4. Range(F[m]) = Prefix(m) \cap T
        <5>1. Range(r) = Prefix(m - 1) \cap T
          BY <3>2 DEF r
        <5> HIDE DEF Prefix
        <5> QED BY <3>4, <3>6, <4>3, <5>1
      <4>5. ASSUME IsInjective(s) PROVE IsInjective(F[m])
        <5>1. IsInjective(r)
          BY <3>2, <4>5 DEF r
        <5>2. s[m] \notin Prefix(m - 1)
          BY <1>0, <3>1, <4>5 DEF IsInjective
        <5>3. s[m] \notin Range(r)
          <6>1. Range(r) = Prefix(m - 1) \cap T
            BY <3>2 DEF r
          <6> HIDE DEF Prefix
          <6> QED BY <5>2, <6>1
        <5>4. \A i \in 1 .. Len(r) : r[i] # s[m]
          BY <4>1, <5>3 DEF Range
        <5> QED BY <4>1, <5>1, <5>4 DEF IsInjective
      <4> HIDE DEF Prefix
      <4> QED BY <2>3, <4>2, <4>4, <4>5
    <3> QED BY <3>5, <3>6
  <2> QED BY <2>4, <2>5
<1>4. P(Len(s))
  <2>1. Len(s) \in 0 .. Len(s)
    BY <1>0
  <2> HIDE DEF P
  <2> QED BY <1>3, <2>1
<1>5. Prefix(Len(s)) = Range(s)
  BY <1>0 DEF Range
<1> HIDE DEF Prefix
<1> QED BY <1>1, <1>4, <1>5

-----------------------------------------------------------------------------
\* The collections of the pool

\* Why the pool is consistent: the order has no repetition, and no two
\* transactions in the pool have the same key.
PoolCore ==
    /\ txs \subseteq Txs
    /\ txOrder \in Seq(Txs) /\ IsInjective(txOrder) /\ Range(txOrder) = txs
    /\ dedupTxHashSet = Keys(txs)
    /\ \A g, h \in txs : Key(g) = Key(h) => g = h

LEMMA InsertKeepsPool ==
    ASSUME PoolCore, NEW h \in Txs, Key(h) \notin dedupTxHashSet, Insert(h)
    PROVE  PoolCore'
<1>1. h \notin txs
  BY DEF PoolCore, Keys
<1>2. txOrder' = Append(txOrder, h) /\ txs' = txs \cup {h}
      /\ dedupTxHashSet' = dedupTxHashSet \cup {Key(h)}
  BY DEF Insert
<1>3. txOrder' \in Seq(Txs) /\ Range(txOrder') = txs'
  BY <1>2, RangeAppend DEF PoolCore
<1>4. IsInjective(txOrder')
  <2>1. txOrder \in Seq(Txs) /\ IsInjective(txOrder) /\ \A i \in 1 .. Len(txOrder) : txOrder[i] # h
    BY <1>1 DEF PoolCore, Range
  <2> QED BY <1>2, <2>1 DEF IsInjective
<1>5. dedupTxHashSet' = Keys(txs')
  BY <1>2 DEF PoolCore, Keys
<1>6. \A g \in txs : Key(g) # Key(h)
  BY DEF PoolCore, Keys
<1>7. \A g, k \in txs' : Key(g) = Key(k) => g = k
  BY <1>2, <1>6 DEF PoolCore
<1>8. txs' \subseteq Txs
  BY <1>2 DEF PoolCore
<1> QED BY <1>3, <1>4, <1>5, <1>7, <1>8 DEF PoolCore

\* Taking transactions out of the pool takes exactly their keys out.
LEMMA KeysLeave ==
    ASSUME PoolCore, NEW out \in SUBSET txs,
           txs' = txs \ out, dedupTxHashSet' = dedupTxHashSet \ Keys(out)
    PROVE  /\ dedupTxHashSet' = Keys(txs') /\ txs' \subseteq Txs
           /\ \A g, h \in txs' : Key(g) = Key(h) => g = h
BY DEF PoolCore, Keys

LEMMA CleanupKeepsPool ==
    ASSUME PoolCore, NEW hashes, Cleanup(hashes)
    PROVE  PoolCore'
<1>1. txOrder' = Only(txOrder, Txs \ hashes) /\ txs' = txs \ (txs \cap hashes)
      /\ dedupTxHashSet' = dedupTxHashSet \ Keys(txs \cap hashes)
  BY DEF Cleanup
<1>2. txOrder' \in Seq(Txs) /\ Range(txOrder') = Range(txOrder) \cap (Txs \ hashes)
      /\ IsInjective(txOrder')
  BY <1>1, OnlyKeeps DEF PoolCore
<1>3. Range(txOrder') = txs'
  BY <1>1, <1>2, Zenon DEF PoolCore
<1>4. /\ dedupTxHashSet' = Keys(txs') /\ txs' \subseteq Txs
      /\ \A g, h \in txs' : Key(g) = Key(h) => g = h
  BY <1>1, KeysLeave
<1> QED BY <1>2, <1>3, <1>4 DEF PoolCore

\* The sequence s without its first n elements
LEMMA Dropped ==
    ASSUME NEW S, NEW s \in Seq(S), NEW n \in Nat, n < Len(s)
    PROVE  /\ SubSeq(s, n + 1, Len(s)) \in Seq(S)
           /\ Len(SubSeq(s, n + 1, Len(s))) = Len(s) - n
           /\ \A i \in 1 .. Len(s) - n : SubSeq(s, n + 1, Len(s))[i] = s[i + n]
<1>1. PICK len \in Nat : len = Len(s)
  OBVIOUS
<1>2. \A i \in n + 1 .. len : s[i] \in S
  BY <1>1
<1>3. /\ SubSeq(s, n + 1, len) \in Seq(S)
      /\ Len(SubSeq(s, n + 1, len)) = IF n + 1 <= len THEN len - (n + 1) + 1 ELSE 0
      /\ \A i \in 1 .. len - (n + 1) + 1 : SubSeq(s, n + 1, len)[i] = s[n + 1 + i - 1]
  <2>1. SubSeq(s, n + 1, len) \in Seq(S)
    BY <1>2
  <2>2. Len(SubSeq(s, n + 1, len)) = IF n + 1 <= len THEN len - (n + 1) + 1 ELSE 0
    OBVIOUS
  <2>3. \A i \in 1 .. len - (n + 1) + 1 : SubSeq(s, n + 1, len)[i] = s[n + 1 + i - 1]
    OBVIOUS
  <2> QED BY <2>1, <2>2, <2>3, Zenon
<1>4. n + 1 <= len /\ len - (n + 1) + 1 = len - n
  BY <1>1
<1>5. \A i \in 1 .. len - n : n + 1 + i - 1 = i + n
  BY <1>1
<1> QED BY <1>1, <1>3, <1>4, <1>5

LEMMA PullKeepsPool ==
    ASSUME PoolCore, NEW n \in Nat, Pull(n)
    PROVE  /\ PoolCore'
           /\ Selected(n) \in Seq(Txs) /\ IsInjective(Selected(n)) /\ Range(Selected(n)) \subseteq txs
<1> DEFINE size == IF n < Len(txOrder) THEN n ELSE Len(txOrder)
           first == SubSeq(txOrder, 1, size)
           rest == SubSeq(txOrder, n + 1, Len(txOrder))
<1>0. txOrder \in Seq(Txs) /\ Len(txOrder) \in Nat /\ size \in 0 .. Len(txOrder) /\ size <= n
      /\ DOMAIN txOrder = 1 .. Len(txOrder)
  BY DEF PoolCore
<1>1. Selected(n) = Only(first, txs)
  BY DEF Selected
<1>2. first \in Seq(Txs) /\ Range(first) = {txOrder[i] : i \in 1 .. size} /\ IsInjective(first)
  <2>1. first \in Seq(Txs) /\ Len(first) = size /\ \A i \in 1 .. size : first[i] = txOrder[i]
    BY <1>0
  <2> HIDE DEF first, size
  <2>2. DOMAIN first = 1 .. size
    BY <2>1
  <2>3. 1 .. size \subseteq DOMAIN txOrder
    BY <1>0
  <2>4. IsInjective(first)
    BY <2>1, <2>2, <2>3, Zenon DEF IsInjective, PoolCore
  <2> QED BY <2>1, <2>2, <2>4 DEF Range
<1>3. Selected(n) \in Seq(Txs) /\ Range(Selected(n)) = Range(first) \cap txs
      /\ IsInjective(Selected(n))
  <2> HIDE DEF first
  <2> QED BY <1>1, <1>2, OnlyKeeps
<1>4. Range(Selected(n)) = {txOrder[i] : i \in 1 .. size} /\ Range(Selected(n)) \subseteq txs
  <2>1. {txOrder[i] : i \in 1 .. size} \subseteq txs
    BY <1>0 DEF PoolCore, Range
  <2> HIDE DEF first
  <2> QED BY <1>2, <1>3, <2>1
<1>5. txOrder' = rest /\ txs' = txs \ Range(Selected(n))
      /\ dedupTxHashSet' = dedupTxHashSet \ Keys(Range(Selected(n)))
  BY DEF Pull
<1>6. rest \in Seq(Txs) /\ IsInjective(rest)
      /\ Range(rest) = {txOrder[i] : i \in n + 1 .. Len(txOrder)}
  <2>1. CASE n < Len(txOrder)
    <3>1. rest \in Seq(Txs) /\ Len(rest) = Len(txOrder) - n
          /\ \A i \in 1 .. Len(rest) : rest[i] = txOrder[i + n]
      <4>1. /\ rest \in Seq(Txs) /\ Len(rest) = Len(txOrder) - n
            /\ \A i \in 1 .. Len(txOrder) - n : rest[i] = txOrder[i + n]
        BY <1>0, <2>1, Dropped, ZenonT(40)
      <4> HIDE DEF rest
      <4> QED BY <4>1, ZenonT(40)
    <3> HIDE DEF rest
    <3>2. DOMAIN rest = 1 .. Len(rest)
      BY <3>1
    <3>3. IsInjective(rest)
      <4> SUFFICES ASSUME NEW i \in 1 .. Len(rest), NEW j \in 1 .. Len(rest), rest[i] = rest[j]
                   PROVE  i = j
        BY <3>2 DEF IsInjective
      <4>1. txOrder[i + n] = txOrder[j + n]
        BY <3>1
      <4>2. i + n \in 1 .. Len(txOrder) /\ j + n \in 1 .. Len(txOrder)
        BY <1>0, <3>1
      <4>3. i + n = j + n
        BY <1>0, <4>1, <4>2 DEF IsInjective, PoolCore
      <4> QED BY <4>3, <1>0, <3>1
    <3>4. Range(rest) \subseteq {txOrder[i] : i \in n + 1 .. Len(txOrder)}
      BY <1>0, <3>1, <3>2 DEF Range
    <3>5. ASSUME NEW i \in n + 1 .. Len(txOrder) PROVE txOrder[i] \in Range(rest)
      <4>1. i - n \in 1 .. Len(rest) /\ (i - n) + n = i
        BY <1>0, <3>1
      <4> QED BY <3>1, <3>2, <4>1, Zenon DEF Range
    <3> QED BY <3>1, <3>3, <3>4, <3>5
  <2>2. CASE ~ (n < Len(txOrder))
    <3>1. rest = <<>> /\ n + 1 .. Len(txOrder) = {}
      BY <1>0, <2>2
    <3> QED BY <3>1 DEF Range, IsInjective
  <2> QED BY <2>1, <2>2
<1>7. Range(txOrder') = txs'
  <2>1. txs = {txOrder[i] : i \in 1 .. Len(txOrder)}
    BY <1>0 DEF PoolCore, Range
  <2>2. \A i \in 1 .. size, j \in n + 1 .. Len(txOrder) : txOrder[i] # txOrder[j]
    BY <1>0 DEF PoolCore, IsInjective
  <2>3. \A i \in 1 .. Len(txOrder) : i \in 1 .. size \/ i \in n + 1 .. Len(txOrder)
    BY <1>0
  <2>4. 1 .. size \subseteq 1 .. Len(txOrder) /\ n + 1 .. Len(txOrder) \subseteq 1 .. Len(txOrder)
    BY <1>0
  <2> HIDE DEF rest, size
  <2> QED BY <1>4, <1>5, <1>6, <2>1, <2>2, <2>3, <2>4
<1>8. /\ dedupTxHashSet' = Keys(txs') /\ txs' \subseteq Txs
      /\ \A g, h \in txs' : Key(g) = Key(h) => g = h
  BY <1>4, <1>5, KeysLeave, Zenon
<1> QED BY <1>3, <1>4, <1>5, <1>6, <1>7, <1>8, Zenon DEF PoolCore

-----------------------------------------------------------------------------
\* The inductive invariant

BlockRecord == [txs : Seq(Txs), bad : BOOLEAN, stored : BOOLEAN]

\* What is on its way to a block consists of transactions.
Carry ==
    /\ adding \in [Adders -> Txs \cup {NoTx}]
    /\ batch \in Seq(Txs) /\ pendingTxs \in Seq(Txs) /\ recorded \in Seq(Txs)
    /\ \A b \in sealed : b.slot \in OwnSlots /\ b.txs \in Seq(Txs)
    /\ recvTxs \in Seq(Txs)

\* The handler of received blocks is the only one that writes a slot this node
\* does not lead, and the slot has no block until it does; a block that is being
\* applied is stored and was not applied before.
Store ==
    /\ blocks \in [Slots -> BlockRecord]
    /\ \A s \in Slots : ~ blocks[s].stored => blocks[s].txs = <<>>
    /\ \A s \in applied : s \in Slots /\ blocks[s].stored
    /\ recvSlot \in Slots
    /\ recvPc = "store" => recvSlot \notin OwnSlots /\ ~ blocks[recvSlot].stored
    /\ finPc \in {"idle", "apply", "mark"} /\ finSlot \in Slots
    /\ finPc # "idle" => blocks[finSlot].stored /\ finSlot \notin applied
    /\ finPc # "idle" => finAt \in Nat \ {0}
    /\ finPc = "mark" => finAt <= Len(FinTxs)

InBlocks(h) == \E s \in Slots : h \in Range(blocks[s].txs)

\* The tracker: what PullBatch has tracked so far is tracked until a block has it,
\* and a removal that came first was for a transaction of a block.
Tracked ==
    /\ CarriedIsTracked
    /\ pullPc \in {"idle", "dedup", "track", "store"}
    /\ pullPc \in {"track", "store"} =>
         /\ trackAt \in Nat \ {0}
         /\ \A i \in 1 .. Len(batch) : i < trackAt => batch[i] \in processing \/ InBlocks(batch[i])
    /\ pullPc = "store" => trackAt <= Len(batch)
    /\ \A h \in removed : InBlocks(h)

Inv == PoolCore /\ Carry /\ Store /\ Tracked

LEMMA BlockRecordFields ==
    ASSUME NEW b \in BlockRecord
    PROVE  b.txs \in Seq(Txs) /\ b.bad \in BOOLEAN /\ b.stored \in BOOLEAN
BY DEF BlockRecord

LEMMA NewBlock ==
    ASSUME NEW ts \in Seq(Txs), NEW bad \in BOOLEAN
    PROVE  /\ Block(ts, bad) \in BlockRecord /\ NoBlock \in BlockRecord
           /\ Block(ts, bad).stored = TRUE /\ Block(ts, bad).txs = ts
<1>1. <<>> \in Seq(Txs)
  OBVIOUS
<1> QED BY <1>1 DEF Block, NoBlock, BlockRecord

LEMMA InitInv == Init => Inv
<1> SUFFICES ASSUME Init PROVE Inv
  OBVIOUS
<1>1. MaxSlot \in Nat \ {0} /\ InitialBalance \in [Accounts -> Nat] /\ 1 \in Slots
      /\ FirstContents \in Seq(Txs)
  <2>1. {h \in Txs : ~ Transfer(h) /\ IsRoot(h)} \subseteq Txs
    OBVIOUS
  <2> QED BY <2>1, TxFlowAssumption DEF Slots
<1>2. PoolCore
  BY DEF Init, PoolEmpty, PoolCore, Range, Keys, IsInjective
<1>3. Carry
  BY DEF Init, Carry
<1>4. Store
  <2>1. Block(FirstContents, FALSE) \in BlockRecord /\ NoBlock \in BlockRecord
        /\ Block(FirstContents, FALSE).stored = TRUE
    BY <1>1, NewBlock, Zenon
  <2>2. blocks \in [Slots -> BlockRecord] /\ blocks[1].stored = TRUE /\ applied = {1}
        /\ \A s \in Slots : ~ blocks[s].stored => blocks[s].txs = <<>>
    BY <1>1, <2>1, Zenon DEF Init, NoBlock
  <2> QED BY <1>1, <2>2, Zenon DEF Init, Store
<1>5. Tracked
  BY DEF Init, Tracked, CarriedIsTracked, Carried, Range
<1> QED BY <1>2, <1>3, <1>4, <1>5 DEF Inv

-----------------------------------------------------------------------------
\* Mempool

LEMMA PoolInductive == Inv /\ [Next]_vars => PoolCore'
<1> SUFFICES ASSUME Inv, [Next]_vars PROVE PoolCore'
  OBVIOUS
<1>1. ASSUME NEW a \in Adders, AddTxLocked(a) PROVE PoolCore'
  <2>1. adding[a] \in Txs
    BY <1>1 DEF AddTxLocked, Inv, Carry
  <2>2. CASE Valid(adding[a], accounts, Stored, latest)
    <3>1. Insert(adding[a]) /\ Key(adding[a]) \notin dedupTxHashSet
      BY <1>1, <2>2 DEF AddTxLocked, Valid
    <3>2. PICK h \in Txs : h = adding[a]
      BY <2>1
    <3>3. Insert(h) /\ Key(h) \notin dedupTxHashSet
      BY <3>1, <3>2
    <3> QED BY <3>3, InsertKeepsPool DEF Inv
  <2>3. CASE ~ Valid(adding[a], accounts, Stored, latest)
    BY <1>1, <2>3 DEF AddTxLocked, poolVars, Inv, PoolCore
  <2> QED BY <2>2, <2>3
<1>2. CASE PullLocked
  <2>1. Pull(BatchSize) /\ BatchSize \in Nat
    BY <1>2, TxFlowAssumption DEF PullLocked
  <2> QED BY <2>1, PullKeepsPool DEF Inv
<1>3. CASE RecvCleanup
  <2>1. Cleanup(Range(recvTxs))
    BY <1>3 DEF RecvCleanup
  <2>2. PICK hashes : hashes = Range(recvTxs)
    OBVIOUS
  <2>3. Cleanup(hashes)
    BY <2>1, <2>2
  <2> QED BY <2>3, CleanupKeepsPool DEF Inv
<1>4. CASE Crash
  <2>1. txs' = {} /\ txOrder' = <<>> /\ dedupTxHashSet' = {}
    BY <1>4 DEF Crash
  <2> QED BY <2>1 DEF PoolCore, Range, Keys, IsInjective
<1>5. CASE UNCHANGED poolVars
  BY <1>5 DEF poolVars, Inv, PoolCore
<1>6. CASE PullDedup \/ TrackLook \/ TrackStore \/ Record
  BY <1>5, <1>6 DEF PullDedup, TrackLook, TrackStore, Record
<1>7. CASE LeaderStart \/ LeaderEnd \/ SlotEnd \/ StoreOwn
  BY <1>5, <1>7, Zenon DEF LeaderStart, LeaderEnd, SlotEnd, StoreOwn
<1>8. ASSUME NEW a \in Adders, NEW h \in Submitted, AddTxCheck(a, h) PROVE PoolCore'
  BY <1>5, <1>8 DEF AddTxCheck
<1>9. ASSUME NEW s \in Slots, NEW ts \in PeerBlocks, RecvVerify(s, ts) PROVE PoolCore'
  BY <1>5, <1>9 DEF RecvVerify
<1>10. ASSUME NEW bad \in PohFlaws, RecvStore(bad) PROVE PoolCore'
  BY <1>5, <1>10 DEF RecvStore
<1>11. ASSUME NEW s \in Slots, FinStart(s) PROVE PoolCore'
  BY <1>5, <1>11 DEF FinStart
<1>12. CASE RecvDedup \/ FinApply \/ FinMark \/ FinCommit \/ FinFail
  BY <1>5, <1>12, Zenon DEF RecvDedup, FinApply, FinMark, FinCommit, FinFail
<1>13. CASE UNCHANGED vars
  BY <1>5, <1>13 DEF vars
<1> QED BY <1>1, <1>2, <1>3, <1>4, <1>6, <1>7, <1>8, <1>9, <1>10, <1>11, <1>12, <1>13 DEF Next

-----------------------------------------------------------------------------
\* Transactions on their way to a block

carryVars == <<adding, batch, pendingTxs, recorded, sealed, recvTxs>>

LEMMA CarryInductive == Inv /\ [Next]_vars => Carry'
<1> SUFFICES ASSUME Inv, [Next]_vars PROVE Carry'
  OBVIOUS
<1> USE DEF pullVars, leaderVars, recvVars
<1>0. <<>> \in Seq(Txs) /\ Carry
  BY DEF Inv
<1>1. CASE UNCHANGED carryVars
  BY <1>0, <1>1 DEF carryVars, Carry
<1>2. ASSUME NEW a \in Adders, NEW h \in Submitted, AddTxCheck(a, h) PROVE Carry'
  <2>1. h \in Txs
    BY TxFlowAssumption
  <2> QED BY <1>0, <1>2, <2>1 DEF AddTxCheck, Carry
<1>3. ASSUME NEW a \in Adders, AddTxLocked(a) PROVE Carry'
  BY <1>0, <1>3 DEF AddTxLocked, Carry
<1>4. CASE PullLocked
  <2>1. Pull(BatchSize) /\ BatchSize \in Nat /\ batch' = Selected(BatchSize)
        /\ UNCHANGED <<adding, pendingTxs, recorded, sealed, recvTxs>>
    BY <1>4, TxFlowAssumption DEF PullLocked
  <2>2. Selected(BatchSize) \in Seq(Txs)
    BY <2>1, PullKeepsPool DEF Inv
  <2> QED BY <1>0, <2>1, <2>2 DEF Carry
<1>5. CASE PullDedup \/ TrackLook \/ TrackStore
  BY <1>1, <1>5 DEF PullDedup, TrackLook, TrackStore, carryVars
<1>6. CASE Record
  <2> DEFINE queue == pendingTxs \o batch
             size == IF BatchSize < Len(queue) THEN BatchSize ELSE Len(queue)
  <2>1. queue \in Seq(Txs) /\ Len(queue) \in Nat
    BY <1>0, RangeConcat DEF Carry
  <2>2. size \in 0 .. Len(queue)
    <3> HIDE DEF queue
    <3> QED BY <2>1, TxFlowAssumption
  <2>3. SubSeq(queue, 1, size) \in Seq(Txs) /\ SubSeq(queue, size + 1, Len(queue)) \in Seq(Txs)
    <3> HIDE DEF queue, size
    <3> QED BY <2>1, <2>2
  <2>4. recorded \o SubSeq(queue, 1, size) \in Seq(Txs)
    <3> HIDE DEF queue, size
    <3> QED BY <1>0, <2>3, RangeConcat DEF Carry
  <2>5. \/ recorded' = recorded \o SubSeq(queue, 1, size)
           /\ pendingTxs' = SubSeq(queue, size + 1, Len(queue))
        \/ pendingTxs' = queue /\ recorded' = recorded
    BY <1>6, Zenon DEF Record
  <2>6. recorded' \in Seq(Txs) /\ pendingTxs' \in Seq(Txs)
    <3> HIDE DEF queue, size
    <3> QED BY <1>0, <2>1, <2>3, <2>4, <2>5, Zenon DEF Carry
  <2>7. batch' = <<>> /\ UNCHANGED <<adding, sealed, recvTxs>>
    BY <1>6 DEF Record
  <2> QED BY <1>0, <2>6, <2>7 DEF Carry
<1>7. CASE LeaderStart
  BY <1>0, <1>7 DEF LeaderStart, Carry
<1>8. CASE LeaderEnd
  BY <1>1, <1>8 DEF LeaderEnd, carryVars
<1>9. CASE SlotEnd
  <2>1. /\ sealed' = IF slot \in OwnSlots /\ ready
                     THEN sealed \cup {[slot |-> slot, txs |-> recorded]} ELSE sealed
        /\ recorded' = <<>> /\ UNCHANGED <<adding, batch, pendingTxs, recvTxs>>
    BY <1>9 DEF SlotEnd
  <2>2. \A b \in sealed' : b.slot \in OwnSlots /\ b.txs \in Seq(Txs)
    BY <1>0, <2>1 DEF Carry
  <2> QED BY <1>0, <2>1, <2>2 DEF Carry
<1>10. CASE StoreOwn
  <2>1. sealed' \subseteq sealed /\ UNCHANGED <<adding, batch, pendingTxs, recorded, recvTxs>>
    BY <1>10 DEF StoreOwn
  <2> QED BY <1>0, <2>1 DEF Carry
<1>11. ASSUME NEW s \in Slots, NEW ts \in PeerBlocks, RecvVerify(s, ts) PROVE Carry'
  <2>1. ts \in Seq(Txs)
    BY TxFlowAssumption
  <2> QED BY <1>0, <1>11, <2>1 DEF RecvVerify, Carry
<1>12. ASSUME NEW bad \in PohFlaws, RecvStore(bad) PROVE Carry'
  <2>1. recvTxs' \in {<<>>, recvTxs} /\ UNCHANGED <<adding, batch, pendingTxs, recorded, sealed>>
    BY <1>12 DEF RecvStore, RecvReturn
  <2>2. recvTxs' \in Seq(Txs)
    BY <1>0, <2>1, Zenon DEF Carry
  <2> QED BY <1>0, <2>1, <2>2 DEF Carry
<1>13. CASE RecvDedup
  BY <1>1, <1>13 DEF RecvDedup, carryVars
<1>14. CASE RecvCleanup
  BY <1>0, <1>14 DEF RecvCleanup, RecvReturn, Carry
<1>15. ASSUME NEW s \in Slots, FinStart(s) PROVE Carry'
  BY <1>1, <1>15 DEF FinStart, carryVars
<1>16. CASE FinApply \/ FinMark \/ FinCommit \/ FinFail
  BY <1>1, <1>16, Zenon DEF FinApply, FinMark, FinCommit, FinFail, carryVars
<1>17. CASE Crash
  <2>1. adding' = [a \in Adders |-> NoTx] /\ batch' = <<>> /\ pendingTxs' = <<>>
        /\ recorded' = <<>> /\ sealed' = {} /\ recvTxs' = <<>>
    BY <1>17 DEF Crash, RecvReturn
  <2> QED BY <1>0, <2>1 DEF Carry
<1>18. CASE UNCHANGED vars
  BY <1>1, <1>18 DEF vars, carryVars
<1> QED BY <1>2, <1>3, <1>4, <1>5, <1>6, <1>7, <1>8, <1>9, <1>10, <1>11, <1>12, <1>13, <1>14,
           <1>15, <1>16, <1>17, <1>18 DEF Next

-----------------------------------------------------------------------------
\* Stored blocks

\* A block written to a slot that had none leaves every other slot alone.
LEMMA BlockWritten ==
    ASSUME Store, NEW s \in Slots, ~ blocks[s].stored, NEW ts \in Seq(Txs), NEW bad \in BOOLEAN,
           blocks' = [blocks EXCEPT ![s] = Block(ts, bad)]
    PROVE  /\ blocks' \in [Slots -> BlockRecord]
           /\ \A t \in Slots : ~ blocks'[t].stored => blocks'[t].txs = <<>>
           /\ \A t \in Slots : blocks[t].stored => blocks'[t] = blocks[t]
           /\ \A t \in Slots : t # s => blocks'[t] = blocks[t]
           /\ blocks'[s].stored = TRUE /\ blocks'[s].txs = ts
           /\ \A h : InBlocks(h) => InBlocks(h)'
<1>1. Block(ts, bad) \in BlockRecord /\ Block(ts, bad).stored = TRUE /\ Block(ts, bad).txs = ts
  BY NewBlock, Zenon
<1>2. blocks'[s] = Block(ts, bad) /\ \A t \in Slots : t # s => blocks'[t] = blocks[t]
  BY DEF Store
<1>3. blocks' \in [Slots -> BlockRecord]
  BY <1>1 DEF Store
<1>4. blocks[s].txs = <<>>
  BY DEF Store
<1>5. \A h : InBlocks(h) => InBlocks(h)'
  <2> SUFFICES ASSUME NEW h, NEW t \in Slots, h \in Range(blocks[t].txs) PROVE InBlocks(h)'
    BY DEF InBlocks
  <2>1. t # s
    BY <1>4 DEF Range
  <2> QED BY <1>2, <2>1 DEF InBlocks
<1> QED BY <1>1, <1>2, <1>3, <1>5, Zenon DEF Store

\* The two ways a block gets into the store
LEMMA OwnBlockWritten ==
    ASSUME Inv, StoreOwn
    PROVE  \/ UNCHANGED blocks
           \/ \E s \in OwnSlots, ts \in Seq(Txs) :
                /\ s \in Slots /\ ~ blocks[s].stored
                /\ blocks' = [blocks EXCEPT ![s] = Block(ts, FALSE)]
<1>1. PICK b \in sealed : blocks' = IF blocks[b.slot].stored THEN blocks
                                    ELSE [blocks EXCEPT ![b.slot] = Block(b.txs, FALSE)]
  BY Zenon DEF StoreOwn
<1>2. OwnSlots \subseteq Slots
  BY TxFlowAssumption DEF Slots
<1>3. b.slot \in OwnSlots /\ b.txs \in Seq(Txs)
  BY DEF Inv, Carry
<1> QED BY <1>1, <1>2, <1>3, Zenon

LEMMA PeerBlockWritten ==
    ASSUME Inv, NEW bad \in PohFlaws, RecvStore(bad)
    PROVE  /\ bad \in BOOLEAN /\ recvTxs \in Seq(Txs)
           /\ recvSlot \in Slots /\ ~ blocks[recvSlot].stored
           /\ blocks' = [blocks EXCEPT ![recvSlot] = Block(recvTxs, bad)]
BY TxFlowAssumption, Zenon DEF Inv, Carry, Store, RecvStore

\* Neither of them touches the block FinalizeBlock is at.
LEMMA BlockBeingApplied ==
    ASSUME Inv, finPc # "idle", UNCHANGED finSlot,
           StoreOwn \/ \E bad \in PohFlaws : RecvStore(bad)
    PROVE  FinTxs' = FinTxs
<1>1. Store /\ finSlot \in Slots /\ blocks[finSlot].stored
  BY Zenon DEF Inv, Store
<1>2. CASE UNCHANGED blocks
  BY <1>2 DEF FinTxs
<1>3. ASSUME NEW s \in Slots, NEW ts \in Seq(Txs), NEW bad \in BOOLEAN, ~ blocks[s].stored,
             blocks' = [blocks EXCEPT ![s] = Block(ts, bad)]
      PROVE  FinTxs' = FinTxs
  <2>1. \A t \in Slots : blocks[t].stored => blocks'[t] = blocks[t]
    BY <1>1, <1>3, BlockWritten
  <2> QED BY <1>1, <2>1 DEF FinTxs
<1>4. CASE StoreOwn
  BY <1>2, <1>3, <1>4, OwnBlockWritten, Zenon
<1>5. ASSUME NEW bad \in PohFlaws, RecvStore(bad) PROVE FinTxs' = FinTxs
  <2>1. /\ bad \in BOOLEAN /\ recvTxs \in Seq(Txs) /\ recvSlot \in Slots
        /\ ~ blocks[recvSlot].stored /\ blocks' = [blocks EXCEPT ![recvSlot] = Block(recvTxs, bad)]
    BY <1>5, PeerBlockWritten
  <2> QED BY <1>3, <2>1, Zenon
<1> QED BY <1>4, <1>5

storageVars == <<blocks, applied, recvPc, recvSlot, finPc, finSlot, finAt>>

LEMMA StoreInductive == Inv /\ [Next]_vars => Store'
<1> SUFFICES ASSUME Inv, [Next]_vars PROVE Store'
  OBVIOUS
<1> USE DEF recvVars, storeVars, finVars
<1>0. Store /\ MaxSlot \in Nat \ {0} /\ 1 \in Slots
  BY TxFlowAssumption DEF Inv, Slots
<1>1. CASE UNCHANGED storageVars
  BY <1>0, <1>1 DEF storageVars, Store, FinTxs
<1>2. ASSUME NEW a \in Adders, NEW h \in Submitted, AddTxCheck(a, h) PROVE Store'
  BY <1>1, <1>2 DEF AddTxCheck, storageVars
<1>3. ASSUME NEW a \in Adders, AddTxLocked(a) PROVE Store'
  BY <1>1, <1>3 DEF AddTxLocked, storageVars
<1>4. CASE PullLocked \/ PullDedup \/ TrackLook \/ TrackStore \/ Record
  BY <1>1, <1>4, Zenon DEF PullLocked, PullDedup, TrackLook, TrackStore, Record, storageVars
<1>5. CASE LeaderStart \/ LeaderEnd \/ SlotEnd
  BY <1>1, <1>5, Zenon DEF LeaderStart, LeaderEnd, SlotEnd, storageVars
<1>6. CASE StoreOwn
  <2>1. UNCHANGED <<applied, recvPc, recvSlot, finPc, finSlot, finAt>>
    BY <1>6 DEF StoreOwn
  <2>2. CASE UNCHANGED blocks
    BY <1>1, <2>1, <2>2 DEF storageVars
  <2>3. ASSUME NEW s \in OwnSlots, NEW ts \in Seq(Txs), s \in Slots, ~ blocks[s].stored,
               blocks' = [blocks EXCEPT ![s] = Block(ts, FALSE)]
        PROVE  Store'
    <3>1. /\ blocks' \in [Slots -> BlockRecord]
          /\ \A t \in Slots : ~ blocks'[t].stored => blocks'[t].txs = <<>>
          /\ \A t \in Slots : blocks[t].stored => blocks'[t] = blocks[t]
          /\ \A t \in Slots : t # s => blocks'[t] = blocks[t]
      BY <1>0, <2>3, BlockWritten, Zenon
    <3> QED BY <1>0, <2>1, <2>3, <3>1, Zenon DEF Store, FinTxs
  <2> QED BY <1>6, <2>2, <2>3, OwnBlockWritten, Zenon
<1>7. ASSUME NEW s \in Slots, NEW ts \in PeerBlocks, RecvVerify(s, ts) PROVE Store'
  <2>1. recvPc' = "store" /\ recvSlot' = s /\ s \notin OwnSlots /\ ~ blocks[s].stored
        /\ UNCHANGED <<blocks, applied, finPc, finSlot, finAt>>
    BY <1>7 DEF RecvVerify
  <2> QED BY <1>0, <2>1, Zenon DEF Store, FinTxs
<1>8. ASSUME NEW bad \in PohFlaws, RecvStore(bad) PROVE Store'
  <2>1. recvPc' \in {"idle", "dedup"} /\ recvSlot' \in {1, recvSlot}
        /\ UNCHANGED <<applied, finPc, finSlot, finAt>>
    BY <1>8 DEF RecvStore, RecvReturn
  <2>2. /\ blocks' \in [Slots -> BlockRecord]
        /\ \A t \in Slots : ~ blocks'[t].stored => blocks'[t].txs = <<>>
        /\ \A t \in Slots : blocks[t].stored => blocks'[t] = blocks[t]
    BY <1>0, <1>8, PeerBlockWritten, BlockWritten, Zenon
  <2> QED BY <1>0, <2>1, <2>2, Zenon DEF Store, FinTxs
<1>9. CASE RecvDedup \/ RecvCleanup
  <2>1. recvPc' # "store" /\ recvSlot' \in {1, recvSlot}
        /\ UNCHANGED <<blocks, applied, finPc, finSlot, finAt>>
    BY <1>9 DEF RecvDedup, RecvCleanup, RecvReturn
  <2> QED BY <1>0, <2>1, Zenon DEF Store, FinTxs
<1>10. ASSUME NEW s \in Slots, FinStart(s) PROVE Store'
  <2>1. UNCHANGED <<blocks, applied, recvPc, recvSlot>> /\ blocks[s].stored /\ s \notin applied
        /\ (\/ UNCHANGED <<finPc, finSlot, finAt>>
            \/ finPc' = "apply" /\ finSlot' = s /\ finAt' = 1)
    BY <1>10 DEF FinStart
  <2>2. 1 \in Nat \ {0}
    OBVIOUS
  <2>3. CASE UNCHANGED <<finPc, finSlot, finAt>>
    BY <1>0, <2>1, <2>3, Zenon DEF Store, FinTxs
  <2>4. CASE finPc' = "apply" /\ finSlot' = s /\ finAt' = 1
    BY <1>0, <2>1, <2>2, <2>4, Zenon DEF Store
  <2> QED BY <2>1, <2>3, <2>4, Zenon
<1>11. CASE FinApply
  <2>1. /\ finPc = "apply" /\ finAt <= Len(FinTxs) 
        /\ UNCHANGED <<blocks, applied, recvPc, recvSlot, finSlot>>
        /\ (\/ finPc' = finPc /\ finAt' = finAt + 1
            \/ finPc' = "mark" /\ finAt' = finAt)
    BY <1>11, Zenon DEF FinApply
  <2>2. finAt \in Nat \ {0}
    BY <1>0, <2>1, Zenon DEF Store
  <2>3. finAt' \in Nat \ {0}
    BY <2>1, <2>2
  <2>4. finPc' \in {"apply", "mark"} /\ (finPc' = "mark" => finAt' <= Len(FinTxs))
    BY <2>1, Zenon
  <2>5. FinTxs' = FinTxs
    BY <2>1, Zenon DEF FinTxs
  <2> QED BY <1>0, <2>1, <2>3, <2>4, <2>5, Zenon DEF Store
<1>12. CASE FinMark
  <2>1. /\ finPc = "mark" /\ UNCHANGED <<blocks, applied, recvPc, recvSlot, finSlot>>
        /\ finPc' = "apply" /\ finAt' = finAt + 1
    BY <1>12 DEF FinMark
  <2>2. finAt \in Nat \ {0}
    BY <1>0, <2>1, Zenon DEF Store
  <2>3. finAt' \in Nat \ {0}
    BY <2>1, <2>2
  <2> QED BY <1>0, <2>1, <2>3, Zenon DEF Store
<1>13. CASE FinCommit
  <2>1. finPc = "apply" /\ applied' = applied \cup {finSlot} /\ finPc' = "idle" /\ finSlot' = 1
        /\ UNCHANGED <<blocks, recvPc, recvSlot>>
    BY <1>13, Zenon DEF FinCommit, FinReturn
  <2> QED BY <1>0, <2>1, Zenon DEF Store, FinTxs
<1>14. CASE FinFail
  <2>1. finPc' = "idle" /\ finSlot' = 1 /\ UNCHANGED <<blocks, applied, recvPc, recvSlot>>
    BY <1>14 DEF FinFail, FinReturn
  <2> QED BY <1>0, <2>1, Zenon DEF Store, FinTxs
<1>15. CASE Crash
  <2>1. finPc' = "idle" /\ finSlot' = 1 /\ recvPc' = "idle" /\ recvSlot' = 1
        /\ UNCHANGED <<blocks, applied>>
    BY <1>15 DEF Crash, FinReturn, RecvReturn
  <2> QED BY <1>0, <2>1, Zenon DEF Store, FinTxs
<1>16. CASE UNCHANGED vars
  BY <1>1, <1>16 DEF vars, storageVars
<1> QED BY <1>2, <1>3, <1>4, <1>5, <1>6, <1>7, <1>8, <1>9, <1>10, <1>11, <1>12, <1>13, <1>14,
           <1>15, <1>16 DEF Next

-----------------------------------------------------------------------------
\* The tracker

trackedVars == <<pullPc, batch, trackAt, pendingTxs, recorded, sealed, blocks>>

LEMMA TrackedInductive == Inv /\ [Next]_vars => Tracked'
<1> SUFFICES ASSUME Inv, [Next]_vars PROVE Tracked'
  OBVIOUS
<1> USE DEF trackerVars, pullVars, leaderVars, storeVars
<1>0. Store /\ Carry /\ Tracked
  BY DEF Inv
<1> DEFINE Ok(h) == h \in processing \/ InBlocks(h)
<1>a. CarriedIsTracked <=> \A h \in Carried : Ok(h)
  BY DEF CarriedIsTracked, InBlocks
<1>b. CarriedIsTracked' <=> \A h \in Carried' : h \in processing' \/ InBlocks(h)'
  BY DEF CarriedIsTracked, InBlocks
\* Nothing new is carried or tracked, and nothing that is carried is let go.
<1>1. ASSUME UNCHANGED <<pullPc, batch, trackAt>>, Carried' \subseteq Carried,
             \A h : Ok(h) => h \in processing' \/ InBlocks(h)',
             \A h \in removed' : InBlocks(h)'
      PROVE  Tracked'
  BY <1>0, <1>a, <1>b, <1>1 DEF Tracked
<1>2. ASSUME UNCHANGED trackedVars, UNCHANGED trackerVars PROVE Tracked'
  <2>1. UNCHANGED <<pullPc, batch, trackAt>> /\ Carried' = Carried /\ UNCHANGED <<processing, removed>>
        /\ \A h : InBlocks(h)' = InBlocks(h)
    BY <1>2 DEF trackedVars, Carried, InBlocks
  <2> QED BY <1>0, <1>1, <2>1 DEF Tracked
<1>3. ASSUME NEW a \in Adders, NEW h \in Submitted, AddTxCheck(a, h) PROVE Tracked'
  BY <1>2, <1>3 DEF AddTxCheck, trackedVars
<1>4. ASSUME NEW a \in Adders, AddTxLocked(a) PROVE Tracked'
  BY <1>2, <1>4 DEF AddTxLocked, trackedVars
\* The batch is not carried before it is all tracked.
<1>5. ASSUME UNCHANGED <<pendingTxs, recorded, sealed, blocks, processing>>
      PROVE  CarriedIsTracked' /\ \A h : InBlocks(h)' = InBlocks(h)
  BY <1>0, <1>5 DEF Tracked, CarriedIsTracked, Carried, InBlocks
<1>6. CASE PullLocked
  <2>1. UNCHANGED <<pendingTxs, recorded, sealed, blocks, processing, removed>> /\ pullPc' = "dedup"
    BY <1>6 DEF PullLocked
  <2> QED BY <1>0, <1>5, <2>1, Zenon DEF Tracked
<1>7. CASE PullDedup
  <2>1. UNCHANGED <<pendingTxs, recorded, sealed, blocks, processing, removed>>
        /\ pullPc' = "track" /\ trackAt' = 1
    BY <1>7 DEF PullDedup
  <2>2. 1 \in Nat \ {0} /\ \A i \in 1 .. Len(batch') : ~ (i < 1)
    OBVIOUS
  <2> QED BY <1>0, <1>5, <2>1, <2>2, Zenon DEF Tracked
<1>8. CASE TrackLook
  <2>1. UNCHANGED <<pendingTxs, recorded, sealed, blocks, processing, batch>>
        /\ pullPc = "track" /\ trackAt <= Len(batch)
        /\ (\/ /\ batch[trackAt] \in removed /\ removed' \subseteq removed
               /\ trackAt' = trackAt + 1 /\ pullPc' = "track"
            \/ pullPc' = "store" /\ removed' = removed /\ trackAt' = trackAt)
    BY <1>8 DEF TrackLook
  <2>2. CarriedIsTracked' /\ \A h : InBlocks(h)' = InBlocks(h)
    BY <1>5, <2>1
  <2>3. Len(batch) \in Nat /\ trackAt \in Nat \ {0}
    BY <1>0, <2>1 DEF Carry, Tracked
  <2>4. \A i \in 1 .. Len(batch) : i < trackAt' => Ok(batch[i])
    <3> SUFFICES ASSUME NEW i \in 1 .. Len(batch), i < trackAt' PROVE Ok(batch[i])
      OBVIOUS
    <3>1. CASE i < trackAt
      BY <1>0, <2>1, <3>1 DEF Tracked
    <3>2. CASE ~ (i < trackAt)
      <4>1. i = trackAt /\ batch[trackAt] \in removed
        BY <2>1, <2>3, <3>2
      <4> QED BY <1>0, <4>1 DEF Tracked
    <3> QED BY <3>1, <3>2
  <2>5. \A h \in removed' : InBlocks(h)'
    BY <1>0, <2>1, <2>2 DEF Tracked
  <2>6. trackAt' \in Nat \ {0} /\ (pullPc' = "store" => trackAt' <= Len(batch'))
        /\ pullPc' \in {"track", "store"}
    BY <2>1, <2>3
  <2> QED BY <2>1, <2>2, <2>4, <2>5, <2>6 DEF Tracked
<1>9. CASE TrackStore
  <2>1. UNCHANGED <<pendingTxs, recorded, sealed, blocks, removed, batch>>
        /\ pullPc = "store" /\ pullPc' = "track" /\ trackAt' = trackAt + 1
        /\ processing' = processing \cup {batch[trackAt]}
    BY <1>9 DEF TrackStore
  <2>2. Carried' = Carried /\ \A h : InBlocks(h)' = InBlocks(h)
    BY <2>1 DEF Carried, InBlocks
  <2>3. CarriedIsTracked'
    BY <1>0, <1>a, <1>b, <2>1, <2>2 DEF Tracked
  <2>4. Len(batch) \in Nat /\ trackAt \in Nat \ {0}
    BY <1>0, <2>1 DEF Carry, Tracked
  <2>5. \A i \in 1 .. Len(batch) : i < trackAt' => batch[i] \in processing' \/ InBlocks(batch[i])
    <3> SUFFICES ASSUME NEW i \in 1 .. Len(batch), i < trackAt'
                 PROVE  batch[i] \in processing' \/ InBlocks(batch[i])
      OBVIOUS
    <3>1. i < trackAt \/ i = trackAt
      BY <2>1, <2>4
    <3> QED BY <1>0, <2>1, <3>1 DEF Tracked
  <2> QED BY <1>0, <2>1, <2>2, <2>3, <2>4, <2>5 DEF Tracked
<1>10. CASE Record
  <2> DEFINE queue == pendingTxs \o batch
             size == IF BatchSize < Len(queue) THEN BatchSize ELSE Len(queue)
  <2>1. /\ UNCHANGED <<sealed, blocks, processing, removed>> /\ pullPc' = "idle"
        /\ pullPc = "track" /\ trackAt > Len(batch)
        /\ (\/ recorded' = recorded \o SubSeq(queue, 1, size)
               /\ pendingTxs' = SubSeq(queue, size + 1, Len(queue))
            \/ pendingTxs' = queue /\ recorded' = recorded)
    BY <1>10, Zenon DEF Record
  <2>2. \A h : InBlocks(h)' = InBlocks(h)
    BY <2>1 DEF InBlocks
  <2>3. \A h \in Range(batch) : Ok(h)
    <3>1. batch \in Seq(Txs) /\ trackAt \in Nat
      BY <1>0, <2>1 DEF Carry, Tracked
    <3>2. \A i \in 1 .. Len(batch) : i < trackAt /\ Ok(batch[i])
      BY <1>0, <2>1, <3>1 DEF Tracked
    <3> QED BY <3>1, <3>2 DEF Range
  <2>4. queue \in Seq(Txs) /\ Range(queue) \subseteq Range(pendingTxs) \cup Range(batch)
    BY <1>0, RangeConcat DEF Carry
  <2>5. Len(queue) \in Nat /\ size \in 0 .. Len(queue)
    <3> HIDE DEF queue
    <3> QED BY <2>4, TxFlowAssumption
  <2>6. /\ SubSeq(queue, 1, size) \in Seq(Txs) /\ Range(SubSeq(queue, 1, size)) \subseteq Range(queue)
        /\ Range(SubSeq(queue, size + 1, Len(queue))) \subseteq Range(queue)
    <3> HIDE DEF queue, size
    <3>1. size + 1 \in 1 .. Len(queue) + 1 /\ 1 \in 1 .. Len(queue) + 1 /\ Len(queue) \in 0 .. Len(queue)
      BY <2>5
    <3>2. queue \in Seq(Txs) /\ size \in 0 .. Len(queue)
      BY <2>4, <2>5
    <3>3. SubSeq(queue, 1, size) \in Seq(Txs) /\ Range(SubSeq(queue, 1, size)) \subseteq Range(queue)
      BY <3>1, <3>2, RangeSubSeq, Zenon
    <3>4. Range(SubSeq(queue, size + 1, Len(queue))) \subseteq Range(queue)
      BY <3>1, <3>2, RangeSubSeq, Zenon
    <3> QED BY <3>3, <3>4
  <2>7. Range(recorded \o SubSeq(queue, 1, size)) \subseteq Range(recorded) \cup Range(queue)
    <3> DEFINE head == SubSeq(queue, 1, size)
    <3> HIDE DEF queue, size, head
    <3>1. recorded \in Seq(Txs) /\ head \in Seq(Txs) /\ Range(head) \subseteq Range(queue)
      BY <1>0, <2>6 DEF Carry, head
    <3>2. Range(recorded \o head) \subseteq Range(recorded) \cup Range(head)
      BY <3>1, RangeConcat, Zenon
    <3>3. Range(recorded \o head) \subseteq Range(recorded) \cup Range(queue)
      BY <3>1, <3>2
    <3> QED BY <3>3 DEF head
  <2>8. Range(recorded') \subseteq Range(recorded) \cup Range(queue)
        /\ Range(pendingTxs') \subseteq Range(queue)
    <3> HIDE DEF queue, size
    <3> QED BY <2>1, <2>6, <2>7, Zenon
  <2>9. Range(pendingTxs') \cup Range(recorded') \subseteq
            Range(pendingTxs) \cup Range(recorded) \cup Range(batch)
    <3> HIDE DEF queue
    <3> QED BY <2>4, <2>8
  <2>10. \A h \in Carried' : h \in Carried \/ h \in Range(batch)
    BY <2>1, <2>9 DEF Carried
  <2>11. CarriedIsTracked'
    BY <1>0, <1>a, <1>b, <2>1, <2>2, <2>3, <2>10, Zenon DEF Tracked
  <2> QED BY <1>0, <2>1, <2>2, <2>11, Zenon DEF Tracked
<1>11. CASE LeaderStart
  <2>1. UNCHANGED <<pullPc, batch, trackAt, sealed, blocks, processing, removed>>
        /\ pendingTxs' = <<>> /\ recorded' = <<>>
    BY <1>11 DEF LeaderStart
  <2>2. Range(pendingTxs') = {} /\ Range(recorded') = {}
    BY <2>1, RangeEmpty
  <2>3. Carried' \subseteq Carried
    BY <2>1, <2>2 DEF Carried
  <2>4. \A h : InBlocks(h)' = InBlocks(h)
    BY <2>1 DEF InBlocks
  <2> QED BY <1>0, <1>1, <2>1, <2>3, <2>4 DEF Tracked
<1>12. CASE LeaderEnd
  BY <1>2, <1>12 DEF LeaderEnd, trackedVars
<1>13. CASE SlotEnd
  <2>1. UNCHANGED <<pullPc, batch, trackAt, pendingTxs, blocks, processing, removed>>
        /\ recorded' = <<>>
        /\ sealed' \subseteq sealed \cup {[slot |-> slot, txs |-> recorded]}
    BY <1>13, Zenon DEF SlotEnd
  <2>2. \A b \in sealed' : b \in sealed \/ b.txs = recorded
    BY <2>1
  <2>3. Carried' \subseteq Carried /\ \A h : InBlocks(h)' = InBlocks(h)
    BY <2>1, <2>2, RangeEmpty DEF Carried, InBlocks
  <2> QED BY <1>0, <1>1, <2>1, <2>3, Zenon DEF Tracked
<1>14. CASE StoreOwn
  <2>1. UNCHANGED <<pullPc, batch, trackAt, pendingTxs, recorded, processing, removed>>
        /\ sealed' \subseteq sealed
    BY <1>14 DEF StoreOwn
  <2>2. Carried' \subseteq Carried
    BY <2>1 DEF Carried
  <2>3. \A h : InBlocks(h) => InBlocks(h)'
    <3>1. CASE UNCHANGED blocks
      BY <3>1 DEF InBlocks
    <3>2. ASSUME NEW s \in OwnSlots, NEW ts \in Seq(Txs), s \in Slots, ~ blocks[s].stored,
                 blocks' = [blocks EXCEPT ![s] = Block(ts, FALSE)]
          PROVE  \A h : InBlocks(h) => InBlocks(h)'
      BY <1>0, <3>2, BlockWritten, Zenon
    <3> QED BY <1>14, <3>1, <3>2, OwnBlockWritten, Zenon
  <2> QED BY <1>0, <1>1, <2>1, <2>2, <2>3, Zenon DEF Tracked
<1>15. ASSUME NEW s \in Slots, NEW ts \in PeerBlocks, RecvVerify(s, ts) PROVE Tracked'
  BY <1>2, <1>15 DEF RecvVerify, trackedVars
<1>16. ASSUME NEW bad \in PohFlaws, RecvStore(bad) PROVE Tracked'
  <2>1. UNCHANGED <<pullPc, batch, trackAt, pendingTxs, recorded, sealed, processing, removed>>
    BY <1>16 DEF RecvStore
  <2>2. Carried' = Carried
    BY <2>1 DEF Carried
  <2>3. \A h : InBlocks(h) => InBlocks(h)'
    BY <1>0, <1>16, PeerBlockWritten, BlockWritten, Zenon
  <2> QED BY <1>0, <1>1, <2>1, <2>2, <2>3, Zenon DEF Tracked
<1>17. CASE RecvDedup \/ RecvCleanup
  BY <1>2, <1>17, Zenon DEF RecvDedup, RecvCleanup, trackedVars
<1>18. ASSUME NEW s \in Slots, FinStart(s) PROVE Tracked'
  BY <1>2, <1>18 DEF FinStart, trackedVars
\* A transaction FinalizeBlock takes off the tracker is in the block it applies.
<1>19. finPc # "idle" /\ finAt <= Len(FinTxs) => InBlocks(FinTx)
  <2> SUFFICES ASSUME finPc # "idle", finAt <= Len(FinTxs) PROVE InBlocks(FinTx)
    OBVIOUS
  <2>1. FinTxs \in Seq(Txs) /\ finAt \in Nat \ {0} /\ finSlot \in Slots
    BY <1>0, BlockRecordFields, Zenon DEF Store, FinTxs
  <2>2. FinTx \in Range(FinTxs)
    BY <2>1, InRange, Zenon DEF FinTx
  <2> QED BY <2>1, <2>2 DEF InBlocks, FinTxs
<1>20. CASE FinApply
  <2>1. UNCHANGED trackedVars /\ removed' = removed /\ processing \ {FinTx} \subseteq processing'
        /\ finPc = "apply" /\ finAt <= Len(FinTxs)
    BY <1>20, Zenon DEF FinApply, trackedVars
  <2>2. Carried' = Carried /\ (\A h : InBlocks(h)' = InBlocks(h)) /\ UNCHANGED <<pullPc, batch, trackAt>>
    BY <2>1 DEF trackedVars, Carried, InBlocks
  <2>3. \A h : Ok(h) => h \in processing' \/ InBlocks(h)'
    BY <1>19, <2>1, <2>2
  <2> QED BY <1>0, <1>1, <2>1, <2>2, <2>3, Zenon DEF Tracked
<1>21. CASE FinMark
  <2>1. UNCHANGED trackedVars /\ removed' = removed \cup {FinTx} /\ processing' = processing
        /\ finPc = "mark"
    BY <1>21 DEF FinMark, trackedVars
  <2>2. Carried' = Carried /\ (\A h : InBlocks(h)' = InBlocks(h)) /\ UNCHANGED <<pullPc, batch, trackAt>>
    BY <2>1 DEF trackedVars, Carried, InBlocks
  <2>3. finAt <= Len(FinTxs)
    BY <1>0, <2>1, Zenon DEF Store
  <2>4. \A h \in removed' : InBlocks(h)'
    BY <1>0, <1>19, <2>1, <2>2, <2>3 DEF Tracked
  <2> QED BY <1>1, <2>1, <2>2, <2>4
<1>22. CASE FinCommit \/ FinFail
  BY <1>2, <1>22, Zenon DEF FinCommit, FinFail, trackedVars
<1>23. CASE Crash
  <2>1. UNCHANGED blocks /\ removed' = {} /\ pullPc' = "idle" /\ pendingTxs' = <<>>
        /\ recorded' = <<>> /\ sealed' = {}
    BY <1>23 DEF Crash
  <2>2. Carried' = {}
    BY <2>1, RangeEmpty DEF Carried
  <2> QED BY <1>b, <2>1, <2>2 DEF Tracked
<1>24. CASE UNCHANGED vars
  BY <1>2, <1>24, Zenon DEF vars, trackedVars
<1> QED BY <1>3, <1>4, <1>6, <1>7, <1>8, <1>9, <1>10, <1>11, <1>12, <1>13, <1>14, <1>15, <1>16,
           <1>17, <1>18, <1>20, <1>21, <1>22, <1>23, <1>24 DEF Next

-----------------------------------------------------------------------------
\* Cursors, counters and caches

Progress ==
    /\ netCurrentSlot \in Nat /\ dedup \subseteq TxKeys
    /\ processing \subseteq Txs /\ removed \subseteq Txs
    /\ trackAt \in 1 .. Len(batch) + 1
    /\ pullPc \in {"idle", "dedup"} => trackAt = 1
    /\ slot \in 2 .. MaxSlot /\ ready \in BOOLEAN
    /\ recvPc \in {"idle", "store", "dedup", "cleanup"}
    /\ 1 \in applied
    /\ rounds \in 0 .. MaxRounds /\ crashes \in 0 .. MaxCrashes

progressVars == <<netCurrentSlot, dedup, processing, removed, trackAt, batch, pullPc, slot, ready,
                  recvPc, applied, rounds, crashes>>

LEMMA RangeIn == ASSUME NEW S, NEW s \in Seq(S) PROVE Range(s) \subseteq S
<1>1. Len(s) \in Nat /\ DOMAIN s = 1 .. Len(s) /\ \A i \in 1 .. Len(s) : s[i] \in S
  OBVIOUS
<1> QED BY <1>1 DEF Range

LEMMA KeysIn == ASSUME NEW S \in SUBSET Txs PROVE Keys(S) \subseteq TxKeys
BY DEF Keys, TxKeys

\* The latest finalized slot, which a restarted node goes on from, is a slot.
LEMMA LatestIsSlot == ASSUME Store, 1 \in applied PROVE LatestFinalizedSlot \in Slots
<1>1. MaxSlot \in Nat /\ applied \in SUBSET (0 .. MaxSlot) /\ applied \subseteq Slots
  <2>1. MaxSlot \in Nat
    BY TxFlowAssumption, Zenon
  <2>2. Slots \subseteq 0 .. MaxSlot
    BY <2>1 DEF Slots
  <2>3. applied \subseteq Slots
    BY Zenon DEF Store
  <2> QED BY <2>1, <2>2, <2>3, Zenon
<1>2. \E m \in applied : \A k \in applied : k <= m
  BY <1>1, Greatest, Zenon
<1>3. LatestFinalizedSlot \in applied
  BY <1>2, Zenon DEF LatestFinalizedSlot
<1> QED BY <1>1, <1>3

\* What the store holds are transactions, and so is what a restart loads of it.
LEMMA StoredAreTxs == Store => Stored \subseteq Txs
<1> SUFFICES ASSUME Store, NEW h \in Stored PROVE h \in Txs
  OBVIOUS
<1>1. PICK s \in Slots : h \in Range(blocks[s].txs)
  BY Zenon DEF Stored
<1>2. blocks[s].txs \in Seq(Txs)
  BY BlockRecordFields, Zenon DEF Store
<1> QED BY <1>1, <1>2, RangeIn

LEMMA LoadedAreTxs == Store => LoadedHashes \subseteq Txs
<1>1. LoadedHashes \subseteq Stored
  BY Zenon DEF LoadedHashes, Stored
<1> QED BY <1>1, StoredAreTxs

\* The transaction FinalizeBlock is at is one of the block.
LEMMA FinTxInBlock ==
    ASSUME Store, finPc # "idle", finAt <= Len(FinTxs)
    PROVE  FinTx \in Range(FinTxs) /\ FinTx \in Txs
<1>1. FinTxs \in Seq(Txs) /\ finAt \in Nat \ {0}
  BY BlockRecordFields, Zenon DEF Store, FinTxs
<1> QED BY <1>1, InRange, Zenon DEF FinTx

LEMMA ProgressInductive == Inv /\ Progress /\ [Next]_vars => Progress'
<1> SUFFICES ASSUME Inv, Progress, [Next]_vars PROVE Progress'
  OBVIOUS
<1> USE DEF trackerVars, pullVars, leaderVars, recvVars, storeVars
<1>0. Store /\ Carry /\ Tracked /\ Progress
  BY DEF Inv
<1>1. CASE UNCHANGED progressVars
  BY <1>0, <1>1 DEF progressVars, Progress
<1>2. ASSUME NEW a \in Adders, NEW h \in Submitted, AddTxCheck(a, h) PROVE Progress'
  BY <1>1, <1>2 DEF AddTxCheck, progressVars
<1>3. ASSUME NEW a \in Adders, AddTxLocked(a) PROVE Progress'
  BY <1>1, <1>3 DEF AddTxLocked, progressVars
<1>4. CASE PullLocked
  <2>1. /\ UNCHANGED <<netCurrentSlot, dedup, processing, removed, trackAt, slot, ready, recvPc,
                       applied, crashes>>
        /\ pullPc = "idle" /\ pullPc' = "dedup" /\ rounds < MaxRounds /\ rounds' = rounds + 1
    BY <1>4 DEF PullLocked
  <2>2. batch' \in Seq(Txs)
    BY CarryInductive DEF Carry
  <2>3. trackAt' = 1 /\ trackAt' \in 1 .. Len(batch') + 1
    BY <1>0, <2>1, <2>2 DEF Progress
  <2>4. rounds' \in 0 .. MaxRounds
    BY <1>0, <2>1, TxFlowAssumption DEF Progress
  <2> QED BY <1>0, <2>1, <2>3, <2>4, Zenon DEF Progress
<1>5. CASE PullDedup
  <2>1. /\ UNCHANGED <<netCurrentSlot, processing, removed, batch, slot, ready, recvPc, applied,
                       rounds, crashes>>
        /\ pullPc' = "track" /\ trackAt' = 1 /\ dedup' = dedup \cup Keys(Range(batch))
    BY <1>5 DEF PullDedup, DedupAdd
  <2>2. Keys(Range(batch)) \subseteq TxKeys
    BY <1>0, RangeIn, KeysIn DEF Carry
  <2>3. dedup' \subseteq TxKeys
    BY <1>0, <2>1, <2>2 DEF Progress
  <2>4. trackAt' \in 1 .. Len(batch') + 1
    BY <1>0, <2>1 DEF Carry
  <2> QED BY <1>0, <2>1, <2>3, <2>4 DEF Progress
<1>6. CASE TrackLook \/ TrackStore
  <2>1. /\ UNCHANGED <<netCurrentSlot, dedup, batch, slot, ready, recvPc, applied, rounds, crashes>>
        /\ pullPc \in {"track", "store"} /\ pullPc' \in {"track", "store"}
        /\ trackAt <= Len(batch) /\ trackAt' \in {trackAt, trackAt + 1}
        /\ removed' \subseteq removed /\ processing' \subseteq processing \cup {batch[trackAt]}
    BY <1>0, <1>6, Zenon DEF TrackLook, TrackStore, Tracked
  <2>2. Len(batch) \in Nat /\ trackAt \in Nat \ {0} /\ batch \in Seq(Txs)
    BY <1>0 DEF Carry, Progress
  <2>3. batch[trackAt] \in Txs
    BY <2>1, <2>2, InRange, Zenon
  <2>4. trackAt' \in 1 .. Len(batch') + 1
    BY <2>1, <2>2
  <2>5. processing' \subseteq Txs /\ removed' \subseteq Txs
    BY <1>0, <2>1, <2>3 DEF Progress
  <2> QED BY <1>0, <2>1, <2>4, <2>5, Zenon DEF Progress
<1>7. CASE Record
  <2>1. /\ UNCHANGED <<netCurrentSlot, dedup, processing, removed, slot, ready, recvPc, applied,
                       rounds, crashes>>
        /\ batch' = <<>> /\ trackAt' = 1
    BY <1>7 DEF Record
  <2>2. trackAt' \in 1 .. Len(batch') + 1
    BY <2>1
  <2> QED BY <1>0, <2>1, <2>2 DEF Progress
<1>8. CASE LeaderStart \/ LeaderEnd
  <2>1. /\ UNCHANGED <<netCurrentSlot, dedup, processing, removed, batch, trackAt, pullPc, slot,
                       recvPc, applied, rounds, crashes>>
        /\ ready' \in BOOLEAN
    BY <1>8, Zenon DEF LeaderStart, LeaderEnd
  <2> QED BY <1>0, <2>1, Zenon DEF Progress
<1>9. CASE SlotEnd
  <2>1. /\ UNCHANGED <<netCurrentSlot, dedup, processing, removed, batch, trackAt, pullPc, ready,
                       recvPc, applied, rounds, crashes>>
        /\ slot < MaxSlot /\ slot' = slot + 1
    BY <1>9, Zenon DEF SlotEnd
  <2>2. slot' \in 2 .. MaxSlot
    <3>1. MaxSlot \in Nat /\ slot \in 2 .. MaxSlot
      BY <1>0, TxFlowAssumption, Zenon DEF Progress
    <3> QED BY <2>1, <3>1
  <2> QED BY <1>0, <2>1, <2>2, Zenon DEF Progress
<1>10. CASE StoreOwn
  BY <1>1, <1>10, Zenon DEF StoreOwn, progressVars
<1>11. ASSUME NEW s \in Slots, NEW ts \in PeerBlocks, RecvVerify(s, ts) PROVE Progress'
  <2>1. /\ UNCHANGED <<netCurrentSlot, dedup, processing, removed, batch, trackAt, pullPc, slot,
                       ready, applied, rounds, crashes>>
        /\ recvPc' = "store"
    BY <1>11, Zenon DEF RecvVerify
  <2> QED BY <1>0, <2>1, Zenon DEF Progress
<1>12. ASSUME NEW bad \in PohFlaws, RecvStore(bad) PROVE Progress'
  <2>1. /\ UNCHANGED <<netCurrentSlot, dedup, processing, removed, batch, trackAt, pullPc, slot,
                       ready, applied, rounds, crashes>>
        /\ recvPc' \in {"idle", "dedup"}
    BY <1>12 DEF RecvStore, RecvReturn
  <2> QED BY <1>0, <2>1, Zenon DEF Progress
<1>13. CASE RecvDedup
  <2>1. /\ UNCHANGED <<netCurrentSlot, processing, removed, batch, trackAt, pullPc, slot, ready,
                       applied, rounds, crashes>>
        /\ recvPc' = "cleanup" /\ dedup' = dedup \cup Keys(Range(recvTxs))
    BY <1>13 DEF RecvDedup, DedupAdd
  <2>2. Keys(Range(recvTxs)) \subseteq TxKeys
    BY <1>0, RangeIn, KeysIn DEF Carry
  <2>3. dedup' \subseteq TxKeys
    BY <1>0, <2>1, <2>2 DEF Progress
  <2> QED BY <1>0, <2>1, <2>3, Zenon DEF Progress
<1>14. CASE RecvCleanup
  <2>1. /\ UNCHANGED <<netCurrentSlot, dedup, processing, removed, batch, trackAt, pullPc, slot,
                       ready, applied, rounds, crashes>>
        /\ recvPc' = "idle"
    BY <1>14 DEF RecvCleanup, RecvReturn
  <2> QED BY <1>0, <2>1 DEF Progress
<1>15. ASSUME NEW s \in Slots, FinStart(s) PROVE Progress'
  <2>1. /\ UNCHANGED <<dedup, processing, removed, batch, trackAt, pullPc, slot, ready, recvPc,
                       applied, rounds, crashes>>
        /\ netCurrentSlot' \in {s, netCurrentSlot}
    BY <1>15, Zenon DEF FinStart, SetCurrentSlot
  <2>2. netCurrentSlot' \in Nat
    <3>1. s \in Nat
      BY DEF Slots
    <3> QED BY <1>0, <2>1, <3>1, Zenon DEF Progress
  <2> QED BY <1>0, <2>1, <2>2 DEF Progress
<1>16. CASE FinApply \/ FinMark
  <2>1. /\ UNCHANGED <<netCurrentSlot, dedup, batch, trackAt, pullPc, slot, ready, recvPc, applied,
                       rounds, crashes>>
        /\ processing' \subseteq processing
        /\ ((finPc = "mark" /\ removed' = removed \cup {FinTx}) \/ removed' = removed)
    BY <1>16, Zenon DEF FinApply, FinMark
  <2>2. finPc = "mark" => FinTx \in Txs
    BY <1>0, FinTxInBlock, Zenon DEF Store
  <2>3. processing' \subseteq Txs /\ removed' \subseteq Txs
    BY <1>0, <2>1, <2>2, Zenon DEF Progress
  <2> QED BY <1>0, <2>1, <2>3, Zenon DEF Progress
<1>17. CASE FinCommit \/ FinFail
  <2>1. /\ UNCHANGED <<netCurrentSlot, dedup, processing, removed, batch, trackAt, pullPc, slot,
                       ready, recvPc, rounds, crashes>>
        /\ applied \subseteq applied'
    BY <1>17, Zenon DEF FinCommit, FinFail
  <2> QED BY <1>0, <2>1 DEF Progress
<1>18. CASE Crash
  <2>1. /\ netCurrentSlot' = LatestFinalizedSlot /\ dedup' = Keys(LoadedHashes)
        /\ processing' = {} /\ removed' = {} /\ batch' = <<>> /\ trackAt' = 1 /\ ready' = FALSE
        /\ slot' = IF LatestFinalizedSlot < MaxSlot THEN LatestFinalizedSlot + 1 ELSE MaxSlot
        /\ recvPc' = "idle" /\ UNCHANGED <<applied, rounds>>
        /\ crashes < MaxCrashes /\ crashes' = crashes + 1
    BY <1>18, Zenon DEF Crash, RecvReturn
  <2>2. LatestFinalizedSlot \in Slots
    BY <1>0, LatestIsSlot DEF Progress
  <2>3. netCurrentSlot' \in Nat /\ slot' \in 2 .. MaxSlot
    BY <2>1, <2>2, TxFlowAssumption DEF Slots
  <2>4. dedup' \subseteq TxKeys
    BY <1>0, <2>1, LoadedAreTxs, KeysIn
  <2>5. trackAt' \in 1 .. Len(batch') + 1
    BY <2>1
  <2>6. crashes' \in 0 .. MaxCrashes
    <3>1. MaxCrashes \in Nat /\ crashes \in 0 .. MaxCrashes
      BY <1>0, TxFlowAssumption, Zenon DEF Progress
    <3> QED BY <2>1, <3>1
  <2> QED BY <1>0, <2>1, <2>3, <2>4, <2>5, <2>6, Zenon DEF Progress
<1>19. CASE UNCHANGED vars
  BY <1>1, <1>19, Zenon DEF vars, progressVars
<1> QED BY Zenon, <1>2, <1>3, <1>4, <1>5, <1>6, <1>7, <1>8, <1>9, <1>10, <1>11, <1>12, <1>13, <1>14,
           <1>15, <1>16, <1>17, <1>18, <1>19 DEF Next

-----------------------------------------------------------------------------
\* Versions and outcomes

Results == [latest : Versions, meta : Outcomes]

LEMMA NextContentType ==
    ASSUME NEW res \in Results, NEW h \in Txs
    PROVE  NextContent(res, h) \in Results
<1>1. res.latest \in Versions /\ res.meta \in Outcomes
  BY DEF Results
<1>2. NewVersion(res.latest, h) \in Versions
  BY <1>1, Zenon DEF NewVersion, Versions
<1>3. \A ok : [res.meta EXCEPT ![h] = Outcome(ok)] \in Outcomes
  BY <1>1 DEF Outcome, Outcomes
<1> QED BY <1>1, <1>2, <1>3 DEF NextContent, Results

\* The loop over the contents: f is the results after each of its rounds.
IsLoop(f) ==
    f = [i \in 0 .. Len(FinTxs) |->
            IF i = 0 THEN [latest |-> latest, meta |-> workMeta]
            ELSE NextContent(f[i - 1], FinTxs[i])]

LEMMA FinContentsLoop ==
    ASSUME FinTxs \in Seq(Txs), latest \in Versions, workMeta \in Outcomes
    PROVE  \E f \in [0 .. Len(FinTxs) -> Results] :
             IsLoop(f) /\ FinContents = f[Len(FinTxs)]
<1> DEFINE n == Len(FinTxs)
           I == 1 .. n
           first == [latest |-> latest, meta |-> workMeta]
           F == [p \in I \X Results |-> NextContent(p[2], FinTxs[p[1]])]
           g == CHOOSE f : IsLoop(f)
<1>1. n \in Nat /\ first \in Results /\ \A i \in I : FinTxs[i] \in Txs
  BY DEF Results
<1>2. F \in [I \X Results -> Results]
      /\ \A i \in I, v \in Results : F[<<i, v>>] = NextContent(v, FinTxs[i])
  BY <1>1, NextContentType, Zenon
<1>3. \E f : IsLoop(f)
  <2> HIDE DEF F, first
  <2>1. PICK f \in [0 .. n -> Results] : Iterates(f, first, F, n)
    BY <1>1, <1>2, Recursion, Zenon
  <2>2. \A i \in 0 .. n : i = 0 \/ (i \in I /\ i - 1 \in 0 .. n)
    BY <1>1
  <2>3. \A i \in 0 .. n : f[i] = IF i = 0 THEN first ELSE NextContent(f[i - 1], FinTxs[i])
    BY <1>2, <2>1, <2>2, Zenon DEF Iterates
  <2> QED BY <2>3, Zenon DEF IsLoop, first
<1>4. IsLoop(g) /\ FinContents = g[n]
  <2>1. FinContents = g[n]
    BY Zenon DEF FinContents, IsLoop
  <2> QED BY <1>3, <2>1
<1> HIDE DEF g
<1>5. \A i \in 0 .. n : g[i] \in Results
  <2> DEFINE Bad == {i \in 0 .. n : g[i] \notin Results}
  <2> SUFFICES ASSUME Bad # {} PROVE FALSE
    OBVIOUS
  <2>1. Bad \in SUBSET Nat
    OBVIOUS
  <2>2. PICK m \in Bad : \A k \in Bad : m <= k
    <3> HIDE DEF Bad
    <3> QED BY <2>1, Least
  <2>3. m \in 0 .. n /\ g[m] \notin Results
    OBVIOUS
  <2>4. g[m] = IF m = 0 THEN first ELSE NextContent(g[m - 1], FinTxs[m])
    BY <1>4, <2>3 DEF IsLoop
  <2>5. m # 0
    BY <1>1, <2>3, <2>4, Zenon
  <2>6. m - 1 \in 0 .. n /\ ~ (m <= m - 1) /\ m \in I
    BY <1>1, <2>3, <2>5, Previous, Zenon
  <2>7. g[m - 1] \in Results
    <3>1. m - 1 \notin Bad
      <4> HIDE DEF Bad
      <4> QED BY <2>2, <2>6
    <3> QED BY <2>6, <3>1
  <2> QED BY <1>1, <2>3, <2>4, <2>5, <2>6, <2>7, NextContentType, Zenon
<1>6. g = [i \in 0 .. n |-> g[i]]
  BY <1>4 DEF IsLoop
<1>7. g \in [0 .. n -> Results]
  BY <1>5, <1>6
<1> QED BY <1>4, <1>7

\* What FinalizeBlock works on and where it is; only transfers get an outcome
\* before the contents are looked at.
Finalizing ==
    /\ latest \in Versions /\ meta \in Outcomes /\ workMeta \in Outcomes
    /\ finPc = "idle" => finSlot = 1 /\ finAt = 1
    /\ finPc # "idle" => finAt <= Len(FinTxs) + 1
    /\ finPc # "idle" => \A h \in Txs : ~ Transfer(h) => workMeta[h] = meta[h]

finalizingVars == <<latest, meta, finVars>>

LEMMA FinReturnTypes ==
    ASSUME Finalizing, FinReturn, UNCHANGED <<latest, meta>>
    PROVE  Finalizing'
BY DEF Finalizing, FinReturn, Outcomes

LEMMA FinalizingInductive == Inv /\ Finalizing /\ [Next]_vars => Finalizing'
<1> SUFFICES ASSUME Inv, Finalizing, [Next]_vars PROVE Finalizing'
  OBVIOUS
<1> USE DEF storeVars, finVars
<1>0. Store /\ Finalizing
  BY DEF Inv
<1>1. ASSUME UNCHANGED finalizingVars, finPc # "idle" => FinTxs' = FinTxs PROVE Finalizing'
  BY <1>0, <1>1 DEF finalizingVars, Finalizing
<1>2. ASSUME NEW a \in Adders, NEW h \in Submitted, AddTxCheck(a, h) PROVE Finalizing'
  BY <1>1, <1>2 DEF AddTxCheck, finalizingVars, FinTxs
<1>3. ASSUME NEW a \in Adders, AddTxLocked(a) PROVE Finalizing'
  BY <1>1, <1>3 DEF AddTxLocked, finalizingVars, FinTxs
<1>4. CASE PullLocked \/ PullDedup \/ TrackLook \/ TrackStore \/ Record
  BY <1>1, <1>4, Zenon DEF PullLocked, PullDedup, TrackLook, TrackStore, Record, finalizingVars, FinTxs
<1>5. CASE LeaderStart \/ LeaderEnd \/ SlotEnd
  BY <1>1, <1>5, Zenon DEF LeaderStart, LeaderEnd, SlotEnd, finalizingVars, FinTxs
<1>6. CASE StoreOwn
  <2>1. UNCHANGED finalizingVars /\ UNCHANGED finSlot
    BY <1>6 DEF StoreOwn, finalizingVars
  <2>2. finPc # "idle" => FinTxs' = FinTxs
    BY <1>6, <2>1, BlockBeingApplied
  <2> QED BY <1>1, <2>1, <2>2
<1>7. ASSUME NEW s \in Slots, NEW ts \in PeerBlocks, RecvVerify(s, ts) PROVE Finalizing'
  BY <1>1, <1>7 DEF RecvVerify, finalizingVars, FinTxs
<1>8. ASSUME NEW bad \in PohFlaws, RecvStore(bad) PROVE Finalizing'
  <2>1. UNCHANGED finalizingVars /\ UNCHANGED finSlot
    BY <1>8 DEF RecvStore, finalizingVars
  <2>2. finPc # "idle" => FinTxs' = FinTxs
    BY <1>8, <2>1, BlockBeingApplied
  <2> QED BY <1>1, <2>1, <2>2
<1>9. CASE RecvDedup \/ RecvCleanup
  BY <1>1, <1>9, Zenon DEF RecvDedup, RecvCleanup, finalizingVars, FinTxs
<1>10. ASSUME NEW s \in Slots, FinStart(s) PROVE Finalizing'
  <2>1. UNCHANGED <<latest, meta, blocks>> /\ finPc = "idle"
        /\ (\/ UNCHANGED finVars
            \/ finPc' = "apply" /\ finSlot' = s /\ finAt' = 1 /\ workMeta' = meta)
    BY <1>10, Zenon DEF FinStart
  <2>2. CASE UNCHANGED finVars
    BY <1>0, <2>1, <2>2, Zenon DEF Finalizing
  <2>3. CASE finPc' = "apply" /\ finSlot' = s /\ finAt' = 1 /\ workMeta' = meta
    <3>1. FinTxs' = blocks[s].txs /\ blocks[s].txs \in Seq(Txs)
      BY <1>0, <2>1, <2>3, BlockRecordFields, Zenon DEF Store, FinTxs
    <3>2. finAt' <= Len(FinTxs') + 1
      BY <2>3, <3>1
    <3> QED BY <1>0, <2>1, <2>3, <3>2, Zenon DEF Finalizing
  <2> QED BY <2>1, <2>2, <2>3
<1>11. CASE FinApply
  <2>1. /\ finPc = "apply" /\ finAt <= Len(FinTxs) /\ finPc' # "idle"
        /\ UNCHANGED <<latest, meta, blocks, finSlot>> /\ finAt' \in {finAt, finAt + 1}
        /\ (\/ workMeta' = workMeta
            \/ Transfer(FinTx) /\ \E ok : workMeta' = [workMeta EXCEPT ![FinTx] = Outcome(ok)])
    BY <1>11, Zenon DEF FinApply
  <2>2. FinTxs' = FinTxs /\ FinTxs \in Seq(Txs) /\ finAt \in Nat
    BY <1>0, <2>1, BlockRecordFields, Zenon DEF Store, FinTxs
  <2>3. finAt' <= Len(FinTxs') + 1
    BY <2>1, <2>2
  <2>4. workMeta \in Outcomes /\ FinTx \in Txs /\ \A h \in Txs : ~ Transfer(h) => workMeta[h] = meta[h]
    BY <1>0, <2>1, FinTxInBlock DEF Finalizing
  <2>5. workMeta' \in Outcomes /\ \A h \in Txs : ~ Transfer(h) => workMeta'[h] = meta[h]
    <3>1. CASE workMeta' = workMeta
      BY <2>4, <3>1
    <3>2. ASSUME Transfer(FinTx), NEW ok, workMeta' = [workMeta EXCEPT ![FinTx] = Outcome(ok)]
          PROVE  workMeta' \in Outcomes /\ \A h \in Txs : ~ Transfer(h) => workMeta'[h] = meta[h]
      <4>1. Outcome(ok) \in {"none", "success", "failed"}
        BY DEF Outcome
      <4>2. workMeta' \in Outcomes
        BY <2>4, <3>2, <4>1 DEF Outcomes
      <4>3. \A h \in Txs : h # FinTx => workMeta'[h] = workMeta[h]
        BY <2>4, <3>2 DEF Outcomes
      <4> QED BY <2>4, <3>2, <4>2, <4>3
    <3> QED BY <2>1, <3>1, <3>2
  <2> QED BY <1>0, <2>1, <2>3, <2>5, Zenon DEF Finalizing
<1>12. CASE FinMark
  <2>1. /\ finPc = "mark" /\ finPc' = "apply" /\ finAt' = finAt + 1
        /\ UNCHANGED <<latest, meta, blocks, finSlot, workMeta>>
    BY <1>12 DEF FinMark
  <2>2. FinTxs' = FinTxs /\ FinTxs \in Seq(Txs) /\ finAt \in Nat /\ finAt <= Len(FinTxs)
    BY <1>0, <2>1, BlockRecordFields, Zenon DEF Store, FinTxs
  <2>3. finAt' <= Len(FinTxs') + 1
    BY <2>1, <2>2
  <2> QED BY <1>0, <2>1, <2>3 DEF Finalizing
<1>13. CASE FinCommit
  <2>1. finPc = "apply" /\ latest' = FinContents.latest /\ meta' = FinContents.meta /\ FinReturn
    BY <1>13, Zenon DEF FinCommit
  <2>2. FinTxs \in Seq(Txs) /\ latest \in Versions /\ workMeta \in Outcomes
    BY <1>0, <2>1, BlockRecordFields, Zenon DEF Store, Finalizing, FinTxs
  <2>3. FinContents \in Results
    <3>1. PICK f \in [0 .. Len(FinTxs) -> Results] : IsLoop(f) /\ FinContents = f[Len(FinTxs)]
      BY <2>2, FinContentsLoop
    <3>2. Len(FinTxs) \in 0 .. Len(FinTxs)
      BY <2>2
    <3> QED BY <3>1, <3>2
  <2>4. latest' \in Versions /\ meta' \in Outcomes
    BY <2>1, <2>3 DEF Results
  <2> QED BY <2>1, <2>4, Zenon DEF Finalizing, FinReturn, Outcomes
<1>14. CASE FinFail \/ Crash
  <2>1. FinReturn /\ UNCHANGED <<latest, meta>>
    BY <1>14, Zenon DEF FinFail, Crash
  <2> QED BY <1>0, <2>1, FinReturnTypes
<1>15. CASE UNCHANGED vars
  BY <1>1, <1>15 DEF vars, finalizingVars, FinTxs
<1> QED BY <1>2, <1>3, <1>4, <1>5, <1>6, <1>7, <1>8, <1>9, <1>10, <1>11, <1>12, <1>13, <1>14,
           <1>15 DEF Next

-----------------------------------------------------------------------------
\* Theorems

LEMMA InvInductive == Inv /\ [Next]_vars => Inv'
BY PoolInductive, CarryInductive, StoreInductive, TrackedInductive DEF Inv

LEMMA Invariant == Spec => []Inv
BY InitInv, InvInductive, PTL DEF Spec

\* What PullBatch handed to the leader is found by its hash until a block has it,
\* in every interleaving of TrackProcessingTransaction and RemoveTransaction.
THEOREM CarriedAlwaysTracked == Spec => []CarriedIsTracked
<1>1. Inv => CarriedIsTracked
  BY DEF Inv, Tracked
<1> QED BY <1>1, Invariant, PTL
=============================================================================
