--------------------------- MODULE ContentProofs ----------------------------
(***************************************************************************)
(* The versions of a content form one line, and the types of TxFlow, for   *)
(* every number of accounts, transactions and slots.                       *)
(***************************************************************************)
EXTENDS LedgerProofs

-----------------------------------------------------------------------------
\* Versions of a content

\* The accepted versions, by the outcomes m, that claim x as their root
Accepted(m, x) ==
    {h \in Txs : ~ Transfer(h) /\ ~ IsRoot(h) /\ Tx[h].root = x /\ m[h] = "success"}

\* C holds x and versions that follow one another from x to top: each has a parent
\* in C, no two have the same parent, and top is nobody's parent.
Chain(x, C, top) ==
    /\ x \in C /\ top \in C
    /\ \A h \in C \ {x} : Tx[h].parent \in C \ {top}
    /\ \A g, h \in C \ {x} : Tx[g].parent = Tx[h].parent => g = h

NoVersions(x, v, m) == v[x] = NoTx /\ Accepted(m, x) = {}

OneLine(x, v, m) ==
    IsRoot(x) /\ \E C \in SUBSET Txs : Chain(x, C, v[x]) /\ Accepted(m, x) \subseteq C

RootsKnown(m) ==
    \A h \in Txs : ~ Transfer(h) /\ ~ IsRoot(h) /\ m[h] = "success" => Tx[h].root \in Txs

\* Every content that was applied only once has one line of accepted versions,
\* which ends at the latest one.
Lines ==
    /\ RootsKnown(meta)
    /\ \A x \in Txs :
         \/ timesApplied[Key(x)] > 1
         \/ NoVersions(x, latest, meta)
         \/ timesApplied[Key(x)] >= 1 /\ OneLine(x, latest, meta)

\* A version that is refused leaves the line of its content as it is.
LEMMA RefusedKeepsLine ==
    ASSUME NEW m \in Outcomes, NEW h \in Txs, NEW x
    PROVE  Accepted([m EXCEPT ![h] = "failed"], x) \subseteq Accepted(m, x)
<1>1. \A g \in Txs : g # h => [m EXCEPT ![h] = "failed"][g] = m[g]
  BY DEF Outcomes
<1>2. [m EXCEPT ![h] = "failed"][h] = "failed"
  BY DEF Outcomes
<1> QED BY <1>1, <1>2, Zenon DEF Accepted

\* A version whose parent is the top of the chain becomes its new top.
LEMMA ChainGrows ==
    ASSUME NEW x \in Txs, NEW C \in SUBSET Txs, NEW top, Chain(x, C, top),
           NEW h \in Txs, h # x, Tx[h].parent = top
    PROVE  Chain(x, C \cup {h}, h)
<1>1. h \notin C
  BY DEF Chain
<1>2. x \in C \cup {h} /\ h \in C \cup {h}
  BY DEF Chain
<1>3. ASSUME NEW g \in (C \cup {h}) \ {x} PROVE Tx[g].parent \in (C \cup {h}) \ {h}
  <2>1. CASE g = h
    BY <1>1, <2>1, Zenon DEF Chain
  <2>2. CASE g # h
    BY <1>1, <2>2, Zenon DEF Chain
  <2> QED BY <2>1, <2>2, Zenon
<1>4. ASSUME NEW f \in (C \cup {h}) \ {x}, NEW g \in (C \cup {h}) \ {x},
             Tx[f].parent = Tx[g].parent
      PROVE  f = g
  <2>1. CASE f = h \/ g = h
    BY <1>4, <2>1, Zenon DEF Chain
  <2>2. CASE f # h /\ g # h
    BY <1>4, <2>2, Zenon DEF Chain
  <2> QED BY <2>1, <2>2
<1> QED BY <1>2, <1>3, <1>4, Zenon DEF Chain

\* The root alone is a chain.
LEMMA RootIsChain == ASSUME NEW x PROVE Chain(x, {x}, x)
BY DEF Chain

\* One round of the loop, for a content that is not a root: whatever h is, a content
\* x keeps its line, or stays without versions.
LEMMA VersionKeepsLines ==
    ASSUME Store, NEW res \in Results, NEW h \in Txs, ~ Transfer(h), ~ IsRoot(h), NEW x \in Txs
    PROVE  LET next == NextContent(res, h)
           IN  /\ NoVersions(x, res.latest, res.meta) => NoVersions(x, next.latest, next.meta)
               /\ OneLine(x, res.latest, res.meta) => OneLine(x, next.latest, next.meta)
<1> DEFINE v == res.latest
           m == res.meta
           r == Tx[h].root
           ok == ValidContent(h, Stored, v)
           next == NextContent(res, h)
<1>1. v \in Versions /\ m \in Outcomes
  BY DEF Results
<1>2. next.latest = (IF ok THEN NewVersion(v, h) ELSE v)
      /\ next.meta = [m EXCEPT ![h] = Outcome(ok)]
  BY Zenon DEF NextContent
<1>3. CASE ~ ok
  <2>1. next.latest = v /\ next.meta = [m EXCEPT ![h] = "failed"]
    BY <1>2, <1>3, Zenon DEF Outcome
  <2> HIDE DEF next, v, m, ok
  <2>2. Accepted(next.meta, x) \subseteq Accepted(m, x)
    BY <1>1, <2>1, RefusedKeepsLine, Zenon
  <2>3. NoVersions(x, v, m) => NoVersions(x, next.latest, next.meta)
    BY <2>1, <2>2, Zenon DEF NoVersions
  <2>4. OneLine(x, v, m) => OneLine(x, next.latest, next.meta)
    BY <2>1, <2>2, Zenon DEF OneLine
  <2> QED BY <2>3, <2>4, Zenon DEF next, v, m
<1>4. CASE ok
  <2>1. next.latest = [v EXCEPT ![r] = h] /\ next.meta = [m EXCEPT ![h] = "success"]
    BY <1>2, <1>4, Zenon DEF Outcome, NewVersion
  <2>2. Tx[h].parent \in Stored /\ r \in Txs /\ v[r] = Tx[h].parent
    BY <1>4, Zenon DEF ValidContent
  <2>3. Stored \subseteq Txs
    BY StoredAreTxs
  <2> HIDE DEF next, v, m, ok
  <2>4. CASE x # r
    <3>1. next.latest[x] = v[x]
      BY <1>1, <2>1, <2>4, Zenon DEF Versions
    <3>2. Accepted(next.meta, x) = Accepted(m, x)
      <4>1. \A g \in Txs : g # h => next.meta[g] = m[g]
        BY <1>1, <2>1 DEF Outcomes
      <4> QED BY <2>4, <4>1, Zenon DEF Accepted
    <3> QED BY <3>1, <3>2, Zenon DEF NoVersions, OneLine, next, v, m
  <2>5. CASE x = r
    <3>1. ~ NoVersions(x, v, m)
      BY <2>2, <2>3, <2>5, TxAssumption DEF NoVersions
    <3>2. ASSUME OneLine(x, v, m) PROVE OneLine(x, next.latest, next.meta)
      <4>1. PICK C \in SUBSET Txs : Chain(x, C, v[x]) /\ Accepted(m, x) \subseteq C
        BY <3>2 DEF OneLine
      <4>2. IsRoot(x) /\ h # x
        BY <3>2 DEF OneLine
      <4>3. Chain(x, C \cup {h}, h)
        BY <2>2, <2>5, <4>1, <4>2, ChainGrows, Zenon
      <4>4. next.latest[x] = h
        BY <1>1, <2>1, <2>5, Zenon DEF Versions
      <4>5. Accepted(next.meta, x) \subseteq C \cup {h}
        <5>1. \A g \in Txs : g # h => next.meta[g] = m[g]
          BY <1>1, <2>1, Zenon DEF Outcomes
        <5> QED BY <4>1, <5>1, Zenon DEF Accepted
      <4>6. C \cup {h} \in SUBSET Txs
        OBVIOUS
      <4> QED BY <4>2, <4>3, <4>4, <4>5, <4>6, Zenon DEF OneLine
    <3> QED BY <3>1, <3>2, Zenon DEF next, v, m
  <2> QED BY <2>4, <2>5, Zenon
<1> QED BY <1>3, <1>4, Zenon

\* One round of the loop, for a root: it starts its own line and leaves the others.
LEMMA RootStartsLine ==
    ASSUME NEW res \in Results, NEW h \in Txs, ~ Transfer(h), IsRoot(h), NEW x \in Txs
    PROVE  LET next == NextContent(res, h)
           IN  /\ x # h /\ NoVersions(x, res.latest, res.meta)
                     => NoVersions(x, next.latest, next.meta)
               /\ x # h /\ OneLine(x, res.latest, res.meta)
                     => OneLine(x, next.latest, next.meta)
               /\ x = h /\ NoVersions(x, res.latest, res.meta)
                     => OneLine(x, next.latest, next.meta)
<1> DEFINE v == res.latest
           m == res.meta
           next == NextContent(res, h)
<1>1. v \in Versions /\ m \in Outcomes
  BY DEF Results
<1>2. next.latest = [v EXCEPT ![h] = h] /\ next.meta = [m EXCEPT ![h] = "success"]
  BY Zenon DEF NextContent, ValidContent, NewVersion, Outcome
<1> HIDE DEF next, v, m
<1>3. Accepted(next.meta, x) = Accepted(m, x)
  <2>1. \A g \in Txs : g # h => next.meta[g] = m[g]
    BY <1>1, <1>2 DEF Outcomes
  <2> QED BY <2>1, Zenon DEF Accepted
<1>4. CASE x # h
  <2>1. next.latest[x] = v[x]
    BY <1>1, <1>2, <1>4, Zenon DEF Versions
  <2> QED BY <1>3, <1>4, <2>1, Zenon DEF NoVersions, OneLine, next, v, m
<1>5. CASE x = h
  <2>1. next.latest[x] = x
    BY <1>1, <1>2, <1>5, Zenon DEF Versions
  <2>2. NoVersions(x, v, m) => OneLine(x, next.latest, next.meta)
    <3> SUFFICES ASSUME NoVersions(x, v, m) PROVE OneLine(x, next.latest, next.meta)
      OBVIOUS
    <3>1. Chain(x, {x}, next.latest[x]) /\ {x} \in SUBSET Txs
      BY <2>1, RootIsChain, Zenon
    <3>2. Accepted(next.meta, x) \subseteq {x}
      BY <1>3 DEF NoVersions
    <3> QED BY <1>5, <3>1, <3>2 DEF OneLine
  <2> QED BY <1>5, <2>2, Zenon DEF next, v, m
<1> QED BY <1>4, <1>5, Zenon

\* Among the first i transactions of s, the root x comes at least once, or twice.
Seen(s, i, x) == ~ Transfer(x) /\ IsRoot(x) /\ \E j \in 1 .. i : s[j] = x

SeenTwice(s, i, x) ==
    ~ Transfer(x) /\ IsRoot(x) /\ \E j, k \in 1 .. i : j # k /\ s[j] = x /\ s[k] = x

\* Where the loop over the contents of s is with x after i rounds; t is how often x
\* was applied in earlier blocks.
OnLine(t, s, i, x, v, m) ==
    \/ t > 1
    \/ t >= 1 /\ Seen(s, i, x)
    \/ SeenTwice(s, i, x)
    \/ NoVersions(x, v, m)
    \/ (t >= 1 \/ Seen(s, i, x)) /\ OneLine(x, v, m)

SeenSucceed(s, i, m) == \A x \in Txs : Seen(s, i, x) => m[x] = "success"

\* What was seen after i - 1 rounds is seen after i, and so is the i-th.
LEMMA SeenGrows ==
    ASSUME NEW s \in Seq(Txs), NEW i \in 1 .. Len(s), NEW x
    PROVE  /\ Seen(s, i - 1, x) => Seen(s, i, x)
           /\ SeenTwice(s, i - 1, x) => SeenTwice(s, i, x)
           /\ ~ Transfer(x) /\ IsRoot(x) /\ s[i] = x => Seen(s, i, x)
           /\ Seen(s, i - 1, x) /\ s[i] = x => SeenTwice(s, i, x)
           /\ Seen(s, i, x) /\ s[i] # x => Seen(s, i - 1, x)
<1>1. i \in 1 .. i /\ 1 .. i = (1 .. i - 1) \cup {i} /\ i \notin 1 .. i - 1
  OBVIOUS
<1> QED BY <1>1, Zenon DEF Seen, SeenTwice

\* One round of the loop keeps every content on its line.
LEMMA RoundKeepsLine ==
    ASSUME Store, NEW s \in Seq(Txs), NEW i \in 1 .. Len(s), NEW res \in Results,
           NEW x \in Txs, NEW t \in Nat, OnLine(t, s, i - 1, x, res.latest, res.meta)
    PROVE  LET next == NextContent(res, s[i])
           IN  OnLine(t, s, i, x, next.latest, next.meta)
<1> DEFINE next == NextContent(res, s[i])
<1>1. PICK h \in Txs : h = s[i]
  OBVIOUS
<1>2. /\ Seen(s, i - 1, x) => Seen(s, i, x)
      /\ SeenTwice(s, i - 1, x) => SeenTwice(s, i, x)
  BY SeenGrows, Zenon
<1>3. CASE Transfer(h)
  <2>1. next = res
    BY <1>1, <1>3 DEF NextContent
  <2> QED BY <1>2, <2>1, Zenon DEF OnLine
<1>4. CASE ~ Transfer(h) /\ ~ IsRoot(h)
  <2>1. /\ NoVersions(x, res.latest, res.meta) => NoVersions(x, next.latest, next.meta)
        /\ OneLine(x, res.latest, res.meta) => OneLine(x, next.latest, next.meta)
    BY <1>1, <1>4, VersionKeepsLines, Zenon
  <2> HIDE DEF next
  <2>2. OnLine(t, s, i, x, next.latest, next.meta)
    BY <1>2, <2>1, Zenon DEF OnLine
  <2> QED BY <2>2, Zenon DEF next
<1>5. CASE ~ Transfer(h) /\ IsRoot(h)
  <2>1. /\ x # h /\ NoVersions(x, res.latest, res.meta) => NoVersions(x, next.latest, next.meta)
        /\ x # h /\ OneLine(x, res.latest, res.meta) => OneLine(x, next.latest, next.meta)
        /\ x = h /\ NoVersions(x, res.latest, res.meta) => OneLine(x, next.latest, next.meta)
    BY <1>1, <1>5, RootStartsLine, Zenon
  <2>2. /\ x = h => Seen(s, i, x)
        /\ x = h /\ Seen(s, i - 1, x) => SeenTwice(s, i, x)
    <3>1. /\ ~ Transfer(x) /\ IsRoot(x) /\ s[i] = x => Seen(s, i, x)
          /\ Seen(s, i - 1, x) /\ s[i] = x => SeenTwice(s, i, x)
      BY SeenGrows, Zenon
    <3> QED BY <1>1, <1>5, <3>1, Zenon
  <2> HIDE DEF next
  <2>3. OnLine(t, s, i, x, next.latest, next.meta)
    <3>1. CASE x = h
      BY <1>2, <2>1, <2>2, <3>1, Zenon DEF OnLine
    <3>2. CASE x # h
      BY <1>2, <2>1, <3>2, Zenon DEF OnLine
    <3> QED BY <3>1, <3>2, Zenon
  <2> QED BY <2>3, Zenon DEF next
<1> QED BY <1>3, <1>4, <1>5, Zenon

\* One round of the loop accepts only versions of known roots, and every root.
LEMMA RoundAccepts ==
    ASSUME NEW s \in Seq(Txs), NEW i \in 1 .. Len(s), NEW res \in Results,
           RootsKnown(res.meta), SeenSucceed(s, i - 1, res.meta)
    PROVE  LET next == NextContent(res, s[i])
           IN  RootsKnown(next.meta) /\ SeenSucceed(s, i, next.meta)
<1> DEFINE next == NextContent(res, s[i])
           m == res.meta
<1>1. PICK h \in Txs : h = s[i]
  OBVIOUS
<1>2. \A x : Seen(s, i, x) /\ h # x => Seen(s, i - 1, x)
  BY <1>1, SeenGrows, Zenon
<1>3. CASE Transfer(h)
  <2>1. next = res
    BY <1>1, <1>3 DEF NextContent
  <2>2. \A x : Seen(s, i, x) => Seen(s, i - 1, x)
    BY <1>2, <1>3, Zenon DEF Seen
  <2> QED BY <2>1, <2>2, Zenon DEF SeenSucceed
<1>4. CASE ~ Transfer(h)
  <2> DEFINE ok == ValidContent(h, Stored, res.latest)
  <2>1. next.meta = [m EXCEPT ![h] = Outcome(ok)] /\ m \in Outcomes
    BY <1>1, <1>4, Zenon DEF NextContent, Results
  <2>2. (ok /\ ~ IsRoot(h) => Tx[h].root \in Txs) /\ (IsRoot(h) => ok)
    BY Zenon DEF ValidContent, IsRoot
  <2>3. (Outcome(ok) = "success" => ok) /\ (ok => Outcome(ok) = "success")
    BY DEF Outcome
  <2> HIDE DEF next, m, ok
  <2>4. next.meta[h] = Outcome(ok) /\ \A x \in Txs : x # h => next.meta[x] = m[x]
    BY <2>1, Zenon DEF Outcomes
  <2>5. RootsKnown(next.meta)
    BY <2>2, <2>3, <2>4, Zenon DEF RootsKnown, m
  <2>6. SeenSucceed(s, i, next.meta)
    <3> SUFFICES ASSUME NEW x \in Txs, Seen(s, i, x) PROVE next.meta[x] = "success"
      BY Zenon DEF SeenSucceed
    <3>1. CASE x = h
      BY <2>2, <2>3, <2>4, <3>1, Zenon DEF Seen
    <3>2. CASE x # h
      BY <1>2, <2>4, <3>2, Zenon DEF SeenSucceed, m
    <3> QED BY <3>1, <3>2, Zenon
  <2> QED BY <2>5, <2>6, Zenon DEF next
<1> QED BY <1>3, <1>4, Zenon

\* The loop after i rounds with the results res
LoopInv(s, i, res) ==
    /\ RootsKnown(res.meta) /\ SeenSucceed(s, i, res.meta)
    /\ \A x \in Txs : OnLine(timesApplied[Key(x)], s, i, x, res.latest, res.meta)

LEMMA LoopStarts ==
    ASSUME Finalizing, Lines, finPc # "idle", NEW s,
           NEW res, res.latest = latest, res.meta = workMeta
    PROVE  LoopInv(s, 0, res)
<1>1. \A h \in Txs : ~ Transfer(h) => res.meta[h] = meta[h]
  BY Zenon DEF Finalizing
<1>2. \A x : Accepted(res.meta, x) = Accepted(meta, x)
  BY <1>1, Zenon DEF Accepted
<1>3. \A x : ~ Seen(s, 0, x)
  <2>1. \A j : j \notin 1 .. 0
    OBVIOUS
  <2> QED BY <2>1, Zenon DEF Seen
<1>4. RootsKnown(res.meta)
  BY <1>1, Zenon DEF Lines, RootsKnown
<1>5. \A x \in Txs : OnLine(timesApplied[Key(x)], s, 0, x, res.latest, res.meta)
  BY <1>2, Zenon DEF Lines, NoVersions, OneLine, OnLine
<1> QED BY <1>3, <1>4, <1>5, Zenon DEF LoopInv, SeenSucceed

LEMMA RoundKeepsLoop ==
    ASSUME Store, timesApplied \in [TxKeys -> Nat], NEW s \in Seq(Txs), NEW i \in 1 .. Len(s),
           NEW res \in Results, LoopInv(s, i - 1, res)
    PROVE  LoopInv(s, i, NextContent(res, s[i]))
<1>1. \A x \in Txs : timesApplied[Key(x)] \in Nat
  BY DEF TxKeys, Keys
<1> QED BY <1>1, RoundAccepts, RoundKeepsLine, Zenon DEF LoopInv

LEMMA LoopEnds ==
    ASSUME Store, Finalizing, Lines, finPc # "idle", timesApplied \in [TxKeys -> Nat]
    PROVE  FinContents \in Results /\ LoopInv(FinTxs, Len(FinTxs), FinContents)
<1> DEFINE n == Len(FinTxs)
<1>1. FinTxs \in Seq(Txs) /\ latest \in Versions /\ workMeta \in Outcomes
  BY BlockRecordFields, Zenon DEF Store, FinTxs, Finalizing
<1>2. PICK f \in [0 .. n -> Results] : IsLoop(f) /\ FinContents = f[n]
  BY <1>1, FinContentsLoop
<1>3. n \in Nat /\ n \in 0 .. n
  BY <1>1
<1>4. f[0] = [latest |-> latest, meta |-> workMeta]
      /\ \A i \in 1 .. n : f[i] = NextContent(f[i - 1], FinTxs[i])
  <2>1. \A i \in 1 .. n : i \in 0 .. n /\ i # 0
    BY <1>3
  <2> QED BY <1>2, <1>3, <2>1 DEF IsLoop
<1>5. \A i \in 0 .. n : LoopInv(FinTxs, i, f[i])
  <2> DEFINE Bad == {i \in 0 .. n : ~ LoopInv(FinTxs, i, f[i])}
  <2> SUFFICES ASSUME Bad # {} PROVE FALSE
    BY Zenon
  <2>1. Bad \in SUBSET Nat
    BY <1>3
  <2>2. PICK k \in Bad : \A j \in Bad : k <= j
    <3> HIDE DEF Bad
    <3> QED BY <2>1, Least
  <2>3. k \in 0 .. n /\ ~ LoopInv(FinTxs, k, f[k])
    BY Zenon
  <2>4. k # 0
    BY <1>4, <2>3, LoopStarts
  <2>5. k \in 1 .. n /\ k - 1 \in 0 .. n /\ ~ (k <= k - 1)
    BY <1>3, <2>3, <2>4
  <2>6. LoopInv(FinTxs, k - 1, f[k - 1]) /\ f[k - 1] \in Results
    <3>1. k - 1 \notin Bad
      <4> HIDE DEF Bad
      <4> QED BY <2>2, <2>5
    <3> QED BY <1>2, <2>5, <3>1
  <2> QED BY <1>1, <1>4, <2>3, <2>5, <2>6, RoundKeepsLoop, Zenon
<1> QED BY <1>2, <1>3, <1>5

\* The positions of s whose transaction has the key k and is a success by m
Successes(s, k, m) == {i \in DOMAIN s : Key(s[i]) = k /\ m[s[i]] = "success"}

LEMMA CountSuccesses ==
    ASSUME NEW s \in Seq(Txs), NEW k, NEW m
    PROVE  /\ Cardinality(Successes(s, k, m)) \in Nat
           /\ \A i \in Successes(s, k, m) : Cardinality(Successes(s, k, m)) >= 1
           /\ \A i, j \in Successes(s, k, m) :
                i # j => Cardinality(Successes(s, k, m)) >= 2
<1> DEFINE S == Successes(s, k, m)
<1>1. IsFiniteSet(1 .. Len(s))
  BY FS_Interval
<1>2. S \in SUBSET (1 .. Len(s))
  BY DEF Successes
<1>3. IsFiniteSet(S)
  BY <1>1, <1>2, FS_Subset, Zenon
<1> HIDE DEF S
<1>4. Cardinality(S) \in Nat
  BY <1>3, FS_CardinalityType
<1>5. ASSUME NEW i \in S PROVE Cardinality(S) >= 1
  <2>1. IsFiniteSet({i}) /\ Cardinality({i}) = 1
    BY FS_Singleton, Zenon
  <2>2. Cardinality({i}) <= Cardinality(S)
    BY <1>3, FS_Subset
  <2> QED BY <1>4, <2>1, <2>2
<1>6. ASSUME NEW i \in S, NEW j \in S, i # j PROVE Cardinality(S) >= 2
  <2>1. IsFiniteSet({i}) /\ Cardinality({i}) = 1
    BY FS_Singleton, Zenon
  <2>2. j \notin {i} /\ {i} \cup {j} \in SUBSET S
    BY <1>6
  <2>3. Cardinality({i} \cup {j}) = 2
    <3>1. Cardinality({i} \cup {j}) = IF j \in {i} THEN Cardinality({i}) ELSE Cardinality({i}) + 1
      BY <2>1, FS_AddElement, Zenon
    <3>2. Cardinality({i} \cup {j}) = 1 + 1
      BY <2>1, <2>2, <3>1, Zenon
    <3>3. 1 + 1 = 2
      OBVIOUS
    <3> QED BY <3>2, <3>3, Zenon
  <2>4. Cardinality({i} \cup {j}) <= Cardinality(S)
    BY <1>3, <2>2, FS_Subset
  <2> QED BY <1>4, <2>3, <2>4, Zenon
<1> QED BY <1>4, <1>5, <1>6 DEF S

\* The write of FinalizeBlock counts the roots of the block, and keeps the lines.
LEMMA CommitKeepsLines ==
    ASSUME Inv, Finalizing, timesApplied \in [TxKeys -> Nat], Lines, FinCommit
    PROVE  timesApplied' \in [TxKeys -> Nat] /\ Lines'
<1> DEFINE res == FinContents
           n == Len(FinTxs)
           S(k) == Successes(FinTxs, k, res.meta)
<1>1. /\ finPc # "idle" /\ latest' = res.latest /\ meta' = res.meta
      /\ timesApplied' = [k \in TxKeys |-> timesApplied[k] + Cardinality(S(k))]
  BY Zenon DEF FinCommit, Successes
<1>2. LoopInv(FinTxs, n, res)
  BY <1>1, LoopEnds DEF Inv
<1>3. FinTxs \in Seq(Txs)
  BY BlockRecordFields, Zenon DEF Inv, Store, FinTxs
<1> HIDE DEF res
<1>4. \A k \in TxKeys : Cardinality(S(k)) \in Nat
  BY <1>3, CountSuccesses, Zenon
<1>5. timesApplied' \in [TxKeys -> Nat]
  BY <1>1, <1>4
<1>6. ASSUME NEW x \in Txs
      PROVE  \/ timesApplied'[Key(x)] > 1
             \/ NoVersions(x, latest', meta')
             \/ timesApplied'[Key(x)] >= 1 /\ OneLine(x, latest', meta')
  <2> DEFINE k == Key(x)
             t == timesApplied[k]
             c == Cardinality(S(k))
  <2>1. k \in TxKeys
    BY Zenon DEF TxKeys, Keys
  <2>2. timesApplied'[k] = t + c /\ t \in Nat /\ c \in Nat
    BY <1>1, <1>4, <2>1
  <2>3. \A i \in 1 .. n : FinTxs[i] = x /\ Seen(FinTxs, n, x) => i \in S(k)
    <3>1. DOMAIN FinTxs = 1 .. n
      BY <1>3
    <3> QED BY <1>2, <3>1, Zenon DEF LoopInv, SeenSucceed, Successes
  <2>4. Seen(FinTxs, n, x) => c >= 1
    <3>1. ASSUME Seen(FinTxs, n, x) PROVE \E i : i \in S(k)
      BY <2>3, <3>1, Zenon DEF Seen
    <3> QED BY <1>3, <3>1, CountSuccesses, Zenon
  <2>5. SeenTwice(FinTxs, n, x) => c >= 2
    <3>1. ASSUME SeenTwice(FinTxs, n, x) PROVE \E i, j \in S(k) : i # j
      <4>1. Seen(FinTxs, n, x)
        BY <3>1, Zenon DEF Seen, SeenTwice
      <4> QED BY <2>3, <3>1, <4>1, Zenon DEF SeenTwice
    <3> QED BY <1>3, <3>1, CountSuccesses, Zenon
  <2>6. OnLine(t, FinTxs, n, x, latest', meta')
    BY <1>1, <1>2, Zenon DEF LoopInv
  <2> HIDE DEF k, t, c
  <2>7. CASE t > 1
    BY <2>2, <2>7 DEF k
  <2>8. CASE t >= 1 /\ Seen(FinTxs, n, x)
    BY <2>2, <2>4, <2>8 DEF k
  <2>9. CASE SeenTwice(FinTxs, n, x)
    BY <2>2, <2>5, <2>9 DEF k
  <2>10. CASE NoVersions(x, latest', meta')
    BY <2>10
  <2>11. CASE (t >= 1 \/ Seen(FinTxs, n, x)) /\ OneLine(x, latest', meta')
    BY <2>2, <2>4, <2>11 DEF k
  <2> QED BY <2>6, <2>7, <2>8, <2>9, <2>10, <2>11, Zenon DEF OnLine
<1>7. RootsKnown(meta')
  BY <1>1, <1>2, Zenon DEF LoopInv
<1>8. Lines'
  BY <1>6, <1>7, Zenon DEF Lines
<1> QED BY <1>5, <1>8

lineVars == <<latest, meta, timesApplied>>

LEMMA LinesInductive ==
    ASSUME Inv, Finalizing, timesApplied \in [TxKeys -> Nat], Lines, [Next]_vars
    PROVE  timesApplied' \in [TxKeys -> Nat] /\ Lines'
<1> DEFINE Goal == timesApplied' \in [TxKeys -> Nat] /\ Lines'
<1> SUFFICES Goal
  OBVIOUS
<1> USE DEF storeVars
<1>1. CASE UNCHANGED lineVars
  BY <1>1, Zenon DEF lineVars, Lines, RootsKnown, NoVersions, OneLine, Accepted
<1> HIDE DEF Goal
<1>2. ASSUME NEW a \in Adders, NEW h \in Submitted, AddTxCheck(a, h) PROVE Goal
  BY <1>1, <1>2, Zenon DEF AddTxCheck, lineVars
<1>3. ASSUME NEW a \in Adders, AddTxLocked(a) PROVE Goal
  BY <1>1, <1>3, Zenon DEF AddTxLocked, lineVars
<1>4. CASE PullLocked \/ PullDedup \/ TrackLook \/ TrackStore \/ Record
  BY <1>1, <1>4, Zenon DEF PullLocked, PullDedup, TrackLook, TrackStore, Record, lineVars
<1>5. CASE LeaderStart \/ LeaderEnd \/ SlotEnd \/ StoreOwn
  BY <1>1, <1>5, Zenon DEF LeaderStart, LeaderEnd, SlotEnd, StoreOwn, lineVars
<1>6. ASSUME NEW s \in Slots, NEW ts \in PeerBlocks, RecvVerify(s, ts) PROVE Goal
  BY <1>1, <1>6, Zenon DEF RecvVerify, lineVars
<1>7. ASSUME NEW bad \in PohFlaws, RecvStore(bad) PROVE Goal
  BY <1>1, <1>7, Zenon DEF RecvStore, lineVars
<1>8. CASE RecvDedup \/ RecvCleanup
  BY <1>1, <1>8, Zenon DEF RecvDedup, RecvCleanup, lineVars
<1>9. ASSUME NEW s \in Slots, FinStart(s) PROVE Goal
  BY <1>1, <1>9, Zenon DEF FinStart, lineVars
<1>10. CASE FinApply \/ FinMark \/ FinFail
  BY <1>1, <1>10, Zenon DEF FinApply, FinMark, FinFail, lineVars
<1>11. CASE FinCommit
  BY <1>11, CommitKeepsLines, Zenon DEF Goal
<1>12. CASE Crash
  BY <1>1, <1>12, Zenon DEF Crash, lineVars
<1>13. CASE UNCHANGED vars
  BY <1>1, <1>13, Zenon DEF vars, lineVars
<1> QED BY <1>2, <1>3, <1>4, <1>5, <1>6, <1>7, <1>8, <1>9, <1>10, <1>11, <1>12, <1>13, Zenon
        DEF Next

LEMMA InitLines == Init => timesApplied \in [TxKeys -> Nat] /\ Lines
<1> SUFFICES ASSUME Init PROVE timesApplied \in [TxKeys -> Nat] /\ Lines
  OBVIOUS
<1> DEFINE R == Range(FirstContents)
<1>1. \A x \in R : x \in Txs /\ ~ Transfer(x) /\ IsRoot(x)
  BY TxFlowAssumption, RangeIn
<1>2. /\ latest = [h \in Txs |-> IF h \in R THEN h ELSE NoTx]
      /\ meta = [h \in Txs |-> IF h \in R THEN "success" ELSE "none"]
      /\ timesApplied = [k \in TxKeys |-> IF k \in Keys(R) THEN 1 ELSE 0]
  BY Zenon DEF Init
<1> HIDE DEF R
<1>3. timesApplied \in [TxKeys -> Nat]
  BY <1>2
<1>4. \A h \in Txs : ~ IsRoot(h) => meta[h] # "success"
  BY <1>1, <1>2
<1>5. \A x : Accepted(meta, x) = {}
  BY <1>4, Zenon DEF Accepted
<1>6. ASSUME NEW x \in Txs
      PROVE  \/ NoVersions(x, latest, meta)
             \/ timesApplied[Key(x)] >= 1 /\ OneLine(x, latest, meta)
  <2>1. CASE x \in R
    <3>1. latest[x] = x
      BY <1>2, <2>1
    <3>2. Key(x) \in TxKeys /\ Key(x) \in Keys(R)
      BY <2>1, Zenon DEF TxKeys, Keys
    <3>3. timesApplied[Key(x)] >= 1
      BY <1>2, <3>2
    <3>4. {x} \in SUBSET Txs /\ Chain(x, {x}, latest[x]) /\ Accepted(meta, x) \subseteq {x}
      BY <1>5, <3>1, RootIsChain, Zenon
    <3> QED BY <1>1, <2>1, <3>3, <3>4, Zenon DEF OneLine
  <2>2. CASE x \notin R
    BY <1>2, <1>5, <2>2 DEF NoVersions
  <2> QED BY <2>1, <2>2
<1> QED BY <1>3, <1>4, <1>6, Zenon DEF Lines, RootsKnown

LEMMA LinesDoNotFork == Lines => ContentsDoNotFork
<1> SUFFICES ASSUME Lines, NEW r \in Rivals, meta[r[1]] = "success", meta[r[2]] = "success"
             PROVE  timesApplied[Key(Tx[r[1]].root)] > 1
  BY Zenon DEF ContentsDoNotFork
<1>1. PICK g \in Txs, h \in Txs : g = r[1] /\ h = r[2]
  BY Zenon DEF Rivals
<1>2. /\ ~ Transfer(g) /\ ~ IsRoot(g) /\ ~ Transfer(h) /\ Key(g) # Key(h)
      /\ Tx[g].parent = Tx[h].parent /\ Tx[g].root = Tx[h].root
      /\ meta[g] = "success" /\ meta[h] = "success"
  BY <1>1, Zenon DEF Rivals
<1>3. ~ IsRoot(h)
  BY <1>2, Zenon DEF IsRoot
<1>4. PICK x \in Txs : x = Tx[g].root
  BY <1>2, Zenon DEF Lines, RootsKnown
<1>5. g \in Accepted(meta, x) /\ h \in Accepted(meta, x)
  BY <1>2, <1>3, <1>4, Zenon DEF Accepted
<1>6. ~ NoVersions(x, latest, meta)
  BY <1>5, Zenon DEF NoVersions
<1>7. ~ OneLine(x, latest, meta)
  <2> SUFFICES ASSUME OneLine(x, latest, meta) PROVE FALSE
    BY Zenon
  <2>1. PICK C \in SUBSET Txs : Chain(x, C, latest[x]) /\ Accepted(meta, x) \subseteq C
    BY Zenon DEF OneLine
  <2>2. IsRoot(x) /\ g # x /\ h # x
    BY <1>2, <1>3, Zenon DEF OneLine
  <2>3. g \in C \ {x} /\ h \in C \ {x}
    BY <1>5, <2>1, <2>2, Zenon
  <2> QED BY <1>2, <2>1, <2>3, Zenon DEF Chain
<1>8. timesApplied[Key(x)] > 1
  BY <1>6, <1>7, Zenon DEF Lines
<1> QED BY <1>1, <1>4, <1>8, Zenon

LEMMA InitProgress == Init => Progress /\ Finalizing
<1> SUFFICES ASSUME Init PROVE Progress /\ Finalizing
  OBVIOUS
<1>1. Range(FirstContents) \subseteq Txs
  BY TxFlowAssumption, RangeIn
<1>2. dedup \subseteq TxKeys
  BY <1>1, KeysIn, Zenon DEF Init
<1>3. Progress
  <2>1. /\ netCurrentSlot = 1 /\ processing = {} /\ removed = {} /\ trackAt = 1 /\ batch = <<>>
        /\ slot = 2 /\ ready = FALSE /\ recvPc = "idle" /\ applied = {1}
        /\ rounds = 0 /\ crashes = 0
    BY Zenon DEF Init
  <2>2. trackAt \in 1 .. Len(batch) + 1 /\ slot \in 2 .. MaxSlot /\ netCurrentSlot \in Nat
        /\ rounds \in 0 .. MaxRounds /\ crashes \in 0 .. MaxCrashes
    BY <2>1, TxFlowAssumption
  <2> QED BY <1>2, <2>1, <2>2, Zenon DEF Progress
<1>4. latest \in Versions /\ meta \in Outcomes /\ workMeta \in Outcomes
  BY Zenon DEF Init, Versions, Outcomes
<1>5. Finalizing
  BY <1>4, Zenon DEF Init, Finalizing
<1> QED BY <1>3, <1>5

-----------------------------------------------------------------------------
\* Theorems

\* The types and counters of the node, and what holds of them whenever it is between
\* two steps
Node ==
    /\ Inv /\ Progress /\ Finalizing /\ Money
    /\ senderTotalAmount \in Totals
    /\ timesApplied \in [TxKeys -> Nat]
    /\ Lines

LEMMA NodeInvariant == Spec => []Node
<1>1. Init => Node
  BY InitInv, InitProgress, InitLines, InitMoney, InitTotals, Zenon DEF Node
<1>2. Node /\ [Next]_vars => Node'
  <2> SUFFICES ASSUME Node, [Next]_vars PROVE Node'
    OBVIOUS
  <2>1. Inv /\ Progress /\ Finalizing /\ Money
    BY Zenon DEF Node
  <2>2. Inv'
    BY <2>1, InvInductive, Zenon
  <2>3. Progress' /\ Finalizing' /\ Money'
    BY <2>1, ProgressInductive, FinalizingInductive, MoneyInductive, Zenon
  <2>4. senderTotalAmount' \in Totals
    BY <2>1, TotalsInductive, Zenon DEF Node
  <2>5. timesApplied' \in [TxKeys -> Nat] /\ Lines'
    BY <2>1, LinesInductive, Zenon DEF Node
  <2> QED BY <2>2, <2>3, <2>4, <2>5, Zenon DEF Node
<1> QED BY <1>1, <1>2, PTL DEF Spec

\* Every variable keeps its type: indices stay inside the sequences they run over,
\* pc's are those of the code, and the counters are bounded, for any number of
\* accounts, transactions and slots, through crashes and failed writes.
THEOREM TypesAlwaysHold == Spec => []TypeOK
<1>1. Node => TypeOK
  <2> SUFFICES ASSUME Node PROVE TypeOK
    OBVIOUS
  <2>1. PoolCore /\ Carry /\ Store /\ Tracked /\ Progress /\ Finalizing /\ Money
    BY Zenon DEF Node, Inv
  <2>2. PoolType
    <3>1. dedupTxHashSet \subseteq TxKeys
      BY <2>1, KeysIn, Zenon DEF PoolCore
    <3> QED BY <2>1, <3>1, Zenon DEF Node, PoolCore, Progress, PoolType, Totals
  <2>3. \A s \in Slots : blocks[s].txs \in Seq(Txs) /\ blocks[s].bad \in BOOLEAN
    BY <2>1, BlockRecordFields, Zenon DEF Store
  <2>4. finAt \in 1 .. Len(blocks[finSlot].txs) + 1
    <3>1. blocks[finSlot].txs \in Seq(Txs)
      BY <2>1, <2>3, Zenon DEF Store
    <3>2. CASE finPc = "idle"
      <4>1. finAt = 1
        BY <2>1, <3>2, Zenon DEF Finalizing
      <4> QED BY <3>1, <4>1
    <3>3. CASE finPc # "idle"
      <4>1. finAt \in Nat \ {0} /\ finAt <= Len(blocks[finSlot].txs) + 1
        BY <2>1, <3>3, Zenon DEF Store, Finalizing, FinTxs
      <4> QED BY <3>1, <4>1
    <3> QED BY <3>2, <3>3
  <2>5. applied \subseteq Slots
    BY <2>1, Zenon DEF Store
  <2> QED BY <2>1, <2>2, <2>3, <2>4, <2>5, Zenon
          DEF Node, Carry, Store, Tracked, Progress, Finalizing, Money, TypeOK
<1> QED BY <1>1, NodeInvariant, PTL

\* Two accepted versions of a content never have the same parent, unless their root
\* was applied more than once: for any contents in any blocks, also when a block
\* holds a root, its versions and rivals of them in any order.
THEOREM ContentsNeverFork == Spec => []ContentsDoNotFork
<1>1. Node => ContentsDoNotFork
  BY LinesDoNotFork, Zenon DEF Node
<1> QED BY <1>1, NodeInvariant, PTL

=============================================================================
