--------------------------- MODULE SequenceLemmas ---------------------------
(***************************************************************************)
(* What the proofs share about naturals, functions defined step by step    *)
(* and sequences.  An induction over the naturals is put as: the least     *)
(* number that breaks the claim is refuted.                                *)
(***************************************************************************)
EXTENDS Subsequences, SequencesExt, FiniteSetTheorems, SequenceTheorems, WellFoundedInduction, TLAPS

\* Every set of naturals has a least one.
LEMMA LeastNatural ==
    ASSUME NEW S, S \subseteq Nat, S # {}
    PROVE  \E i \in S : \A j \in S : i <= j
<1>1. PICK R : R = {ss \in Nat \X Nat : ss[1] < ss[2]}
  OBVIOUS
<1>2. IsWellFoundedOn(R, Nat)
  BY <1>1, NatLessThanWellFounded DEF OpToRel
<1>3. PICK i \in S : \A j \in S : <<j, i>> \notin R
  BY <1>2, WFMin
<1>4. \A j \in S : ~(j < i)
  BY <1>1, <1>3
<1> QED
  BY <1>4

\* What is defined step by step up to n exists.
StepByStep(n, S, first, G) ==
    \E f \in [0 .. n -> S] : f[0] = first /\ \A i \in 1 .. n : f[i] = G[<<i, f[i - 1]>>]

LEMMA RecursionExists ==
    ASSUME NEW n \in Nat, NEW S, NEW first \in S, NEW G \in [(1 .. n) \X S -> S]
    PROVE  StepByStep(n, S, first, G)
<1> DEFINE Good(f, k) == /\ f \in [0 .. k -> S]
                         /\ f[0] = first
                         /\ \A i \in 1 .. k : f[i] = G[<<i, f[i - 1]>>]
           Bad == {k \in 0 .. n : ~ \E f : Good(f, k)}
<1>1. \E f : Good(f, 0)
  <2>1. PICK f : f = [i \in 0 .. 0 |-> first]
    OBVIOUS
  <2>2. f \in [0 .. 0 -> S] /\ f[0] = first
    BY <2>1
  <2>3. \A i \in 1 .. 0 : FALSE
    OBVIOUS
  <2> QED
    BY <2>2, <2>3
<1>2. ASSUME NEW k \in 1 .. n, NEW g, Good(g, k - 1)
      PROVE  \E f : Good(f, k)
  <2>1. k \in Nat /\ k - 1 \in 0 .. k - 1 /\ k - 1 \in Nat
    OBVIOUS
  <2>2. PICK last \in S : last = G[<<k, g[k - 1]>>]
    <3>1. g[k - 1] \in S
      BY <1>2, <2>1
    <3> QED
      BY <3>1
  <2>3. PICK f : f = [i \in 0 .. k |-> IF i = k THEN last ELSE g[i]]
    OBVIOUS
  <2>4. f \in [0 .. k -> S]
    <3>1. \A i \in 0 .. k : i = k \/ i \in 0 .. k - 1
      BY <2>1
    <3> QED
      BY <1>2, <2>2, <2>3, <3>1
  <2>5. f[0] = first
    BY <1>2, <2>1, <2>3
  <2>6. ASSUME NEW i \in 1 .. k PROVE f[i] = G[<<i, f[i - 1]>>]
    <3>1. i - 1 \in 0 .. k /\ i - 1 # k /\ i \in 0 .. k /\ f[i - 1] = g[i - 1]
      BY <2>1, <2>3
    <3>2. CASE i = k
      BY <2>2, <2>3, <3>1, <3>2
    <3>3. CASE i # k
      <4>1. i \in 1 .. k - 1 /\ f[i] = g[i]
        BY <2>1, <2>3, <3>1, <3>3
      <4> QED
        BY <1>2, <3>1, <4>1
    <3> QED
      BY <3>2, <3>3
  <2> QED
    BY <2>4, <2>5, <2>6
<1> HIDE DEF Good
<1>3. Bad = {}
  <2>1. SUFFICES ASSUME Bad # {} PROVE FALSE
    OBVIOUS
  <2>2. PICK k \in Bad : \A j \in Bad : k <= j
    <3>1. Bad \subseteq Nat
      OBVIOUS
    <3> QED
      BY <2>1, <3>1, LeastNatural
  <2>3. k # 0
    BY <1>1, <2>2
  <2>4. k \in 1 .. n /\ k - 1 \in 0 .. n /\ ~(k <= k - 1)
    BY <2>2, <2>3
  <2>5. PICK g : Good(g, k - 1)
    BY <2>2, <2>4
  <2> QED
    BY <1>2, <2>2, <2>4, <2>5
<1>4. \E f : Good(f, n)
  BY <1>3
<1> QED
  BY <1>4 DEF Good, StepByStep

-----------------------------------------------------------------------------
\* Concatenation and flattening.
LEMMA ConcatElements ==
    ASSUME NEW S, NEW s \in Seq(S), NEW t \in Seq(S)
    PROVE  s \o t \in Seq(S) /\ ToSet(s \o t) = ToSet(s) \cup ToSet(t)
<1>1. PICK m \in Nat, n \in Nat : m = Len(s) /\ n = Len(t)
  BY LenProperties
<1>2. PICK u : u = s \o t
  OBVIOUS
<1>3. u \in Seq(S) /\ Len(u) = m + n /\ \A i \in 1 .. m + n : u[i] = IF i <= m THEN s[i] ELSE t[i - m]
  BY <1>1, <1>2, ConcatProperties
<1>4. DOMAIN u = 1 .. m + n /\ DOMAIN s = 1 .. m /\ DOMAIN t = 1 .. n
  BY <1>1, <1>3, LenProperties
<1>5. ASSUME NEW i \in 1 .. m + n
      PROVE  u[i] \in ToSet(s) \cup ToSet(t)
  <2>1. CASE i <= m
    <3>1. i \in 1 .. m /\ u[i] = s[i]
      BY <2>1, <1>3
    <3> QED
      BY <3>1, <1>4 DEF ToSet
  <2>2. CASE ~(i <= m)
    <3>1. i - m \in 1 .. n /\ u[i] = t[i - m]
      BY <2>2, <1>3
    <3> QED
      BY <3>1, <1>4 DEF ToSet
  <2> QED
    BY <2>1, <2>2
<1>6. ASSUME NEW i \in 1 .. m
      PROVE  s[i] \in ToSet(u)
  <2>1. i \in 1 .. m + n /\ u[i] = s[i]
    BY <1>3
  <2> QED
    BY <2>1, <1>4 DEF ToSet
<1>7. ASSUME NEW i \in 1 .. n
      PROVE  t[i] \in ToSet(u)
  <2>1. m + i \in 1 .. m + n /\ ~(m + i <= m) /\ (m + i) - m = i
    OBVIOUS
  <2>2. u[m + i] = t[i]
    BY <2>1, <1>3
  <2> QED
    BY <2>1, <2>2, <1>4 DEF ToSet
<1>8. ToSet(u) = ToSet(s) \cup ToSet(t)
  BY <1>4, <1>5, <1>6, <1>7 DEF ToSet
<1> QED
  BY <1>2, <1>3, <1>8

\* One more at the end, which was not there.
LEMMA AppendElements ==
    ASSUME NEW S, NEW s \in Seq(S), NEW e \in S
    PROVE  /\ ToSet(Append(s, e)) = ToSet(s) \cup {e}
           /\ IsInjective(s) /\ e \notin ToSet(s) => IsInjective(Append(s, e))
<1>1. PICK n \in Nat : n = Len(s) /\ DOMAIN s = 1 .. n
  BY LenProperties
<1>2. PICK t : t = Append(s, e)
  OBVIOUS
<1>3. t \in Seq(S) /\ Len(t) = n + 1 /\ t[n + 1] = e /\ \A i \in 1 .. n : t[i] = s[i]
  BY <1>1, <1>2, AppendProperties
<1>4. DOMAIN t = 1 .. n + 1
  BY <1>3, LenProperties
<1>5. \A i \in 1 .. n + 1 : i \in 1 .. n \/ i = n + 1
  OBVIOUS
<1>6. n + 1 \in 1 .. n + 1 /\ n + 1 \notin 1 .. n /\ \A i \in 1 .. n : i \in 1 .. n + 1
  OBVIOUS
<1>7. ToSet(t) = ToSet(s) \cup {e}
  BY <1>1, <1>3, <1>4, <1>5, <1>6 DEF ToSet
<1>8. ASSUME IsInjective(s), e \notin ToSet(s), NEW i \in 1 .. n + 1, NEW j \in 1 .. n + 1, t[i] = t[j]
      PROVE  i = j
  <2>1. \A k \in 1 .. n : s[k] # e
    BY <1>1, <1>8 DEF ToSet
  <2>2. \A k, l \in 1 .. n : s[k] = s[l] => k = l
    BY <1>1, <1>8 DEF IsInjective
  <2> QED
    BY <1>3, <1>5, <1>8, <2>1, <2>2
<1> QED
  BY <1>2, <1>4, <1>7, <1>8 DEF IsInjective

\* f[i] is the concatenation of the first i sequences, for every i up to n.
Flattens(seqs, f, n) ==
    f = [i \in 1 .. n |-> IF i = 1 THEN seqs[i] ELSE f[i - 1] \o seqs[i]]

\* The elements of the first i sequences.
ElementsUpTo(seqs, i) == UNION {ToSet(seqs[j]) : j \in 1 .. i}

\* The concatenations of the first sequences can be listed, and have their elements.
LEMMA SomeFlattening ==
    ASSUME NEW S, NEW seqs \in Seq(Seq(S)), NEW n \in 1 .. Len(seqs)
    PROVE  \E f : /\ Flattens(seqs, f, n)
                  /\ \A i \in 1 .. n : f[i] \in Seq(S) /\ ToSet(f[i]) = ElementsUpTo(seqs, i)
<1> DEFINE Good(f, k) == /\ Flattens(seqs, f, k)
                         /\ \A i \in 1 .. k : f[i] \in Seq(S) /\ ToSet(f[i]) = ElementsUpTo(seqs, i)
           Bad == {k \in 1 .. Len(seqs) : ~ \E f : Good(f, k)}
<1>1. Len(seqs) \in Nat /\ \A i \in 1 .. Len(seqs) : seqs[i] \in Seq(S)
  BY LenProperties, ElementOfSeq
<1>2. \E f : Good(f, 1)
  <2>1. PICK f : f = [i \in 1 .. 1 |-> seqs[i]]
    OBVIOUS
  <2>2. f[1] = seqs[1] /\ seqs[1] \in Seq(S)
    BY <2>1, <1>1
  <2>3. f = [i \in 1 .. 1 |-> IF i = 1 THEN seqs[i] ELSE f[i - 1] \o seqs[i]]
    BY <2>1
  <2>4. ElementsUpTo(seqs, 1) = ToSet(seqs[1])
    BY DEF ElementsUpTo
  <2> QED
    BY <2>2, <2>3, <2>4 DEF Flattens
<1>3. ASSUME NEW k \in 1 .. Len(seqs), k > 1, NEW g, Good(g, k - 1)
      PROVE  \E f : Good(f, k)
  <2>0. k - 1 \in 1 .. k - 1 /\ k \in Nat
    BY <1>3, <1>1
  <2>1. PICK last : last = g[k - 1] \o seqs[k]
    OBVIOUS
  <2>2. g[k - 1] \in Seq(S) /\ seqs[k] \in Seq(S)
    BY <1>1, <1>3, <2>0
  <2>3. last \in Seq(S) /\ ToSet(last) = ToSet(g[k - 1]) \cup ToSet(seqs[k])
    BY <2>1, <2>2, ConcatElements
  <2>4. PICK f : f = [i \in 1 .. k |-> IF i = k THEN last ELSE g[i]]
    OBVIOUS
  <2>5. \A i \in 1 .. k - 1 : f[i] = g[i]
    BY <2>4, <2>0
  <2>6. f[k] = last
    BY <2>4, <2>0
  <2>7. Flattens(seqs, f, k)
    <3>1. \A i \in 1 .. k - 1 : g[i] = IF i = 1 THEN seqs[i] ELSE g[i - 1] \o seqs[i]
      BY <1>3 DEF Flattens
    <3>2. \A i \in 1 .. k : f[i] = IF i = 1 THEN seqs[i] ELSE f[i - 1] \o seqs[i]
      <4> SUFFICES ASSUME NEW i \in 1 .. k PROVE f[i] = IF i = 1 THEN seqs[i] ELSE f[i - 1] \o seqs[i]
        OBVIOUS
      <4>1. CASE i = k
        <5>1. f[i] = g[k - 1] \o seqs[k]
          BY <4>1, <2>1, <2>6
        <5>2. f[k - 1] = g[k - 1]
          BY <2>0, <2>5
        <5>3. i # 1
          BY <4>1, <1>3
        <5> QED
          BY <4>1, <5>1, <5>2, <5>3
      <4>2. CASE i # k
        <5>1. i \in 1 .. k - 1 /\ (i = 1 \/ i - 1 \in 1 .. k - 1)
          BY <4>2, <2>0
        <5> QED
          BY <5>1, <3>1, <2>5
      <4> QED
        BY <4>1, <4>2
    <3> QED
      BY <3>2, <2>4 DEF Flattens
  <2>8. ElementsUpTo(seqs, k) = ElementsUpTo(seqs, k - 1) \cup ToSet(seqs[k])
    <3>1. \A j : j \in 1 .. k <=> j \in 1 .. k - 1 \/ j = k
      BY <2>0, <1>3
    <3> QED
      BY <3>1 DEF ElementsUpTo
  <2>9. \A i \in 1 .. k : f[i] \in Seq(S) /\ ToSet(f[i]) = ElementsUpTo(seqs, i)
    <3>1. \A i \in 1 .. k - 1 : g[i] \in Seq(S) /\ ToSet(g[i]) = ElementsUpTo(seqs, i)
      BY <1>3
    <3>2. \A i \in 1 .. k : i = k \/ i \in 1 .. k - 1
      BY <2>0
    <3> QED
      BY <3>1, <3>2, <2>0, <2>3, <2>5, <2>6, <2>8
  <2> QED
    BY <2>7, <2>9
<1> HIDE DEF Good
<1>4. Bad = {}
  <2>1. SUFFICES ASSUME Bad # {} PROVE FALSE
    OBVIOUS
  <2>2. PICK k \in Bad : \A j \in Bad : k <= j
    <3>1. Bad \subseteq Nat
      BY <1>1
    <3> QED
      BY <2>1, <3>1, LeastNatural
  <2>3. k > 1 /\ k \in 1 .. Len(seqs) /\ k - 1 \in 1 .. Len(seqs) /\ k - 1 \notin Bad
    <3>1. 1 \notin Bad
      BY <1>2
    <3>2. k # 1
      BY <2>2, <3>1
    <3>3. k > 1 /\ k \in 1 .. Len(seqs) /\ k - 1 \in 1 .. Len(seqs) /\ ~(k <= k - 1)
      BY <2>2, <3>2, <1>1
    <3> QED
      BY <2>2, <3>3
  <2>4. \E g : Good(g, k - 1)
    BY <2>3
  <2>5. \E f : Good(f, k)
    BY <2>3, <2>4, <1>3
  <2> QED
    BY <2>2, <2>5
<1> QED
  BY <1>4 DEF Good

\* Two listings of the same concatenations agree.
LEMMA OneFlattening ==
    ASSUME NEW seqs, NEW n \in Nat, NEW f, NEW g, Flattens(seqs, f, n), Flattens(seqs, g, n), NEW i \in 1 .. n
    PROVE  f[i] = g[i]
<1> DEFINE Apart == {k \in 1 .. n : f[k] # g[k]}
<1>1. SUFFICES ASSUME Apart # {} PROVE FALSE
  OBVIOUS
<1>2. PICK k \in Apart : \A j \in Apart : k <= j
  <2>1. Apart \subseteq Nat
    OBVIOUS
  <2> HIDE DEF Apart
  <2> QED
    BY <1>1, <2>1, LeastNatural
<1>3. k = 1 \/ (k - 1 \in 1 .. n /\ f[k - 1] = g[k - 1])
  BY <1>2
<1>4. f[k] = (IF k = 1 THEN seqs[k] ELSE f[k - 1] \o seqs[k])
  BY <1>2 DEF Flattens
<1>5. g[k] = (IF k = 1 THEN seqs[k] ELSE g[k - 1] \o seqs[k])
  BY <1>2 DEF Flattens
<1> QED
  BY <1>2, <1>3, <1>4, <1>5

LEMMA FlatElements ==
    ASSUME NEW S, NEW seqs \in Seq(Seq(S))
    PROVE  /\ FlattenSeq(seqs) \in Seq(S)
           /\ ToSet(FlattenSeq(seqs)) = UNION {ToSet(seqs[i]) : i \in DOMAIN seqs}
<1>1. Len(seqs) \in Nat /\ DOMAIN seqs = 1 .. Len(seqs)
  BY LenProperties
<1>2. CASE Len(seqs) = 0
  <2>1. seqs = << >>
    BY <1>2, <1>1
  <2>2. FlattenSeq(seqs) = << >>
    BY <1>2, <2>1 DEF FlattenSeq
  <2>3. ToSet(<< >>) = {} /\ DOMAIN seqs = {}
    BY <2>1 DEF ToSet
  <2> QED
    BY <2>2, <2>3, EmptySeq
<1>3. CASE Len(seqs) # 0
  <2>1. Len(seqs) \in 1 .. Len(seqs)
    BY <1>1, <1>3
  <2>2. PICK g : /\ Flattens(seqs, g, Len(seqs))
                 /\ \A i \in 1 .. Len(seqs) : g[i] \in Seq(S) /\ ToSet(g[i]) = ElementsUpTo(seqs, i)
    BY <2>1, SomeFlattening
  <2> DEFINE flat == CHOOSE f : Flattens(seqs, f, Len(seqs))
  <2>3. Flattens(seqs, flat, Len(seqs))
    BY <2>2, Zenon
  <2>4. FlattenSeq(seqs) = flat[Len(seqs)]
    BY <1>3 DEF FlattenSeq, Flattens
  <2> HIDE DEF flat
  <2>5. flat[Len(seqs)] = g[Len(seqs)]
    BY <2>1, <2>2, <2>3, <1>1, OneFlattening
  <2> QED
    BY <2>1, <2>2, <2>4, <2>5, <1>1 DEF ElementsUpTo
<1> QED
  BY <1>2, <1>3

-----------------------------------------------------------------------------
\* Parts of a sequence. t is s at some of its places, in order.
Takes(t, s, places, from, n) ==
    /\ from \in [1 .. n -> places]
    /\ \A i \in 1 .. n : t[i] = s[from[i]]
    /\ \A i, j \in 1 .. n : i < j => from[i] < from[j]
    /\ \A p \in places : \E i \in 1 .. n : from[i] = p

PartOf(t, s, places) == \E from : Takes(t, s, places, from, Len(t))

\* One more place at the end.
LEMMA PartGrows ==
    ASSUME NEW S, NEW s \in Seq(S), NEW k \in 1 .. Len(s), NEW t \in Seq(S),
           NEW earlier \in SUBSET (1 .. k - 1), PartOf(t, s, earlier)
    PROVE  PartOf(Append(t, s[k]), s, earlier \cup {k})
<1>1. PICK n \in Nat : n = Len(t)
  BY LenProperties
<1>2. PICK from : Takes(t, s, earlier, from, n)
  BY <1>1 DEF PartOf
<1>3. PICK u : u = Append(t, s[k])
  OBVIOUS
<1>4. Len(u) = n + 1 /\ u[n + 1] = s[k] /\ \A i \in 1 .. n : u[i] = t[i]
  <2>1. s[k] \in S
    BY ElementOfSeq
  <2> QED
    BY <1>1, <1>3, <2>1, AppendProperties
<1>5. PICK places : places = earlier \cup {k}
  OBVIOUS
<1>6. PICK all : all = [i \in 1 .. n + 1 |-> IF i = n + 1 THEN k ELSE from[i]]
  OBVIOUS
<1>7. Len(s) \in Nat
  BY LenProperties
<1>8. \A i \in 1 .. n + 1 : i = n + 1 \/ i \in 1 .. n
  BY <1>1
<1>9. all[n + 1] = k /\ \A i \in 1 .. n : all[i] = from[i] /\ from[i] \in 1 .. k - 1
  <2>1. n + 1 \in 1 .. n + 1 /\ \A i \in 1 .. n : i \in 1 .. n + 1 /\ i # n + 1
    BY <1>1
  <2>2. \A i \in 1 .. n : from[i] \in earlier
    BY <1>2 DEF Takes
  <2> QED
    BY <1>6, <2>1, <2>2
<1>10. all \in [1 .. n + 1 -> places]
  BY <1>2, <1>5, <1>6, <1>8, <1>9 DEF Takes
<1>11. \A i \in 1 .. n + 1 : u[i] = s[all[i]]
  BY <1>2, <1>4, <1>8, <1>9 DEF Takes
<1>12. ASSUME NEW i \in 1 .. n + 1, NEW j \in 1 .. n + 1, i < j PROVE all[i] < all[j]
  <2>1. i \in 1 .. n
    BY <1>12, <1>1
  <2>2. CASE j = n + 1
    BY <2>1, <2>2, <1>9, <1>7
  <2>3. CASE j # n + 1
    BY <2>1, <2>3, <1>2, <1>8, <1>9, <1>12 DEF Takes
  <2> QED
    BY <2>2, <2>3
<1>13. \A p \in places : \E i \in 1 .. n + 1 : all[i] = p
  <2>1. n + 1 \in 1 .. n + 1 /\ \A i \in 1 .. n : i \in 1 .. n + 1
    BY <1>1
  <2> QED
    BY <2>1, <1>2, <1>5, <1>9 DEF Takes
<1>14. PartOf(u, s, places)
  <2>1. Takes(u, s, places, all, n + 1)
    BY <1>10, <1>11, <1>12, <1>13 DEF Takes
  <2> QED
    BY <1>4, <2>1 DEF PartOf
<1> QED
  BY <1>3, <1>5, <1>14

\* The elements kept are those at the places to keep.
LEMMA KeptIsPart ==
    ASSUME NEW S, NEW s \in Seq(S), NEW places
    PROVE  /\ Kept(s, places) \in Seq(S) /\ Len(Kept(s, places)) <= Len(s)
           /\ PartOf(Kept(s, places), s, {i \in 1 .. Len(s) : i \in places})
<1> DEFINE N == Len(s)
           Step(f) == [i \in 0 .. N |->
                         IF i = 0 THEN << >> ELSE IF i \in places THEN Append(f[i - 1], s[i]) ELSE f[i - 1]]
           kept == CHOOSE f : f = Step(f)
           UpTo(i) == {j \in 1 .. i : j \in places}
<1>1. N \in Nat /\ \A i \in 1 .. N : s[i] \in S
  BY LenProperties, ElementOfSeq
<1>2. \A i \in 1 .. N, t \in Seq(S) : Append(t, s[i]) \in Seq(S) /\ Len(Append(t, s[i])) = Len(t) + 1
  BY <1>1, AppendProperties
<1>3. PICK G : G = [p \in (1 .. N) \X Seq(S) |-> IF p[1] \in places THEN Append(p[2], s[p[1]]) ELSE p[2]]
  OBVIOUS
<1>4. \A i \in 1 .. N, t \in Seq(S) : G[<<i, t>>] = IF i \in places THEN Append(t, s[i]) ELSE t
  BY <1>3
<1>5. G \in [(1 .. N) \X Seq(S) -> Seq(S)]
  BY <1>2, <1>3
<1>6. PICK g \in [0 .. N -> Seq(S)] : g[0] = << >> /\ \A i \in 1 .. N : g[i] = G[<<i, g[i - 1]>>]
  <2>1. PICK n \in Nat : n = N
    BY <1>1
  <2>2. PICK first \in Seq(S) : first = << >>
    BY EmptySeq
  <2>3. StepByStep(n, Seq(S), first, G)
    BY <1>5, <2>1, RecursionExists
  <2> QED
    BY <2>1, <2>2, <2>3 DEF StepByStep
<1>7. g = Step(g)
  <2>1. ASSUME NEW i \in 1 .. N PROVE g[i] = IF i \in places THEN Append(g[i - 1], s[i]) ELSE g[i - 1]
    <3>1. i - 1 \in 0 .. N
      BY <1>1
    <3> QED
      BY <1>4, <1>6, <3>1
  <2>2. \A i \in 0 .. N : i = 0 \/ i \in 1 .. N
    BY <1>1
  <2> QED
    BY <1>6, <2>1, <2>2
<1>8. kept = Step(kept)
  BY <1>7
<1>9. /\ kept[0] = << >>
      /\ \A i \in 1 .. N : kept[i] = IF i \in places THEN Append(kept[i - 1], s[i]) ELSE kept[i - 1]
  <2>1. 0 \in 0 .. N /\ \A i \in 1 .. N : i \in 0 .. N /\ i # 0
    BY <1>1
  <2>2. \A i \in 0 .. N :
          kept[i] = IF i = 0 THEN << >> ELSE IF i \in places THEN Append(kept[i - 1], s[i]) ELSE kept[i - 1]
    <3> HIDE DEF kept
    <3> QED
      BY <1>8
  <2> HIDE DEF kept, Step
  <2> QED
    BY <2>1, <2>2
<1>10. Kept(s, places) = kept[N]
  BY DEF Kept
<1> HIDE DEF kept
<1> DEFINE Right(i) == /\ kept[i] \in Seq(S) /\ Len(kept[i]) <= i
                       /\ PartOf(kept[i], s, UpTo(i))
           Bad == {i \in 0 .. N : ~Right(i)}
<1>11. Right(0)
  <2>1. kept[0] \in Seq(S) /\ Len(kept[0]) = 0 /\ UpTo(0) = {}
    BY <1>9, EmptySeq
  <2>2. PICK from : from = [i \in 1 .. 0 |-> 0]
    OBVIOUS
  <2>3. from \in [1 .. 0 -> {}] /\ \A i \in 1 .. 0 : FALSE
    BY <2>2
  <2>4. PartOf(kept[0], s, {})
    BY <2>1, <2>3 DEF PartOf, Takes
  <2> QED
    BY <2>1, <2>4
<1>12. ASSUME NEW i \in 1 .. N, Right(i - 1) PROVE Right(i)
  <2>1. kept[i - 1] \in Seq(S) /\ Len(kept[i - 1]) \in Nat /\ UpTo(i - 1) \in SUBSET (1 .. i - 1)
    BY <1>12, LenProperties
  <2>2. i \in 1 .. Len(s) /\ i - 1 \in Nat
    OBVIOUS
  <2>3. CASE i \in places
    <3>1. kept[i] = Append(kept[i - 1], s[i])
      BY <1>9, <2>3
    <3>2. PartOf(Append(kept[i - 1], s[i]), s, UpTo(i - 1) \cup {i})
      <4>1. PartOf(kept[i - 1], s, UpTo(i - 1))
        BY <1>12
      <4> HIDE DEF UpTo
      <4> QED
        BY <2>1, <2>2, <4>1, PartGrows
    <3>3. UpTo(i) = UpTo(i - 1) \cup {i}
      BY <2>2, <2>3
    <3>4. kept[i] \in Seq(S) /\ Len(kept[i]) <= i
      BY <1>2, <1>12, <2>1, <2>2, <3>1
    <3> HIDE DEF UpTo
    <3> QED
      BY <3>1, <3>2, <3>3, <3>4
  <2>4. CASE i \notin places
    <3>1. kept[i] = kept[i - 1]
      BY <1>9, <2>4
    <3>2. UpTo(i) = UpTo(i - 1)
      BY <2>2, <2>4
    <3>3. Len(kept[i]) <= i
      BY <1>12, <2>1, <2>2, <3>1
    <3> HIDE DEF UpTo
    <3> QED
      BY <1>12, <2>1, <3>1, <3>2, <3>3
  <2> QED
    BY <2>3, <2>4
<1> HIDE DEF Right
<1>13. Bad = {}
  <2>1. SUFFICES ASSUME Bad # {} PROVE FALSE
    OBVIOUS
  <2>2. PICK i \in Bad : \A j \in Bad : i <= j
    <3>1. Bad \subseteq Nat
      OBVIOUS
    <3> HIDE DEF Bad
    <3> QED
      BY <2>1, <3>1, LeastNatural
  <2>3. i \in 1 .. N /\ i - 1 \in 0 .. N /\ ~(i <= i - 1)
    BY <1>1, <1>11, <2>2
  <2> QED
    BY <1>12, <2>2, <2>3
<1>14. Right(N)
  BY <1>1, <1>13
<1> QED
  BY <1>10, <1>14 DEF Right

\* No two elements have one key.
DistinctKeys(s) == \A i, j \in 1 .. Len(s) : s[i].key = s[j].key => i = j

\* A part has no key twice that the whole has once, and its elements are the whole's.
LEMMA PartsStayDistinct ==
    ASSUME NEW S, NEW s \in Seq(S), NEW t, Len(t) \in Nat, NEW places \in SUBSET (1 .. Len(s)), PartOf(t, s, places)
    PROVE  /\ DistinctKeys(s) => DistinctKeys(t)
           /\ \A i \in 1 .. Len(t) : \E p \in places : t[i] = s[p]
<1>1. PICK n \in Nat : n = Len(t)
  OBVIOUS
<1>2. PICK from : Takes(t, s, places, from, n)
  BY <1>1 DEF PartOf
<1>3. \A i \in 1 .. n : from[i] \in places /\ from[i] \in 1 .. Len(s)
  BY <1>2 DEF Takes
<1>4. ASSUME DistinctKeys(s), NEW i \in 1 .. n, NEW j \in 1 .. n, t[i].key = t[j].key PROVE i = j
  <2>1. from[i] = from[j]
    BY <1>2, <1>3, <1>4 DEF DistinctKeys, Takes
  <2>2. ~(i < j) /\ ~(j < i)
    <3>1. Len(s) \in Nat
      BY LenProperties
    <3>2. from[i] \in Int /\ from[j] \in Int
      BY <1>3, <3>1
    <3> QED
      BY <1>2, <2>1, <3>2 DEF Takes
  <2> QED
    BY <2>2
<1> QED
  BY <1>1, <1>2, <1>3, <1>4 DEF DistinctKeys, Takes

\* A consecutive part.
LEMMA StretchIsPart ==
    ASSUME NEW S, NEW s \in Seq(S), NEW a \in 1 .. Len(s) + 1, NEW b \in a - 1 .. Len(s)
    PROVE  /\ SubSeq(s, a, b) \in Seq(S) /\ Len(SubSeq(s, a, b)) = b - a + 1
           /\ \A i \in 1 .. b - a + 1 : SubSeq(s, a, b)[i] = s[a + i - 1]
           /\ PartOf(SubSeq(s, a, b), s, a .. b)
<1>1. Len(s) \in Nat /\ a \in Int /\ b \in Int /\ \A i \in a .. b : s[i] \in S
  BY LenProperties, ElementOfSeq
<1>2. PICK n \in Nat : n = b - a + 1
  BY <1>1
<1>3. PICK t : t = SubSeq(s, a, b)
  OBVIOUS
<1>4. t \in Seq(S) /\ Len(t) = n /\ \A i \in 1 .. n : t[i] = s[a + i - 1]
  <2>1. /\ SubSeq(s, a, b) \in Seq(S)
        /\ Len(SubSeq(s, a, b)) = IF a <= b THEN b - a + 1 ELSE 0
        /\ \A i \in 1 .. b - a + 1 : SubSeq(s, a, b)[i] = s[a + i - 1]
    BY <1>1, SubSeqProperties
  <2>2. (IF a <= b THEN b - a + 1 ELSE 0) = n
    BY <1>1, <1>2
  <2> QED
    BY <1>2, <1>3, <2>1, <2>2
<1>5. PICK from : from = [i \in 1 .. n |-> a + i - 1]
  OBVIOUS
<1>6. from \in [1 .. n -> a .. b] /\ \A i \in 1 .. n : from[i] = a + i - 1
  BY <1>1, <1>2, <1>5
<1>7. \A i, j \in 1 .. n : i < j => from[i] < from[j]
  BY <1>1, <1>6
<1>8. \A p \in a .. b : \E i \in 1 .. n : from[i] = p
  <2>1. \A p \in a .. b : p - a + 1 \in 1 .. n /\ a + (p - a + 1) - 1 = p
    BY <1>1, <1>2
  <2> QED
    BY <1>6, <2>1
<1>9. PartOf(t, s, a .. b)
  <2>1. Takes(t, s, a .. b, from, n)
    <3>1. \A i \in 1 .. n : t[i] = s[from[i]]
      BY <1>4, <1>6
    <3> QED
      BY <3>1, <1>6, <1>7, <1>8 DEF Takes
  <2> QED
    BY <1>4, <2>1 DEF PartOf
<1> QED
  BY <1>2, <1>3, <1>4, <1>9

\* What the removal of place p leaves.
LEMMA RemovalIsPart ==
    ASSUME NEW S, NEW s \in Seq(S), NEW p \in 1 .. Len(s)
    PROVE  /\ RemoveAt(s, p) \in Seq(S) /\ Len(RemoveAt(s, p)) = Len(s) - 1
           /\ \A i \in 1 .. Len(s) - 1 : RemoveAt(s, p)[i] = s[IF i < p THEN i ELSE i + 1]
           /\ PartOf(RemoveAt(s, p), s, (1 .. Len(s)) \ {p})
<1>1. PICK n \in Nat : n = Len(s)
  BY LenProperties
<1>2. PICK before : /\ before \in Seq(S) /\ before = SubSeq(s, 1, p - 1) /\ Len(before) = p - 1
                    /\ \A i \in 1 .. p - 1 : before[i] = s[i]
  <2>1. PICK a \in 1 .. Len(s) + 1 : a = 1
    BY <1>1
  <2>2. PICK b \in a - 1 .. Len(s) : b = p - 1
    BY <1>1, <2>1
  <2>3. b - a + 1 = p - 1 /\ \A i \in 1 .. p - 1 : a + i - 1 = i
    BY <1>1, <2>1, <2>2
  <2>4. PICK u : u = SubSeq(s, a, b)
    OBVIOUS
  <2>5. u \in Seq(S) /\ Len(u) = b - a + 1 /\ \A i \in 1 .. b - a + 1 : u[i] = s[a + i - 1]
    BY <2>4, StretchIsPart
  <2>6. u \in Seq(S) /\ Len(u) = p - 1 /\ \A i \in 1 .. p - 1 : u[i] = s[i]
    BY <2>3, <2>5
  <2> QED
    BY <2>1, <2>2, <2>4, <2>6
<1>3. PICK after : /\ after \in Seq(S) /\ after = SubSeq(s, p + 1, Len(s)) /\ Len(after) = n - p
                   /\ \A i \in 1 .. n - p : after[i] = s[p + i]
  <2>1. PICK a \in 1 .. Len(s) + 1 : a = p + 1
    BY <1>1
  <2>2. PICK b \in a - 1 .. Len(s) : b = Len(s)
    BY <1>1, <2>1
  <2>3. b - a + 1 = n - p /\ \A i \in 1 .. n - p : a + i - 1 = p + i
    BY <1>1, <2>1, <2>2
  <2>4. PICK u : u = SubSeq(s, a, b)
    OBVIOUS
  <2>5. u \in Seq(S) /\ Len(u) = b - a + 1 /\ \A i \in 1 .. b - a + 1 : u[i] = s[a + i - 1]
    BY <2>4, StretchIsPart
  <2>6. u \in Seq(S) /\ Len(u) = n - p /\ \A i \in 1 .. n - p : u[i] = s[p + i]
    BY <2>3, <2>5
  <2> QED
    BY <2>1, <2>2, <2>4, <2>6
<1>4. PICK left : left = before \o after
  OBVIOUS
<1>5. left \in Seq(S) /\ Len(left) = n - 1 /\ \A i \in 1 .. n - 1 : left[i] = s[IF i < p THEN i ELSE i + 1]
  <2>1. /\ left \in Seq(S)
        /\ Len(left) = Len(before) + Len(after)
        /\ \A i \in 1 .. Len(before) + Len(after) :
             left[i] = IF i <= Len(before) THEN before[i] ELSE after[i - Len(before)]
    <3>1. before \in Seq(S) /\ after \in Seq(S)
      BY <1>2, <1>3
    <3>2. /\ before \o after \in Seq(S)
          /\ Len(before \o after) = Len(before) + Len(after)
          /\ \A i \in 1 .. Len(before) + Len(after) :
               (before \o after)[i] = IF i <= Len(before) THEN before[i] ELSE after[i - Len(before)]
      BY <3>1, ConcatProperties
    <3> QED
      BY <1>4, <3>2
  <2>2. Len(before) = p - 1 /\ Len(before) + Len(after) = n - 1 /\ p \in 1 .. n
    <3>1. Len(before) = p - 1 /\ Len(after) = n - p /\ p \in 1 .. n
      BY <1>1, <1>2, <1>3
    <3> QED
      BY <3>1
  <2>3. ASSUME NEW i \in 1 .. n - 1 PROVE left[i] = s[IF i < p THEN i ELSE i + 1]
    <3>1. CASE i < p
      <4>1. i <= Len(before) /\ i \in 1 .. p - 1
        BY <2>2, <3>1
      <4> QED
        BY <2>1, <2>2, <1>2, <3>1, <4>1
    <3>2. CASE ~(i < p)
      <4>1. ~(i <= Len(before)) /\ i - Len(before) \in 1 .. n - p /\ p + (i - Len(before)) = i + 1
        BY <2>2, <3>2
      <4> QED
        BY <2>1, <2>2, <1>3, <3>2, <4>1
    <3> QED
      BY <3>1, <3>2
  <2> QED
    BY <2>1, <2>2, <2>3
<1>6. PICK from : from = [i \in 1 .. n - 1 |-> IF i < p THEN i ELSE i + 1]
  OBVIOUS
<1>7. PICK places : places = (1 .. n) \ {p}
  OBVIOUS
<1>8. \A i \in 1 .. n - 1 : from[i] = (IF i < p THEN i ELSE i + 1) /\ from[i] \in places
  BY <1>1, <1>6, <1>7
<1>9. from \in [1 .. n - 1 -> places]
  BY <1>6, <1>8
<1>10. \A i, j \in 1 .. n - 1 : i < j => from[i] < from[j]
  BY <1>1, <1>8
<1>11. ASSUME NEW q \in places PROVE \E i \in 1 .. n - 1 : from[i] = q
  <2>1. q \in 1 .. n /\ q # p /\ p \in 1 .. n
    BY <1>1, <1>7
  <2>2. CASE q < p
    <3>1. q \in 1 .. n - 1
      BY <2>1, <2>2
    <3> QED
      BY <2>2, <3>1, <1>8
  <2>3. CASE ~(q < p)
    <3>1. q - 1 \in 1 .. n - 1 /\ ~(q - 1 < p) /\ (q - 1) + 1 = q
      BY <2>1, <2>3
    <3> QED
      BY <3>1, <1>8
  <2> QED
    BY <2>2, <2>3
<1>12. PartOf(left, s, places)
  <2>1. \A i \in 1 .. n - 1 : left[i] = s[from[i]]
    BY <1>5, <1>8
  <2>2. Takes(left, s, places, from, n - 1)
    BY <1>9, <1>10, <1>11, <2>1 DEF Takes
  <2> QED
    BY <1>5, <2>2 DEF PartOf
<1>13. RemoveAt(s, p) = left
  BY <1>2, <1>3, <1>4 DEF RemoveAt
<1> QED
  BY <1>1, <1>5, <1>7, <1>12, <1>13

\* The elements of two sequences, one after the other.
LEMMA ConcatParts ==
    ASSUME NEW s, NEW t, s \in Seq(ToSet(s)), t \in Seq(ToSet(t))
    PROVE  s \o t \in Seq(ToSet(s) \cup ToSet(t)) /\ ToSet(s \o t) = ToSet(s) \cup ToSet(t)
<1>1. PICK S : S = ToSet(s) \cup ToSet(t)
  OBVIOUS
<1>2. s \in Seq(S) /\ t \in Seq(S)
  BY <1>1, SeqMonotonic
<1>3. s \o t \in Seq(S) /\ ToSet(s \o t) = ToSet(s) \cup ToSet(t)
  BY <1>2, ConcatElements
<1> QED
  BY <1>1, <1>3

\* The rest of a list.
LEMMA RestOf ==
    ASSUME NEW S, NEW s \in Seq(S), s # << >>
    PROVE  /\ Head(s) \in S /\ Tail(s) \in Seq(S) /\ Head(s) \in ToSet(s)
           /\ ToSet(s) = {Head(s)} \cup ToSet(Tail(s))
<1>1. PICK n \in Nat \ {0} : n = Len(s) /\ DOMAIN s = 1 .. n
  BY EmptySeq, LenProperties
<1>2. PICK t : t = Tail(s)
  OBVIOUS
<1>3. Head(s) \in S /\ t \in Seq(S) /\ Len(t) = n - 1 /\ \A i \in 1 .. n - 1 : t[i] = s[i + 1]
  BY <1>1, <1>2, HeadTailProperties
<1>4. DOMAIN t = 1 .. n - 1
  BY <1>3, LenProperties
<1>5. Head(s) = s[1] /\ 1 \in 1 .. n
  BY <1>1
<1>6. \A i \in 1 .. n : i # 1 => i - 1 \in 1 .. n - 1 /\ s[i] = t[i - 1]
  BY <1>3
<1>7. \A i \in 1 .. n - 1 : i + 1 \in 1 .. n
  OBVIOUS
<1>8. ToSet(s) \subseteq {Head(s)} \cup ToSet(t)
  BY <1>1, <1>4, <1>5, <1>6 DEF ToSet
<1>9. ToSet(t) \subseteq ToSet(s) /\ Head(s) \in ToSet(s)
  BY <1>1, <1>3, <1>4, <1>5, <1>7 DEF ToSet
<1> QED
  BY <1>2, <1>3, <1>8, <1>9

\* A finite set, listed.
LEMMA ListedElements ==
    ASSUME NEW S, IsFiniteSet(S)
    PROVE  SetToSeq(S) \in Seq(S) /\ ToSet(SetToSeq(S)) = S /\ IsInjective(SetToSeq(S))
<1>1. PICK n \in Nat : n = Cardinality(S) /\ ExistsBijection(1 .. n, S)
  BY FS_CardinalityType
<1>2. PICK g : g \in Bijection(1 .. n, S)
  BY <1>1 DEF ExistsBijection
<1>3. g \in [1 .. n -> S] /\ IsInjective(g)
  BY <1>2 DEF Bijection, Injection, IsInjective
<1>4. PICK f : f = SetToSeq(S)
  OBVIOUS
<1>5. f \in [1 .. n -> S] /\ IsInjective(f)
  BY <1>1, <1>3, <1>4 DEF SetToSeq
<1>6. f \in Injection(1 .. n, S)
  BY <1>5 DEF Injection, IsInjective
<1>7. f \in Surjection(1 .. n, S)
  <2>1. IsFiniteSet(1 .. n) /\ Cardinality(1 .. n) = n
    BY FS_Interval
  <2> QED
    BY <1>1, <1>6, <2>1, FS_Injection
<1>8. f \in Seq(S)
  BY <1>5
<1>9. ToSet(f) = S
  BY <1>5, <1>7 DEF ToSet, Surjection
<1> QED
  BY <1>4, <1>5, <1>8, <1>9

\* A sequence without repetitions is as long as it has elements.
LEMMA DistinctLength ==
    ASSUME NEW S, NEW s \in Seq(S), IsInjective(s)
    PROVE  Len(s) = Cardinality(ToSet(s))
<1>1. PICK n \in Nat : n = Len(s) /\ DOMAIN s = 1 .. n
  BY LenProperties
<1>2. PICK T : T = ToSet(s)
  OBVIOUS
<1>3. s \in [1 .. n -> T]
  <2>1. s \in [1 .. n -> S] /\ \A i \in 1 .. n : s[i] \in T
    BY <1>1, <1>2, LenProperties DEF ToSet
  <2> QED
    BY <2>1
<1>4. s \in Injection(1 .. n, T) /\ s \in Surjection(1 .. n, T)
  BY <1>1, <1>2, <1>3 DEF Injection, Surjection, IsInjective, ToSet
<1>5. ExistsBijection(1 .. n, T)
  BY <1>4 DEF ExistsBijection, Bijection
<1> QED
  BY <1>1, <1>2, <1>5, FS_CountingElements

\* What a sequence lists is of its kind.
LEMMA ItemsAreTyped ==
    ASSUME NEW S, NEW s \in Seq(S), NEW x \in ToSet(s)
    PROVE  x \in S
<1>1. PICK i \in DOMAIN s : x = s[i]
  BY DEF ToSet
<1>2. DOMAIN s = 1 .. Len(s)
  BY LenProperties
<1> QED
  BY <1>1, <1>2, ElementOfSeq

\* A set can be listed in one strict order only.
LEMMA OneListing ==
    ASSUME NEW X, NEW R, \A x, y \in X : ~(<<x, y>> \in R /\ <<y, x>> \in R),
           NEW s \in Seq(X), NEW t \in Seq(X), ToSet(s) = ToSet(t),
           \A i, j \in DOMAIN s : i < j => <<s[i], s[j]>> \in R,
           \A i, j \in DOMAIN t : i < j => <<t[i], t[j]>> \in R
    PROVE  s = t
<1>1. PICK m \in Nat, n \in Nat : m = Len(s) /\ n = Len(t) /\ DOMAIN s = 1 .. m /\ DOMAIN t = 1 .. n
  BY LenProperties
<1>2. (\A i \in 1 .. m : s[i] \in X) /\ (\A i \in 1 .. n : t[i] \in X)
  BY <1>1, ElementOfSeq
<1>3. \A i, j \in 1 .. m : s[i] = s[j] => i = j
  <2> SUFFICES ASSUME NEW i \in 1 .. m, NEW j \in 1 .. m, s[i] = s[j], i < j PROVE FALSE
    OBVIOUS
  <2>1. <<s[i], s[j]>> \in R
    BY <1>1
  <2> QED
    BY <1>2, <2>1
<1>4. \A i, j \in 1 .. n : t[i] = t[j] => i = j
  <2> SUFFICES ASSUME NEW i \in 1 .. n, NEW j \in 1 .. n, t[i] = t[j], i < j PROVE FALSE
    OBVIOUS
  <2>1. <<t[i], t[j]>> \in R
    BY <1>1
  <2> QED
    BY <1>2, <2>1
<1>5. (\A i \in 1 .. m : \E j \in 1 .. n : t[j] = s[i]) /\ (\A i \in 1 .. n : \E j \in 1 .. m : s[j] = t[i])
  <2>1. PICK all : all = ToSet(s) /\ all = ToSet(t)
    OBVIOUS
  <2>2. all = {s[i] : i \in 1 .. m} /\ all = {t[i] : i \in 1 .. n}
    BY <1>1, <2>1 DEF ToSet
  <2>3. \A i \in 1 .. m : s[i] \in all
    BY <2>2
  <2>4. \A i \in 1 .. n : t[i] \in all
    BY <2>2
  <2>5. \A x \in all : \E j \in 1 .. n : t[j] = x
    BY <2>2
  <2>6. \A x \in all : \E j \in 1 .. m : s[j] = x
    BY <2>2
  <2> QED
    BY <2>3, <2>4, <2>5, <2>6
<1>6. \A k \in 1 .. m : k \in 1 .. n /\ s[k] = t[k]
  <2>1. PICK bad : bad = {k \in 1 .. m : ~(k \in 1 .. n /\ s[k] = t[k])}
    OBVIOUS
  <2>2. SUFFICES ASSUME bad # {} PROVE FALSE
    BY <2>1
  <2>3. PICK k \in bad : \A j \in bad : k <= j
    <3>1. bad \subseteq Nat
      BY <2>1
    <3> QED
      BY <2>2, <3>1, LeastNatural
  <2>4. k \in 1 .. m /\ ~(k \in 1 .. n /\ s[k] = t[k]) /\ \A i \in 1 .. m : i < k => i \in 1 .. n /\ s[i] = t[i]
    BY <2>1, <2>3
  <2>5. PICK j \in 1 .. n : t[j] = s[k]
    BY <1>5, <2>4
  <2>6. ~(j < k)
    <3> SUFFICES ASSUME j < k PROVE FALSE
      OBVIOUS
    <3>1. j \in 1 .. m
      BY <2>4
    <3>2. s[j] = s[k]
      BY <2>4, <2>5, <3>1
    <3> QED
      BY <1>3, <2>4, <3>1, <3>2
  <2>7. k \in 1 .. n /\ k < j
    BY <2>4, <2>5, <2>6
  <2>8. PICK i \in 1 .. m : s[i] = t[k]
    BY <1>5, <2>7
  <2>9. i # k /\ ~(i < k)
    <3>1. i # k
      BY <2>4, <2>7, <2>8
    <3>2. ASSUME i < k PROVE FALSE
      <4>1. i \in 1 .. n /\ t[i] = t[k]
        BY <2>4, <2>8, <3>2
      <4> QED
        BY <1>4, <2>7, <3>1, <4>1
    <3> QED
      BY <3>1, <3>2
  <2>10. k < i
    BY <2>4, <2>9
  <2>11. <<s[k], s[i]>> \in R /\ <<t[k], t[j]>> \in R
    BY <1>1, <2>4, <2>7, <2>10
  <2> QED
    BY <1>2, <2>4, <2>5, <2>7, <2>8, <2>11
<1>7. m = n
  <2>1. m <= n
    BY <1>6
  <2>2. SUFFICES ASSUME m < n PROVE FALSE
    BY <2>1
  <2>3. PICK i \in 1 .. m : s[i] = t[m + 1]
    BY <1>5, <2>2
  <2>4. i \in 1 .. n /\ m + 1 \in 1 .. n /\ t[i] = t[m + 1]
    BY <1>6, <2>2, <2>3
  <2> QED
    BY <1>4, <2>4
<1> QED
  BY <1>1, <1>6, <1>7, SeqEqual

\* Two sequences without repetitions that have nothing in common, one after the other.
LEMMA ConcatDistinct ==
    ASSUME NEW S, NEW s \in Seq(S), NEW t \in Seq(S), IsInjective(s), IsInjective(t), ToSet(s) \cap ToSet(t) = {}
    PROVE  IsInjective(s \o t)
<1>1. PICK m \in Nat, n \in Nat : m = Len(s) /\ n = Len(t) /\ DOMAIN s = 1 .. m /\ DOMAIN t = 1 .. n
  BY LenProperties
<1>2. PICK u : u = s \o t
  OBVIOUS
<1>3. u \in Seq(S) /\ Len(u) = m + n /\ \A i \in 1 .. m + n : u[i] = IF i <= m THEN s[i] ELSE t[i - m]
  BY <1>1, <1>2, ConcatProperties
<1>4. DOMAIN u = 1 .. m + n
  BY <1>3, LenProperties
<1>5. \A i \in 1 .. m, j \in 1 .. n : s[i] # t[j]
  BY <1>1 DEF ToSet
<1>6. (\A i, j \in 1 .. m : s[i] = s[j] => i = j) /\ (\A i, j \in 1 .. n : t[i] = t[j] => i = j)
  BY <1>1 DEF IsInjective
<1>7. ASSUME NEW i \in 1 .. m + n, NEW j \in 1 .. m + n, u[i] = u[j] PROVE i = j
  <2>1. CASE i <= m /\ j <= m
    <3>1. i \in 1 .. m /\ j \in 1 .. m /\ s[i] = s[j]
      BY <1>3, <1>7, <2>1
    <3> QED
      BY <1>6, <3>1
  <2>2. CASE i <= m /\ ~(j <= m)
    <3>1. i \in 1 .. m /\ j - m \in 1 .. n /\ s[i] = t[j - m]
      BY <1>3, <1>7, <2>2
    <3> QED
      BY <1>5, <3>1
  <2>3. CASE ~(i <= m) /\ j <= m
    <3>1. j \in 1 .. m /\ i - m \in 1 .. n /\ s[j] = t[i - m]
      BY <1>3, <1>7, <2>3
    <3> QED
      BY <1>5, <3>1
  <2>4. CASE ~(i <= m) /\ ~(j <= m)
    <3>1. i - m \in 1 .. n /\ j - m \in 1 .. n /\ t[i - m] = t[j - m]
      BY <1>3, <1>7, <2>4
    <3>2. i - m = j - m
      BY <1>6, <3>1
    <3> QED
      BY <3>2
  <2> QED
    BY <2>1, <2>2, <2>3, <2>4
<1> QED
  BY <1>2, <1>4, <1>7 DEF IsInjective

\* Sequences without repetitions, of which no two have an element in common.
LEMMA FlatDistinct ==
    ASSUME NEW S, NEW seqs \in Seq(Seq(S)), \A i \in DOMAIN seqs : IsInjective(seqs[i]),
           \A i, j \in DOMAIN seqs : i # j => ToSet(seqs[i]) \cap ToSet(seqs[j]) = {}
    PROVE  IsInjective(FlattenSeq(seqs))
<1>1. PICK n \in Nat : n = Len(seqs) /\ DOMAIN seqs = 1 .. n
  BY LenProperties
<1>2. CASE n = 0
  <2>1. seqs = << >>
    BY <1>1, <1>2
  <2>2. FlattenSeq(seqs) = << >>
    BY <1>1, <1>2, <2>1 DEF FlattenSeq
  <2> QED
    BY <2>2 DEF IsInjective
<1>3. CASE n # 0
  <2>1. n \in 1 .. Len(seqs)
    BY <1>1, <1>3
  <2>2. PICK g : Flattens(seqs, g, n) /\ \A i \in 1 .. n : g[i] \in Seq(S) /\ ToSet(g[i]) = ElementsUpTo(seqs, i)
    BY <2>1, SomeFlattening
  <2> DEFINE flat == CHOOSE f : Flattens(seqs, f, n)
  <2>3. Flattens(seqs, flat, n)
    BY <2>2, Zenon
  <2>4. FlattenSeq(seqs) = flat[n]
    BY <1>1, <1>3 DEF FlattenSeq, Flattens
  <2> HIDE DEF flat
  <2>5. n \in 1 .. n
    BY <1>3
  <2>6. flat[n] = g[n]
    <3>1. Flattens(seqs, flat, n) /\ Flattens(seqs, g, n) /\ n \in Nat
      BY <1>1, <2>2, <2>3
    <3>2. \A i \in 1 .. n : flat[i] = g[i]
      BY <3>1, OneFlattening
    <3> QED
      BY <2>5, <3>2
  <2>7. \A i \in 1 .. n : g[i] = IF i = 1 THEN seqs[i] ELSE g[i - 1] \o seqs[i]
    BY <2>2 DEF Flattens
  <2>8. PICK bad : bad = {i \in 1 .. n : ~IsInjective(g[i])}
    OBVIOUS
  <2>9. bad = {}
    <3> SUFFICES ASSUME bad # {} PROVE FALSE
      OBVIOUS
    <3>1. PICK k \in bad : \A j \in bad : k <= j
      <4>1. bad \subseteq Nat
        BY <2>8
      <4> QED
        BY <4>1, LeastNatural
    <3>2. k \in 1 .. n /\ ~IsInjective(g[k]) /\ IsInjective(seqs[k])
      BY <1>1, <2>8, <3>1
    <3>3. k # 1
      BY <2>7, <3>2
    <3>4. k - 1 \in 1 .. n /\ k - 1 \notin bad
      BY <3>1, <3>2, <3>3
    <3>5. IsInjective(g[k - 1]) /\ g[k - 1] \in Seq(S) /\ seqs[k] \in Seq(S)
      BY <1>1, <2>2, <2>8, <3>2, <3>4, ElementOfSeq
    <3>6. ToSet(g[k - 1]) \cap ToSet(seqs[k]) = {}
      <4>1. ToSet(g[k - 1]) = UNION {ToSet(seqs[j]) : j \in 1 .. k - 1}
        BY <2>2, <3>4 DEF ElementsUpTo
      <4>2. \A j \in 1 .. k - 1 : j \in 1 .. n /\ j # k
        BY <3>2
      <4>3. \A j \in 1 .. k - 1 : ToSet(seqs[j]) \cap ToSet(seqs[k]) = {}
        BY <1>1, <3>2, <4>2
      <4> QED
        BY <4>1, <4>3
    <3>7. PICK a, b : a = g[k - 1] /\ b = seqs[k]
      OBVIOUS
    <3>8. IsInjective(a \o b)
      BY <3>2, <3>5, <3>6, <3>7, ConcatDistinct
    <3>9. g[k] = a \o b
      BY <2>7, <3>2, <3>3, <3>7
    <3> QED
      BY <3>2, <3>8, <3>9
  <2> QED
    BY <2>4, <2>5, <2>6, <2>8, <2>9
<1> QED
  BY <1>2, <1>3

\* The elements of t are some of the first k sequences', in the order of those.
OrderedBy(t, seqs, k) ==
    /\ \A i \in 1 .. Len(t) : \E p \in 1 .. k : \E a \in 1 .. Len(seqs[p]) : t[i] = seqs[p][a]
    /\ \A i, j \in 1 .. Len(t) : i < j =>
         \E p, q \in 1 .. k : \E a \in 1 .. Len(seqs[p]), b \in 1 .. Len(seqs[q]) :
           p <= q /\ t[i] = seqs[p][a] /\ t[j] = seqs[q][b] /\ (p = q => a < b)

\* One more sequence at the end.
LEMMA OrderGrows ==
    ASSUME NEW S, NEW seqs, NEW k \in Nat, NEW s \in Seq(S), seqs[k + 1] \in Seq(S), OrderedBy(s, seqs, k)
    PROVE  OrderedBy(s \o seqs[k + 1], seqs, k + 1)
<1>1. PICK t \in Seq(S) : t = seqs[k + 1]
  OBVIOUS
<1>2. PICK m \in Nat, n \in Nat : m = Len(s) /\ n = Len(t)
  BY LenProperties
<1>3. PICK u : u = s \o t
  OBVIOUS
<1>4. u \in Seq(S) /\ Len(u) = m + n /\ \A i \in 1 .. m + n : u[i] = IF i <= m THEN s[i] ELSE t[i - m]
  BY <1>2, <1>3, ConcatProperties
<1>5. \A i \in 1 .. m : u[i] = s[i] /\ \E p \in 1 .. k : \E a \in 1 .. Len(seqs[p]) : u[i] = seqs[p][a]
  <2>1. \A i \in 1 .. m : i \in 1 .. m + n /\ i <= m
    OBVIOUS
  <2>2. \A i \in 1 .. m : u[i] = s[i]
    BY <1>4, <2>1
  <2>3. \A i \in 1 .. m : \E p \in 1 .. k : \E a \in 1 .. Len(seqs[p]) : s[i] = seqs[p][a]
    <3>1. \A i \in 1 .. Len(s) : \E p \in 1 .. k : \E a \in 1 .. Len(seqs[p]) : s[i] = seqs[p][a]
      BY Zenon DEF OrderedBy
    <3> QED
      BY <1>2, <3>1, Zenon
  <2>4. ASSUME NEW i \in 1 .. m
        PROVE  u[i] = s[i] /\ \E p \in 1 .. k : \E a \in 1 .. Len(seqs[p]) : u[i] = seqs[p][a]
    <3>1. u[i] = s[i]
      BY <2>2
    <3> QED
      BY <2>3, <3>1, Zenon
  <2> QED
    BY <2>4, Zenon
<1>6. ASSUME NEW i \in 1 .. m + n, i \notin 1 .. m
      PROVE  i - m \in 1 .. Len(seqs[k + 1]) /\ u[i] = seqs[k + 1][i - m] /\ i \in Int
  <2>1. ~(i <= m) /\ i - m \in 1 .. n
    BY <1>6
  <2> QED
    BY <1>1, <1>2, <1>4, <2>1
<1>7. k + 1 \in 1 .. k + 1 /\ \A p \in 1 .. k : p \in 1 .. k + 1 /\ p <= k + 1 /\ p # k + 1
  OBVIOUS
<1>8. ASSUME NEW i \in 1 .. m + n
      PROVE  \E p \in 1 .. k + 1 : \E a \in 1 .. Len(seqs[p]) : u[i] = seqs[p][a]
  <2>1. CASE i \in 1 .. m
    BY <1>5, <1>7, <2>1
  <2>2. CASE i \notin 1 .. m
    BY <1>6, <1>7, <2>2
  <2> QED
    BY <2>1, <2>2
<1>9. ASSUME NEW i \in 1 .. m + n, NEW j \in 1 .. m + n, i < j
      PROVE  \E p, q \in 1 .. k + 1 : \E a \in 1 .. Len(seqs[p]), b \in 1 .. Len(seqs[q]) :
               p <= q /\ u[i] = seqs[p][a] /\ u[j] = seqs[q][b] /\ (p = q => a < b)
  <2>1. CASE j \in 1 .. m
    <3>1. i \in 1 .. m
      BY <1>9, <2>1
    <3>2. PICK p \in 1 .. k, q \in 1 .. k : \E a \in 1 .. Len(seqs[p]), b \in 1 .. Len(seqs[q]) :
            p <= q /\ s[i] = seqs[p][a] /\ s[j] = seqs[q][b] /\ (p = q => a < b)
      BY <1>2, <1>9, <2>1, <3>1 DEF OrderedBy
    <3>3. p \in 1 .. k + 1 /\ q \in 1 .. k + 1 /\ u[i] = s[i] /\ u[j] = s[j]
      BY <1>5, <1>7, <2>1, <3>1
    <3> QED
      BY <3>2, <3>3
  <2>2. CASE j \notin 1 .. m /\ i \in 1 .. m
    <3>1. PICK p \in 1 .. k : \E a \in 1 .. Len(seqs[p]) : u[i] = seqs[p][a]
      BY <1>5, <2>2
    <3>2. j - m \in 1 .. Len(seqs[k + 1]) /\ u[j] = seqs[k + 1][j - m]
      BY <1>6, <2>2
    <3>3. p \in 1 .. k + 1 /\ p <= k + 1 /\ p # k + 1
      BY <1>7
    <3> QED
      BY <1>7, <3>1, <3>2, <3>3
  <2>3. CASE j \notin 1 .. m /\ i \notin 1 .. m
    <3>1. /\ i - m \in 1 .. Len(seqs[k + 1]) /\ u[i] = seqs[k + 1][i - m]
          /\ j - m \in 1 .. Len(seqs[k + 1]) /\ u[j] = seqs[k + 1][j - m]
      BY <1>6, <2>3
    <3>2. i - m < j - m /\ k + 1 <= k + 1
      BY <1>9
    <3> QED
      BY <1>7, <3>1, <3>2
  <2> QED
    BY <2>1, <2>2, <2>3
<1>10. OrderedBy(u, seqs, k + 1)
  <2>1. \A i \in 1 .. Len(u) : \E p \in 1 .. k + 1 : \E a \in 1 .. Len(seqs[p]) : u[i] = seqs[p][a]
    BY <1>4, <1>8
  <2>2. \A i, j \in 1 .. Len(u) : i < j =>
          \E p, q \in 1 .. k + 1 : \E a \in 1 .. Len(seqs[p]), b \in 1 .. Len(seqs[q]) :
            p <= q /\ u[i] = seqs[p][a] /\ u[j] = seqs[q][b] /\ (p = q => a < b)
    <3> SUFFICES ASSUME NEW i \in 1 .. Len(u), NEW j \in 1 .. Len(u), i < j
                 PROVE  \E p, q \in 1 .. k + 1 : \E a \in 1 .. Len(seqs[p]), b \in 1 .. Len(seqs[q]) :
                          p <= q /\ u[i] = seqs[p][a] /\ u[j] = seqs[q][b] /\ (p = q => a < b)
      OBVIOUS
    <3>1. i \in 1 .. m + n /\ j \in 1 .. m + n
      BY <1>4
    <3> QED
      BY <3>1, <1>9
  <2> QED
    BY <2>1, <2>2 DEF OrderedBy
<1> QED
  BY <1>1, <1>3, <1>10

\* A flattening keeps the order of the sequences and the order within each.
LEMMA FlatOrdered ==
    ASSUME NEW S, NEW seqs \in Seq(Seq(S))
    PROVE  OrderedBy(FlattenSeq(seqs), seqs, Len(seqs))
<1>1. PICK n \in Nat : n = Len(seqs) /\ DOMAIN seqs = 1 .. n
  BY LenProperties
<1>2. CASE n = 0
  <2>1. seqs = << >>
    BY <1>1, <1>2
  <2>2. FlattenSeq(seqs) = << >>
    BY <1>1, <1>2, <2>1 DEF FlattenSeq
  <2>3. Len(FlattenSeq(seqs)) = 0
    BY <2>2, EmptySeq
  <2>4. \A i \in 1 .. 0 : FALSE
    OBVIOUS
  <2> QED
    BY <2>3, <2>4 DEF OrderedBy
<1>3. CASE n # 0
  <2>1. n \in 1 .. Len(seqs)
    BY <1>1, <1>3
  <2>2. PICK g : Flattens(seqs, g, n) /\ \A i \in 1 .. n : g[i] \in Seq(S) /\ ToSet(g[i]) = ElementsUpTo(seqs, i)
    BY <2>1, SomeFlattening
  <2> DEFINE flat == CHOOSE f : Flattens(seqs, f, n)
  <2>3. Flattens(seqs, flat, n)
    BY <2>2, Zenon
  <2>4. FlattenSeq(seqs) = flat[n]
    BY <1>1, <1>3 DEF FlattenSeq, Flattens
  <2> HIDE DEF flat
  <2>5. n \in 1 .. n
    BY <1>3
  <2>6. flat[n] = g[n]
    <3>1. Flattens(seqs, flat, n) /\ Flattens(seqs, g, n) /\ n \in Nat
      BY <1>1, <2>2, <2>3
    <3>2. \A i \in 1 .. n : flat[i] = g[i]
      BY <3>1, OneFlattening
    <3> QED
      BY <2>5, <3>2
  <2>7. \A i \in 1 .. n : g[i] = IF i = 1 THEN seqs[i] ELSE g[i - 1] \o seqs[i]
    BY <2>2 DEF Flattens
  <2>8. PICK bad : bad = {i \in 1 .. n : ~OrderedBy(g[i], seqs, i)}
    OBVIOUS
  <2>9. bad = {}
    <3> SUFFICES ASSUME bad # {} PROVE FALSE
      OBVIOUS
    <3>1. PICK k \in bad : \A j \in bad : k <= j
      <4>1. bad \subseteq Nat
        BY <2>8
      <4> QED
        BY <4>1, LeastNatural
    <3>2. k \in 1 .. n /\ ~OrderedBy(g[k], seqs, k) /\ seqs[k] \in Seq(S)
      BY <1>1, <2>8, <3>1, ElementOfSeq
    <3>3. k # 1
      <4>1. \A i, j \in 1 .. Len(seqs[1]) : i < j => i \in 1 .. Len(seqs[1]) /\ 1 \in 1 .. 1 /\ 1 <= 1
        OBVIOUS
      <4>2. 1 \in 1 .. 1
        OBVIOUS
      <4>3. OrderedBy(seqs[1], seqs, 1)
        BY <4>1, <4>2 DEF OrderedBy
      <4> QED
        BY <2>7, <3>2, <4>3
    <3>4. k - 1 \in 1 .. n /\ k - 1 \notin bad
      BY <3>1, <3>2, <3>3
    <3>5. OrderedBy(g[k - 1], seqs, k - 1) /\ g[k - 1] \in Seq(S) /\ k - 1 \in Nat /\ (k - 1) + 1 = k
      BY <2>2, <2>8, <3>4
    <3>6. PICK before \in Seq(S), p \in Nat : before = g[k - 1] /\ p = k - 1 /\ p + 1 = k
      BY <3>5
    <3>7. OrderedBy(before, seqs, p) /\ seqs[p + 1] \in Seq(S)
      BY <3>2, <3>5, <3>6
    <3>8. OrderedBy(before \o seqs[p + 1], seqs, p + 1)
      BY <3>7, OrderGrows
    <3>9. g[k] = before \o seqs[p + 1]
      BY <2>7, <3>2, <3>3, <3>6
    <3> QED
      BY <3>2, <3>6, <3>8, <3>9
  <2> QED
    BY <1>1, <2>4, <2>5, <2>6, <2>8, <2>9
<1> QED
  BY <1>2, <1>3

\* As many elements are kept as there are places to keep.
LEMMA KeptCount ==
    ASSUME NEW S, NEW s \in Seq(S), NEW places \in SUBSET (1 .. Len(s))
    PROVE  /\ Kept(s, places) \in Seq(S) /\ Len(Kept(s, places)) = Cardinality(places)
           /\ \A i \in 1 .. Len(Kept(s, places)) : \E p \in places : Kept(s, places)[i] = s[p]
           /\ \A p \in places : \E i \in 1 .. Len(Kept(s, places)) : Kept(s, places)[i] = s[p]
<1>1. PICK t : t = Kept(s, places)
  OBVIOUS
<1>2. {i \in 1 .. Len(s) : i \in places} = places
  OBVIOUS
<1>3. t \in Seq(S) /\ PartOf(t, s, places)
  BY <1>1, <1>2, KeptIsPart
<1>4. PICK n \in Nat : n = Len(t)
  BY <1>3, LenProperties
<1>5. PICK from : Takes(t, s, places, from, n)
  BY <1>3, <1>4 DEF PartOf
<1>6. /\ from \in [1 .. n -> places]
      /\ \A i \in 1 .. n : t[i] = s[from[i]]
      /\ \A i, j \in 1 .. n : i < j => from[i] < from[j]
      /\ \A p \in places : \E i \in 1 .. n : from[i] = p
  BY <1>5 DEF Takes
<1>7. \A i, j \in 1 .. n : from[i] = from[j] => i = j
  <2>1. \A i \in 1 .. n : from[i] \in Int
    <3>1. \A p \in places : p \in Int
      OBVIOUS
    <3> QED
      BY <1>6, <3>1
  <2>2. \A i, j \in 1 .. n : i < j \/ j < i \/ i = j
    OBVIOUS
  <2> QED
    BY <1>6, <2>1, <2>2
<1>8. from \in Bijection(1 .. n, places)
  BY <1>6, <1>7 DEF Bijection, Injection, Surjection, IsInjective
<1>9. Cardinality(places) = n
  BY <1>8, FS_CountingElements DEF ExistsBijection
<1>10. ASSUME NEW i \in 1 .. n PROVE \E p \in places : t[i] = s[p]
  <2>1. from[i] \in places /\ t[i] = s[from[i]]
    BY <1>6
  <2> QED
    BY <2>1
<1>11. ASSUME NEW p \in places PROVE \E i \in 1 .. n : t[i] = s[p]
  <2>1. PICK i \in 1 .. n : from[i] = p
    BY <1>6
  <2>2. t[i] = s[p]
    BY <1>6, <2>1
  <2> QED
    BY <2>2
<1>12. t \in Seq(S) /\ Len(t) = Cardinality(places)
  BY <1>3, <1>4, <1>9
<1> QED
  BY <1>1, <1>4, <1>10, <1>11, <1>12

=============================================================================
