--------------------------- MODULE PreflightProofs --------------------------
(***************************************************************************)
(* Proofs about the graph preflight, for any stored graphs, scopes and     *)
(* rules: its algorithms compute what their definitions say, and a scope   *)
(* hides no defect.                                                        *)
(*                                                                         *)
(* The state is simple (PreflightInv).  The work is in the loops, which    *)
(* are recursive functions of the number of their step.  That they reach   *)
(* what they look for in the steps they have is ChainSettles: a finite set *)
(* that shrinks comes to rest or is empty by then.                         *)
(*   breadth first   the ends not yet visited;                             *)
(*   depth first     Work: nodes to open, nodes to close, edges to follow; *)
(*                   SearchInv says what the colors and the stack mean;    *)
(*   union-find      the nodes not yet seen on the way up.  A forest is    *)
(*                   one in which every set that no parent leaves has a    *)
(*                   root, and joining the roots of two ends joins their   *)
(*                   classes (JoinRoots, RootsAreClasses).                 *)
(***************************************************************************)
EXTENDS GraphPreflight, SequenceLemmas

-----------------------------------------------------------------------------
\* Two functions that start and go on alike are the same.
OfSteps(a, n) == a = [i \in 0 .. n |-> a[i]]

LEMMA SameSteps ==
    ASSUME NEW N \in Nat, NEW a, NEW b,
           OfSteps(a, N), OfSteps(b, N), a[0] = b[0],
           \A i \in 1 .. N : a[i - 1] = b[i - 1] => a[i] = b[i]
    PROVE  a = b
<1> DEFINE Bad == {i \in 0 .. N : a[i] # b[i]}
<1>1. Bad = {}
  <2>1. SUFFICES ASSUME Bad # {} PROVE FALSE
    OBVIOUS
  <2>2. PICK i \in Bad : \A j \in Bad : i <= j
    <3>1. Bad \subseteq Nat
      OBVIOUS
    <3> HIDE DEF Bad
    <3> QED
      BY <2>1, <3>1, LeastNatural
  <2>3. i \in 1 .. N /\ i - 1 \in 0 .. N /\ ~(i <= i - 1)
    BY <2>2
  <2> QED
    BY <2>2, <2>3
<1>2. \A i \in 0 .. N : a[i] = b[i]
  BY <1>1
<1> QED
  BY <1>2 DEF OfSteps

\* A finite set that shrinks stops to shrink, or is empty in as many steps as it had
\* elements.
LEMMA ChainSettles ==
    ASSUME NEW N \in Nat, NEW W, IsFiniteSet(W[0]), Cardinality(W[0]) <= N,
           \A i \in 1 .. N : W[i] \subseteq W[i - 1]
    PROVE  W[N] = {} \/ \E i \in 1 .. N : W[i] = W[i - 1]
<1>1. SUFFICES ASSUME \A i \in 1 .. N : W[i] # W[i - 1] PROVE W[N] = {}
  OBVIOUS
<1> DEFINE Small(i) == IsFiniteSet(W[i]) /\ Cardinality(W[i]) \in Nat /\ Cardinality(W[i]) + i <= N
           Bad == {i \in 0 .. N : ~Small(i)}
<1>2. Small(0)
  BY FS_CardinalityType
<1>3. ASSUME NEW i \in 1 .. N, Small(i - 1) PROVE Small(i)
  <2>1. W[i] \in SUBSET W[i - 1] /\ W[i - 1] # W[i]
    BY <1>1
  <2>2. IsFiniteSet(W[i]) /\ Cardinality(W[i]) <= Cardinality(W[i - 1])
        /\ Cardinality(W[i - 1]) # Cardinality(W[i])
    BY <2>1, <1>3, FS_Subset
  <2>3. Cardinality(W[i]) \in Nat
    BY <2>2, FS_CardinalityType
  <2> QED
    BY <2>2, <2>3, <1>3
<1>4. Bad = {}
  <2> HIDE DEF Small
  <2>1. SUFFICES ASSUME Bad # {} PROVE FALSE
    OBVIOUS
  <2>2. PICK i \in Bad : \A j \in Bad : i <= j
    <3>1. Bad \subseteq Nat
      OBVIOUS
    <3> HIDE DEF Bad
    <3> QED
      BY <2>1, <3>1, LeastNatural
  <2>3. i # 0
    BY <2>2, <1>2
  <2>4. i \in 1 .. N /\ i - 1 \in 0 .. N /\ ~(i <= i - 1)
    BY <2>2, <2>3
  <2> QED
    BY <2>2, <2>4, <1>3
<1>5. Small(N)
  <2> HIDE DEF Small
  <2> QED
    BY <1>4
<1>6. Cardinality(W[N]) = 0
  BY <1>5
<1> QED
  BY <1>5, <1>6, FS_EmptySet

\* The set of what a list has of its entries is finite and no longer than it.
LEMMA ListImage ==
    ASSUME NEW n \in Nat, NEW f
    PROVE  IsFiniteSet({f[i] : i \in 1 .. n}) /\ Cardinality({f[i] : i \in 1 .. n}) <= n
<1> DEFINE T == {f[i] : i \in 1 .. n}
<1>1. PICK h : h = [i \in 1 .. n |-> f[i]]
  OBVIOUS
<1>2. h \in Surjection(1 .. n, T)
  BY <1>1 DEF Surjection
<1>3. IsFiniteSet(1 .. n) /\ Cardinality(1 .. n) = n
  BY FS_Interval
<1> QED
  BY <1>2, <1>3, FS_Surjection

-----------------------------------------------------------------------------
\* What leads where.
LEMMA AfterOne ==
    ASSUME NEW pairs, NEW p \in pairs
    PROVE  p[2] \in After(pairs, p[1])
BY DEF After

LEMMA AfterStep ==
    ASSUME NEW pairs, NEW x, NEW p \in pairs, p[1] \in After(pairs, x)
    PROVE  p[2] \in After(pairs, x)
BY DEF After

LEMMA AfterLeast ==
    ASSUME NEW pairs, NEW x, NEW S, \A p \in pairs : p[1] \in S \cup {x} => p[2] \in S
    PROVE  After(pairs, x) \subseteq S
<1> DEFINE ends == {p[2] : p \in pairs}
<1>1. \A p \in pairs : p[1] \in (S \cap ends) \cup {x} => p[2] \in S \cap ends
  OBVIOUS
<1> QED
  BY <1>1 DEF After

LEMMA AfterFollows ==
    ASSUME NEW pairs, NEW x, NEW y \in After(pairs, x), NEW z \in After(pairs, y)
    PROVE  z \in After(pairs, x)
<1>1. \A p \in pairs : p[1] \in After(pairs, x) \cup {y} => p[2] \in After(pairs, x)
  BY AfterStep
<1> QED
  BY <1>1, AfterLeast

LEMMA AfterGrows ==
    ASSUME NEW pairs, NEW more, pairs \subseteq more, NEW x
    PROVE  After(pairs, x) \subseteq After(more, x)
<1>1. \A p \in pairs : p[1] \in After(more, x) \cup {x} => p[2] \in After(more, x)
  BY AfterStep, AfterOne
<1> QED
  BY <1>1, AfterLeast

-----------------------------------------------------------------------------
\* The breadth-first walk.
Spread(pairs, A) == A \cup {e[2] : e \in {e \in pairs : e[1] \in A}}

\* What checkReachability visits, step by step.
LEMMA ReachedSpreads ==
    ASSUME NEW g, g.links \in Seq(ToSet(g.links)), NEW start, NEW via
    PROVE  \E v : /\ v[0] = {start}
                  /\ \A i \in 1 .. Len(g.links) : v[i] = Spread(LinkPairs(g, via), v[i - 1])
                  /\ Reached(g, start, via) = v[Len(g.links)] \ {start}
<1> DEFINE N == Len(g.links)
           pairs == LinkPairs(g, via)
           U == {start} \cup {e[2] : e \in pairs}
           Spreads(a) == a = [n \in 0 .. N |->
             IF n = 0 THEN {start} ELSE a[n - 1] \cup {e[2] : e \in {e \in pairs : e[1] \in a[n - 1]}}]
           visited == CHOOSE a : Spreads(a)
<1>1. N \in Nat
  BY LenProperties
<1>2. Reached(g, start, via) = visited[N] \ {start}
  BY DEF Reached
<1> HIDE DEF N, pairs
<1>3. PICK G \in [(1 .. N) \X SUBSET U -> SUBSET U] :
        \A i \in 1 .. N, A \in SUBSET U : G[<<i, A>>] = Spread(pairs, A)
  <2>1. PICK G : G = [q \in (1 .. N) \X SUBSET U |-> Spread(pairs, q[2])]
    OBVIOUS
  <2>2. \A A \in SUBSET U : Spread(pairs, A) \in SUBSET U
    BY DEF Spread
  <2> HIDE DEF U
  <2>3. \A q \in (1 .. N) \X SUBSET U : G[q] = Spread(pairs, q[2]) /\ q[2] \in SUBSET U
    BY <2>1
  <2>4. G \in [(1 .. N) \X SUBSET U -> SUBSET U]
    BY <2>1, <2>2
  <2> QED
    BY <2>3, <2>4
<1>4. PICK v : v \in [0 .. N -> SUBSET U] /\ v[0] = {start} /\ \A i \in 1 .. N : v[i] = G[<<i, v[i - 1]>>]
  <2>1. StepByStep(N, SUBSET U, {start}, G)
    BY <1>1, <1>3, RecursionExists
  <2> QED
    BY <2>1 DEF StepByStep
<1>5. \A i \in 1 .. N : v[i] = Spread(pairs, v[i - 1])
  <2>1. \A i \in 1 .. N : i - 1 \in 0 .. N /\ v[i - 1] \in SUBSET U
    BY <1>1, <1>4
  <2> QED
    BY <1>3, <1>4, <2>1
<1>6. Spreads(v)
  <2>1. \A n \in 0 .. N : v[n] = IF n = 0 THEN {start} ELSE Spread(pairs, v[n - 1])
    <3>1. \A n \in 0 .. N : n = 0 \/ n \in 1 .. N
      BY <1>1
    <3> QED
      BY <3>1, <1>4, <1>5
  <2> QED
    BY <2>1, <1>4 DEF Spread
<1>7. ASSUME NEW a, Spreads(a)
      PROVE  /\ OfSteps(a, N) /\ a[0] = {start}
             /\ \A i \in 1 .. N : a[i] = Spread(pairs, a[i - 1])
  <2>1. \A n \in 0 .. N : a[n] = IF n = 0 THEN {start} ELSE Spread(pairs, a[n - 1])
    BY <1>7 DEF Spread
  <2>2. OfSteps(a, N)
    BY <1>7 DEF OfSteps
  <2>3. 0 \in 0 .. N /\ \A i \in 1 .. N : i \in 0 .. N /\ i # 0
    BY <1>1
  <2> HIDE DEF Spreads
  <2> QED
    BY <2>1, <2>2, <2>3
<1>8. visited = v
  <2>1. Spreads(visited)
    BY <1>6, Zenon
  <2> HIDE DEF Spreads, visited
  <2>2. OfSteps(visited, N) /\ visited[0] = {start}
        /\ \A i \in 1 .. N : visited[i] = Spread(pairs, visited[i - 1])
    BY <1>7, <2>1
  <2>3. OfSteps(v, N)
    BY <1>6, <1>7
  <2>4. visited[0] = v[0] /\ \A i \in 1 .. N : visited[i - 1] = v[i - 1] => visited[i] = v[i]
    BY <1>4, <1>5, <2>2
  <2> QED
    BY <1>1, <2>2, <2>3, <2>4, SameSteps
<1> QED
  BY <1>2, <1>4, <1>5, <1>8 DEF N, pairs

\* The ends of links are no more than the links.
LEMMA LinkEnds ==
    ASSUME NEW g, g.links \in Seq(ToSet(g.links)), NEW types
    PROVE  LET ends == {p[2] : p \in LinkPairs(g, types)}
           IN  IsFiniteSet(ends) /\ Cardinality(ends) <= Len(g.links)
<1> DEFINE ends == {p[2] : p \in LinkPairs(g, types)}
<1>1. PICK n \in Nat : n = Len(g.links) /\ DOMAIN g.links = 1 .. n
  BY LenProperties
<1>2. PICK f : f = [i \in 1 .. n |-> g.links[i].to]
  OBVIOUS
<1>3. ends \in SUBSET {f[i] : i \in 1 .. n}
  BY <1>1, <1>2 DEF LinkPairs
<1>4. IsFiniteSet({f[i] : i \in 1 .. n}) /\ Cardinality({f[i] : i \in 1 .. n}) <= n
  BY ListImage
<1>5. IsFiniteSet(ends) /\ Cardinality(ends) <= Cardinality({f[i] : i \in 1 .. n})
  BY <1>3, <1>4, FS_Subset
<1> QED
  BY <1>1, <1>4, <1>5, FS_CardinalityType

\* The walk finds what the start leads to: it has as many steps as there are links, and
\* until it rests each step visits one more of their ends.
LEMMA ReachedIsAfter ==
    ASSUME NEW g, g.links \in Seq(ToSet(g.links)), NEW start, NEW via
    PROVE  Reached(g, start, via) = After(LinkPairs(g, via), start) \ {start}
<1> DEFINE pairs == LinkPairs(g, via)
           ends == {p[2] : p \in pairs}
           all == After(pairs, start) \cup {start}
<1>1. PICK N \in Nat : N = Len(g.links)
  BY LenProperties
<1>2. PICK v : /\ v[0] = {start} /\ \A i \in 1 .. N : v[i] = Spread(pairs, v[i - 1])
               /\ Reached(g, start, via) = v[N] \ {start}
  <2> HIDE DEF pairs
  <2>1. \E v : /\ v[0] = {start}
               /\ \A i \in 1 .. Len(g.links) : v[i] = Spread(LinkPairs(g, via), v[i - 1])
               /\ Reached(g, start, via) = v[Len(g.links)] \ {start}
    BY ReachedSpreads
  <2> QED
    BY <1>1, <2>1 DEF pairs
<1>3. IsFiniteSet(ends) /\ Cardinality(ends) <= N
  BY <1>1, LinkEnds
<1>4. ASSUME NEW A, A \subseteq all PROVE Spread(pairs, A) \subseteq all
  <2>1. \A p \in pairs : p[1] \in all => p[2] \in all
    <3> HIDE DEF pairs
    <3>1. ASSUME NEW p \in pairs, p[1] \in all PROVE p[2] \in all
      BY <3>1, AfterOne, AfterStep
    <3> QED
      BY <3>1
  <2> QED
    BY <1>4, <2>1 DEF Spread
<1> HIDE DEF pairs, all
<1> DEFINE Bad == {i \in 0 .. N : ~(v[i] \subseteq all /\ start \in v[i])}
<1>5. Bad = {}
  <2>1. SUFFICES ASSUME Bad # {} PROVE FALSE
    OBVIOUS
  <2>2. PICK i \in Bad : \A j \in Bad : i <= j
    <3>1. Bad \subseteq Nat
      OBVIOUS
    <3> HIDE DEF Bad
    <3> QED
      BY <2>1, <3>1, LeastNatural
  <2>3. i # 0
    BY <2>2, <1>2 DEF all
  <2>4. i \in 1 .. N /\ i - 1 \in 0 .. N /\ ~(i <= i - 1)
    BY <2>2, <2>3
  <2>5. v[i - 1] \subseteq all /\ start \in v[i - 1]
    BY <2>2, <2>4
  <2>6. v[i] = Spread(pairs, v[i - 1])
    BY <2>4, <1>2
  <2>7. v[i] \subseteq all /\ start \in v[i]
    BY <2>5, <2>6, <1>4, SMTT(60) DEF Spread
  <2> QED
    BY <2>2, <2>7
<1>6. PICK W : W = [i \in 0 .. N |-> ends \ v[i]]
  OBVIOUS
<1>7. \A i \in 1 .. N : i \in 0 .. N /\ i - 1 \in 0 .. N
  OBVIOUS
<1>8. \A i \in 1 .. N : W[i] \subseteq W[i - 1]
  BY <1>2, <1>6, <1>7 DEF Spread
<1>9. IsFiniteSet(W[0]) /\ Cardinality(W[0]) <= N
  <2>1. W[0] \in SUBSET ends
    BY <1>6
  <2>2. IsFiniteSet(W[0]) /\ Cardinality(W[0]) <= Cardinality(ends)
    BY <2>1, <1>3, FS_Subset
  <2> QED
    BY <2>2, <1>3, FS_CardinalityType
<1>10. W[N] = {} \/ \E i \in 1 .. N : W[i] = W[i - 1]
  BY <1>8, <1>9, ChainSettles
<1>11. all \subseteq v[N]
  <2>1. ASSUME NEW i \in 0 .. N, Spread(pairs, v[i]) \subseteq v[i]
        PROVE  all \subseteq v[i]
    <3>1. \A p \in pairs : p[1] \in v[i] \cup {start} => p[2] \in v[i]
      BY <1>5, <2>1 DEF Spread
    <3>2. After(pairs, start) \subseteq v[i]
      BY <3>1, AfterLeast
    <3> QED
      BY <3>2, <1>5 DEF all
  <2>2. CASE W[N] = {}
    <3>1. ends \subseteq v[N]
      BY <1>6, <2>2
    <3> QED
      BY <3>1, <2>1 DEF Spread
  <2>3. ASSUME NEW i \in 1 .. N, W[i] = W[i - 1] PROVE all \subseteq v[N]
    <3>1. Spread(pairs, v[i - 1]) \subseteq v[i - 1]
      <4>1. v[i] = Spread(pairs, v[i - 1])
        BY <1>2
      <4>2. v[i] \cap ends = v[i - 1] \cap ends
        BY <1>6, <1>7, <1>8, <2>3, <4>1 DEF Spread
      <4> QED
        BY <4>1, <4>2 DEF Spread
    <3>2. all \subseteq v[i - 1]
      BY <1>7, <2>1, <3>1
    <3> DEFINE Less == {k \in 0 .. N : i - 1 <= k /\ ~(all \subseteq v[k])}
    <3>3. Less = {}
      <4>1. SUFFICES ASSUME Less # {} PROVE FALSE
        OBVIOUS
      <4>2. PICK k \in Less : \A j \in Less : k <= j
        <5>1. Less \subseteq Nat
          OBVIOUS
        <5> HIDE DEF Less
        <5> QED
          BY <4>1, <5>1, LeastNatural
      <4>3. k # i - 1
        BY <3>2, <4>2
      <4>4. k \in 1 .. N /\ k - 1 \in 0 .. N /\ i - 1 <= k - 1 /\ ~(k <= k - 1)
        BY <4>2, <4>3
      <4>5. all \subseteq v[k - 1]
        BY <4>2, <4>4
      <4> QED
        BY <1>2, <4>2, <4>4, <4>5 DEF Spread
    <3> QED
      BY <3>3
  <2> QED
    BY <1>10, <2>2, <2>3
<1>12. v[N] = all
  <2>1. v[N] \subseteq all
    BY <1>5
  <2> QED
    BY <2>1, <1>11
<1> QED
  BY <1>2, <1>12 DEF all, pairs

-----------------------------------------------------------------------------
\* A scope's graph is a part of the stored one, and a part has no fewer defects of what is
\* in it.
PartList(t, s) == \E places \in SUBSET (1 .. Len(s)) : PartOf(t, s, places)

ListedRows(g) == g.objects \in Seq(ToSet(g.objects)) /\ g.links \in Seq(ToSet(g.links))

GraphPart(h, g) ==
    /\ ListedRows(g) /\ ListedRows(h)
    /\ PartList(h.objects, g.objects) /\ PartList(h.links, g.links)

LEMMA ListedAgain ==
    ASSUME NEW S, NEW s \in Seq(S)
    PROVE  s \in Seq(ToSet(s))
<1>1. PICK n \in Nat : n = Len(s) /\ DOMAIN s = 1 .. n /\ s \in [1 .. n -> S]
  BY LenProperties
<1>2. s \in [1 .. n -> ToSet(s)]
  BY <1>1 DEF ToSet
<1> QED
  BY <1>2, SeqDef

LEMMA WholeIsPart ==
    ASSUME NEW S, NEW s \in Seq(S)
    PROVE  PartList(s, s)
<1>1. PICK n \in Nat : n = Len(s)
  BY LenProperties
<1>2. PICK from : from = [i \in 1 .. n |-> i]
  OBVIOUS
<1>3. Takes(s, s, 1 .. n, from, n)
  BY <1>2 DEF Takes
<1> QED
  BY <1>1, <1>3 DEF PartList, PartOf

LEMMA ScopeIsPart ==
    ASSUME NEW g, ListedRows(g), NEW types
    PROVE  GraphPart(ScopedGraph(g, types), g)
<1>1. CASE types = {}
  BY <1>1, WholeIsPart DEF ScopedGraph, GraphPart, ListedRows
<1>2. CASE types # {}
  <2>1. ASSUME NEW s, s \in Seq(ToSet(s)), NEW places
        PROVE  Kept(s, places) \in Seq(ToSet(Kept(s, places))) /\ PartList(Kept(s, places), s)
    <3>1. /\ Kept(s, places) \in Seq(ToSet(s))
          /\ PartOf(Kept(s, places), s, {i \in 1 .. Len(s) : i \in places})
      BY <2>1, KeptIsPart
    <3>2. {i \in 1 .. Len(s) : i \in places} \in SUBSET (1 .. Len(s))
      OBVIOUS
    <3> QED
      BY <3>1, <3>2, ListedAgain DEF PartList
  <2>2. PICK objects, inside :
          ScopedGraph(g, types) = [objects |-> Kept(g.objects, objects), links |-> Kept(g.links, inside)]
    BY <1>2 DEF ScopedGraph
  <2> QED
    BY <2>1, <2>2 DEF GraphPart, ListedRows
<1> QED
  BY <1>1, <1>2

\* Each row of t is one of s, at a place of its own.
Embeds(from, t, s) ==
    /\ from \in [DOMAIN t -> DOMAIN s]
    /\ \A i \in DOMAIN t : t[i] = s[from[i]]
    /\ \A i, j \in DOMAIN t : from[i] = from[j] => i = j

LEMMA RowsOfPart ==
    ASSUME NEW t, NEW s, NEW S, NEW S2, t \in Seq(S), s \in Seq(S2), PartList(t, s)
    PROVE  \E from : Embeds(from, t, s)
<1>1. PICK n \in Nat : n = Len(t) /\ DOMAIN t = 1 .. n
  BY LenProperties
<1>2. PICK m \in Nat : m = Len(s) /\ DOMAIN s = 1 .. m
  BY LenProperties
<1>3. PICK places \in SUBSET (1 .. m) : PartOf(t, s, places)
  BY <1>2 DEF PartList
<1>4. PICK from : Takes(t, s, places, from, n)
  BY <1>1, <1>3 DEF PartOf
<1>5. from \in [1 .. n -> 1 .. m] /\ \A i \in 1 .. n : t[i] = s[from[i]]
  BY <1>3, <1>4 DEF Takes
<1>6. ASSUME NEW i \in 1 .. n, NEW j \in 1 .. n, from[i] = from[j] PROVE i = j
  <2>1. from[i] \in Nat
    BY <1>5
  <2>2. ~(from[i] < from[i])
    BY <2>1
  <2>3. ~(i < j) /\ ~(j < i)
    BY <1>4, <1>6, <2>2 DEF Takes
  <2> QED
    BY <2>3
<1> QED
  BY <1>1, <1>2, <1>5, <1>6 DEF Embeds

LEMMA GraphEmbeds ==
    ASSUME NEW g, NEW h, GraphPart(h, g)
    PROVE  (\E from : Embeds(from, h.links, g.links)) /\ (\E from : Embeds(from, h.objects, g.objects))
<1>1. ListedRows(g) /\ ListedRows(h) /\ PartList(h.objects, g.objects) /\ PartList(h.links, g.links)
  BY DEF GraphPart
<1>2. \E from : Embeds(from, h.links, g.links)
  BY <1>1, RowsOfPart DEF ListedRows
<1>3. \E from : Embeds(from, h.objects, g.objects)
  BY <1>1, RowsOfPart DEF ListedRows
<1> QED
  BY <1>2, <1>3

\* A part has no more links that a rule is about, and each is one of the whole.
LEMMA RelatedInPart ==
    ASSUME NEW g, NEW h, GraphPart(h, g), NEW o, NEW r
    PROVE  /\ Cardinality(Related(h, o, r)) \in Nat /\ Cardinality(Related(g, o, r)) \in Nat
           /\ Cardinality(Related(h, o, r)) <= Cardinality(Related(g, o, r))
           /\ \A l \in Related(h, o, r) : \E k \in Related(g, o, r) : h.links[l] = g.links[k]
<1>1. PICK from : Embeds(from, h.links, g.links)
  BY GraphEmbeds
<1>2. Related(h, o, r) \subseteq DOMAIN h.links /\ Related(g, o, r) \subseteq DOMAIN g.links
  BY DEF Related
<1>3. \A i \in Related(h, o, r) : from[i] \in Related(g, o, r) /\ h.links[i] = g.links[from[i]]
  BY <1>1 DEF Related, Embeds
<1>4. IsFiniteSet(Related(g, o, r))
  <2>1. PICK n \in Nat : DOMAIN g.links = 1 .. n
    BY LenProperties DEF GraphPart, ListedRows
  <2> QED
    BY <1>2, <2>1, FS_Interval, FS_Subset
<1>5. PICK f : f = [i \in Related(h, o, r) |-> from[i]]
  OBVIOUS
<1>6. f \in Injection(Related(h, o, r), Related(g, o, r))
  <2>1. f \in [Related(h, o, r) -> Related(g, o, r)]
    BY <1>3, <1>5
  <2>2. \A i, j \in Related(h, o, r) : f[i] = f[j] => i = j
    BY <1>1, <1>2, <1>5 DEF Embeds
  <2> QED
    BY <2>1, <2>2 DEF Injection, IsInjective
<1>7. IsFiniteSet(Related(h, o, r)) /\ Cardinality(Related(h, o, r)) <= Cardinality(Related(g, o, r))
  BY <1>4, <1>6, FS_Injection
<1> QED
  BY <1>3, <1>4, <1>7, FS_CardinalityType

LEMMA PairsInPart ==
    ASSUME NEW g, NEW h, GraphPart(h, g), NEW types, NEW more, types \subseteq more
    PROVE  /\ LinkPairs(h, types) \subseteq LinkPairs(g, more)
           /\ LinkTypesOf(h) \subseteq LinkTypesOf(g)
<1>1. PICK from : Embeds(from, h.links, g.links)
  BY GraphEmbeds
<1>2. LinkPairs(h, types) \subseteq LinkPairs(g, more)
  BY <1>1 DEF LinkPairs, Embeds
<1>3. LinkTypesOf(h) \subseteq LinkTypesOf(g)
  BY <1>1 DEF LinkTypesOf, Embeds
<1> QED
  BY <1>2, <1>3

\* What is reached in a part is reached in the whole.
LEMMA ReachedInPart ==
    ASSUME NEW g, NEW h, GraphPart(h, g), NEW o
    PROVE  Reached(h, o.id, ViaTypes(h, o)) \subseteq Reached(g, o.id, ViaTypes(g, o))
<1>1. PICK via, more : via = ViaTypes(h, o) /\ more = ViaTypes(g, o)
  OBVIOUS
<1>2. via \subseteq more
  BY <1>1, PairsInPart DEF ViaTypes
<1>3. LinkPairs(h, via) \subseteq LinkPairs(g, more)
  BY <1>2, PairsInPart
<1>4. Reached(h, o.id, via) = After(LinkPairs(h, via), o.id) \ {o.id}
      /\ Reached(g, o.id, more) = After(LinkPairs(g, more), o.id) \ {o.id}
  BY ReachedIsAfter DEF GraphPart, ListedRows
<1>5. After(LinkPairs(h, via), o.id) \subseteq After(LinkPairs(g, more), o.id)
  BY <1>3, AfterGrows
<1> QED
  BY <1>1, <1>4, <1>5

UniqueIds(g) == \A i, j \in DOMAIN g.objects : g.objects[i].id = g.objects[j].id => i = j

\* An object of the whole whose id the part has is one of the part.
LEMMA ObjectsInPart ==
    ASSUME NEW g, NEW h, GraphPart(h, g), UniqueIds(g),
           NEW i \in DOMAIN g.objects, g.objects[i].id \in NodeIds(h)
    PROVE  \E j \in DOMAIN h.objects : h.objects[j] = g.objects[i]
<1>1. PICK from : Embeds(from, h.objects, g.objects)
  BY GraphEmbeds
<1>2. PICK j \in DOMAIN h.objects : h.objects[j].id = g.objects[i].id
  BY DEF NodeIds
<1>3. from[j] \in DOMAIN g.objects /\ h.objects[j] = g.objects[from[j]]
  BY <1>1 DEF Embeds
<1> QED
  BY <1>2, <1>3 DEF UniqueIds

LEMMA StatusInPart ==
    ASSUME NEW g, NEW h, GraphPart(h, g), NEW id
    PROVE  StatusOf(h, id) \subseteq StatusOf(g, id)
<1>1. PICK from : Embeds(from, h.objects, g.objects)
  BY GraphEmbeds
<1> QED
  BY <1>1 DEF StatusOf, Embeds

\* A defect of an object in the part is one in the part: it has no more links there.
LEMMA OrphansInPart ==
    ASSUME NEW g, NEW h, GraphPart(h, g), UniqueIds(g), NEW f \in Orphans(g), f.subject \in NodeIds(h)
    PROVE  f \in Orphans(h)
<1>1. PICK i \in Governed(g) :
        /\ f = GraphFinding("GRAPH_ORPHAN", "error", g.objects[i].id)
        /\ RuleFor(g.objects[i]).mustConnect
        /\ \A l \in DOMAIN g.links : g.objects[i].id \notin {g.links[l].from, g.links[l].to}
  BY DEF Orphans
<1>2. i \in DOMAIN g.objects /\ g.objects[i].objectType \in DOMAIN GraphRules /\ g.objects[i].id \in NodeIds(h)
  BY <1>1 DEF Governed, GraphFinding
<1>3. PICK j \in DOMAIN h.objects : h.objects[j] = g.objects[i]
  BY <1>2, ObjectsInPart
<1>4. PICK from : Embeds(from, h.links, g.links)
  BY GraphEmbeds
<1>5. \A l \in DOMAIN h.links : h.objects[j].id \notin {h.links[l].from, h.links[l].to}
  BY <1>1, <1>3, <1>4 DEF Embeds
<1> QED
  BY <1>1, <1>2, <1>3, <1>5 DEF Orphans, Governed

LEMMA RequiredInPart ==
    ASSUME NEW g, NEW h, GraphPart(h, g), UniqueIds(g),
           NEW f \in MissingRequired(g), f.subject \in NodeIds(h)
    PROVE  f \in MissingRequired(h)
<1>0. PICK i \in Governed(g) : \E r \in RuleFor(g.objects[i]).required :
        /\ f = GraphFinding("GRAPH_REQUIRED_RELATIONSHIP", r.severity, g.objects[i].id)
        /\ Cardinality(Related(g, g.objects[i], r)) < r.min
  BY DEF MissingRequired
<1>1. PICK r \in RuleFor(g.objects[i]).required :
        /\ f = GraphFinding("GRAPH_REQUIRED_RELATIONSHIP", r.severity, g.objects[i].id)
        /\ Cardinality(Related(g, g.objects[i], r)) < r.min
  BY <1>0
<1>2. i \in DOMAIN g.objects /\ g.objects[i].objectType \in DOMAIN GraphRules /\ g.objects[i].id \in NodeIds(h)
  BY <1>1 DEF Governed, GraphFinding
<1>3. PICK j \in DOMAIN h.objects : h.objects[j] = g.objects[i]
  BY <1>2, ObjectsInPart
<1>4. r.min \in Nat
  BY <1>1, <1>2, GraphAssumption DEF RuleFor
<1>5. Cardinality(Related(h, h.objects[j], r)) < r.min
  <2>1. PICK a, b : a = Cardinality(Related(h, h.objects[j], r)) /\ b = Cardinality(Related(g, h.objects[j], r))
    OBVIOUS
  <2>2. a \in Nat /\ b \in Nat /\ a <= b
    BY <2>1, RelatedInPart
  <2>3. b < r.min
    BY <1>1, <1>3, <2>1
  <2> QED
    BY <1>4, <2>1, <2>2, <2>3
<1>6. j \in Governed(h) /\ r \in RuleFor(h.objects[j]).required
  BY <1>1, <1>2, <1>3 DEF Governed
<1>7. f = GraphFinding("GRAPH_REQUIRED_RELATIONSHIP", r.severity, h.objects[j].id)
  BY <1>1, <1>3
<1> QED
  BY <1>5, <1>6, <1>7 DEF MissingRequired

LEMMA UnreachableInPart ==
    ASSUME NEW g, NEW h, GraphPart(h, g), UniqueIds(g), NEW f \in Unreachable(g), f.subject \in NodeIds(h)
    PROVE  f \in Unreachable(h)
<1>0. PICK i \in Governed(g) : \E t \in RuleFor(g.objects[i]).mustReach :
        /\ f = GraphFinding("GRAPH_UNREACHABLE", "error", g.objects[i].id)
        /\ ~\E k \in DOMAIN g.objects :
              /\ g.objects[k].objectType = t
              /\ g.objects[k].id \in Reached(g, g.objects[i].id, ViaTypes(g, g.objects[i]))
  BY DEF Unreachable
<1>1. PICK t \in RuleFor(g.objects[i]).mustReach :
        /\ f = GraphFinding("GRAPH_UNREACHABLE", "error", g.objects[i].id)
        /\ ~\E k \in DOMAIN g.objects :
              /\ g.objects[k].objectType = t
              /\ g.objects[k].id \in Reached(g, g.objects[i].id, ViaTypes(g, g.objects[i]))
  BY <1>0
<1>2. i \in DOMAIN g.objects /\ g.objects[i].objectType \in DOMAIN GraphRules /\ g.objects[i].id \in NodeIds(h)
  BY <1>1 DEF Governed, GraphFinding
<1>3. PICK j \in DOMAIN h.objects : h.objects[j] = g.objects[i]
  BY <1>2, ObjectsInPart
<1>4. PICK from : Embeds(from, h.objects, g.objects)
  BY GraphEmbeds
<1>5. Reached(h, h.objects[j].id, ViaTypes(h, h.objects[j])) \subseteq Reached(g, g.objects[i].id, ViaTypes(g, g.objects[i]))
  BY <1>3, ReachedInPart
<1>6. ~\E k \in DOMAIN h.objects :
         /\ h.objects[k].objectType = t
         /\ h.objects[k].id \in Reached(h, h.objects[j].id, ViaTypes(h, h.objects[j]))
  BY <1>1, <1>4, <1>5 DEF Embeds
<1>7. j \in Governed(h) /\ t \in RuleFor(h.objects[j]).mustReach
  BY <1>1, <1>2, <1>3 DEF Governed
<1>8. f = GraphFinding("GRAPH_UNREACHABLE", "error", h.objects[j].id)
  BY <1>1, <1>3
<1> QED
  BY <1>6, <1>7, <1>8 DEF Unreachable

LEMMA PoliciesInPart ==
    ASSUME NEW g, NEW h, GraphPart(h, g), UniqueIds(g), NEW f \in PolicyFailures(g), f.subject \in NodeIds(h)
    PROVE  f \in PolicyFailures(h)
<1>0. PICK i \in Governed(g) : \E p \in RuleFor(g.objects[i]).policies :
        /\ f = GraphFinding("GRAPH_POLICY", p.severity, g.objects[i].id)
        /\ ~\E l \in Related(g, g.objects[i], p) :
              p.withStatus \in {AnyType} \cup StatusOf(g, FarId(g.links[l], p.direction))
  BY DEF PolicyFailures
<1>1. PICK p \in RuleFor(g.objects[i]).policies :
        /\ f = GraphFinding("GRAPH_POLICY", p.severity, g.objects[i].id)
        /\ ~\E l \in Related(g, g.objects[i], p) :
              p.withStatus \in {AnyType} \cup StatusOf(g, FarId(g.links[l], p.direction))
  BY <1>0
<1>2. i \in DOMAIN g.objects /\ g.objects[i].objectType \in DOMAIN GraphRules /\ g.objects[i].id \in NodeIds(h)
  BY <1>1 DEF Governed, GraphFinding
<1>3. PICK j \in DOMAIN h.objects : h.objects[j] = g.objects[i]
  BY <1>2, ObjectsInPart
<1>4. ASSUME NEW l \in Related(h, h.objects[j], p),
             p.withStatus \in {AnyType} \cup StatusOf(h, FarId(h.links[l], p.direction))
      PROVE  FALSE
  <2>1. PICK k \in Related(g, h.objects[j], p) : h.links[l] = g.links[k]
    BY RelatedInPart
  <2>2. StatusOf(h, FarId(h.links[l], p.direction)) \subseteq StatusOf(g, FarId(g.links[k], p.direction))
    BY <2>1, StatusInPart
  <2> QED
    BY <1>1, <1>3, <1>4, <2>1, <2>2
<1>5. j \in Governed(h) /\ p \in RuleFor(h.objects[j]).policies
  BY <1>1, <1>2, <1>3 DEF Governed
<1>6. f = GraphFinding("GRAPH_POLICY", p.severity, h.objects[j].id)
  BY <1>1, <1>3
<1> QED
  BY <1>4, <1>5, <1>6 DEF PolicyFailures

-----------------------------------------------------------------------------
\* The search for cycles, as the steps it may take.
DfsStates(V) ==
    [color : [V -> {"white", "gray", "black"}], stack : Seq(V), cycles : SUBSET SUBSET V,
     todo : [V -> SUBSET V]]

Top(s) == s.stack[Len(s.stack)]

Opens(s, t, n) ==
    /\ s.color[n] = "white" /\ t.color = [s.color EXCEPT ![n] = "gray"]
    /\ t.stack = Append(s.stack, n) /\ t.cycles = s.cycles

Follows(s, t, v) == t.todo = [s.todo EXCEPT ![Top(s)] = @ \ {v}]

StackFrom(s, v) == {s.stack[k] : k \in {k \in DOMAIN s.stack : \E j \in 1 .. k : s.stack[j] = v}}

DfsRests(V, s, t) == s.stack = << >> /\ (\A n \in V : s.color[n] # "white") /\ t = s
DfsRoot(V, s, t) == s.stack = << >> /\ t.todo = s.todo /\ \E n \in V : Opens(s, t, n)
DfsClose(s, t) ==
    /\ s.stack # << >> /\ s.todo[Top(s)] = {} /\ t.todo = s.todo /\ t.cycles = s.cycles
    /\ t.stack = Front(s.stack) /\ t.color = [s.color EXCEPT ![Top(s)] = "black"]
DfsTree(s, t) == s.stack # << >> /\ \E v \in s.todo[Top(s)] : Opens(s, t, v) /\ Follows(s, t, v)
DfsCross(s, t) ==
    /\ s.stack # << >> /\ t.color = s.color /\ t.stack = s.stack /\ t.cycles = s.cycles
    /\ \E v \in s.todo[Top(s)] : s.color[v] = "black" /\ Follows(s, t, v)
DfsBack(s, t) ==
    /\ s.stack # << >> /\ t.color = s.color /\ t.stack = s.stack
    /\ \E v \in s.todo[Top(s)] :
         s.color[v] = "gray" /\ Follows(s, t, v) /\ t.cycles = s.cycles \cup {StackFrom(s, v)}

DfsMove(V, s, t) ==
    \/ DfsRests(V, s, t) \/ DfsRoot(V, s, t) \/ DfsClose(s, t)
    \/ DfsTree(s, t) \/ DfsCross(s, t) \/ DfsBack(s, t)

\* What a stack that is not empty consists of.
LEMMA TopOfStack ==
    ASSUME NEW V, NEW s \in DfsStates(V), s.stack # << >>
    PROVE  /\ Top(s) \in V /\ Last(s.stack) = Top(s) /\ Front(s.stack) \in Seq(V)
           /\ Len(s.stack) \in Nat \ {0} /\ DOMAIN s.stack = 1 .. Len(s.stack)
           /\ Len(Front(s.stack)) = Len(s.stack) - 1
           /\ \A k \in 1 .. Len(s.stack) - 1 : Front(s.stack)[k] = s.stack[k]
<1>1. s.stack \in Seq(V)
  BY DEF DfsStates
<1>2. PICK n \in Nat : n = Len(s.stack) /\ DOMAIN s.stack = 1 .. n /\ s.stack \in [1 .. n -> V]
  BY <1>1, LenProperties
<1>3. n # 0
  BY <1>1, <1>2, EmptySeq
<1>4. s.stack[n] \in V
  BY <1>2, <1>3
<1>5. Front(s.stack) = SubSeq(s.stack, 1, n - 1)
  BY <1>2 DEF Front
<1>6. n - 1 \in 1 - 1 .. n /\ 1 \in 1 .. n + 1
  BY <1>3
<1>7. /\ SubSeq(s.stack, 1, n - 1) \in Seq(V) /\ Len(SubSeq(s.stack, 1, n - 1)) = n - 1
      /\ \A k \in 1 .. n - 1 : SubSeq(s.stack, 1, n - 1)[k] = s.stack[k]
  BY <1>1, <1>2, <1>6
<1> QED
  BY <1>2, <1>3, <1>4, <1>5, <1>7 DEF Top, Last

LEMMA OpensState ==
    ASSUME NEW V, NEW s \in DfsStates(V), NEW n \in V, s.color[n] = "white"
    PROVE  /\ Visit(s, n) \in DfsStates(V) /\ Opens(s, Visit(s, n), n) /\ Visit(s, n).todo = s.todo
<1>1. PICK t : t = [s EXCEPT !.color = [s.color EXCEPT ![n] = "gray"], !.stack = Append(s.stack, n)]
  OBVIOUS
<1>2. Visit(s, n) = t
  BY <1>1 DEF Visit, DfsStates
<1>3. /\ t.color = [s.color EXCEPT ![n] = "gray"] /\ t.stack = Append(s.stack, n)
      /\ t.cycles = s.cycles /\ t.todo = s.todo
      /\ t = [color |-> t.color, stack |-> t.stack, cycles |-> t.cycles, todo |-> t.todo]
  BY <1>1 DEF DfsStates
<1>4. Append(s.stack, n) \in Seq(V)
  BY AppendProperties DEF DfsStates
<1>5. t.color \in [V -> {"white", "gray", "black"}]
  BY <1>3 DEF DfsStates
<1>6. t \in DfsStates(V)
  BY <1>3, <1>4, <1>5 DEF DfsStates
<1> QED
  BY <1>2, <1>3, <1>6 DEF Opens

\* DfsStep does nothing else.
LEMMA DfsStepMoves ==
    ASSUME NEW V, NEW s \in DfsStates(V)
    PROVE  DfsStep(s) \in DfsStates(V) /\ DfsMove(V, s, DfsStep(s))
<1>1. DOMAIN s.color = V
  BY DEF DfsStates
<1>2. CASE s.stack = << >>
  <2> DEFINE roots == {n \in DOMAIN s.color : s.color[n] = "white"}
  <2>1. CASE roots = {}
    <3>1. DfsStep(s) = s
      BY <1>2, <2>1 DEF DfsStep
    <3>2. DfsRests(V, s, s)
      BY <1>1, <1>2, <2>1 DEF DfsRests
    <3> QED
      BY <3>1, <3>2 DEF DfsMove
  <2>2. CASE roots # {}
    <3>1. PICK n : n = CHOOSE r \in roots : TRUE
      OBVIOUS
    <3>2. n \in roots
      BY <2>2, <3>1
    <3>3. DfsStep(s) = Visit(s, n)
      BY <1>2, <2>2, <3>1 DEF DfsStep
    <3>4. n \in V /\ s.color[n] = "white"
      BY <1>1, <3>2
    <3>5. DfsStep(s) \in DfsStates(V) /\ Opens(s, DfsStep(s), n) /\ DfsStep(s).todo = s.todo
      BY <3>3, <3>4, OpensState
    <3> QED
      BY <1>2, <3>4, <3>5 DEF DfsMove, DfsRoot
  <2> QED
    BY <2>1, <2>2
<1>3. CASE s.stack # << >>
  <2>1. PICK u : u = Top(s)
    OBVIOUS
  <2>2. u \in V /\ Last(s.stack) = u /\ Front(s.stack) \in Seq(V)
    BY <1>3, <2>1, TopOfStack
  <2>3. CASE s.todo[u] = {}
    <3>1. PICK t : t = [s EXCEPT !.color = [s.color EXCEPT ![u] = "black"], !.stack = Front(s.stack)]
      OBVIOUS
    <3>2. DfsStep(s) = t
      BY <1>3, <2>2, <2>3, <3>1 DEF DfsStep, DfsStates
    <3>3. /\ t.color = [s.color EXCEPT ![u] = "black"] /\ t.stack = Front(s.stack)
          /\ t.cycles = s.cycles /\ t.todo = s.todo
          /\ t = [color |-> t.color, stack |-> t.stack, cycles |-> t.cycles, todo |-> t.todo]
      BY <3>1 DEF DfsStates
    <3>4. t.color \in [V -> {"white", "gray", "black"}]
      BY <3>3 DEF DfsStates
    <3>5. t \in DfsStates(V)
      BY <2>2, <3>3, <3>4 DEF DfsStates
    <3>6. DfsClose(s, t)
      BY <1>3, <2>1, <2>3, <3>3 DEF DfsClose
    <3> QED
      BY <3>2, <3>5, <3>6 DEF DfsMove
  <2>4. CASE s.todo[u] # {}
    <3>1. PICK v : v = CHOOSE w \in s.todo[u] : TRUE
      OBVIOUS
    <3>2. v \in s.todo[u] /\ v \in V
      BY <2>2, <2>4, <3>1 DEF DfsStates
    <3>3. PICK t : t = [s EXCEPT !.todo = [s.todo EXCEPT ![u] = s.todo[u] \ {v}]]
      OBVIOUS
    <3>4. DfsStep(s) = IF s.color[v] = "white" THEN Visit(t, v)
                       ELSE IF s.color[v] = "black" THEN t
                       ELSE [t EXCEPT !.cycles = @ \cup {StackFrom(s, v)}]
      BY <1>3, <2>2, <2>4, <3>1, <3>3 DEF DfsStep, DfsStates, StackFrom
    <3>5. /\ t.todo = [s.todo EXCEPT ![u] = s.todo[u] \ {v}] /\ t.color = s.color
          /\ t.stack = s.stack /\ t.cycles = s.cycles
          /\ t = [color |-> t.color, stack |-> t.stack, cycles |-> t.cycles, todo |-> t.todo]
      BY <3>3 DEF DfsStates
    <3>6. t.todo \in [V -> SUBSET V]
      BY <2>2, <3>5 DEF DfsStates
    <3>7. t \in DfsStates(V)
      BY <3>5, <3>6 DEF DfsStates
    <3>8. Follows(s, t, v)
      BY <2>1, <3>5 DEF Follows
    <3>9. CASE s.color[v] = "white"
      <4>1. DfsStep(s) = Visit(t, v)
        BY <3>4, <3>9
      <4>2. DfsStep(s) \in DfsStates(V) /\ Opens(t, DfsStep(s), v) /\ DfsStep(s).todo = t.todo
        <5>1. t.color[v] = "white"
          BY <3>5, <3>9
        <5> QED
          BY <4>1, <3>2, <3>7, <5>1, OpensState
      <4>3. Opens(s, DfsStep(s), v) /\ Follows(s, DfsStep(s), v)
        BY <4>2, <3>5, <3>8 DEF Opens, Follows
      <4> QED
        BY <1>3, <2>1, <3>2, <4>2, <4>3 DEF DfsMove, DfsTree
    <3>10. CASE s.color[v] = "black"
      <4>1. DfsStep(s) = t
        BY <3>4, <3>10
      <4>2. DfsCross(s, t)
        BY <1>3, <2>1, <3>2, <3>5, <3>8, <3>10 DEF DfsCross
      <4> QED
        BY <3>7, <4>1, <4>2 DEF DfsMove
    <3>11. CASE s.color[v] \notin {"white", "black"}
      <4>1. s.color[v] = "gray"
        BY <3>2, <3>11 DEF DfsStates
      <4>2. PICK w : w = [t EXCEPT !.cycles = t.cycles \cup {StackFrom(s, v)}]
        OBVIOUS
      <4>3. DfsStep(s) = w
        BY <3>4, <3>11, <4>2
      <4>4. /\ w.todo = t.todo /\ w.color = s.color /\ w.stack = s.stack
            /\ w.cycles = s.cycles \cup {StackFrom(s, v)}
            /\ w = [color |-> w.color, stack |-> w.stack, cycles |-> w.cycles, todo |-> w.todo]
        BY <3>5, <4>2
      <4>5. StackFrom(s, v) \in SUBSET V
        BY <1>3, TopOfStack, ElementOfSeq DEF StackFrom, DfsStates
      <4>6. w \in DfsStates(V)
        BY <3>5, <3>7, <4>4, <4>5 DEF DfsStates
      <4>7. DfsBack(s, w)
        BY <1>3, <2>1, <3>2, <3>8, <4>1, <4>4 DEF DfsBack, Follows
      <4> QED
        BY <4>3, <4>6, <4>7 DEF DfsMove
    <3> QED
      BY <3>9, <3>10, <3>11
  <2> QED
    BY <2>3, <2>4
<1> QED
  BY <1>2, <1>3

Succ(E, n) == {e[2] : e \in {e \in E : e[1] = n}}

\* The gray nodes are those on the stack, along which edges lead; what a node has left to
\* do is all or nothing of its edges once it is white or black.
StackIsGray(V, s) == IsInjective(s.stack) /\ \A n \in V : s.color[n] = "gray" <=> n \in ToSet(s.stack)
StackIsPath(E, s) == \A k \in 1 .. Len(s.stack) - 1 : <<s.stack[k], s.stack[k + 1]>> \in E
EdgesLeft(E, V, s) ==
    \A n \in V :
      /\ s.todo[n] \subseteq Succ(E, n)
      /\ s.color[n] = "white" => s.todo[n] = Succ(E, n)
      /\ s.color[n] = "black" => s.todo[n] = {}

CyclesAreReal(E, s) == \A c \in s.cycles : c # {} /\ \A m, n \in c : n \in After(E, m)

\* As long as there is no cycle: black nodes lead to black ones only and never back, and an
\* edge that was followed leads to a black node or further up the stack.
BlackIsDone(E, V, s) ==
    \A b \in V : s.color[b] = "black" => b \notin After(E, b) /\ \A v \in Succ(E, b) : s.color[v] = "black"
EdgesFollowed(E, s) ==
    \A k \in DOMAIN s.stack : \A v \in Succ(E, s.stack[k]) \ s.todo[s.stack[k]] :
      s.color[v] = "black" \/ \E j \in k + 1 .. Len(s.stack) : s.stack[j] = v

SearchInv(E, V, s) ==
    /\ s \in DfsStates(V) /\ StackIsGray(V, s) /\ StackIsPath(E, s) /\ EdgesLeft(E, V, s)
    /\ CyclesAreReal(E, s)
    /\ s.cycles = {} => BlackIsDone(E, V, s) /\ EdgesFollowed(E, s)

LEMMA SuccEnds ==
    ASSUME NEW V, NEW E, E \subseteq V \X V, NEW n, NEW v
    PROVE  v \in Succ(E, n) <=> n \in V /\ v \in V /\ <<n, v>> \in E
BY DEF Succ

\* What opening a node does to the parts of the invariant.
Opened(E, V, s, t, n) ==
    /\ Len(s.stack) \in Nat /\ Len(t.stack) = Len(s.stack) + 1
    /\ DOMAIN s.stack = 1 .. Len(s.stack) /\ DOMAIN t.stack = 1 .. Len(s.stack) + 1
    /\ t.stack[Len(s.stack) + 1] = n /\ \A k \in 1 .. Len(s.stack) : t.stack[k] = s.stack[k]
    /\ StackIsGray(V, t) /\ t.color[n] = "gray" /\ \A m \in V \ {n} : t.color[m] = s.color[m]
    /\ CyclesAreReal(E, t) /\ (BlackIsDone(E, V, s) => BlackIsDone(E, V, t))

LEMMA OpensKeeps ==
    ASSUME NEW V, NEW E, E \subseteq V \X V, NEW s, NEW t \in DfsStates(V), SearchInv(E, V, s),
           NEW n \in V, Opens(s, t, n)
    PROVE  Opened(E, V, s, t, n)
<1>1. /\ s.color[n] = "white" /\ t.color = [s.color EXCEPT ![n] = "gray"]
      /\ t.stack = Append(s.stack, n) /\ t.cycles = s.cycles
  BY DEF Opens
<1>2. s.stack \in Seq(V) /\ s.color \in [V -> {"white", "gray", "black"}] /\ StackIsGray(V, s)
  BY DEF SearchInv, DfsStates
<1>3. /\ Len(s.stack) \in Nat /\ DOMAIN s.stack = 1 .. Len(s.stack)
      /\ t.stack \in Seq(V) /\ Len(t.stack) = Len(s.stack) + 1 /\ DOMAIN t.stack = 1 .. Len(s.stack) + 1
      /\ t.stack[Len(s.stack) + 1] = n /\ \A k \in 1 .. Len(s.stack) : t.stack[k] = s.stack[k]
  BY <1>1, <1>2, LenProperties, AppendProperties
<1>4. t.color[n] = "gray" /\ \A m \in V \ {n} : t.color[m] = s.color[m]
  BY <1>1, <1>2
<1>5. StackIsGray(V, t)
  <2>1. n \notin ToSet(s.stack)
    BY <1>1, <1>2 DEF StackIsGray
  <2>2. ToSet(t.stack) = ToSet(s.stack) \cup {n} /\ IsInjective(t.stack)
    BY <1>1, <1>2, <2>1, AppendElements DEF StackIsGray
  <2> QED
    BY <1>2, <1>4, <2>2 DEF StackIsGray
<1>6. CyclesAreReal(E, t)
  BY <1>1 DEF CyclesAreReal, SearchInv
<1>7. BlackIsDone(E, V, s) => BlackIsDone(E, V, t)
  <2>1. \A m \in V : t.color[m] = "black" <=> s.color[m] = "black"
    BY <1>1, <1>4
  <2> QED
    BY <2>1, SuccEnds DEF BlackIsDone
<1> QED
  BY <1>3, <1>4, <1>5, <1>6, <1>7 DEF Opened

\* Each move keeps the invariant.
LEMMA RootKeeps ==
    ASSUME NEW V, NEW E, E \subseteq V \X V, NEW s, NEW t \in DfsStates(V), SearchInv(E, V, s), DfsRoot(V, s, t)
    PROVE  SearchInv(E, V, t)
<1>1. s.stack = << >> /\ t.todo = s.todo
  BY DEF DfsRoot
<1>2. PICK n \in V : Opens(s, t, n)
  BY DEF DfsRoot
<1>3. /\ Len(t.stack) = 1 /\ DOMAIN t.stack = 1 .. 1 /\ t.stack[1] = n /\ StackIsGray(V, t) /\ t.color[n] = "gray"
      /\ (\A m \in V \ {n} : t.color[m] = s.color[m]) /\ CyclesAreReal(E, t)
      /\ (BlackIsDone(E, V, s) => BlackIsDone(E, V, t))
  <2>1. /\ Len(t.stack) = Len(s.stack) + 1 /\ DOMAIN t.stack = 1 .. Len(s.stack) + 1
        /\ t.stack[Len(s.stack) + 1] = n
        /\ StackIsGray(V, t) /\ t.color[n] = "gray" /\ (\A m \in V \ {n} : t.color[m] = s.color[m])
        /\ CyclesAreReal(E, t) /\ (BlackIsDone(E, V, s) => BlackIsDone(E, V, t))
    <3>1. Opened(E, V, s, t, n)
      BY <1>2, OpensKeeps
    <3> QED
      BY <3>1 DEF Opened
  <2>2. Len(s.stack) = 0
    BY <1>1
  <2> QED
    BY <2>1, <2>2
<1>4. s.color[n] = "white" /\ t.cycles = s.cycles
  BY <1>2 DEF Opens
<1>5. EdgesLeft(E, V, s)
  BY DEF SearchInv
<1>6. StackIsPath(E, t)
  BY <1>3 DEF StackIsPath
<1>7. EdgesLeft(E, V, t)
  BY <1>1, <1>3, <1>5 DEF EdgesLeft
<1>8. EdgesFollowed(E, t)
  BY <1>1, <1>3, <1>4, <1>5 DEF EdgesFollowed, EdgesLeft
<1> QED
  BY <1>3, <1>4, <1>6, <1>7, <1>8 DEF SearchInv

LEMMA TreeKeeps ==
    ASSUME NEW V, NEW E, E \subseteq V \X V, NEW s, NEW t \in DfsStates(V), SearchInv(E, V, s), DfsTree(s, t)
    PROVE  SearchInv(E, V, t)
<1>1. s \in DfsStates(V) /\ s.stack # << >> /\ EdgesLeft(E, V, s) /\ StackIsGray(V, s) /\ StackIsPath(E, s)
  BY DEF SearchInv, DfsTree
<1>2. PICK u, l : u = Top(s) /\ l = Len(s.stack)
  OBVIOUS
<1>3. u \in V /\ l \in Nat \ {0} /\ DOMAIN s.stack = 1 .. l /\ u = s.stack[l]
  BY <1>1, <1>2, TopOfStack DEF Top
<1>4. PICK v \in s.todo[u] : Opens(s, t, v) /\ t.todo = [s.todo EXCEPT ![u] = @ \ {v}]
  BY <1>2 DEF DfsTree, Follows
<1>5. v \in Succ(E, u) /\ v \in V /\ <<u, v>> \in E
  BY <1>1, <1>3, <1>4, SuccEnds DEF EdgesLeft
<1>6. /\ Len(t.stack) = l + 1 /\ DOMAIN t.stack = 1 .. l + 1 /\ t.stack[l + 1] = v
      /\ (\A k \in 1 .. l : t.stack[k] = s.stack[k]) /\ StackIsGray(V, t) /\ t.color[v] = "gray"
      /\ (\A m \in V \ {v} : t.color[m] = s.color[m]) /\ CyclesAreReal(E, t)
      /\ (BlackIsDone(E, V, s) => BlackIsDone(E, V, t))
  <2>1. /\ Len(t.stack) = Len(s.stack) + 1 /\ DOMAIN t.stack = 1 .. Len(s.stack) + 1
        /\ t.stack[Len(s.stack) + 1] = v /\ (\A k \in 1 .. Len(s.stack) : t.stack[k] = s.stack[k])
        /\ StackIsGray(V, t) /\ t.color[v] = "gray" /\ (\A m \in V \ {v} : t.color[m] = s.color[m])
        /\ CyclesAreReal(E, t) /\ (BlackIsDone(E, V, s) => BlackIsDone(E, V, t))
    <3>1. Opened(E, V, s, t, v)
      BY <1>4, <1>5, OpensKeeps
    <3> QED
      BY <3>1 DEF Opened
  <2> QED
    BY <1>2, <2>1
<1>7. s.color[v] = "white" /\ t.cycles = s.cycles
  BY <1>4 DEF Opens
<1>8. s.color[u] = "gray"
  BY <1>1, <1>3 DEF StackIsGray, ToSet
<1>9. t.todo[u] = s.todo[u] \ {v} /\ \A m \in V \ {u} : t.todo[m] = s.todo[m]
  BY <1>1, <1>3, <1>4 DEF DfsStates
<1>10. StackIsPath(E, t)
  <2>1. ASSUME NEW k \in 1 .. l PROVE <<t.stack[k], t.stack[k + 1]>> \in E
    <3>1. CASE k = l
      BY <1>3, <1>5, <1>6, <3>1
    <3>2. CASE k # l
      <4>1. k \in 1 .. l - 1 /\ k + 1 \in 1 .. l
        BY <1>3, <3>2
      <4> QED
        BY <1>1, <1>2, <1>6, <4>1 DEF StackIsPath
    <3> QED
      BY <3>1, <3>2
  <2> QED
    BY <1>3, <1>6, <2>1 DEF StackIsPath
<1>11. EdgesLeft(E, V, t)
  <2>1. ASSUME NEW m \in V
        PROVE  /\ t.todo[m] \subseteq Succ(E, m)
               /\ t.color[m] = "white" => t.todo[m] = Succ(E, m)
               /\ t.color[m] = "black" => t.todo[m] = {}
    <3>1. CASE m = u
      BY <1>1, <1>6, <1>7, <1>8, <1>9, <3>1 DEF EdgesLeft
    <3>2. CASE m # u
      BY <1>1, <1>6, <1>9, <3>2 DEF EdgesLeft
    <3> QED
      BY <3>1, <3>2
  <2> QED
    BY <2>1 DEF EdgesLeft
<1>12. ASSUME EdgesFollowed(E, s) PROVE EdgesFollowed(E, t)
  <2>1. ASSUME NEW k \in 1 .. l + 1, NEW w \in Succ(E, t.stack[k]) \ t.todo[t.stack[k]]
        PROVE  t.color[w] = "black" \/ \E j \in k + 1 .. l + 1 : t.stack[j] = w
    <3>1. CASE k = l + 1
      <4>1. t.stack[k] = v /\ t.todo[v] = s.todo[v] /\ s.todo[v] = Succ(E, v)
        BY <1>1, <1>5, <1>6, <1>7, <1>8, <1>9, <3>1 DEF EdgesLeft
      <4> QED
        BY <2>1, <4>1
    <3>2. CASE k # l + 1
      <4>1. k \in 1 .. l /\ t.stack[k] = s.stack[k]
        BY <1>3, <1>6, <3>2
      <4>2. s.stack[k] \in V
        BY <1>1, <1>3, <4>1, ElementOfSeq DEF DfsStates
      <4>3. CASE w \in s.todo[s.stack[k]]
        <5>1. s.stack[k] = u /\ w = v
          BY <1>9, <2>1, <4>1, <4>2, <4>3
        <5>2. l + 1 \in k + 1 .. l + 1
          BY <1>3, <4>1
        <5> QED
          BY <1>6, <5>1, <5>2
      <4>4. CASE w \notin s.todo[s.stack[k]]
        <5>1. s.color[w] = "black" \/ \E j \in k + 1 .. l : s.stack[j] = w
          BY <1>2, <1>3, <1>12, <2>1, <4>1, <4>4 DEF EdgesFollowed
        <5>2. w \in V
          BY <2>1 DEF Succ
        <5>3. CASE s.color[w] = "black"
          BY <1>6, <1>7, <5>2, <5>3
        <5>4. ASSUME NEW j \in k + 1 .. l, s.stack[j] = w PROVE \E i \in k + 1 .. l + 1 : t.stack[i] = w
          <6>1. j \in k + 1 .. l + 1 /\ j \in 1 .. l
            BY <1>3, <4>1
          <6> QED
            BY <1>6, <5>4, <6>1
        <5> QED
          BY <5>1, <5>3, <5>4
      <4> QED
        BY <4>3, <4>4
    <3> QED
      BY <3>1, <3>2
  <2> QED
    BY <1>6, <2>1 DEF EdgesFollowed
<1> QED
  BY <1>6, <1>7, <1>10, <1>11, <1>12 DEF SearchInv

LEMMA CloseKeeps ==
    ASSUME NEW V, NEW E, E \subseteq V \X V, NEW s, NEW t \in DfsStates(V), SearchInv(E, V, s), DfsClose(s, t)
    PROVE  SearchInv(E, V, t)
<1>1. s \in DfsStates(V) /\ s.stack # << >> /\ EdgesLeft(E, V, s) /\ StackIsGray(V, s) /\ StackIsPath(E, s)
  BY DEF SearchInv, DfsClose
<1>2. PICK u, l : u = Top(s) /\ l = Len(s.stack)
  OBVIOUS
<1>3. /\ u \in V /\ l \in Nat \ {0} /\ DOMAIN s.stack = 1 .. l /\ u = s.stack[l]
      /\ Front(s.stack) \in Seq(V) /\ Len(Front(s.stack)) = l - 1
      /\ \A k \in 1 .. l - 1 : Front(s.stack)[k] = s.stack[k]
  BY <1>1, <1>2, TopOfStack DEF Top
<1>4. /\ s.todo[u] = {} /\ t.todo = s.todo /\ t.cycles = s.cycles
      /\ t.stack = Front(s.stack) /\ t.color = [s.color EXCEPT ![u] = "black"]
  BY <1>2 DEF DfsClose
<1>5. DOMAIN t.stack = 1 .. l - 1 /\ Len(t.stack) = l - 1 /\ \A k \in 1 .. l - 1 : t.stack[k] = s.stack[k]
  BY <1>3, <1>4, LenProperties
<1>6. t.color[u] = "black" /\ \A m \in V \ {u} : t.color[m] = s.color[m]
  BY <1>1, <1>3, <1>4 DEF DfsStates
<1>7. \A k \in 1 .. l - 1 : k \in 1 .. l /\ k # l
  BY <1>3
<1>8. IsInjective(s.stack)
  BY <1>1 DEF StackIsGray
<1>9. StackIsGray(V, t)
  <2>1. IsInjective(t.stack)
    BY <1>3, <1>5, <1>7, <1>8 DEF IsInjective
  <2>2. ASSUME NEW m \in V PROVE m \in ToSet(t.stack) <=> m \in ToSet(s.stack) /\ m # u
    <3>1. ASSUME m \in ToSet(t.stack) PROVE m \in ToSet(s.stack) /\ m # u
      <4>1. PICK k \in 1 .. l - 1 : m = t.stack[k]
        BY <1>5, <3>1 DEF ToSet
      <4>2. m = s.stack[k] /\ k \in 1 .. l /\ k # l /\ l \in 1 .. l
        BY <1>3, <1>5, <1>7, <4>1
      <4> QED
        BY <1>3, <1>8, <4>2 DEF ToSet, IsInjective
    <3>2. ASSUME m \in ToSet(s.stack), m # u PROVE m \in ToSet(t.stack)
      <4>1. PICK k \in 1 .. l : m = s.stack[k]
        BY <1>3, <3>2 DEF ToSet
      <4>2. k \in 1 .. l - 1
        BY <1>3, <3>2, <4>1
      <4> QED
        BY <1>5, <4>1, <4>2 DEF ToSet
    <3> QED
      BY <3>1, <3>2
  <2>3. \A m \in V : t.color[m] = "gray" <=> s.color[m] = "gray" /\ m # u
    BY <1>6
  <2> QED
    BY <1>1, <2>1, <2>2, <2>3 DEF StackIsGray
<1>10. StackIsPath(E, t)
  <2>1. \A k \in 1 .. l - 1 - 1 : k \in 1 .. l - 1 /\ k + 1 \in 1 .. l - 1
    BY <1>3
  <2> QED
    BY <1>1, <1>2, <1>5, <2>1 DEF StackIsPath
<1>11. EdgesLeft(E, V, t)
  BY <1>1, <1>4, <1>6 DEF EdgesLeft
<1>12. ASSUME BlackIsDone(E, V, s), EdgesFollowed(E, s)
       PROVE  BlackIsDone(E, V, t) /\ EdgesFollowed(E, t)
  <2>1. \A m \in V : s.color[m] = "black" => t.color[m] = "black"
    BY <1>6
  <2>2. \A v \in Succ(E, u) : v \in V /\ s.color[v] = "black"
    <3>1. ASSUME NEW v \in Succ(E, u) PROVE v \in V /\ s.color[v] = "black"
      <4>1. v \in V
        BY SuccEnds
      <4>2. l \in DOMAIN s.stack /\ v \in Succ(E, s.stack[l]) \ s.todo[s.stack[l]]
        BY <1>3, <1>4
      <4>3. s.color[v] = "black" \/ \E j \in l + 1 .. l : s.stack[j] = v
        BY <1>2, <1>12, <4>2 DEF EdgesFollowed
      <4> QED
        BY <1>3, <4>1, <4>3
    <3> QED
      BY <3>1
  <2> DEFINE Done == {m \in V : s.color[m] = "black"}
  <2>3. \A p \in E : p[1] \in Done \cup {u} => p[2] \in Done
    <3>1. ASSUME NEW p \in E, p[1] \in Done \cup {u} PROVE p[2] \in Done
      <4>1. p[1] \in V /\ p[2] \in V /\ p[2] \in Succ(E, p[1])
        BY DEF Succ
      <4>2. CASE p[1] = u
        BY <2>2, <4>1, <4>2
      <4>3. CASE p[1] \in Done
        BY <1>12, <4>1, <4>3 DEF BlackIsDone
      <4> QED
        BY <3>1, <4>2, <4>3
    <3> QED
      BY <3>1
  <2>4. After(E, u) \subseteq Done
    <3> HIDE DEF Done
    <3> QED
      BY <2>3, AfterLeast
  <2>5. u \notin After(E, u)
    <3>1. s.color[u] = "gray"
      BY <1>1, <1>3 DEF StackIsGray, ToSet
    <3> QED
      BY <2>4, <3>1
  <2>6. BlackIsDone(E, V, t)
    <3>1. ASSUME NEW b \in V, t.color[b] = "black"
          PROVE  b \notin After(E, b) /\ \A v \in Succ(E, b) : t.color[v] = "black"
      <4>1. CASE b = u
        BY <2>1, <2>2, <2>5, <4>1
      <4>2. CASE b # u
        <5>1. s.color[b] = "black"
          BY <1>6, <3>1, <4>2
        <5>2. b \notin After(E, b) /\ \A v \in Succ(E, b) : s.color[v] = "black"
          BY <1>12, <5>1 DEF BlackIsDone
        <5> QED
          BY <2>1, <5>2, SuccEnds
      <4> QED
        BY <4>1, <4>2
    <3> QED
      BY <3>1 DEF BlackIsDone
  <2>7. EdgesFollowed(E, t)
    <3>1. ASSUME NEW k \in 1 .. l - 1, NEW w \in Succ(E, t.stack[k]) \ t.todo[t.stack[k]]
          PROVE  t.color[w] = "black" \/ \E j \in k + 1 .. l - 1 : t.stack[j] = w
      <4>1. w \in V
        BY DEF Succ
      <4>2. k \in DOMAIN s.stack /\ w \in Succ(E, s.stack[k]) \ s.todo[s.stack[k]]
        BY <1>3, <1>4, <1>5, <1>7
      <4>3. s.color[w] = "black" \/ \E j \in k + 1 .. l : s.stack[j] = w
        BY <1>2, <1>12, <4>2 DEF EdgesFollowed
      <4>4. ASSUME NEW j \in k + 1 .. l, s.stack[j] = w
            PROVE  t.color[w] = "black" \/ \E i \in k + 1 .. l - 1 : t.stack[i] = w
        <5>1. CASE j = l
          BY <1>3, <1>6, <4>4, <5>1
        <5>2. CASE j # l
          <6>1. j \in k + 1 .. l - 1 /\ j \in 1 .. l - 1
            BY <1>3, <5>2
          <6> QED
            BY <1>5, <4>4, <6>1
        <5> QED
          BY <5>1, <5>2
      <4> QED
        BY <2>1, <4>1, <4>3, <4>4
    <3> QED
      BY <1>5, <3>1 DEF EdgesFollowed
  <2> QED
    BY <2>6, <2>7
<1> QED
  BY <1>4, <1>9, <1>10, <1>11, <1>12 DEF SearchInv, CyclesAreReal

LEMMA CrossKeeps ==
    ASSUME NEW V, NEW E, E \subseteq V \X V, NEW s, NEW t \in DfsStates(V), SearchInv(E, V, s), DfsCross(s, t)
    PROVE  SearchInv(E, V, t)
<1>1. s \in DfsStates(V) /\ s.stack # << >> /\ EdgesLeft(E, V, s) /\ StackIsGray(V, s) /\ StackIsPath(E, s)
  BY DEF SearchInv, DfsCross
<1>2. PICK u : u = Top(s)
  OBVIOUS
<1>3. u \in V
  BY <1>1, <1>2, TopOfStack
<1>4. PICK v \in s.todo[u] : s.color[v] = "black" /\ t.todo = [s.todo EXCEPT ![u] = @ \ {v}]
  BY <1>2 DEF DfsCross, Follows
<1>5. t.color = s.color /\ t.stack = s.stack /\ t.cycles = s.cycles
  BY DEF DfsCross
<1>6. t.todo[u] = s.todo[u] \ {v} /\ \A m \in V \ {u} : t.todo[m] = s.todo[m]
  BY <1>1, <1>3, <1>4 DEF DfsStates
<1>7. s.color[u] = "gray"
  <2>1. Len(s.stack) \in DOMAIN s.stack /\ u = s.stack[Len(s.stack)]
    BY <1>1, <1>2, TopOfStack DEF Top
  <2> QED
    BY <1>1, <1>3, <2>1 DEF StackIsGray, ToSet
<1>8. EdgesLeft(E, V, t)
  <2>1. ASSUME NEW m \in V
        PROVE  /\ t.todo[m] \subseteq Succ(E, m)
               /\ t.color[m] = "white" => t.todo[m] = Succ(E, m)
               /\ t.color[m] = "black" => t.todo[m] = {}
    <3>1. CASE m = u
      BY <1>1, <1>5, <1>6, <1>7, <3>1 DEF EdgesLeft
    <3>2. CASE m # u
      BY <1>1, <1>5, <1>6, <3>2 DEF EdgesLeft
    <3> QED
      BY <3>1, <3>2
  <2> QED
    BY <2>1 DEF EdgesLeft
<1>9. ASSUME EdgesFollowed(E, s) PROVE EdgesFollowed(E, t)
  <2>1. ASSUME NEW k \in DOMAIN s.stack, NEW w \in Succ(E, s.stack[k]) \ t.todo[s.stack[k]]
        PROVE  s.color[w] = "black" \/ \E j \in k + 1 .. Len(s.stack) : s.stack[j] = w
    <3>1. s.stack[k] \in V
      BY <1>1, <2>1 DEF DfsStates
    <3>2. CASE w \in s.todo[s.stack[k]]
      <4>1. s.stack[k] = u /\ w = v
        BY <1>6, <2>1, <3>1, <3>2
      <4> QED
        BY <1>4, <4>1
    <3>3. CASE w \notin s.todo[s.stack[k]]
      BY <1>9, <2>1, <3>3 DEF EdgesFollowed
    <3> QED
      BY <3>2, <3>3
  <2> QED
    BY <1>5, <2>1 DEF EdgesFollowed
<1> QED
  BY <1>5, <1>8, <1>9 DEF SearchInv, StackIsGray, StackIsPath, CyclesAreReal, BlackIsDone

\* Along the stack each node leads to the later ones.
LEMMA StackLeads ==
    ASSUME NEW V, NEW E, NEW s \in DfsStates(V), StackIsPath(E, s),
           NEW i \in 1 .. Len(s.stack), NEW k \in i + 1 .. Len(s.stack)
    PROVE  s.stack[k] \in After(E, s.stack[i])
<1>1. PICK l \in Nat : l = Len(s.stack)
  BY LenProperties DEF DfsStates
<1> DEFINE Bad == {j \in i + 1 .. l : s.stack[j] \notin After(E, s.stack[i])}
<1>2. SUFFICES ASSUME Bad # {} PROVE FALSE
  BY <1>1
<1>3. i \in 1 .. l
  BY <1>1
<1>4. PICK j \in Bad : \A m \in Bad : j <= m
  <2>1. Bad \subseteq Nat
    BY <1>3
  <2> HIDE DEF Bad
  <2> QED
    BY <1>2, <2>1, LeastNatural
<1>5. j - 1 \in 1 .. l - 1 /\ j - 1 + 1 = j /\ ~(j <= j - 1)
  BY <1>3, <1>4
<1>6. <<s.stack[j - 1], s.stack[j]>> \in E
  BY <1>1, <1>5 DEF StackIsPath
<1>7. PICK p \in E : p[1] = s.stack[j - 1] /\ p[2] = s.stack[j]
  BY <1>6
<1>8. CASE j = i + 1
  <2>1. p[1] = s.stack[i]
    BY <1>3, <1>7, <1>8
  <2> QED
    BY <1>4, <1>7, <2>1, AfterOne
<1>9. CASE j # i + 1
  <2>1. j - 1 \in i + 1 .. l
    BY <1>3, <1>4, <1>9
  <2>2. s.stack[j - 1] \in After(E, s.stack[i])
    BY <1>4, <1>5, <2>1
  <2> QED
    BY <1>4, <1>7, <2>2, AfterStep
<1> QED
  BY <1>8, <1>9

LEMMA BackKeeps ==
    ASSUME NEW V, NEW E, E \subseteq V \X V, NEW s, NEW t \in DfsStates(V), SearchInv(E, V, s), DfsBack(s, t)
    PROVE  SearchInv(E, V, t)
<1>1. s \in DfsStates(V) /\ s.stack # << >> /\ EdgesLeft(E, V, s) /\ StackIsGray(V, s) /\ StackIsPath(E, s)
  BY DEF SearchInv, DfsBack
<1>2. PICK u, l : u = Top(s) /\ l = Len(s.stack)
  OBVIOUS
<1>3. u \in V /\ l \in Nat \ {0} /\ DOMAIN s.stack = 1 .. l /\ u = s.stack[l]
  BY <1>1, <1>2, TopOfStack DEF Top
<1>4. PICK v \in s.todo[u] : /\ s.color[v] = "gray" /\ t.todo = [s.todo EXCEPT ![u] = @ \ {v}]
                             /\ t.cycles = s.cycles \cup {StackFrom(s, v)}
  BY <1>2 DEF DfsBack, Follows
<1>5. t.color = s.color /\ t.stack = s.stack
  BY DEF DfsBack
<1>6. t.todo[u] = s.todo[u] \ {v} /\ \A m \in V \ {u} : t.todo[m] = s.todo[m]
  BY <1>1, <1>3, <1>4 DEF DfsStates
<1>7. s.color[u] = "gray"
  BY <1>1, <1>3 DEF StackIsGray, ToSet
<1>8. EdgesLeft(E, V, t)
  <2>1. ASSUME NEW m \in V
        PROVE  /\ t.todo[m] \subseteq Succ(E, m)
               /\ t.color[m] = "white" => t.todo[m] = Succ(E, m)
               /\ t.color[m] = "black" => t.todo[m] = {}
    <3>1. CASE m = u
      BY <1>1, <1>5, <1>6, <1>7, <3>1 DEF EdgesLeft
    <3>2. CASE m # u
      BY <1>1, <1>5, <1>6, <3>2 DEF EdgesLeft
    <3> QED
      BY <3>1, <3>2
  <2> QED
    BY <2>1 DEF EdgesLeft
<1>9. v \in V /\ <<u, v>> \in E
  BY <1>1, <1>3, <1>4, SuccEnds DEF EdgesLeft
<1>10. PICK j \in 1 .. l : s.stack[j] = v
  BY <1>1, <1>3, <1>4, <1>9 DEF StackIsGray, ToSet
<1>11. \A m \in StackFrom(s, v) : \E k \in j .. l : m = s.stack[k]
  <2>1. ASSUME NEW m \in StackFrom(s, v) PROVE \E k \in j .. l : m = s.stack[k]
    <3>1. PICK k \in 1 .. l : m = s.stack[k] /\ \E i \in 1 .. k : s.stack[i] = v
      BY <1>3 DEF StackFrom
    <3>2. PICK i \in 1 .. k : s.stack[i] = v
      BY <3>1
    <3>3. i \in 1 .. l
      BY <1>3
    <3>4. i = j
      BY <1>1, <1>3, <1>10, <3>2, <3>3 DEF StackIsGray, IsInjective
    <3>5. k \in j .. l
      BY <1>3, <3>4
    <3> QED
      BY <3>1, <3>5
  <2> QED
    BY <2>1
<1>12. ASSUME NEW m \in StackFrom(s, v) PROVE v \in After(E, m)
  <2>1. PICK k \in j .. l : m = s.stack[k]
    BY <1>11
  <2>2. PICK p \in E : p[1] = u /\ p[2] = v
    BY <1>9
  <2>3. CASE k = l
    BY <1>3, <2>1, <2>2, <2>3, AfterOne
  <2>4. CASE k # l
    <3>1. k \in 1 .. Len(s.stack) /\ l \in k + 1 .. Len(s.stack)
      BY <1>2, <1>3, <2>4
    <3>2. u \in After(E, m)
      BY <1>1, <1>3, <2>1, <3>1, StackLeads
    <3> QED
      BY <2>2, <3>2, AfterStep
  <2> QED
    BY <2>3, <2>4
<1>13. ASSUME NEW n \in StackFrom(s, v), n # v PROVE n \in After(E, v)
  <2>1. PICK k \in j .. l : n = s.stack[k]
    BY <1>11
  <2>2. k # j
    BY <1>10, <1>13, <2>1
  <2>3. j \in 1 .. Len(s.stack) /\ k \in j + 1 .. Len(s.stack)
    BY <1>2, <1>3, <2>2
  <2> QED
    BY <1>1, <1>10, <2>1, <2>3, StackLeads
<1>14. \A m, n \in StackFrom(s, v) : n \in After(E, m)
  <2>1. ASSUME NEW m \in StackFrom(s, v), NEW n \in StackFrom(s, v) PROVE n \in After(E, m)
    <3>1. CASE n = v
      BY <1>12, <3>1
    <3>2. CASE n # v
      BY <1>12, <1>13, <3>2, AfterFollows
    <3> QED
      BY <3>1, <3>2
  <2> QED
    BY <2>1
<1>15. v \in StackFrom(s, v)
  BY <1>3, <1>10 DEF StackFrom
<1>16. CyclesAreReal(E, t)
  BY <1>4, <1>14, <1>15 DEF CyclesAreReal, SearchInv
<1> QED
  BY <1>1, <1>4, <1>5, <1>8, <1>16 DEF SearchInv, StackIsGray, StackIsPath

LEMMA MoveKeeps ==
    ASSUME NEW V, NEW E, E \subseteq V \X V, NEW s, SearchInv(E, V, s)
    PROVE  SearchInv(E, V, DfsStep(s)) /\ DfsMove(V, s, DfsStep(s))
<1>1. PICK t : t = DfsStep(s)
  OBVIOUS
<1>2. t \in DfsStates(V) /\ DfsMove(V, s, t)
  BY <1>1, DfsStepMoves DEF SearchInv
<1>3. SearchInv(E, V, t)
  <2>1. CASE DfsRests(V, s, t)
    BY <2>1 DEF DfsRests
  <2>2. CASE DfsRoot(V, s, t)
    BY <1>2, <2>2, RootKeeps
  <2>3. CASE DfsClose(s, t)
    BY <1>2, <2>3, CloseKeeps
  <2>4. CASE DfsTree(s, t)
    BY <1>2, <2>4, TreeKeeps
  <2>5. CASE DfsCross(s, t)
    BY <1>2, <2>5, CrossKeeps
  <2>6. CASE DfsBack(s, t)
    BY <1>2, <2>6, BackKeeps
  <2> QED
    BY <1>2, <2>1, <2>2, <2>3, <2>4, <2>5, <2>6 DEF DfsMove
<1> QED
  BY <1>1, <1>2, <1>3

\* What the search still has to do: nodes to open, nodes to close, edges to follow.
Work(V, s) ==
    {w \in (1 .. 3) \X V \X V :
       \/ w[1] = 1 /\ w[2] = w[3] /\ s.color[w[2]] = "white"
       \/ w[1] = 2 /\ w[2] = w[3] /\ s.color[w[2]] # "black"
       \/ w[1] = 3 /\ w[3] \in s.todo[w[2]]}

\* Each move but resting leaves less to do.
LEMMA OpensIsWork ==
    ASSUME NEW V, NEW s \in DfsStates(V), NEW t \in DfsStates(V), NEW n \in V, Opens(s, t, n),
           \A m \in V : t.todo[m] \subseteq s.todo[m]
    PROVE  Work(V, t) \subseteq Work(V, s) /\ Work(V, t) # Work(V, s)
<1>1. s.color[n] = "white" /\ t.color[n] = "gray" /\ \A m \in V \ {n} : t.color[m] = s.color[m]
  BY DEF Opens, DfsStates
<1>2. Work(V, t) \subseteq Work(V, s)
  BY <1>1 DEF Work
<1>3. <<1, n, n>> \in Work(V, s) /\ <<1, n, n>> \notin Work(V, t)
  BY <1>1 DEF Work
<1> QED
  BY <1>2, <1>3

LEMMA EdgeIsWork ==
    ASSUME NEW V, NEW s \in DfsStates(V), NEW t \in DfsStates(V), s.stack # << >>,
           NEW v \in s.todo[Top(s)], Follows(s, t, v), t.color = s.color
    PROVE  Work(V, t) \subseteq Work(V, s) /\ Work(V, t) # Work(V, s)
<1>1. PICK u : u = Top(s)
  OBVIOUS
<1>2. u \in V
  BY <1>1, TopOfStack
<1>3. t.todo[u] = s.todo[u] \ {v} /\ (\A m \in V \ {u} : t.todo[m] = s.todo[m]) /\ v \in V
  BY <1>1, <1>2 DEF Follows, DfsStates
<1>4. Work(V, t) \subseteq Work(V, s)
  BY <1>3 DEF Work
<1>5. <<3, u, v>> \in Work(V, s) /\ <<3, u, v>> \notin Work(V, t)
  BY <1>1, <1>2, <1>3 DEF Work
<1> QED
  BY <1>4, <1>5

LEMMA MoveWorks ==
    ASSUME NEW V, NEW E, NEW s, NEW t \in DfsStates(V), SearchInv(E, V, s), DfsMove(V, s, t)
    PROVE  Work(V, t) \subseteq Work(V, s) /\ (Work(V, t) = Work(V, s) => Work(V, s) = {})
<1>1. s \in DfsStates(V) /\ StackIsGray(V, s) /\ EdgesLeft(E, V, s)
  BY DEF SearchInv
<1>2. CASE DfsRests(V, s, t)
  <2>1. t = s /\ s.stack = << >> /\ \A n \in V : s.color[n] # "white"
    BY <1>2 DEF DfsRests
  <2>2. ToSet(s.stack) = {}
    BY <2>1 DEF ToSet
  <2>3. \A n \in V : s.color[n] = "black"
    BY <1>1, <2>1, <2>2 DEF StackIsGray, DfsStates
  <2>4. \A n \in V : s.todo[n] = {}
    BY <1>1, <2>3 DEF EdgesLeft
  <2>5. Work(V, s) = {}
    BY <2>3, <2>4 DEF Work
  <2> QED
    BY <2>1, <2>5
<1>3. CASE DfsRoot(V, s, t)
  BY <1>1, <1>3, OpensIsWork DEF DfsRoot
<1>4. CASE DfsTree(s, t)
  <2>1. PICK v \in s.todo[Top(s)] : Opens(s, t, v) /\ Follows(s, t, v)
    BY <1>4 DEF DfsTree
  <2>2. v \in V /\ \A m \in V : t.todo[m] \subseteq s.todo[m]
    <3>1. PICK u : u = Top(s) /\ u \in V
      BY <1>1, <1>4, TopOfStack DEF DfsTree
    <3>2. v \in V
      BY <1>1, <2>1, <3>1 DEF DfsStates
    <3>3. t.todo = [s.todo EXCEPT ![u] = s.todo[u] \ {v}]
      BY <2>1, <3>1 DEF Follows
    <3> QED
      BY <1>1, <3>1, <3>2, <3>3 DEF DfsStates
  <2> QED
    BY <1>1, <2>1, <2>2, OpensIsWork
<1>5. CASE DfsClose(s, t)
  <2>1. PICK u \in V : u = Top(s) /\ u \in ToSet(s.stack)
    <3>1. s.stack # << >>
      BY <1>5 DEF DfsClose
    <3>2. Top(s) \in V /\ Len(s.stack) \in DOMAIN s.stack
      BY <1>1, <3>1, TopOfStack
    <3> QED
      BY <3>2 DEF Top, ToSet
  <2>2. s.color[u] = "gray"
    BY <1>1, <2>1 DEF StackIsGray
  <2>3. t.todo = s.todo /\ t.color[u] = "black" /\ \A m \in V \ {u} : t.color[m] = s.color[m]
    BY <1>1, <1>5, <2>1 DEF DfsClose, DfsStates
  <2>4. Work(V, t) \subseteq Work(V, s)
    BY <2>2, <2>3 DEF Work
  <2>5. <<2, u, u>> \in Work(V, s) /\ <<2, u, u>> \notin Work(V, t)
    BY <2>2, <2>3 DEF Work
  <2> QED
    BY <2>4, <2>5
<1>6. CASE DfsCross(s, t)
  <2>1. s.stack # << >> /\ t.color = s.color /\ \E v \in s.todo[Top(s)] : Follows(s, t, v)
    BY <1>6 DEF DfsCross
  <2> QED
    BY <1>1, <2>1, EdgeIsWork
<1>7. CASE DfsBack(s, t)
  <2>1. s.stack # << >> /\ t.color = s.color /\ \E v \in s.todo[Top(s)] : Follows(s, t, v)
    BY <1>7 DEF DfsBack
  <2> QED
    BY <1>1, <2>1, EdgeIsWork
<1> QED
  BY <1>2, <1>3, <1>4, <1>5, <1>6, <1>7 DEF DfsMove

\* The image of a finite set is finite and no larger.
LEMMA ImageCount ==
    ASSUME NEW S, IsFiniteSet(S), NEW f
    PROVE  /\ IsFiniteSet({f[x] : x \in S}) /\ Cardinality({f[x] : x \in S}) \in Nat
           /\ Cardinality(S) \in Nat /\ Cardinality({f[x] : x \in S}) <= Cardinality(S)
<1> DEFINE T == {f[x] : x \in S}
<1>1. PICK h : h = [x \in S |-> f[x]]
  OBVIOUS
<1>2. h \in Surjection(S, T)
  BY <1>1 DEF Surjection
<1>3. IsFiniteSet(T) /\ Cardinality(T) <= Cardinality(S)
  BY <1>2, FS_Surjection
<1> QED
  BY <1>3, FS_CardinalityType

LEMMA UnionCount ==
    ASSUME NEW S, NEW T, IsFiniteSet(S), IsFiniteSet(T), NEW U, U \subseteq S \cup T,
           NEW m \in Nat, NEW n \in Nat, Cardinality(S) <= m, Cardinality(T) <= n
    PROVE  IsFiniteSet(U) /\ Cardinality(U) \in Nat /\ Cardinality(U) <= m + n
<1>1. IsFiniteSet(S \cup T) /\ Cardinality(S \cup T) = Cardinality(S) + Cardinality(T) - Cardinality(S \cap T)
  BY FS_Union
<1>2. IsFiniteSet(S \cap T)
  BY FS_Intersection
<1>3. U \in SUBSET (S \cup T)
  OBVIOUS
<1>4. IsFiniteSet(U) /\ Cardinality(U) <= Cardinality(S \cup T)
  BY <1>1, <1>3, FS_Subset
<1>5. /\ Cardinality(U) \in Nat /\ Cardinality(S) \in Nat /\ Cardinality(T) \in Nat
      /\ Cardinality(S \cap T) \in Nat
  BY <1>2, <1>4, FS_CardinalityType
<1> QED
  BY <1>1, <1>4, <1>5

\* At first there is no more to do than the search has steps.
LEMMA WorkCount ==
    ASSUME NEW V, NEW E, E \subseteq V \X V, IsFiniteSet(V), IsFiniteSet(E), NEW s \in DfsStates(V),
           \A n \in V : s.todo[n] = Succ(E, n)
    PROVE  IsFiniteSet(Work(V, s)) /\ Cardinality(Work(V, s)) <= 2 * Cardinality(V) + Cardinality(E)
<1>1. PICK f : f = [n \in V |-> <<1, n, n>>]
  OBVIOUS
<1>2. PICK h : h = [n \in V |-> <<2, n, n>>]
  OBVIOUS
<1>3. PICK k : k = [e \in E |-> <<3, e[1], e[2]>>]
  OBVIOUS
<1>4. PICK A, B, C : A = {f[n] : n \in V} /\ B = {h[n] : n \in V} /\ C = {k[e] : e \in E}
  OBVIOUS
<1>5. PICK v, e : v = Cardinality(V) /\ e = Cardinality(E)
  OBVIOUS
<1>6. /\ v \in Nat /\ e \in Nat /\ IsFiniteSet(A) /\ IsFiniteSet(B) /\ IsFiniteSet(C)
      /\ Cardinality(A) <= v /\ Cardinality(B) <= v /\ Cardinality(C) <= e
  BY <1>4, <1>5, ImageCount
<1>7. IsFiniteSet(A \cup B) /\ Cardinality(A \cup B) <= v + v
  BY <1>6, UnionCount
<1>8. Work(V, s) \subseteq (A \cup B) \cup C
  <2>1. ASSUME NEW w \in Work(V, s) PROVE w \in (A \cup B) \cup C
    <3>1. w \in (1 .. 3) \X V \X V /\ w = <<w[1], w[2], w[3]>> /\ w[2] \in V /\ w[3] \in V
      BY DEF Work
    <3>2. CASE w[1] = 1
      <4>1. w = f[w[2]]
        BY <1>1, <3>1, <3>2 DEF Work
      <4> QED
        BY <1>4, <3>1, <4>1
    <3>3. CASE w[1] = 2
      <4>1. w = h[w[2]]
        BY <1>2, <3>1, <3>3 DEF Work
      <4> QED
        BY <1>4, <3>1, <4>1
    <3>4. CASE w[1] = 3
      <4>1. w[3] \in Succ(E, w[2])
        BY <3>1, <3>4 DEF Work
      <4>2. PICK p \in E : p[1] = w[2] /\ p[2] = w[3]
        BY <4>1 DEF Succ
      <4>3. w = k[p]
        BY <1>3, <3>1, <3>4, <4>2
      <4> QED
        BY <1>4, <4>2, <4>3
    <3> QED
      BY <3>1, <3>2, <3>3, <3>4 DEF Work
  <2> QED
    BY <2>1
<1>9. IsFiniteSet(Work(V, s)) /\ Cardinality(Work(V, s)) <= v + v + e
  <2>1. v + v \in Nat
    BY <1>6
  <2> QED
    BY <1>6, <1>7, <1>8, <2>1, UnionCount
<1> QED
  BY <1>5, <1>6, <1>9

LEMMA StartKeeps ==
    ASSUME NEW V, NEW E, E \subseteq V \X V
    PROVE  SearchInv(E, V, DfsStart(E, V)) /\ \A n \in V : DfsStart(E, V).todo[n] = Succ(E, n)
<1>1. PICK s : s = DfsStart(E, V)
  OBVIOUS
<1>2. /\ s.color = [n \in V |-> "white"] /\ s.stack = << >> /\ s.cycles = {}
      /\ s.todo = [n \in V |-> Succ(E, n)]
      /\ s = [color |-> s.color, stack |-> s.stack, cycles |-> s.cycles, todo |-> s.todo]
  BY <1>1 DEF DfsStart, Succ
<1>3. \A n \in V : Succ(E, n) \in SUBSET V
  BY DEF Succ
<1>4. s.todo \in [V -> SUBSET V] /\ s.color \in [V -> {"white", "gray", "black"}]
  BY <1>2, <1>3
<1>5. s \in DfsStates(V)
  <2>1. s.stack \in Seq(V) /\ s.cycles \in SUBSET SUBSET V
    BY <1>2, EmptySeq
  <2>2. PICK color, stack, cycles, todo :
          color = s.color /\ stack = s.stack /\ cycles = s.cycles /\ todo = s.todo
    OBVIOUS
  <2>3. [color |-> color, stack |-> stack, cycles |-> cycles, todo |-> todo] \in DfsStates(V)
    BY <1>4, <2>1, <2>2 DEF DfsStates
  <2> QED
    BY <1>2, <2>2, <2>3
<1>6. DOMAIN s.stack = {} /\ Len(s.stack) = 0 /\ ToSet(s.stack) = {}
  BY <1>2 DEF ToSet
<1>7. StackIsGray(V, s) /\ StackIsPath(E, s) /\ EdgesFollowed(E, s)
  BY <1>2, <1>6 DEF StackIsGray, StackIsPath, EdgesFollowed, IsInjective
<1>8. EdgesLeft(E, V, s) /\ CyclesAreReal(E, s) /\ BlackIsDone(E, V, s)
  BY <1>2 DEF EdgesLeft, CyclesAreReal, BlackIsDone
<1> QED
  BY <1>1, <1>2, <1>5, <1>7, <1>8 DEF SearchInv

\* Links are finitely many, and so are their ends.
LinkNodes(E) == UNION {{e[1], e[2]} : e \in E}

LEMMA LinksAreFinite ==
    ASSUME NEW g, g.links \in Seq(ToSet(g.links)), NEW types
    PROVE  LET E == LinkPairs(g, types)
           IN  E \subseteq LinkNodes(E) \X LinkNodes(E) /\ IsFiniteSet(E) /\ IsFiniteSet(LinkNodes(E))
<1> DEFINE E == LinkPairs(g, types)
<1>1. PICK n \in Nat : n = Len(g.links) /\ DOMAIN g.links = 1 .. n
  BY LenProperties
<1>2. PICK f : f = [i \in 1 .. n |-> <<g.links[i].from, g.links[i].to>>]
  OBVIOUS
<1>3. E \in SUBSET {f[i] : i \in 1 .. n}
  BY <1>1, <1>2 DEF LinkPairs
<1>4. IsFiniteSet(E)
  <2>1. IsFiniteSet({f[i] : i \in 1 .. n})
    BY ListImage
  <2> QED
    BY <1>3, <2>1, FS_Subset
<1>5. E \subseteq LinkNodes(E) \X LinkNodes(E)
  <2>1. \A e \in E : e = <<e[1], e[2]>>
    BY DEF LinkPairs
  <2> HIDE DEF E
  <2> QED
    BY <2>1 DEF LinkNodes
<1> HIDE DEF E
<1>6. PICK a, b : a = [e \in E |-> e[1]] /\ b = [e \in E |-> e[2]]
  OBVIOUS
<1>7. LinkNodes(E) \subseteq {a[e] : e \in E} \cup {b[e] : e \in E}
  BY <1>6 DEF LinkNodes
<1>8. PICK k \in Nat : k = Cardinality(E)
  BY <1>4, FS_CardinalityType
<1>9. IsFiniteSet(LinkNodes(E))
  <2>1. PICK A, B : A = {a[e] : e \in E} /\ B = {b[e] : e \in E}
    OBVIOUS
  <2>2. IsFiniteSet(A) /\ IsFiniteSet(B) /\ Cardinality(A) <= k /\ Cardinality(B) <= k
    BY <1>4, <1>8, <2>1, ImageCount
  <2> QED
    BY <1>7, <1>8, <2>1, <2>2, UnionCount
<1> QED
  BY <1>4, <1>5, <1>9 DEF E

SearchFrom(x, N) ==
    LET search[n \in 0 .. N] == IF n = 0 THEN x ELSE DfsStep(search[n - 1]) IN search

SearchRuns(s, D, x, N) ==
    s \in [0 .. N -> D] /\ s[0] = x /\ \A i \in 1 .. N : s[i] = DfsStep(s[i - 1])

\* The search exists, and takes the steps it says.
LEMMA SearchSteps ==
    ASSUME NEW N \in Nat, NEW D, NEW x \in D, \A s \in D : DfsStep(s) \in D
    PROVE  SearchRuns(SearchFrom(x, N), D, x, N)
<1> DEFINE Searches(a) == a = [n \in 0 .. N |-> IF n = 0 THEN x ELSE DfsStep(a[n - 1])]
           search == CHOOSE a : Searches(a)
<1>1. SearchFrom(x, N) = search
  BY DEF SearchFrom
<1>2. PICK G : G \in [(1 .. N) \X D -> D] /\ \A i \in 1 .. N, s \in D : G[<<i, s>>] = DfsStep(s)
  <2>1. PICK G : G = [q \in (1 .. N) \X D |-> DfsStep(q[2])]
    OBVIOUS
  <2>2. \A q \in (1 .. N) \X D : q[2] \in D
    OBVIOUS
  <2>3. G \in [(1 .. N) \X D -> D]
    BY <2>1, <2>2
  <2>4. \A i \in 1 .. N, s \in D : G[<<i, s>>] = DfsStep(s)
    BY <2>1
  <2> QED
    BY <2>3, <2>4
<1>3. PICK v : v \in [0 .. N -> D] /\ v[0] = x /\ \A i \in 1 .. N : v[i] = G[<<i, v[i - 1]>>]
  <2>1. StepByStep(N, D, x, G)
    BY <1>2, RecursionExists
  <2> QED
    BY <2>1 DEF StepByStep
<1>4. \A i \in 1 .. N : v[i] = DfsStep(v[i - 1])
  <2>1. \A i \in 1 .. N : i - 1 \in 0 .. N /\ v[i - 1] \in D
    BY <1>3
  <2> QED
    BY <1>2, <1>3, <2>1
<1>5. Searches(v)
  <2>1. \A n \in 0 .. N : v[n] = IF n = 0 THEN x ELSE DfsStep(v[n - 1])
    <3>1. \A n \in 0 .. N : n = 0 \/ n \in 1 .. N
      OBVIOUS
    <3> QED
      BY <3>1, <1>3, <1>4
  <2> QED
    BY <2>1, <1>3
<1>6. ASSUME NEW a, Searches(a)
      PROVE  OfSteps(a, N) /\ a[0] = x /\ \A i \in 1 .. N : a[i] = DfsStep(a[i - 1])
  <2>1. \A n \in 0 .. N : a[n] = IF n = 0 THEN x ELSE DfsStep(a[n - 1])
    BY <1>6
  <2>2. OfSteps(a, N)
    BY <1>6 DEF OfSteps
  <2>3. 0 \in 0 .. N /\ \A i \in 1 .. N : i \in 0 .. N /\ i # 0
    OBVIOUS
  <2> HIDE DEF Searches
  <2> QED
    BY <2>1, <2>2, <2>3
<1>7. search = v
  <2>1. Searches(search)
    BY <1>5, Zenon
  <2> HIDE DEF Searches, search
  <2>2. OfSteps(search, N) /\ search[0] = x /\ \A i \in 1 .. N : search[i] = DfsStep(search[i - 1])
    BY <1>6, <2>1
  <2>3. OfSteps(v, N)
    BY <1>5, <1>6
  <2>4. search[0] = v[0] /\ \A i \in 1 .. N : search[i - 1] = v[i - 1] => search[i] = v[i]
    BY <1>3, <1>4, <2>2
  <2> QED
    BY <2>2, <2>3, <2>4, SameSteps
<1> HIDE DEF Searches, search
<1> QED
  BY <1>1, <1>3, <1>4, <1>7 DEF SearchRuns

LEMMA SearchStates ==
    ASSUME NEW V, NEW E, E \subseteq V \X V, NEW N \in Nat
    PROVE  LET s == SearchFrom(DfsStart(E, V), N)
           IN  /\ \A i \in 0 .. N : SearchInv(E, V, s[i])
               /\ s[0] = DfsStart(E, V)
               /\ \A i \in 1 .. N : s[i] = DfsStep(s[i - 1])
<1> DEFINE D == {s \in DfsStates(V) : SearchInv(E, V, s)}
<1>1. DfsStart(E, V) \in D
  BY StartKeeps DEF SearchInv
<1>2. \A s \in D : DfsStep(s) \in D
  BY MoveKeeps DEF SearchInv
<1>3. \A s \in D : SearchInv(E, V, s)
  OBVIOUS
<1> HIDE DEF D
<1>4. PICK s, x : s = SearchFrom(x, N) /\ x = DfsStart(E, V)
  OBVIOUS
<1>5. s \in [0 .. N -> D] /\ s[0] = DfsStart(E, V) /\ \A i \in 1 .. N : s[i] = DfsStep(s[i - 1])
  <2>1. x \in D
    BY <1>1, <1>4
  <2>2. SearchRuns(SearchFrom(x, N), D, x, N)
    BY <1>2, <2>1, SearchSteps
  <2> QED
    BY <1>4, <2>2 DEF SearchRuns
<1>6. \A i \in 0 .. N : SearchInv(E, V, s[i])
  BY <1>3, <1>5
<1> QED
  BY <1>4, <1>5, <1>6

\* What has shrunk stays small.
LEMMA ChainShrinks ==
    ASSUME NEW N \in Nat, NEW W, \A i \in 1 .. N : W[i] \subseteq W[i - 1], NEW i \in 0 .. N
    PROVE  W[N] \subseteq W[i]
<1> DEFINE Bad == {k \in 0 .. N : i <= k /\ ~(W[k] \subseteq W[i])}
<1>1. SUFFICES ASSUME Bad # {} PROVE FALSE
  OBVIOUS
<1>2. PICK k \in Bad : \A j \in Bad : k <= j
  <2>1. Bad \subseteq Nat
    OBVIOUS
  <2> HIDE DEF Bad
  <2> QED
    BY <1>1, <2>1, LeastNatural
<1>3. k # i
  BY <1>2
<1>4. k \in 1 .. N /\ k - 1 \in 0 .. N /\ i <= k - 1 /\ ~(k <= k - 1)
  BY <1>2, <1>3
<1> QED
  BY <1>2, <1>4

\* The search ends with every node black: without a cycle found there is none.
LEMMA CyclesAreExact ==
    ASSUME NEW g, g.links \in Seq(ToSet(g.links)), NEW type
    PROVE  LET pairs == LinkPairs(g, {type})
           IN  /\ CyclesOver(g, type) # {} <=> \E p \in pairs : p[1] \in After(pairs, p[1])
               /\ \A cycle \in CyclesOver(g, type) : \A m, n \in cycle : n \in After(pairs, m)
<1>1. PICK E, V : E = LinkPairs(g, {type}) /\ V = LinkNodes(E)
  OBVIOUS
<1>2. E \subseteq V \X V /\ IsFiniteSet(E) /\ IsFiniteSet(V)
  BY <1>1, LinksAreFinite
<1>3. PICK N \in Nat : N = 2 * Cardinality(V) + Cardinality(E)
  <2>1. Cardinality(V) \in Nat /\ Cardinality(E) \in Nat
    BY <1>2, FS_CardinalityType
  <2> QED
    BY <2>1
<1>4. PICK s : /\ \A i \in 0 .. N : SearchInv(E, V, s[i])
               /\ s[0] = DfsStart(E, V)
               /\ \A i \in 1 .. N : s[i] = DfsStep(s[i - 1])
               /\ CyclesOver(g, type) = s[N].cycles
  <2>1. CyclesOver(g, type) = SearchFrom(DfsStart(E, V), N)[N].cycles
    BY <1>1, <1>3 DEF CyclesOver, SearchFrom, LinkNodes
  <2> QED
    BY <1>2, <2>1, SearchStates
<1>5. PICK W : W = [i \in 0 .. N |-> Work(V, s[i])]
  OBVIOUS
<1>6. ASSUME NEW i \in 1 .. N
      PROVE  W[i] \subseteq W[i - 1] /\ (W[i] = W[i - 1] => W[i - 1] = {})
  <2>1. i \in 0 .. N /\ i - 1 \in 0 .. N
    OBVIOUS
  <2>2. SearchInv(E, V, s[i - 1]) /\ s[i] \in DfsStates(V) /\ DfsMove(V, s[i - 1], s[i])
    BY <1>2, <1>4, <2>1, MoveKeeps DEF SearchInv
  <2>3. Work(V, s[i]) \subseteq Work(V, s[i - 1])
        /\ (Work(V, s[i]) = Work(V, s[i - 1]) => Work(V, s[i - 1]) = {})
    BY <2>2, MoveWorks
  <2> QED
    BY <1>5, <2>1, <2>3
<1>7. W[N] = {}
  <2>1. IsFiniteSet(W[0]) /\ Cardinality(W[0]) <= N
    <3>1. s[0] \in DfsStates(V) /\ \A n \in V : s[0].todo[n] = Succ(E, n)
      BY <1>2, <1>4, StartKeeps DEF SearchInv
    <3> QED
      BY <1>2, <1>3, <1>5, <3>1, WorkCount
  <2>2. W[N] = {} \/ \E i \in 1 .. N : W[i] = W[i - 1]
    BY <1>6, <2>1, ChainSettles, SMTT(60)
  <2>3. ASSUME NEW i \in 1 .. N, W[i] = W[i - 1] PROVE W[N] = {}
    <3>1. i - 1 \in 0 .. N /\ W[i - 1] = {}
      BY <1>6, <2>3
    <3>2. W[N] \subseteq W[i - 1]
      BY <1>6, <3>1, ChainShrinks
    <3> QED
      BY <3>1, <3>2
  <2> QED
    BY <2>2, <2>3
<1>8. SearchInv(E, V, s[N]) /\ Work(V, s[N]) = {}
  BY <1>4, <1>5, <1>7
<1>9. \A n \in V : s[N].color[n] = "black"
  <2>1. ASSUME NEW n \in V, s[N].color[n] # "black" PROVE FALSE
    <3>1. <<2, n, n>> \in Work(V, s[N])
      BY <2>1 DEF Work
    <3> QED
      BY <1>8, <3>1
  <2> QED
    BY <2>1
<1>10. \A c \in s[N].cycles : c # {} /\ \A m, n \in c : n \in After(E, m)
  BY <1>8 DEF SearchInv, CyclesAreReal
<1>11. ASSUME s[N].cycles # {} PROVE \E p \in E : p[1] \in After(E, p[1])
  <2>1. PICK c \in s[N].cycles : c # {}
    BY <1>10, <1>11
  <2>2. PICK m \in c : m \in After(E, m)
    BY <1>10, <2>1
  <2>3. PICK p \in E : p[1] = m
    <3>1. SUFFICES ASSUME \A p \in E : p[1] # m PROVE FALSE
      OBVIOUS
    <3>2. \A p \in E : p[1] \in {} \cup {m} => p[2] \in {}
      BY <3>1
    <3>3. After(E, m) \subseteq {}
      BY <3>2, AfterLeast
    <3> QED
      BY <2>2, <3>3
  <2> QED
    BY <2>2, <2>3
<1>12. ASSUME s[N].cycles = {}, NEW p \in E PROVE p[1] \notin After(E, p[1])
  <2>1. p[1] \in V
    BY <1>2
  <2>2. BlackIsDone(E, V, s[N])
    BY <1>8, <1>12 DEF SearchInv
  <2> QED
    BY <1>9, <2>1, <2>2 DEF BlackIsDone
<1> QED
  BY <1>1, <1>4, <1>10, <1>11, <1>12, ZenonT(60)

-----------------------------------------------------------------------------
\* Union-find.  Going up from a node, by as many steps as one likes.
UpFrom(p, x, N) == LET up[k \in 0 .. N] == IF k = 0 THEN x ELSE p[up[k - 1]] IN up

GoesUp(u, p, V, x, N) == u \in [0 .. N -> V] /\ u[0] = x /\ \A i \in 1 .. N : u[i] = p[u[i - 1]]

LEMMA UpSteps ==
    ASSUME NEW N \in Nat, NEW V, NEW p \in [V -> V], NEW x \in V
    PROVE  GoesUp(UpFrom(p, x, N), p, V, x, N)
<1> DEFINE Ups(a) == a = [k \in 0 .. N |-> IF k = 0 THEN x ELSE p[a[k - 1]]]
           up == CHOOSE a : Ups(a)
<1>1. UpFrom(p, x, N) = up
  BY DEF UpFrom
<1>2. PICK G : G \in [(1 .. N) \X V -> V] /\ \A i \in 1 .. N, s \in V : G[<<i, s>>] = p[s]
  <2>1. PICK G : G = [q \in (1 .. N) \X V |-> p[q[2]]]
    OBVIOUS
  <2>2. \A q \in (1 .. N) \X V : q[2] \in V
    OBVIOUS
  <2>3. G \in [(1 .. N) \X V -> V]
    BY <2>1, <2>2
  <2>4. \A i \in 1 .. N, s \in V : G[<<i, s>>] = p[s]
    BY <2>1
  <2> QED
    BY <2>3, <2>4
<1>3. PICK v : v \in [0 .. N -> V] /\ v[0] = x /\ \A i \in 1 .. N : v[i] = G[<<i, v[i - 1]>>]
  <2>1. StepByStep(N, V, x, G)
    BY <1>2, RecursionExists
  <2> QED
    BY <2>1 DEF StepByStep
<1>4. \A i \in 1 .. N : v[i] = p[v[i - 1]]
  <2>1. \A i \in 1 .. N : i - 1 \in 0 .. N /\ v[i - 1] \in V
    BY <1>3
  <2> QED
    BY <1>2, <1>3, <2>1
<1>5. Ups(v)
  <2>1. \A n \in 0 .. N : v[n] = IF n = 0 THEN x ELSE p[v[n - 1]]
    <3>1. \A n \in 0 .. N : n = 0 \/ n \in 1 .. N
      OBVIOUS
    <3> QED
      BY <3>1, <1>3, <1>4
  <2> QED
    BY <2>1, <1>3
<1>6. ASSUME NEW a, Ups(a)
      PROVE  OfSteps(a, N) /\ a[0] = x /\ \A i \in 1 .. N : a[i] = p[a[i - 1]]
  <2>1. \A n \in 0 .. N : a[n] = IF n = 0 THEN x ELSE p[a[n - 1]]
    BY <1>6
  <2>2. OfSteps(a, N)
    BY <1>6 DEF OfSteps
  <2>3. 0 \in 0 .. N /\ \A i \in 1 .. N : i \in 0 .. N /\ i # 0
    OBVIOUS
  <2> HIDE DEF Ups
  <2> QED
    BY <2>1, <2>2, <2>3
<1>7. up = v
  <2>1. Ups(up)
    BY <1>5, Zenon
  <2> HIDE DEF Ups, up
  <2>2. OfSteps(up, N) /\ up[0] = x /\ \A i \in 1 .. N : up[i] = p[up[i - 1]]
    BY <1>6, <2>1
  <2>3. OfSteps(v, N)
    BY <1>5, <1>6
  <2>4. up[0] = v[0] /\ \A i \in 1 .. N : up[i - 1] = v[i - 1] => up[i] = v[i]
    BY <1>3, <1>4, <2>2
  <2> QED
    BY <2>2, <2>3, <2>4, SameSteps
<1> HIDE DEF Ups, up
<1> QED
  BY <1>1, <1>3, <1>4, <1>7 DEF GoesUp

\* A forest: going up stays inside and ends at a root, wherever one may not leave.
ClosedUp(p, S) == \A x \in S : p[x] \in S
Forest(V, p) ==
    p \in [V -> V] /\ \A S \in SUBSET V : S # {} /\ ClosedUp(p, S) => \E x \in S : p[x] = x

LEMMA UpStays ==
    ASSUME NEW N \in Nat, NEW V, NEW p \in [V -> V], NEW x, NEW u, GoesUp(u, p, V, x, N),
           NEW S \in SUBSET V, ClosedUp(p, S), NEW m \in 0 .. N, u[m] \in S, NEW k \in m .. N
    PROVE  u[k] \in S
<1> DEFINE Bad == {i \in m .. N : u[i] \notin S}
<1>1. SUFFICES ASSUME Bad # {} PROVE FALSE
  OBVIOUS
<1>2. PICK i \in Bad : \A j \in Bad : i <= j
  <2>1. Bad \subseteq Nat
    OBVIOUS
  <2> HIDE DEF Bad
  <2> QED
    BY <1>1, <2>1, LeastNatural
<1>3. i # m
  BY <1>2
<1>4. i \in 1 .. N /\ i - 1 \in m .. N /\ ~(i <= i - 1)
  BY <1>2, <1>3
<1>5. u[i - 1] \in S /\ u[i] = p[u[i - 1]]
  BY <1>2, <1>4 DEF GoesUp
<1> QED
  BY <1>2, <1>5 DEF ClosedUp

\* As many steps up as there are nodes end at a root: what was seen on the way comes to be
\* closed under parents.
LEMMA UpEnds ==
    ASSUME NEW V, IsFiniteSet(V), NEW p, Forest(V, p), NEW x \in V,
           NEW N \in Nat, N = Cardinality(V), NEW u, GoesUp(u, p, V, x, N)
    PROVE  p[u[N]] = u[N]
<1>1. p \in [V -> V]
  BY DEF Forest
<1>2. u \in [0 .. N -> V] /\ u[0] = x /\ \A i \in 1 .. N : u[i] = p[u[i - 1]]
  BY DEF GoesUp
<1> DEFINE Seen(i) == {u[k] : k \in 0 .. i}
<1>3. PICK W : W = [i \in 0 .. N |-> V \ Seen(i)]
  OBVIOUS
<1>4. \A i \in 1 .. N : W[i] \subseteq W[i - 1]
  <2>1. ASSUME NEW i \in 1 .. N PROVE i \in 0 .. N /\ i - 1 \in 0 .. N /\ Seen(i - 1) \subseteq Seen(i)
    OBVIOUS
  <2> HIDE DEF Seen
  <2> QED
    BY <1>3, <2>1
<1>5. IsFiniteSet(W[0]) /\ Cardinality(W[0]) <= N
  <2>1. W[0] \in SUBSET V
    BY <1>3
  <2> QED
    BY <2>1, FS_Subset
<1>6. W[N] = {} \/ \E i \in 1 .. N : W[i] = W[i - 1]
  BY <1>4, <1>5, ChainSettles
<1>7. PICK i \in 0 .. N : ClosedUp(p, Seen(i))
  <2>1. ASSUME W[N] = {} PROVE ClosedUp(p, Seen(N))
    <3>1. N \in 0 .. N /\ Seen(N) \subseteq V
      BY <1>2
    <3>2. V = Seen(N)
      <4> HIDE DEF Seen
      <4> QED
        BY <1>3, <2>1, <3>1
    <3>3. ClosedUp(p, V)
      BY <1>1 DEF ClosedUp
    <3> HIDE DEF Seen
    <3> QED
      BY <3>2, <3>3
  <2>2. ASSUME NEW i \in 1 .. N, W[i] = W[i - 1] PROVE ClosedUp(p, Seen(i - 1))
    <3>1. i - 1 \in 0 .. N /\ i \in 0 .. N
      OBVIOUS
    <3>2. Seen(i) \subseteq Seen(i - 1)
      <4>1. Seen(i) \subseteq V /\ Seen(i - 1) \subseteq V
        BY <1>2
      <4>2. V \ Seen(i) = V \ Seen(i - 1)
        BY <1>3, <2>2, <3>1
      <4> HIDE DEF Seen
      <4> QED
        BY <4>1, <4>2
    <3>3. ASSUME NEW k \in 0 .. i - 1 PROVE p[u[k]] \in Seen(i)
      <4>1. k + 1 \in 1 .. N /\ k + 1 \in 0 .. i /\ k + 1 - 1 = k
        OBVIOUS
      <4> QED
        BY <1>2, <4>1
    <3> QED
      BY <3>2, <3>3 DEF ClosedUp
  <2>3. N \in 0 .. N /\ \A i \in 1 .. N : i - 1 \in 0 .. N
    OBVIOUS
  <2> HIDE DEF Seen
  <2> QED
    BY <1>6, <2>1, <2>2, <2>3
<1>8. PICK m \in 0 .. i : p[u[m]] = u[m]
  <2>1. Seen(i) \in SUBSET V /\ u[0] \in Seen(i)
    BY <1>2
  <2>2. \E y \in Seen(i) : p[y] = y
    <3> HIDE DEF Seen
    <3> QED
      BY <1>7, <2>1 DEF Forest
  <2> QED
    BY <2>2
<1>9. m \in 0 .. N /\ N \in m .. N /\ u[m] \in V
  BY <1>2
<1>10. ClosedUp(p, {u[m]}) /\ {u[m]} \in SUBSET V
  BY <1>8, <1>9 DEF ClosedUp
<1>11. u[N] \in {u[m]}
  BY <1>1, <1>9, <1>10, UpStays
<1> QED
  BY <1>8, <1>11

\* The root of a node: it is its own parent, it is wherever going up leads, and the parent
\* has it too.
LEMMA RootFacts ==
    ASSUME NEW V, IsFiniteSet(V), NEW p, Forest(V, p), NEW x \in V
    PROVE  /\ RootIn(p, x) \in V /\ p[RootIn(p, x)] = RootIn(p, x)
           /\ \A S \in SUBSET V : x \in S /\ ClosedUp(p, S) => RootIn(p, x) \in S
           /\ RootIn(p, p[x]) = RootIn(p, x)
<1>1. p \in [V -> V] /\ DOMAIN p = V /\ p[x] \in V
  BY DEF Forest
<1>2. PICK N \in Nat : N = Cardinality(V)
  BY FS_CardinalityType
<1>3. PICK u, w : u = UpFrom(p, x, N) /\ w = UpFrom(p, p[x], N)
  OBVIOUS
<1>4. RootIn(p, x) = u[N] /\ RootIn(p, p[x]) = w[N]
  BY <1>1, <1>2, <1>3 DEF RootIn, UpFrom
<1>5. GoesUp(u, p, V, x, N) /\ GoesUp(w, p, V, p[x], N)
  BY <1>1, <1>3, UpSteps
<1>6. u[N] \in V /\ p[u[N]] = u[N]
  <2>1. u[N] \in V
    BY <1>5 DEF GoesUp
  <2> QED
    BY <1>2, <1>5, <2>1, UpEnds
<1>7. ASSUME NEW S \in SUBSET V, x \in S, ClosedUp(p, S) PROVE u[N] \in S
  <2>1. 0 \in 0 .. N /\ N \in 0 .. N /\ u[0] \in S
    BY <1>5, <1>7 DEF GoesUp
  <2> QED
    BY <1>1, <1>5, <1>7, <2>1, UpStays
<1>8. w[N] = p[u[N]]
  <2> DEFINE Bad == {i \in 0 .. N : w[i] # p[u[i]]}
  <2>1. SUFFICES ASSUME Bad # {} PROVE FALSE
    OBVIOUS
  <2>2. PICK i \in Bad : \A j \in Bad : i <= j
    <3>1. Bad \subseteq Nat
      OBVIOUS
    <3> HIDE DEF Bad
    <3> QED
      BY <2>1, <3>1, LeastNatural
  <2>3. i # 0
    BY <1>5, <2>2 DEF GoesUp
  <2>4. i \in 1 .. N /\ i - 1 \in 0 .. N /\ ~(i <= i - 1)
    BY <2>2, <2>3
  <2>5. w[i - 1] = p[u[i - 1]] /\ w[i] = p[w[i - 1]] /\ u[i] = p[u[i - 1]]
    BY <1>5, <2>2, <2>4 DEF GoesUp
  <2> QED
    BY <2>2, <2>5
<1> QED
  BY <1>4, <1>6, <1>7, <1>8

LEMMA RootOfRoot ==
    ASSUME NEW V, IsFiniteSet(V), NEW p, Forest(V, p), NEW x \in V, p[x] = x
    PROVE  RootIn(p, x) = x
<1>1. {x} \in SUBSET V /\ ClosedUp(p, {x})
  BY DEF ClosedUp
<1> QED
  BY <1>1, RootFacts

\* Joining two roots.
LEMMA JoinRoots ==
    ASSUME NEW V, IsFiniteSet(V), NEW p, Forest(V, p), NEW l, l.from \in V, l.to \in V
    PROVE  LET a == RootIn(p, l.from)
               b == RootIn(p, l.to)
           IN  /\ Forest(V, JoinEnds(p, l))
               /\ \A z \in V : RootIn(JoinEnds(p, l), z) = IF RootIn(p, z) = a THEN b ELSE RootIn(p, z)
<1>1. PICK a, b : a = RootIn(p, l.from) /\ b = RootIn(p, l.to)
  OBVIOUS
<1>2. PICK q : q = JoinEnds(p, l)
  OBVIOUS
<1>3. p \in [V -> V] /\ q = [p EXCEPT ![a] = b]
  BY <1>1, <1>2 DEF Forest, JoinEnds
<1>4. a \in V /\ b \in V /\ p[a] = a /\ p[b] = b
  BY <1>1, RootFacts
<1>5. q \in [V -> V] /\ q[a] = b /\ q[b] = b /\ \A x \in V \ {a} : q[x] = p[x]
  BY <1>3, <1>4
<1>6. Forest(V, q)
  <2>1. ASSUME NEW S \in SUBSET V, S # {}, ClosedUp(q, S) PROVE \E x \in S : q[x] = x
    <3>1. CASE a \in S
      BY <1>5, <2>1, <3>1 DEF ClosedUp
    <3>2. CASE a \notin S
      <4>1. ClosedUp(p, S)
        BY <1>5, <2>1, <3>2 DEF ClosedUp
      <4>2. PICK x \in S : p[x] = x
        BY <2>1, <4>1 DEF Forest
      <4> QED
        BY <1>5, <3>2, <4>2
    <3> QED
      BY <3>1, <3>2
  <2> QED
    BY <1>5, <2>1 DEF Forest
<1> DEFINE New(x) == IF RootIn(p, x) = a THEN b ELSE RootIn(p, x)
<1>7. RootIn(p, a) = a /\ RootIn(p, b) = b
  BY <1>4, RootOfRoot
<1>8. \A x \in V : New(q[x]) = New(x)
  <2>1. ASSUME NEW x \in V PROVE New(q[x]) = New(x)
    <3>1. CASE x = a
      BY <1>5, <1>7, <3>1
    <3>2. CASE x # a
      <4>1. q[x] = p[x] /\ RootIn(p, p[x]) = RootIn(p, x)
        BY <1>5, <3>2, RootFacts
      <4> QED
        BY <4>1
    <3> QED
      BY <3>1, <3>2
  <2> HIDE DEF New
  <2> QED
    BY <2>1
<1>9. \A y \in V : q[y] = y => New(y) = y
  <2>1. ASSUME NEW y \in V, q[y] = y PROVE New(y) = y
    <3>1. CASE y = a
      BY <1>5, <1>7, <2>1, <3>1
    <3>2. CASE y # a
      <4>1. p[y] = y
        BY <1>5, <2>1, <3>2
      <4>2. RootIn(p, y) = y
        BY <4>1, RootOfRoot
      <4> QED
        BY <3>2, <4>2
    <3> QED
      BY <3>1, <3>2
  <2> HIDE DEF New
  <2> QED
    BY <2>1
<1>10. ASSUME NEW z \in V PROVE RootIn(q, z) = New(z)
  <2> HIDE DEF New
  <2> DEFINE S == {x \in V : New(x) = New(z)}
  <2>1. S \in SUBSET V /\ z \in S /\ ClosedUp(q, S)
    BY <1>5, <1>8 DEF ClosedUp
  <2>2. RootIn(q, z) \in V /\ q[RootIn(q, z)] = RootIn(q, z) /\ RootIn(q, z) \in S
    <3> HIDE DEF S
    <3> QED
      BY <1>6, <2>1, RootFacts
  <2> QED
    BY <1>9, <2>2
<1> QED
  BY <1>1, <1>2, <1>6, <1>10

-----------------------------------------------------------------------------
\* What is linked, in either direction.
Linked(B, x) == {x} \cup After(B, x)
Symmetric(B) == \A e \in B : \E r \in B : r[1] = e[2] /\ r[2] = e[1]

LEMMA BothWaysSymmetric ==
    ASSUME NEW pairs, \A e \in pairs : e = <<e[1], e[2]>>
    PROVE  Symmetric(BothWays(pairs)) /\ pairs \subseteq BothWays(pairs)
<1>1. ASSUME NEW e \in BothWays(pairs) PROVE \E r \in BothWays(pairs) : r[1] = e[2] /\ r[2] = e[1]
  <2>1. CASE e \in pairs
    <3>1. <<e[2], e[1]>> \in BothWays(pairs)
      BY <2>1 DEF BothWays
    <3> QED
      BY <3>1
  <2>2. CASE e \notin pairs
    <3>1. PICK p \in pairs : e = <<p[2], p[1]>>
      BY <2>2 DEF BothWays
    <3>2. p \in BothWays(pairs)
      BY DEF BothWays
    <3> QED
      BY <3>1, <3>2
  <2> QED
    BY <2>1, <2>2
<1> QED
  BY <1>1 DEF Symmetric, BothWays

\* To be linked is to be in one class.
LEMMA LinkedBack ==
    ASSUME NEW B, Symmetric(B), NEW x, NEW y \in Linked(B, x)
    PROVE  x \in Linked(B, y)
<1> DEFINE ends == {e[2] : e \in B}
           S == {z \in ends : x \in Linked(B, z)}
<1>1. ASSUME NEW e \in B, e[1] \in S \cup {x} PROVE e[2] \in S
  <2>1. PICK r \in B : r[1] = e[2] /\ r[2] = e[1]
    BY DEF Symmetric
  <2>2. e[1] \in After(B, e[2])
    BY <2>1, AfterOne
  <2>3. x \in Linked(B, e[1])
    BY <1>1 DEF Linked
  <2>4. x \in Linked(B, e[2])
    BY <2>2, <2>3, AfterFollows DEF Linked
  <2> QED
    BY <2>4
<1>2. After(B, x) \subseteq S
  <2> HIDE DEF S
  <2> QED
    BY <1>1, AfterLeast
<1> QED
  BY <1>2 DEF Linked

LEMMA LinkedOn ==
    ASSUME NEW B, NEW x, NEW y \in Linked(B, x), NEW z \in Linked(B, y)
    PROVE  z \in Linked(B, x)
BY AfterFollows DEF Linked

\* Every parent is linked to its child: the forest joins only what links join.
LinkedUp(V, B, p) == \A x \in V : p[x] \in Linked(B, x)

LEMMA RootLinked ==
    ASSUME NEW V, IsFiniteSet(V), NEW p, Forest(V, p), NEW B, LinkedUp(V, B, p), NEW x \in V
    PROVE  RootIn(p, x) \in Linked(B, x)
<1> DEFINE S == {y \in V : y \in Linked(B, x)}
<1>1. p \in [V -> V]
  BY DEF Forest
<1>2. ASSUME NEW y \in S PROVE p[y] \in S
  <2>1. y \in V /\ y \in Linked(B, x) /\ p[y] \in Linked(B, y)
    BY DEF LinkedUp
  <2>2. p[y] \in Linked(B, x)
    BY <2>1, LinkedOn
  <2> QED
    BY <1>1, <2>1, <2>2
<1>3. x \in S /\ S \in SUBSET V
  BY DEF Linked
<1>4. ClosedUp(p, S)
  <2> HIDE DEF S
  <2> QED
    BY <1>2 DEF ClosedUp
<1>5. RootIn(p, x) \in S
  <2> HIDE DEF S
  <2> QED
    BY <1>3, <1>4, RootFacts
<1> QED
  BY <1>5

LEMMA JoinLinked ==
    ASSUME NEW V, IsFiniteSet(V), NEW p, Forest(V, p), NEW B, LinkedUp(V, B, p), Symmetric(B),
           NEW l, l.from \in V, l.to \in V, l.to \in Linked(B, l.from)
    PROVE  LinkedUp(V, B, JoinEnds(p, l))
<1>1. PICK a, b, from, to : a = RootIn(p, from) /\ b = RootIn(p, to) /\ from = l.from /\ to = l.to
  OBVIOUS
<1>2. a \in V /\ b \in V /\ a \in Linked(B, from) /\ b \in Linked(B, to)
  BY <1>1, RootFacts, RootLinked
<1>3. from \in Linked(B, a)
  BY <1>2, LinkedBack
<1>4. to \in Linked(B, a)
  BY <1>1, <1>3, LinkedOn
<1>5. b \in Linked(B, a)
  BY <1>2, <1>4, LinkedOn
<1>6. JoinEnds(p, l) = [p EXCEPT ![a] = b] /\ p \in [V -> V]
  BY <1>1 DEF JoinEnds, Forest
<1> QED
  BY <1>2, <1>5, <1>6 DEF LinkedUp

\* When the ends of every link have one root, roots stand for what is linked.
LEMMA RootsAreClasses ==
    ASSUME NEW V, IsFiniteSet(V), NEW p, Forest(V, p),
           NEW pairs, pairs \subseteq V \X V, NEW B, B = BothWays(pairs), LinkedUp(V, B, p),
           \A e \in pairs : RootIn(p, e[1]) = RootIn(p, e[2])
    PROVE  Cardinality({RootIn(p, n) : n \in V}) = Cardinality({Linked(B, n) : n \in V})
<1>1. Symmetric(B)
  <2>1. \A e \in pairs : e = <<e[1], e[2]>>
    OBVIOUS
  <2> QED
    BY <2>1, BothWaysSymmetric
<1>2. ASSUME NEW x \in V, NEW y \in Linked(B, x) PROVE y \in V /\ RootIn(p, y) = RootIn(p, x)
  <2> DEFINE S == {z \in V : RootIn(p, z) = RootIn(p, x)}
  <2>1. ASSUME NEW e \in B, e[1] \in S \cup {x} PROVE e[2] \in S
    <3>1. e[1] \in V /\ e[2] \in V /\ RootIn(p, e[1]) = RootIn(p, e[2])
      BY DEF BothWays
    <3> QED
      BY <2>1, <3>1
  <2>2. After(B, x) \subseteq S
    <3> HIDE DEF S
    <3> QED
      BY <2>1, AfterLeast
  <2> QED
    BY <2>2 DEF Linked
<1>3. PICK R, C : R = {RootIn(p, n) : n \in V} /\ C = {Linked(B, n) : n \in V}
  OBVIOUS
<1>4. ASSUME NEW n \in V
      PROVE  RootIn(p, n) \in V /\ RootIn(p, RootIn(p, n)) = RootIn(p, n) /\ Linked(B, RootIn(p, n)) = Linked(B, n)
  <2>1. PICK r : r = RootIn(p, n)
    OBVIOUS
  <2>2. r \in V /\ r \in Linked(B, n) /\ p[r] = r
    BY <2>1, RootFacts, RootLinked
  <2>3. RootIn(p, r) = r
    BY <2>2, RootOfRoot
  <2>4. n \in Linked(B, r)
    BY <1>1, <2>2, LinkedBack
  <2>5. Linked(B, r) \subseteq Linked(B, n) /\ Linked(B, n) \subseteq Linked(B, r)
    BY <2>2, <2>4, LinkedOn
  <2> QED
    BY <2>1, <2>2, <2>3, <2>5
<1>5. R \subseteq V /\ \A r \in R : RootIn(p, r) = r /\ Linked(B, r) \in C
  <2>1. ASSUME NEW r \in R PROVE r \in V /\ RootIn(p, r) = r /\ Linked(B, r) \in C
    <3>1. PICK n \in V : r = RootIn(p, n)
      BY <1>3
    <3>2. r \in V /\ RootIn(p, r) = r
      BY <1>4, <3>1
    <3> QED
      BY <1>3, <3>2
  <2> QED
    BY <2>1
<1>6. IsFiniteSet(R)
  BY <1>5, FS_Subset
<1>7. PICK f : f = [r \in R |-> Linked(B, r)]
  OBVIOUS
<1>8. f \in [R -> C]
  BY <1>5, <1>7
<1>9. ASSUME NEW r \in R, NEW s \in R, f[r] = f[s] PROVE r = s
  <2>1. s \in Linked(B, r)
    BY <1>7, <1>9 DEF Linked
  <2>2. r \in V /\ RootIn(p, s) = RootIn(p, r)
    BY <1>2, <1>5, <2>1
  <2> QED
    BY <1>5, <2>2
<1>10. ASSUME NEW c \in C PROVE \E r \in R : f[r] = c
  <2>1. PICK n \in V : c = Linked(B, n)
    BY <1>3
  <2>2. RootIn(p, n) \in R /\ Linked(B, RootIn(p, n)) = c
    BY <1>3, <1>4, <2>1
  <2> QED
    BY <1>7, <2>2
<1>11. f \in Bijection(R, C)
  <2>1. f \in Injection(R, C)
    BY <1>8, <1>9 DEF Injection, IsInjective
  <2>2. f \in Surjection(R, C)
    BY <1>8, <1>10 DEF Surjection
  <2> QED
    BY <2>1, <2>2 DEF Bijection
<1>12. Cardinality(R) = Cardinality(C)
  BY <1>6, <1>11, FS_Bijection DEF ExistsBijection
<1> QED
  BY <1>3, <1>12

\* Joining the ends of the links, one after the other.
JoinedFrom(x, links) ==
    LET parents[i \in 0 .. Len(links)] == IF i = 0 THEN x ELSE JoinEnds(parents[i - 1], links[i]) IN parents

JoinRuns(s, D, x, links, N) ==
    s \in [0 .. N -> D] /\ s[0] = x /\ \A i \in 1 .. N : s[i] = JoinEnds(s[i - 1], links[i])

\* The loop over the links exists, and joins one after the other.
LEMMA JoinSteps ==
    ASSUME NEW links, NEW N \in Nat, N = Len(links), NEW D, NEW x \in D,
           \A i \in 1 .. N : \A s \in D : JoinEnds(s, links[i]) \in D
    PROVE  JoinRuns(JoinedFrom(x, links), D, x, links, N)
<1> DEFINE Joins(a) == a = [i \in 0 .. N |-> IF i = 0 THEN x ELSE JoinEnds(a[i - 1], links[i])]
           parents == CHOOSE a : Joins(a)
<1>1. JoinedFrom(x, links) = parents
  BY DEF JoinedFrom
<1>2. PICK G : G \in [(1 .. N) \X D -> D] /\ \A i \in 1 .. N, s \in D : G[<<i, s>>] = JoinEnds(s, links[i])
  <2>1. PICK G : G = [q \in (1 .. N) \X D |-> JoinEnds(q[2], links[q[1]])]
    OBVIOUS
  <2>2. \A q \in (1 .. N) \X D : q[1] \in 1 .. N /\ q[2] \in D
    OBVIOUS
  <2>3. G \in [(1 .. N) \X D -> D]
    BY <2>1, <2>2
  <2>4. \A i \in 1 .. N, s \in D : G[<<i, s>>] = JoinEnds(s, links[i])
    BY <2>1
  <2> QED
    BY <2>3, <2>4
<1>3. PICK v : v \in [0 .. N -> D] /\ v[0] = x /\ \A i \in 1 .. N : v[i] = G[<<i, v[i - 1]>>]
  <2>1. StepByStep(N, D, x, G)
    BY <1>2, RecursionExists
  <2> QED
    BY <2>1 DEF StepByStep
<1>4. \A i \in 1 .. N : v[i] = JoinEnds(v[i - 1], links[i])
  <2>1. \A i \in 1 .. N : i - 1 \in 0 .. N /\ v[i - 1] \in D
    BY <1>3, SMTT(60)
  <2> QED
    BY <1>2, <1>3, <2>1
<1>5. Joins(v)
  <2>1. \A n \in 0 .. N : v[n] = IF n = 0 THEN x ELSE JoinEnds(v[n - 1], links[n])
    <3>1. \A n \in 0 .. N : n = 0 \/ n \in 1 .. N
      OBVIOUS
    <3> QED
      BY <3>1, <1>3, <1>4
  <2> QED
    BY <2>1, <1>3
<1>6. ASSUME NEW a, Joins(a)
      PROVE  OfSteps(a, N) /\ a[0] = x /\ \A i \in 1 .. N : a[i] = JoinEnds(a[i - 1], links[i])
  <2>1. \A n \in 0 .. N : a[n] = IF n = 0 THEN x ELSE JoinEnds(a[n - 1], links[n])
    BY <1>6
  <2>2. OfSteps(a, N)
    BY <1>6 DEF OfSteps
  <2>3. 0 \in 0 .. N /\ \A i \in 1 .. N : i \in 0 .. N /\ i # 0
    OBVIOUS
  <2> HIDE DEF Joins
  <2> QED
    BY <2>1, <2>2, <2>3
<1>7. parents = v
  <2>1. Joins(parents)
    BY <1>5, Zenon
  <2> HIDE DEF Joins, parents
  <2>2. OfSteps(parents, N) /\ parents[0] = x /\ \A i \in 1 .. N : parents[i] = JoinEnds(parents[i - 1], links[i])
    BY <1>6, <2>1
  <2>3. OfSteps(v, N)
    BY <1>5, <1>6
  <2>4. parents[0] = v[0] /\ \A i \in 1 .. N : parents[i - 1] = v[i - 1] => parents[i] = v[i]
    BY <1>3, <1>4, <2>2
  <2> QED
    BY <2>2, <2>3, <2>4, SameSteps
<1> HIDE DEF Joins, parents
<1> QED
  BY <1>1, <1>3, <1>4, <1>7 DEF JoinRuns

LEMMA NodesAreFinite ==
    ASSUME NEW g, ListedRows(g)
    PROVE  /\ IsFiniteSet(Nodes(g)) /\ LinkPairs(g, LinkTypesOf(g)) \subseteq Nodes(g) \X Nodes(g)
           /\ \A i \in DOMAIN g.links :
                /\ g.links[i].from \in Nodes(g) /\ g.links[i].to \in Nodes(g)
                /\ <<g.links[i].from, g.links[i].to>> \in LinkPairs(g, LinkTypesOf(g))
<1>1. PICK E : E = LinkPairs(g, LinkTypesOf(g))
  OBVIOUS
<1>2. \A i \in DOMAIN g.links :
        /\ g.links[i].from \in Nodes(g) /\ g.links[i].to \in Nodes(g)
        /\ <<g.links[i].from, g.links[i].to>> \in E
  BY <1>1 DEF Nodes, LinkPairs, LinkTypesOf
<1>3. E \subseteq Nodes(g) \X Nodes(g)
  BY <1>1, <1>2 DEF LinkPairs
<1>4. IsFiniteSet(LinkNodes(E))
  BY <1>1, LinksAreFinite DEF ListedRows
<1>5. IsFiniteSet(NodeIds(g))
  <2>1. PICK n \in Nat : DOMAIN g.objects = 1 .. n
    BY LenProperties DEF ListedRows
  <2>2. PICK f : f = [i \in 1 .. n |-> g.objects[i].id]
    OBVIOUS
  <2>3. NodeIds(g) = {f[i] : i \in 1 .. n}
    BY <2>1, <2>2 DEF NodeIds
  <2> QED
    BY <2>3, ListImage
<1>6. Nodes(g) \subseteq NodeIds(g) \cup LinkNodes(E)
  <2>1. ASSUME NEW i \in DOMAIN g.links PROVE {g.links[i].from, g.links[i].to} \subseteq LinkNodes(E)
    <3>1. PICK e \in E : e[1] = g.links[i].from /\ e[2] = g.links[i].to
      BY <1>2
    <3> QED
      BY <3>1 DEF LinkNodes
  <2> QED
    BY <2>1 DEF Nodes
<1>7. IsFiniteSet(Nodes(g))
  <2>1. IsFiniteSet(NodeIds(g) \cup LinkNodes(E))
    BY <1>4, <1>5, FS_Union
  <2> QED
    BY <1>6, <2>1, FS_Subset
<1> QED
  BY <1>1, <1>2, <1>3, <1>7

\* Union-find counts the classes: its parents are linked, and after i links the ends of each
\* of the first i have one root.
LEMMA ComponentsAreExact ==
    ASSUME NEW g, ListedRows(g)
    PROVE  LET joined == BothWays(LinkPairs(g, LinkTypesOf(g)))
           IN  DisconnectedSubgraphs(g) = Cardinality({{n} \cup After(joined, n) : n \in Nodes(g)})
<1>1. PICK V, E, B, L : V = Nodes(g) /\ E = LinkPairs(g, LinkTypesOf(g)) /\ B = BothWays(E) /\ L = g.links
  OBVIOUS
<1>2. PICK N \in Nat : N = Len(L) /\ DOMAIN L = 1 .. N
  BY <1>1, LenProperties DEF ListedRows
<1>3. /\ IsFiniteSet(V) /\ E \subseteq V \X V
      /\ \A i \in 1 .. N : L[i].from \in V /\ L[i].to \in V /\ <<L[i].from, L[i].to>> \in E
  BY <1>1, <1>2, NodesAreFinite
<1>4. Symmetric(B) /\ E \subseteq B
  <2>1. \A e \in E : e = <<e[1], e[2]>>
    BY <1>3
  <2> QED
    BY <1>1, <2>1, BothWaysSymmetric
<1>5. \A i \in 1 .. N : L[i].to \in Linked(B, L[i].from)
  <2>1. ASSUME NEW i \in 1 .. N PROVE L[i].to \in Linked(B, L[i].from)
    <3>1. PICK e \in B : e[1] = L[i].from /\ e[2] = L[i].to
      BY <1>3, <1>4
    <3>2. e[2] \in After(B, e[1])
      BY AfterOne
    <3> QED
      BY <3>1, <3>2 DEF Linked
  <2> QED
    BY <2>1
<1> DEFINE D == {p \in [V -> V] : Forest(V, p) /\ LinkedUp(V, B, p)}
<1>6. PICK x : x = [n \in V |-> n]
  OBVIOUS
<1>7. x \in D
  BY <1>6 DEF Forest, LinkedUp, Linked
<1>8. ASSUME NEW i \in 1 .. N, NEW p \in D PROVE JoinEnds(p, L[i]) \in D
  <2>1. Forest(V, JoinEnds(p, L[i]))
    BY <1>3, JoinRoots
  <2>2. LinkedUp(V, B, JoinEnds(p, L[i]))
    BY <1>3, <1>4, <1>5, JoinLinked
  <2> QED
    BY <2>1, <2>2 DEF Forest
<1>9. \A p \in D : Forest(V, p) /\ LinkedUp(V, B, p)
  OBVIOUS
<1> HIDE DEF D
<1>10. PICK s : s = JoinedFrom(x, L) /\ JoinRuns(s, D, x, L, N)
  BY <1>2, <1>7, <1>8, JoinSteps
<1>11. DisconnectedSubgraphs(g) = Cardinality({RootIn(s[N], n) : n \in V})
  BY <1>1, <1>2, <1>6, <1>10 DEF DisconnectedSubgraphs, JoinedFrom
<1>12. \A i \in 0 .. N : Forest(V, s[i]) /\ LinkedUp(V, B, s[i])
  BY <1>9, <1>10 DEF JoinRuns
<1> DEFINE Share(i) == \A k \in 1 .. i : RootIn(s[i], L[k].from) = RootIn(s[i], L[k].to)
<1>13. ASSUME NEW i \in 1 .. N, Share(i - 1) PROVE Share(i)
  <2>1. i - 1 \in 0 .. N /\ s[i] = JoinEnds(s[i - 1], L[i])
    BY <1>10 DEF JoinRuns
  <2>2. PICK a, b : a = RootIn(s[i - 1], L[i].from) /\ b = RootIn(s[i - 1], L[i].to)
    OBVIOUS
  <2>3. \A z \in V : RootIn(s[i], z) = IF RootIn(s[i - 1], z) = a THEN b ELSE RootIn(s[i - 1], z)
    <3>1. PICK p, l : p = s[i - 1] /\ l = L[i]
      OBVIOUS
    <3>2. Forest(V, p) /\ l.from \in V /\ l.to \in V
      BY <1>3, <1>12, <2>1, <3>1
    <3>3. \A z \in V : RootIn(JoinEnds(p, l), z) =
            IF RootIn(p, z) = RootIn(p, l.from) THEN RootIn(p, l.to) ELSE RootIn(p, z)
      BY <1>3, <3>2, JoinRoots
    <3> QED
      BY <2>1, <2>2, <3>1, <3>3
  <2>4. ASSUME NEW k \in 1 .. i PROVE RootIn(s[i], L[k].from) = RootIn(s[i], L[k].to)
    <3>1. k \in 1 .. N /\ L[k].from \in V /\ L[k].to \in V
      <4>1. k \in 1 .. N
        OBVIOUS
      <4> QED
        BY <1>3, <4>1
    <3>2. CASE k = i
      BY <2>2, <2>3, <3>1, <3>2
    <3>3. CASE k # i
      <4>1. RootIn(s[i - 1], L[k].from) = RootIn(s[i - 1], L[k].to)
        BY <1>13, <3>3
      <4> QED
        BY <2>3, <3>1, <4>1
    <3> QED
      BY <3>2, <3>3
  <2> QED
    BY <2>4
<1>14. Share(N)
  <2>1. Share(0)
    OBVIOUS
  <2> HIDE DEF Share
  <2> DEFINE Bad == {i \in 0 .. N : ~Share(i)}
  <2>2. SUFFICES ASSUME Bad # {} PROVE FALSE
    OBVIOUS
  <2>3. PICK i \in Bad : \A j \in Bad : i <= j
    <3>1. Bad \subseteq Nat
      OBVIOUS
    <3> HIDE DEF Bad
    <3> QED
      BY <2>2, <3>1, LeastNatural
  <2>4. i # 0
    BY <2>1, <2>3
  <2>5. i \in 1 .. N /\ i - 1 \in 0 .. N /\ ~(i <= i - 1)
    BY <2>3, <2>4
  <2> QED
    BY <1>13, <2>3, <2>5
<1>15. \A e \in E : RootIn(s[N], e[1]) = RootIn(s[N], e[2])
  <2>1. ASSUME NEW e \in E PROVE RootIn(s[N], e[1]) = RootIn(s[N], e[2])
    <3>1. PICK k \in 1 .. N : e = <<L[k].from, L[k].to>>
      BY <1>1, <1>2 DEF LinkPairs
    <3> QED
      BY <1>14, <3>1
  <2> QED
    BY <2>1
<1>16. Cardinality({RootIn(s[N], n) : n \in V}) = Cardinality({Linked(B, n) : n \in V})
  <2>1. N \in 0 .. N
    OBVIOUS
  <2> QED
    BY <1>1, <1>3, <1>12, <1>15, <2>1, RootsAreClasses
<1> QED
  BY <1>1, <1>11, <1>16 DEF Linked

-----------------------------------------------------------------------------
\* What a preflight answers is computed from the stored graph as it still is.
PreflightInv ==
    /\ snapshot \in Snapshots
    /\ \/ preflight = NotRun
       \/ LET g == ScopedGraph(snapshot, scope)
          IN  \E mode \in {"warn", "enforce"} :
                preflight = [status |-> PreflightStatus(g, mode), components |-> DisconnectedSubgraphs(g)]

\* The graph that is validated is a part of the stored one.
LEMMA SnapshotListed ==
    ASSUME PreflightInv
    PROVE  LET g == ScopedGraph(snapshot, scope)
           IN  ListedRows(snapshot) /\ UniqueIds(snapshot) /\ GraphPart(g, snapshot) /\ ListedRows(g)
<1>1. ListedRows(snapshot) /\ UniqueIds(snapshot)
  BY GraphAssumption DEF PreflightInv, ListedRows, UniqueIds
<1> QED
  BY <1>1, ScopeIsPart DEF GraphPart

LEMMA ValidatorsExact ==
    ASSUME PreflightInv
    PROVE  GraphValidatorsAreExact
<1> SUFFICES ASSUME preflight # NotRun PROVE GraphValidatorsAreExact
  BY DEF GraphValidatorsAreExact
<1>1. PICK g : g = ScopedGraph(snapshot, scope)
  OBVIOUS
<1>2. ListedRows(snapshot) /\ ListedRows(g)
  BY <1>1, SnapshotListed
<1>3. ASSUME NEW t \in LinkTypesOf(snapshot), NEW pairs, pairs = LinkPairs(snapshot, {t})
      PROVE  /\ CyclesOver(snapshot, t) # {} <=> \E p \in pairs : p[1] \in After(pairs, p[1])
             /\ \A cycle \in CyclesOver(snapshot, t) : \A m, n \in cycle : n \in After(pairs, m)
             /\ \A n \in NodeIds(snapshot) : Reached(snapshot, n, {t}) = After(pairs, n) \ {n}
  <2>1. g.links = g.links /\ snapshot.links \in Seq(ToSet(snapshot.links))
    BY <1>2 DEF ListedRows
  <2> QED
    BY <1>3, <2>1, CyclesAreExact, ReachedIsAfter
<1>4. preflight.components = DisconnectedSubgraphs(g)
  BY <1>1 DEF PreflightInv
<1>5. preflight.components =
        Cardinality({{n} \cup After(BothWays(LinkPairs(g, LinkTypesOf(g))), n) : n \in Nodes(g)})
  BY <1>2, <1>4, ComponentsAreExact
<1> QED
  BY <1>1, <1>3, <1>5 DEF GraphValidatorsAreExact

LEMMA ScopeKeeps ==
    ASSUME PreflightInv
    PROVE  ScopeKeepsDefects
<1> SUFFICES ASSUME preflight # NotRun PROVE ScopeKeepsDefects
  BY DEF ScopeKeepsDefects
<1>1. PICK g : g = ScopedGraph(snapshot, scope)
  OBVIOUS
<1>2. UniqueIds(snapshot) /\ GraphPart(g, snapshot)
  BY <1>1, SnapshotListed
<1> DEFINE missing(graph) == Orphans(graph) \cup MissingRequired(graph) \cup Unreachable(graph)
                               \cup PolicyFailures(graph)
           kept == {f \in missing(snapshot) : f.subject \in NodeIds(g)}
<1>3. kept \subseteq missing(g)
  <2>1. ASSUME NEW f \in missing(snapshot), f.subject \in NodeIds(g) PROVE f \in missing(g)
    <3>1. CASE f \in Orphans(snapshot)
      BY <1>2, <2>1, <3>1, OrphansInPart
    <3>2. CASE f \in MissingRequired(snapshot)
      BY <1>2, <2>1, <3>2, RequiredInPart
    <3>3. CASE f \in Unreachable(snapshot)
      BY <1>2, <2>1, <3>3, UnreachableInPart
    <3>4. CASE f \in PolicyFailures(snapshot)
      BY <1>2, <2>1, <3>4, PoliciesInPart
    <3> QED
      BY <3>1, <3>2, <3>3, <3>4
  <2> QED
    BY <2>1
<1>4. ASSUME kept # {} PROVE preflight.status # "pass"
  <2>1. missing(g) # {}
    BY <1>3, <1>4
  <2>2. GraphFindings(g) # {}
    BY <2>1 DEF GraphFindings
  <2>3. PICK mode : preflight.status = PreflightStatus(g, mode)
    BY <1>1 DEF PreflightInv
  <2> QED
    BY <2>2, <2>3 DEF PreflightStatus
<1> QED
  BY <1>1, <1>3, <1>4 DEF ScopeKeepsDefects

LEMMA PreflightStepKeeps == PreflightInv /\ [PreflightNext]_preflightVars => PreflightInv'
<1> SUFFICES ASSUME PreflightInv, [PreflightNext]_preflightVars PROVE PreflightInv'
  OBVIOUS
<1>1. ASSUME NEW mode \in {"warn", "enforce"}, RunPreflight(mode) PROVE PreflightInv'
  BY <1>1 DEF RunPreflight, PreflightInv
<1>2. CASE UNCHANGED preflightVars
  BY <1>2 DEF preflightVars, PreflightInv
<1> QED
  BY <1>1, <1>2 DEF PreflightNext

\* For any stored graph whose objects have ids of their own, any scope and any rules: the
\* search finds a cycle exactly if there is one, the walk what an object leads to and
\* union-find the number of components; and a defect of an object in scope is reported when
\* only the scope is loaded (detectCycles and checkReachability, graph-integrity.ts:230;
\* countDisconnectedSubgraphs, graph-report.ts:7; loadScopedGraph, graph-preflight.ts:119).
THEOREM PreflightsAreRight == PreflightSpec => []PreflightIsRight
<1>1. PreflightInit => PreflightInv
  BY DEF PreflightInit, PreflightInv
<1>2. PreflightInv /\ [PreflightNext]_preflightVars => PreflightInv'
  BY PreflightStepKeeps
<1>3. PreflightInv => PreflightIsRight
  BY ValidatorsExact, ScopeKeeps DEF PreflightIsRight
<1> QED
  BY <1>1, <1>2, <1>3, PTL DEF PreflightSpec

-----------------------------------------------------------------------------
\* The statistics of a report. A caller that does not restrict the preflight gets the stored
\* links as they are, and linkObjects does not look whether their ends exist.
LinksJoinObjects ==
    {} \in Scopes => \A g \in Snapshots : \A i \in DOMAIN g.links :
                       g.links[i].from \in NodeIds(g) /\ g.links[i].to \in NodeIds(g)

\* Links are loaded for a scope only between objects of the scope.
LEMMA ScopedLinksJoin ==
    ASSUME NEW g, ListedRows(g), NEW types, types # {}, NEW h, h = ScopedGraph(g, types), NEW i \in DOMAIN h.links
    PROVE  h.links[i].from \in NodeIds(h) /\ h.links[i].to \in NodeIds(h)
<1>1. PICK objects : objects = Kept(g.objects, {k \in DOMAIN g.objects : g.objects[k].objectType \in types})
  OBVIOUS
<1>2. PICK ids : ids = {objects[k].id : k \in DOMAIN objects}
  OBVIOUS
<1>3. PICK inside : inside = {k \in DOMAIN g.links : g.links[k].from \in ids /\ g.links[k].to \in ids}
  OBVIOUS
<1>4. PICK links : links = Kept(g.links, inside)
  OBVIOUS
<1>5. h = [objects |-> objects, links |-> links]
  BY <1>1, <1>2, <1>3, <1>4 DEF ScopedGraph
<1>6. NodeIds(h) = ids /\ h.links = links
  BY <1>2, <1>5 DEF NodeIds
<1>7. links \in Seq(ToSet(g.links)) /\ PartOf(links, g.links, {k \in 1 .. Len(g.links) : k \in inside})
  BY <1>4, KeptIsPart DEF ListedRows
<1>8. PICK k : k \in inside /\ links[i] = g.links[k]
  <2>1. PICK n \in Nat : n = Len(links) /\ DOMAIN links = 1 .. n
    BY <1>7, LenProperties
  <2>2. PICK from : Takes(links, g.links, {k \in 1 .. Len(g.links) : k \in inside}, from, n)
    BY <1>7, <2>1 DEF PartOf
  <2>3. from[i] \in inside /\ links[i] = g.links[from[i]]
    BY <1>6, <2>1, <2>2 DEF Takes
  <2> QED
    BY <2>3
<1> QED
  BY <1>3, <1>6, <1>8

\* A preflight never counts more components than the tenant has objects.
LEMMA FewComponents ==
    ASSUME LinksJoinObjects, NEW g \in Snapshots, NEW types \in Scopes, ListedRows(g)
    PROVE  DisconnectedSubgraphs(ScopedGraph(g, types)) \in 0 .. Len(g.objects)
<1>1. PICK h : h = ScopedGraph(g, types)
  OBVIOUS
<1>2. GraphPart(h, g) /\ ListedRows(h)
  BY <1>1, ScopeIsPart DEF GraphPart
<1>3. ASSUME NEW i \in DOMAIN h.links PROVE h.links[i].from \in NodeIds(h) /\ h.links[i].to \in NodeIds(h)
  <2>1. CASE types = {}
    BY <1>1, <1>3, <2>1 DEF ScopedGraph, LinksJoinObjects
  <2>2. CASE types # {}
    BY <1>1, <1>3, <2>2, ScopedLinksJoin
  <2> QED
    BY <2>1, <2>2
<1>4. Nodes(h) = NodeIds(h)
  BY <1>3 DEF Nodes
<1>5. PICK m \in Nat : m = Len(g.objects) /\ DOMAIN g.objects = 1 .. m
  BY LenProperties DEF ListedRows
<1>6. PICK f : f = [i \in 1 .. m |-> g.objects[i].id]
  OBVIOUS
<1>7. Nodes(h) \subseteq {f[i] : i \in 1 .. m}
  <2>1. PICK from : Embeds(from, h.objects, g.objects)
    BY <1>2, GraphEmbeds
  <2>2. \A i \in DOMAIN h.objects : from[i] \in 1 .. m /\ h.objects[i].id = f[from[i]]
    BY <1>5, <1>6, <2>1 DEF Embeds
  <2> QED
    BY <1>4, <2>2 DEF NodeIds
<1>8. IsFiniteSet(Nodes(h)) /\ Cardinality(Nodes(h)) \in Nat /\ Cardinality(Nodes(h)) <= m
  <2>1. IsFiniteSet({f[i] : i \in 1 .. m}) /\ Cardinality({f[i] : i \in 1 .. m}) <= m
    BY ListImage
  <2>2. Cardinality({f[i] : i \in 1 .. m}) \in Nat
    BY <2>1, FS_CardinalityType
  <2>3. IsFiniteSet(Nodes(h)) /\ Cardinality(Nodes(h)) <= Cardinality({f[i] : i \in 1 .. m})
    BY <1>7, <2>1, FS_Subset
  <2>4. Cardinality(Nodes(h)) \in Nat
    BY <2>3, FS_CardinalityType
  <2> QED
    BY <2>1, <2>2, <2>3, <2>4
<1>9. PICK joined : joined = BothWays(LinkPairs(h, LinkTypesOf(h)))
  OBVIOUS
<1>10. PICK class : class = [n \in Nodes(h) |-> {n} \cup After(joined, n)]
  OBVIOUS
<1>11. {class[n] : n \in Nodes(h)} = {{n} \cup After(joined, n) : n \in Nodes(h)}
  BY <1>10
<1>12. Cardinality({class[n] : n \in Nodes(h)}) \in Nat /\ Cardinality({class[n] : n \in Nodes(h)}) <= Cardinality(Nodes(h))
  BY <1>8, ImageCount
<1>13. DisconnectedSubgraphs(h) = Cardinality({class[n] : n \in Nodes(h)})
  <2>1. DisconnectedSubgraphs(h) =
          Cardinality({{n} \cup After(BothWays(LinkPairs(h, LinkTypesOf(h))), n) : n \in Nodes(h)})
    BY <1>2, ComponentsAreExact
  <2> QED
    BY <1>9, <1>11, <2>1
<1> QED
  BY <1>1, <1>5, <1>8, <1>12, <1>13

LEMMA PreflightStarts == PreflightInit => PreflightInv /\ scope \in Scopes
BY DEF PreflightInit, PreflightInv

LEMMA ScopeStepKeeps == PreflightInv /\ scope \in Scopes /\ [PreflightNext]_preflightVars => (PreflightInv /\ scope \in Scopes)'
BY PreflightStepKeeps DEF PreflightNext, RunPreflight, preflightVars

LEMMA PreflightsAreTyped == LinksJoinObjects /\ PreflightInv /\ scope \in Scopes => PreflightTypeOK
<1> SUFFICES ASSUME LinksJoinObjects, PreflightInv, scope \in Scopes PROVE PreflightTypeOK
  OBVIOUS
<1>1. snapshot \in Snapshots /\ ListedRows(snapshot)
  BY SnapshotListed DEF PreflightInv
<1>2. Len(snapshot.objects) \in Nat
  BY <1>1, LenProperties DEF ListedRows
<1>3. CASE preflight = NotRun
  BY <1>2, <1>3 DEF NotRun, PreflightTypeOK
<1>4. CASE preflight # NotRun
  <2>1. PICK mode : preflight = [status |-> PreflightStatus(ScopedGraph(snapshot, scope), mode),
                                 components |-> DisconnectedSubgraphs(ScopedGraph(snapshot, scope))]
    BY <1>4 DEF PreflightInv
  <2>2. PreflightStatus(ScopedGraph(snapshot, scope), mode) \in {"pass", "warning", "blocked"}
    BY DEF PreflightStatus
  <2>3. DisconnectedSubgraphs(ScopedGraph(snapshot, scope)) \in 0 .. Len(snapshot.objects)
    BY <1>1, FewComponents
  <2> QED
    BY <2>1, <2>2, <2>3 DEF PreflightTypeOK
<1> QED
  BY <1>3, <1>4

\* A preflight answers with one of its statuses and, unless the stored links lead nowhere,
\* with no more components than there are objects (countDisconnectedSubgraphs,
\* graph-report.ts:7; loadScopedGraph, graph-preflight.ts:119).
THEOREM PreflightTypeCorrect == LinksJoinObjects => (PreflightSpec => []PreflightTypeOK)
<1> SUFFICES ASSUME LinksJoinObjects PROVE PreflightSpec => []PreflightTypeOK
  OBVIOUS
<1>1. PreflightInit => PreflightInv /\ scope \in Scopes
  BY PreflightStarts
<1>2. PreflightInv /\ scope \in Scopes /\ [PreflightNext]_preflightVars => (PreflightInv /\ scope \in Scopes)'
  BY ScopeStepKeeps
<1>3. PreflightInv /\ scope \in Scopes => PreflightTypeOK
  BY PreflightsAreTyped
<1> QED
  BY <1>1, <1>2, <1>3, PTL DEF PreflightSpec

=============================================================================
