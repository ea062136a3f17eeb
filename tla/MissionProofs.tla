---------------------------- MODULE MissionProofs ----------------------------
(***************************************************************************)
(* First, the execution planner layers every mission it accepts, and       *)
(* refuses exactly the cyclic ones.  The rounds of Kahn's algorithm and    *)
(* the chains of dependencies are both sets that grow by repeating one     *)
(* step; within a finite set such a sequence stands still once it had as   *)
(* many steps as the set has members.  Where the argument is by induction  *)
(* over the rounds, the least round that breaks the claim is refuted.      *)
(*                                                                         *)
(* Then, mission execution keeps to the plan, reports the truth and lets a *)
(* task's action take effect once, for every mission, every outcome of the *)
(* actions and any number of executions.  The inductive invariant says     *)
(* where an execution stands among the layers: what earlier layers hold    *)
(* has ended, what later ones hold has not begun, and a task that was      *)
(* begun had its gate and all it depends on.  The needs that are not       *)
(* direct follow because needing is the least relation dependencies pass   *)
(* on.                                                                     *)
(***************************************************************************)
EXTENDS MissionRuntime, SequenceLemmas

-----------------------------------------------------------------------------
\* The plan.
\* The least round that is in S, when some is.
LEMMA LeastRound ==
    ASSUME NEW S, S \subseteq Nat, S # {}, 0 \notin S
    PROVE  \E k \in Nat : k + 1 \in S /\ \A j \in 0 .. k : j \notin S
<1>1. PICK i \in S : \A j \in S : i <= j
  BY LeastNatural
<1>2. i \in Nat /\ i # 0 /\ i - 1 \in Nat
  BY <1>1
<1>3. (i - 1) + 1 = i
  BY <1>2
<1>4. \A j \in 0 .. i - 1 : j \notin S
  BY <1>1, <1>2
<1> QED
  BY <1>2, <1>3, <1>4, <1>1

-----------------------------------------------------------------------------
\* Repeating a step on the subsets of T, from base on.
Repeats(f, T, base, step) ==
    /\ f \in [Nat -> SUBSET T]
    /\ f[0] = base
    /\ \A k \in Nat : f[k + 1] = step[f[k]]

\* The first n repetitions.
RepeatsUpTo(n, g, T, base, step) ==
    /\ g \in [0 .. n -> SUBSET T]
    /\ g[0] = base
    /\ \A k \in Nat : k < n => g[k + 1] = step[g[k]]

\* Any number of first repetitions can be listed.
LEMMA SomeRepetitions ==
    ASSUME NEW T, NEW base \in SUBSET T, NEW step \in [SUBSET T -> SUBSET T], NEW n \in Nat
    PROVE  \E g : RepeatsUpTo(n, g, T, base, step)
<1> DEFINE Listed(k) == \E g : RepeatsUpTo(k, g, T, base, step)
<1> DEFINE Unlisted == {k \in Nat : ~Listed(k)}
<1>1. Listed(0)
  <2>1. [k \in 0 .. 0 |-> base] \in [0 .. 0 -> SUBSET T]
    OBVIOUS
  <2>2. RepeatsUpTo(0, [k \in 0 .. 0 |-> base], T, base, step)
    BY <2>1 DEF RepeatsUpTo
  <2> QED
    BY <2>2
<1>2. ASSUME NEW k \in Nat, Listed(k)
      PROVE  Listed(k + 1)
  <2>1. PICK g : RepeatsUpTo(k, g, T, base, step)
    BY <1>2
  <2>2. g \in [0 .. k -> SUBSET T] /\ k \in 0 .. k /\ step[g[k]] \in SUBSET T
    BY <2>1 DEF RepeatsUpTo
  <2>3. PICK h : h = [i \in 0 .. k + 1 |-> IF i = k + 1 THEN step[g[k]] ELSE g[i]]
    OBVIOUS
  <2>4. h \in [0 .. k + 1 -> SUBSET T]
    <3>1. \A i \in 0 .. k + 1 : i # k + 1 => i \in 0 .. k
      OBVIOUS
    <3> QED
      BY <2>2, <2>3, <3>1
  <2>5. h[0] = base
    BY <2>1, <2>3 DEF RepeatsUpTo
  <2>6. ASSUME NEW i \in Nat, i < k + 1
        PROVE  h[i + 1] = step[h[i]]
    <3>1. i \in 0 .. k /\ i + 1 \in 0 .. k + 1 /\ i \in 0 .. k + 1 /\ i # k + 1
      BY <2>6
    <3>2. h[i] = g[i]
      BY <2>3, <3>1
    <3>3. CASE i = k
      BY <2>3, <3>1, <3>2, <3>3
    <3>4. CASE i # k
      <4>1. i < k /\ i + 1 # k + 1
        BY <3>1, <3>4
      <4>2. h[i + 1] = g[i + 1]
        BY <2>3, <3>1, <4>1
      <4> QED
        BY <2>1, <3>2, <4>1, <4>2 DEF RepeatsUpTo
    <3> QED
      BY <3>3, <3>4
  <2>7. RepeatsUpTo(k + 1, h, T, base, step)
    BY <2>4, <2>5, <2>6 DEF RepeatsUpTo
  <2> QED
    BY <2>7
<1>3. SUFFICES ASSUME Unlisted # {} PROVE FALSE
  OBVIOUS
<1>4. Unlisted \subseteq Nat /\ 0 \notin Unlisted
  BY <1>1
<1> HIDE DEF Listed
<1>5. PICK k \in Nat : k + 1 \in Unlisted /\ \A j \in 0 .. k : j \notin Unlisted
  <2> HIDE DEF Unlisted
  <2> QED
    BY <1>3, <1>4, LeastRound
<1>6. Listed(k)
  BY <1>5
<1>7. ~Listed(k + 1)
  BY <1>5
<1> QED
  BY <1>2, <1>6, <1>7

\* Two lists of repetitions agree where both are defined.
LEMMA RepetitionsAgree ==
    ASSUME NEW T, NEW base, NEW step, NEW n \in Nat, NEW p \in Nat, NEW g, NEW h,
           RepeatsUpTo(n, g, T, base, step), RepeatsUpTo(p, h, T, base, step),
           NEW i \in Nat, i <= n, i <= p
    PROVE  g[i] = h[i]
<1> DEFINE Apart == {k \in Nat : k <= n /\ k <= p /\ g[k] # h[k]}
<1>1. SUFFICES ASSUME Apart # {} PROVE FALSE
  OBVIOUS
<1>2. Apart \subseteq Nat /\ 0 \notin Apart
  BY DEF RepeatsUpTo
<1>3. PICK k \in Nat : k + 1 \in Apart /\ \A j \in 0 .. k : j \notin Apart
  <2> HIDE DEF Apart
  <2> QED
    BY <1>1, <1>2, LeastRound
<1>4. k < n /\ k < p /\ g[k + 1] # h[k + 1] /\ k \notin Apart
  BY <1>3
<1>5. g[k] = h[k]
  BY <1>4
<1> QED
  BY <1>4, <1>5 DEF RepeatsUpTo

\* A step can be repeated for ever.
LEMMA RepetitionExists ==
    ASSUME NEW T, NEW base \in SUBSET T, NEW step \in [SUBSET T -> SUBSET T]
    PROVE  \E f : Repeats(f, T, base, step)
<1> DEFINE G(n) == CHOOSE g : RepeatsUpTo(n, g, T, base, step)
<1>1. ASSUME NEW n \in Nat
      PROVE  RepeatsUpTo(n, G(n), T, base, step)
  BY SomeRepetitions
<1> HIDE DEF G
<1>2. PICK f : f = [n \in Nat |-> G(n)[n]]
  OBVIOUS
<1>3. f \in [Nat -> SUBSET T]
  <2>1. ASSUME NEW n \in Nat
        PROVE  G(n)[n] \in SUBSET T
    BY <1>1 DEF RepeatsUpTo
  <2> QED
    BY <1>2, <2>1
<1>4. f[0] = base
  BY <1>1, <1>2 DEF RepeatsUpTo
<1>5. ASSUME NEW k \in Nat
      PROVE  f[k + 1] = step[f[k]]
  <2>1. RepeatsUpTo(k, G(k), T, base, step) /\ RepeatsUpTo(k + 1, G(k + 1), T, base, step)
    BY <1>1
  <2>2. G(k)[k] = G(k + 1)[k]
    BY <2>1, RepetitionsAgree
  <2>3. G(k + 1)[k + 1] = step[G(k + 1)[k]]
    BY <2>1 DEF RepeatsUpTo
  <2> QED
    BY <1>2, <2>2, <2>3
<1> QED
  BY <1>3, <1>4, <1>5 DEF Repeats

-----------------------------------------------------------------------------
\* A sequence of sets that only grow.
LEMMA GrowsOn ==
    ASSUME NEW f, \A k \in Nat : f[k] \subseteq f[k + 1], NEW i \in Nat, NEW j \in Nat, i <= j
    PROVE  f[i] \subseteq f[j]
<1> DEFINE Lost == {k \in Nat : ~(f[i] \subseteq f[i + k])}
<1>1. SUFFICES ASSUME Lost # {} PROVE FALSE
  <2>1. j - i \in Nat /\ i + (j - i) = j
    OBVIOUS
  <2> QED
    BY <2>1
<1>2. Lost \subseteq Nat /\ 0 \notin Lost
  OBVIOUS
<1>3. PICK k \in Nat : k + 1 \in Lost /\ \A l \in 0 .. k : l \notin Lost
  <2> HIDE DEF Lost
  <2> QED
    BY <1>1, <1>2, LeastRound
<1>4. f[i] \subseteq f[i + k] /\ ~(f[i] \subseteq f[i + (k + 1)])
  BY <1>3
<1>5. i + k \in Nat /\ i + (k + 1) = (i + k) + 1
  OBVIOUS
<1> QED
  BY <1>4, <1>5

\* Once it stands still it stays so.
LEMMA StandsStill ==
    ASSUME NEW f, NEW i \in Nat, f[i] = f[i + 1],
           \A k \in Nat : f[k] = f[k + 1] => f[k + 1] = f[k + 2],
           NEW j \in Nat, i <= j
    PROVE  f[j] = f[i] /\ f[j + 1] = f[j]
<1> DEFINE Moved == {k \in Nat : ~(f[i + k] = f[i] /\ f[i + k + 1] = f[i + k])}
<1>1. SUFFICES ASSUME Moved # {} PROVE FALSE
  <2>1. j - i \in Nat /\ i + (j - i) = j
    OBVIOUS
  <2> QED
    BY <2>1
<1>2. Moved \subseteq Nat /\ 0 \notin Moved
  OBVIOUS
<1>3. PICK k \in Nat : k + 1 \in Moved /\ \A l \in 0 .. k : l \notin Moved
  <2> HIDE DEF Moved
  <2> QED
    BY <1>1, <1>2, LeastRound
<1>4. f[i + k] = f[i] /\ f[i + k + 1] = f[i + k]
  BY <1>3
<1>5. PICK l \in Nat : l = i + k
  OBVIOUS
<1>6. f[l + 1] = f[i] /\ f[l + 2] = f[l + 1]
  BY <1>4, <1>5
<1>7. i + (k + 1) = l + 1 /\ i + (k + 1) + 1 = l + 2
  BY <1>5
<1> QED
  BY <1>3, <1>6, <1>7

\* Within a finite set it stands still after as many steps as the set has members.
LEMMA GrowthStops ==
    ASSUME NEW T, IsFiniteSet(T), NEW f \in [Nat -> SUBSET T], NEW n \in Nat, Cardinality(T) <= n,
           \A k \in Nat : f[k] \subseteq f[k + 1],
           \A k \in Nat : f[k] = f[k + 1] => f[k + 1] = f[k + 2]
    PROVE  \A k \in Nat : n <= k => f[k] = f[n] /\ f[k + 1] = f[k]
<1>1. ASSUME NEW k \in Nat
      PROVE  IsFiniteSet(f[k]) /\ Cardinality(f[k]) \in Nat /\ Cardinality(f[k]) <= Cardinality(T)
  BY FS_Subset, FS_CardinalityType
<1>2. \E i \in 0 .. n : f[i] = f[i + 1]
  <2>1. SUFFICES ASSUME \A i \in 0 .. n : f[i] # f[i + 1] PROVE FALSE
    OBVIOUS
  <2> DEFINE Small == {k \in Nat : k <= n + 1 /\ Cardinality(f[k]) < k}
  <2>2. Small = {}
    <3>1. SUFFICES ASSUME Small # {} PROVE FALSE
      OBVIOUS
    <3>2. Small \subseteq Nat /\ 0 \notin Small
      BY <1>1
    <3>3. PICK k \in Nat : k + 1 \in Small /\ \A l \in 0 .. k : l \notin Small
      <4> HIDE DEF Small
      <4> QED
        BY <3>1, <3>2, LeastRound
    <3>4. k <= n /\ Cardinality(f[k + 1]) < k + 1 /\ k \notin Small
      BY <3>3
    <3>5. k <= Cardinality(f[k])
      BY <1>1, <3>4
    <3>6. f[k] # f[k + 1] /\ f[k] \subseteq f[k + 1]
      BY <2>1, <3>4
    <3>7. Cardinality(f[k]) < Cardinality(f[k + 1])
      <4>1. IsFiniteSet(f[k + 1]) /\ Cardinality(f[k]) \in Nat /\ Cardinality(f[k + 1]) \in Nat
        BY <1>1
      <4>2. Cardinality(f[k]) <= Cardinality(f[k + 1]) /\ Cardinality(f[k]) # Cardinality(f[k + 1])
        BY <3>6, <4>1, FS_Subset
      <4> QED
        BY <4>1, <4>2
    <3> QED
      BY <1>1, <3>4, <3>5, <3>7
  <2>3. n + 1 \notin Small
    BY <2>2
  <2>4. n + 1 <= Cardinality(f[n + 1])
    BY <1>1, <2>3
  <2>5. Cardinality(T) \in Nat
    BY FS_CardinalityType
  <2> QED
    BY <1>1, <2>4, <2>5
<1>3. PICK i \in Nat : i <= n /\ f[i] = f[i + 1]
  BY <1>2
<1>4. f[n] = f[i]
  BY <1>3, StandsStill
<1>5. ASSUME NEW k \in Nat, n <= k
      PROVE  f[k] = f[i] /\ f[k + 1] = f[k]
  <2>1. i <= k
    BY <1>3, <1>5
  <2> QED
    BY <1>3, <2>1, StandsStill
<1> QED
  BY <1>4, <1>5

-----------------------------------------------------------------------------
\* The tasks a round takes, when done were placed before it.
Ready(m, done) == {t \in TaskIds(m) \ done : m.deps[t] \subseteq done}

\* What the layering loop's recursion says of its rounds.
IsPlacing(m, f) == f = [k \in Nat |-> IF k = 0 THEN {} ELSE f[k - 1] \cup Ready(m, f[k - 1])]

\* The layering loop places nothing at first and then whatever is ready.
LEMMA PlacingRounds ==
    ASSUME NEW m
    PROVE  /\ PlacedBy(m, 0) = {}
           /\ \A k \in Nat : PlacedBy(m, k + 1) = PlacedBy(m, k) \cup Ready(m, PlacedBy(m, k))
<1> DEFINE T == TaskIds(m)
<1>1. PICK step : step = [done \in SUBSET T |-> done \cup Ready(m, done)]
  OBVIOUS
<1>2. step \in [SUBSET T -> SUBSET T]
  BY <1>1 DEF Ready
<1>3. PICK f : Repeats(f, T, {}, step)
  BY <1>2, RepetitionExists
<1>4. IsPlacing(m, f)
  <2>1. f = [k \in Nat |-> f[k]] /\ \A k \in Nat : f[k] \in SUBSET T
    BY <1>3 DEF Repeats
  <2>2. ASSUME NEW k \in Nat
        PROVE  f[k] = IF k = 0 THEN {} ELSE f[k - 1] \cup Ready(m, f[k - 1])
    <3>1. CASE k = 0
      BY <1>3, <3>1 DEF Repeats
    <3>2. CASE k # 0
      <4>1. k - 1 \in Nat /\ (k - 1) + 1 = k
        BY <3>2
      <4>2. f[k] = step[f[k - 1]]
        BY <1>3, <4>1 DEF Repeats
      <4> QED
        BY <1>1, <2>1, <3>2, <4>1, <4>2
    <3> QED
      BY <3>1, <3>2
  <2>3. f = [k \in Nat |-> IF k = 0 THEN {} ELSE f[k - 1] \cup Ready(m, f[k - 1])]
    BY <2>1, <2>2, Zenon
  <2> QED
    BY <2>3 DEF IsPlacing
<1> DEFINE placed == CHOOSE g : IsPlacing(m, g)
<1>5. IsPlacing(m, placed)
  BY <1>4, Zenon
<1>6. \A n : PlacedBy(m, n) = placed[n]
  BY DEF PlacedBy, IsPlacing, Ready
<1> HIDE DEF placed
<1>7. placed[0] = {} /\ \A k \in Nat : placed[k + 1] = placed[k] \cup Ready(m, placed[k])
  <2>1. \A k \in Nat : placed[k] = IF k = 0 THEN {} ELSE placed[k - 1] \cup Ready(m, placed[k - 1])
    BY <1>5, Zenon DEF IsPlacing
  <2>2. \A k \in Nat : k + 1 \in Nat /\ k + 1 # 0 /\ (k + 1) - 1 = k
    OBVIOUS
  <2> QED
    BY <2>1, <2>2
<1> QED
  BY <1>6, <1>7

\* Placed tasks are tasks, stay placed, and have all they depend on placed before them.
LEMMA PlacedTasks ==
    ASSUME NEW m, NEW k \in Nat
    PROVE  /\ PlacedBy(m, k) \subseteq TaskIds(m)
           /\ PlacedBy(m, k) \subseteq PlacedBy(m, k + 1)
           /\ \A t \in PlacedBy(m, k) : m.deps[t] \subseteq PlacedBy(m, k)
<1> DEFINE Sound(i) == /\ PlacedBy(m, i) \subseteq TaskIds(m)
                       /\ \A t \in PlacedBy(m, i) : m.deps[t] \subseteq PlacedBy(m, i)
<1> DEFINE Unsound == {i \in Nat : ~Sound(i)}
<1>1. Unsound = {}
  <2>1. SUFFICES ASSUME Unsound # {} PROVE FALSE
    OBVIOUS
  <2>2. Unsound \subseteq Nat /\ 0 \notin Unsound
    BY PlacingRounds
  <2>3. PICK i \in Nat : i + 1 \in Unsound /\ \A j \in 0 .. i : j \notin Unsound
    <3> HIDE DEF Unsound
    <3> QED
      BY <2>1, <2>2, LeastRound
  <2>4. Sound(i) /\ ~Sound(i + 1)
    BY <2>3
  <2>5. PlacedBy(m, i + 1) = PlacedBy(m, i) \cup Ready(m, PlacedBy(m, i))
    BY PlacingRounds
  <2> QED
    BY <2>4, <2>5 DEF Ready
<1>2. Sound(k)
  BY <1>1
<1> QED
  BY <1>2, PlacingRounds

\* A later round has placed all an earlier one has.
LEMMA PlacedStays ==
    ASSUME NEW m, NEW i \in Nat, NEW j \in Nat, i <= j
    PROVE  PlacedBy(m, i) \subseteq PlacedBy(m, j)
<1>1. PICK f : f = [k \in Nat |-> PlacedBy(m, k)]
  OBVIOUS
<1>2. \A k \in Nat : f[k] \subseteq f[k + 1]
  BY <1>1, PlacedTasks
<1>3. f[i] \subseteq f[j]
  BY <1>2, GrowsOn
<1> QED
  BY <1>1, <1>3

\* A layer holds tasks that were not placed before and depend on placed ones only.
LEMMA LayerTasks ==
    ASSUME NEW m, NEW k \in Nat \ {0}
    PROVE  /\ PlacedBy(m, k) = PlacedBy(m, k - 1) \cup Layer(m, k)
           /\ Layer(m, k) \subseteq TaskIds(m)
           /\ \A t \in Layer(m, k) : t \notin PlacedBy(m, k - 1) /\ m.deps[t] \subseteq PlacedBy(m, k - 1)
<1>1. k - 1 \in Nat /\ (k - 1) + 1 = k
  OBVIOUS
<1>2. PlacedBy(m, k) = PlacedBy(m, k - 1) \cup Ready(m, PlacedBy(m, k - 1))
  BY <1>1, PlacingRounds
<1> QED
  BY <1>1, <1>2, PlacedTasks DEF Layer, Ready

\* A task placed at all is in a layer: that of the first round that placed it.
LEMMA PlacedInLayer ==
    ASSUME NEW m, NEW n \in Nat, NEW t \in PlacedBy(m, n)
    PROVE  \E k \in 1 .. n : t \in Layer(m, k)
<1>1. PICK S : S = {i \in Nat : t \in PlacedBy(m, i)}
  OBVIOUS
<1>2. S \subseteq Nat /\ S # {} /\ 0 \notin S
  BY <1>1, PlacingRounds
<1>3. PICK k \in Nat : k + 1 \in S /\ \A j \in 0 .. k : j \notin S
  BY <1>2, LeastRound
<1>4. k + 1 \in 1 .. n
  BY <1>1, <1>3
<1>5. t \in PlacedBy(m, k + 1) /\ t \notin PlacedBy(m, k) /\ (k + 1) - 1 = k
  BY <1>1, <1>3
<1>6. t \in Layer(m, k + 1)
  BY <1>5 DEF Layer
<1> QED
  BY <1>4, <1>6

-----------------------------------------------------------------------------
\* A mission the planner does not refuse at once: a list of different tasks whose
\* dependencies are tasks.
Listed(m) == m.ids \in Seq(TaskIds(m)) /\ ~HasDuplicate(m) /\ ~HasUnknownDependency(m)

\* There are no more tasks than places in the list.
LEMMA TasksAreFinite ==
    ASSUME NEW m, m.ids \in Seq(TaskIds(m))
    PROVE  /\ Len(m.ids) \in Nat
           /\ IsFiniteSet(TaskIds(m))
           /\ Cardinality(TaskIds(m)) \in Nat
           /\ Cardinality(TaskIds(m)) <= Len(m.ids)
<1>1. Len(m.ids) \in Nat /\ DOMAIN m.ids = 1 .. Len(m.ids)
  BY LenProperties
<1>2. IsFiniteSet(1 .. Len(m.ids)) /\ Cardinality(1 .. Len(m.ids)) = Len(m.ids)
  BY <1>1, FS_Interval
<1>3. m.ids \in Surjection(1 .. Len(m.ids), TaskIds(m))
  <2>1. m.ids \in [1 .. Len(m.ids) -> TaskIds(m)]
    BY <1>1
  <2>2. \A t \in TaskIds(m) : \E i \in 1 .. Len(m.ids) : m.ids[i] = t
    BY <1>1 DEF TaskIds
  <2> QED
    BY <2>1, <2>2 DEF Surjection
<1>4. IsFiniteSet(TaskIds(m)) /\ Cardinality(TaskIds(m)) <= Len(m.ids)
  BY <1>2, <1>3, FS_Surjection
<1> QED
  BY <1>1, <1>4, FS_CardinalityType

\* Chains of dependencies one longer.
Further(m, found) == found \cup UNION {m.deps[s] : s \in found \cap TaskIds(m)}

\* What the reference definition's recursion says of the chains from t.
IsReaching(m, t, f) == f = [n \in Nat |-> IF n = 0 THEN m.deps[t] ELSE Further(m, f[n - 1])]

\* What a task needs is what its chains reach, and longer chains reach nothing more.
LEMMA ChainsOfDependencies ==
    ASSUME NEW m, Listed(m), NEW t \in TaskIds(m)
    PROVE  \E f \in [Nat -> SUBSET TaskIds(m)] :
             /\ f[0] = m.deps[t]
             /\ \A k \in Nat : f[k + 1] = Further(m, f[k])
             /\ \A d : Needs(m, t, d) <=> d \in f[Len(m.ids)]
             /\ f[Len(m.ids) + 1] = f[Len(m.ids)]
<1> DEFINE T == TaskIds(m)
<1>1. m.deps[t] \in SUBSET T
  BY DEF Listed, HasUnknownDependency
<1>2. PICK step : step = [found \in SUBSET T |-> Further(m, found)]
  OBVIOUS
<1>3. step \in [SUBSET T -> SUBSET T]
  <2>1. ASSUME NEW found \in SUBSET T
        PROVE  Further(m, found) \in SUBSET T
    BY DEF Further, Listed, HasUnknownDependency
  <2> QED
    BY <1>2, <2>1
<1>4. PICK f : Repeats(f, T, m.deps[t], step)
  BY <1>1, <1>3, RepetitionExists
<1>5. IsReaching(m, t, f)
  <2>1. f = [k \in Nat |-> f[k]] /\ \A k \in Nat : f[k] \in SUBSET T
    BY <1>4 DEF Repeats
  <2>2. ASSUME NEW k \in Nat
        PROVE  f[k] = IF k = 0 THEN m.deps[t] ELSE Further(m, f[k - 1])
    <3>1. CASE k = 0
      BY <1>4, <3>1 DEF Repeats
    <3>2. CASE k # 0
      <4>1. k - 1 \in Nat /\ (k - 1) + 1 = k
        BY <3>2
      <4>2. f[k] = step[f[k - 1]]
        BY <1>4, <4>1 DEF Repeats
      <4> QED
        BY <1>2, <2>1, <3>2, <4>1, <4>2
    <3> QED
      BY <3>1, <3>2
  <2>3. f = [k \in Nat |-> IF k = 0 THEN m.deps[t] ELSE Further(m, f[k - 1])]
    BY <2>1, <2>2, Zenon
  <2> QED
    BY <2>3 DEF IsReaching
<1> DEFINE within == CHOOSE g : IsReaching(m, t, g)
<1>6. IsReaching(m, t, within)
  BY <1>5, Zenon
<1>7. \A d : Needs(m, t, d) <=> d \in within[Len(m.ids)]
  BY DEF Needs, IsReaching, Further
<1> HIDE DEF within
<1>8. within[0] = m.deps[t] /\ \A k \in Nat : within[k + 1] = Further(m, within[k])
  <2>1. \A k \in Nat : within[k] = IF k = 0 THEN m.deps[t] ELSE Further(m, within[k - 1])
    BY <1>6, Zenon DEF IsReaching
  <2>2. \A k \in Nat : k + 1 \in Nat /\ k + 1 # 0 /\ (k + 1) - 1 = k
    OBVIOUS
  <2> QED
    BY <2>1, <2>2
<1>9. within \in [Nat -> SUBSET T]
  <2> DEFINE Outside == {k \in Nat : within[k] \notin SUBSET T}
  <2>1. Outside = {}
    <3>1. SUFFICES ASSUME Outside # {} PROVE FALSE
      OBVIOUS
    <3>2. Outside \subseteq Nat /\ 0 \notin Outside
      BY <1>1, <1>8
    <3>3. PICK k \in Nat : k + 1 \in Outside /\ \A j \in 0 .. k : j \notin Outside
      <4> HIDE DEF Outside
      <4> QED
        BY <3>1, <3>2, LeastRound
    <3>4. within[k] \in SUBSET T /\ within[k + 1] \notin SUBSET T
      BY <3>3
    <3> QED
      BY <1>2, <1>3, <1>8, <3>4
  <2>2. within = [k \in Nat |-> within[k]]
    BY <1>6 DEF IsReaching
  <2>3. \A k \in Nat : within[k] \in SUBSET T
    BY <2>1
  <2> QED
    BY <2>2, <2>3
<1>10. within[Len(m.ids) + 1] = within[Len(m.ids)]
  <2>1. \A k \in Nat : within[k] \subseteq within[k + 1]
    BY <1>8 DEF Further
  <2>2. ASSUME NEW k \in Nat, within[k] = within[k + 1]
        PROVE  within[k + 1] = within[k + 2]
    <3>1. (k + 1) + 1 = k + 2 /\ k + 1 \in Nat
      OBVIOUS
    <3> QED
      BY <1>8, <2>2, <3>1
  <2>3. /\ Len(m.ids) \in Nat /\ IsFiniteSet(T) /\ Cardinality(T) <= Len(m.ids)
    BY TasksAreFinite DEF Listed
  <2>4. PICK n \in Nat : n = Len(m.ids)
    BY <2>3
  <2> HIDE DEF T
  <2>5. \A k \in Nat : n <= k => within[k] = within[n] /\ within[k + 1] = within[k]
    BY <1>9, <2>1, <2>2, <2>3, <2>4, GrowthStops, ZenonT(60)
  <2> QED
    BY <2>4, <2>5
<1> QED
  BY <1>7, <1>8, <1>9, <1>10

\* Needing is the least relation that holds of a dependency and is passed on by one.
LEMMA NeedsIsLeast ==
    ASSUME NEW m, Listed(m), NEW t \in TaskIds(m)
    PROVE  /\ \A d : Needs(m, t, d) => d \in TaskIds(m)
           /\ \A d \in m.deps[t] : Needs(m, t, d)
           /\ \A s, d : Needs(m, t, s) /\ d \in m.deps[s] => Needs(m, t, d)
           /\ \A C : m.deps[t] \subseteq C /\ (\A s \in C \cap TaskIds(m) : m.deps[s] \subseteq C)
                       => \A d : Needs(m, t, d) => d \in C
<1>1. PICK f \in [Nat -> SUBSET TaskIds(m)] :
             /\ f[0] = m.deps[t]
             /\ \A k \in Nat : f[k + 1] = Further(m, f[k])
             /\ \A d : Needs(m, t, d) <=> d \in f[Len(m.ids)]
             /\ f[Len(m.ids) + 1] = f[Len(m.ids)]
  BY ChainsOfDependencies
<1>2. Len(m.ids) \in Nat
  BY TasksAreFinite DEF Listed
<1>3. \A k \in Nat : f[k] \subseteq f[k + 1]
  BY <1>1 DEF Further
<1>4. m.deps[t] \subseteq f[Len(m.ids)]
  <2>1. f[0] \subseteq f[Len(m.ids)]
    BY <1>2, <1>3, GrowsOn
  <2> QED
    BY <1>1, <2>1
<1>5. ASSUME NEW s, NEW d, Needs(m, t, s), d \in m.deps[s]
      PROVE  Needs(m, t, d)
  <2>1. s \in f[Len(m.ids)] /\ s \in TaskIds(m)
    BY <1>1, <1>2, <1>5
  <2>2. d \in f[Len(m.ids) + 1]
    BY <1>1, <1>2, <1>5, <2>1 DEF Further
  <2> QED
    BY <1>1, <2>2
<1>6. ASSUME NEW C, m.deps[t] \subseteq C, \A s \in C \cap TaskIds(m) : m.deps[s] \subseteq C
      PROVE  \A d : Needs(m, t, d) => d \in C
  <2> DEFINE Beyond == {k \in Nat : ~(f[k] \subseteq C)}
  <2>1. Beyond = {}
    <3>1. SUFFICES ASSUME Beyond # {} PROVE FALSE
      OBVIOUS
    <3>2. Beyond \subseteq Nat /\ 0 \notin Beyond
      BY <1>1, <1>6
    <3>3. PICK k \in Nat : k + 1 \in Beyond /\ \A j \in 0 .. k : j \notin Beyond
      <4> HIDE DEF Beyond
      <4> QED
        BY <3>1, <3>2, LeastRound
    <3>4. f[k] \subseteq C /\ ~(f[k + 1] \subseteq C)
      BY <3>3
    <3> QED
      BY <1>1, <1>6, <3>4 DEF Further
  <2>2. f[Len(m.ids)] \subseteq C
    BY <1>2, <2>1
  <2> QED
    BY <1>1, <2>2
<1>7. \A d : Needs(m, t, d) => d \in TaskIds(m)
  BY <1>1, <1>2
<1>8. \A d \in m.deps[t] : Needs(m, t, d)
  BY <1>1, <1>4
<1> QED
  BY <1>5, <1>6, <1>7, <1>8

\* Needing is transitive.
LEMMA NeedsIsTransitive ==
    ASSUME NEW m, Listed(m), NEW t \in TaskIds(m), NEW s, NEW d, Needs(m, t, s), Needs(m, s, d)
    PROVE  Needs(m, t, d)
<1>1. s \in TaskIds(m)
  BY NeedsIsLeast
<1>2. PICK C : C = {e \in TaskIds(m) : Needs(m, t, e)}
  OBVIOUS
<1>3. m.deps[s] \subseteq C /\ \A e \in C \cap TaskIds(m) : m.deps[e] \subseteq C
  BY <1>2, NeedsIsLeast
<1>4. d \in C
  BY <1>1, <1>3, NeedsIsLeast
<1> QED
  BY <1>2, <1>4

-----------------------------------------------------------------------------
\* A round that places nothing new is the last that places anything, and the list's
\* length in rounds is enough.
LEMMA RoundsEnd ==
    ASSUME NEW m
    PROVE  /\ \A i, j \in Nat : i <= j /\ PlacedBy(m, i) = PlacedBy(m, i + 1) =>
                PlacedBy(m, j) = PlacedBy(m, i) /\ PlacedBy(m, j + 1) = PlacedBy(m, j)
           /\ m.ids \in Seq(TaskIds(m)) =>
                \A j \in Nat : Len(m.ids) <= j => PlacedBy(m, j) = PlacedBy(m, Len(m.ids))
<1>1. PICK f : f = [k \in Nat |-> PlacedBy(m, k)]
  OBVIOUS
<1>2. f \in [Nat -> SUBSET TaskIds(m)] /\ \A k \in Nat : f[k] \subseteq f[k + 1]
  BY <1>1, PlacedTasks
<1>3. ASSUME NEW k \in Nat, f[k] = f[k + 1]
      PROVE  f[k + 1] = f[k + 2]
  <2>1. (k + 1) + 1 = k + 2 /\ k + 1 \in Nat
    OBVIOUS
  <2>2. PlacedBy(m, k) = PlacedBy(m, k + 1)
    BY <1>1, <1>3
  <2>3. PlacedBy(m, k + 1) = PlacedBy(m, k) \cup Ready(m, PlacedBy(m, k))
    BY PlacingRounds
  <2>4. PlacedBy(m, (k + 1) + 1) = PlacedBy(m, k + 1) \cup Ready(m, PlacedBy(m, k + 1))
    BY <2>1, PlacingRounds
  <2>5. PlacedBy(m, k + 1) = PlacedBy(m, k + 2)
    BY <2>1, <2>2, <2>3, <2>4
  <2> QED
    BY <1>1, <2>1, <2>5
<1>4. ASSUME NEW i \in Nat, NEW j \in Nat, i <= j, PlacedBy(m, i) = PlacedBy(m, i + 1)
      PROVE  PlacedBy(m, j) = PlacedBy(m, i) /\ PlacedBy(m, j + 1) = PlacedBy(m, j)
  <2>1. f[i] = f[i + 1]
    BY <1>1, <1>4
  <2>2. f[j] = f[i] /\ f[j + 1] = f[j]
    BY <1>3, <1>4, <2>1, StandsStill
  <2> QED
    BY <1>1, <2>2
<1>5. ASSUME m.ids \in Seq(TaskIds(m)), NEW j \in Nat, Len(m.ids) <= j
      PROVE  PlacedBy(m, j) = PlacedBy(m, Len(m.ids))
  <2>1. PICK n \in Nat : n = Len(m.ids)
    BY <1>5, TasksAreFinite
  <2>2. IsFiniteSet(TaskIds(m)) /\ Cardinality(TaskIds(m)) <= n
    BY <1>5, <2>1, TasksAreFinite
  <2>3. \A k \in Nat : n <= k => f[k] = f[n] /\ f[k + 1] = f[k]
    BY <1>2, <1>3, <2>2, GrowthStops
  <2> QED
    BY <1>1, <1>5, <2>1, <2>3
<1> QED
  BY <1>4, <1>5

\* A task left over by the last round depends on another one left over.
LEMMA LeftOverNeedsLeftOver ==
    ASSUME NEW m, Listed(m), NEW t \in TaskIds(m) \ PlacedBy(m, Len(m.ids))
    PROVE  \E d \in TaskIds(m) \ PlacedBy(m, Len(m.ids)) : d \in m.deps[t]
<1>1. PICK n \in Nat : n = Len(m.ids)
  BY TasksAreFinite DEF Listed
<1>2. PlacedBy(m, n + 1) = PlacedBy(m, n)
  <2>1. n + 1 \in Nat /\ n <= n + 1
    OBVIOUS
  <2> QED
    BY <1>1, <2>1, RoundsEnd DEF Listed
<1>3. t \notin Ready(m, PlacedBy(m, n))
  <2>1. PlacedBy(m, n + 1) = PlacedBy(m, n) \cup Ready(m, PlacedBy(m, n))
    BY PlacingRounds
  <2>2. t \notin PlacedBy(m, n)
    BY <1>1
  <2> QED
    BY <1>2, <2>1, <2>2
<1>4. m.deps[t] \subseteq TaskIds(m)
  BY DEF Listed, HasUnknownDependency
<1> QED
  BY <1>1, <1>3, <1>4 DEF Ready

\* Tasks that each depend on another of them contain a cycle: else the one with the
\* fewest needs would need one with fewer.
LEMMA EndlessNeedsItself ==
    ASSUME NEW m, Listed(m), NEW R, R \subseteq TaskIds(m), R # {},
           \A t \in R : \E d \in R : d \in m.deps[t]
    PROVE  \E t \in TaskIds(m) : Needs(m, t, t)
<1>1. SUFFICES ASSUME \A t \in TaskIds(m) : ~Needs(m, t, t) PROVE FALSE
  OBVIOUS
<1>2. PICK below : below = [t \in R |-> {d \in TaskIds(m) : Needs(m, t, d)}]
  OBVIOUS
<1>3. \A t \in R : IsFiniteSet(below[t]) /\ Cardinality(below[t]) \in Nat
  <2>1. IsFiniteSet(TaskIds(m))
    BY TasksAreFinite DEF Listed
  <2>2. \A t \in R : below[t] \in SUBSET TaskIds(m)
    BY <1>2
  <2> QED
    BY <2>1, <2>2, FS_Subset, FS_CardinalityType
<1>4. PICK S : S = {Cardinality(below[t]) : t \in R}
  OBVIOUS
<1>5. PICK least \in S : \A j \in S : least <= j
  BY <1>3, <1>4, LeastNatural, ZenonT(60)
<1>6. PICK t \in R : least = Cardinality(below[t])
  BY <1>4, <1>5
<1>7. PICK d \in R : d \in m.deps[t]
  OBVIOUS
<1>8. Needs(m, t, d)
  BY <1>7, NeedsIsLeast
<1>9. below[d] \subseteq below[t]
  <2>1. \A e : Needs(m, d, e) => Needs(m, t, e)
    BY <1>8, NeedsIsTransitive
  <2> QED
    BY <1>2, <2>1
<1>10. d \in below[t] /\ d \notin below[d]
  BY <1>1, <1>2, <1>8
<1>11. Cardinality(below[d]) < Cardinality(below[t])
  <2>1. Cardinality(below[d]) <= Cardinality(below[t]) /\ Cardinality(below[d]) # Cardinality(below[t])
    BY <1>3, <1>9, <1>10, FS_Subset
  <2> QED
    BY <1>3, <2>1
<1>12. Cardinality(below[d]) \in S
  BY <1>4
<1> QED
  BY <1>3, <1>5, <1>6, <1>11, <1>12

\* A task of a layer needs only tasks that were placed before it.
LEMMA LayerNeedsPlaced ==
    ASSUME NEW m, Listed(m), NEW k \in Nat \ {0}, NEW t \in Layer(m, k), NEW d, Needs(m, t, d)
    PROVE  d \in PlacedBy(m, k - 1)
<1>1. k - 1 \in Nat /\ t \in TaskIds(m) /\ m.deps[t] \subseteq PlacedBy(m, k - 1)
  BY LayerTasks
<1>2. \A s \in PlacedBy(m, k - 1) : m.deps[s] \subseteq PlacedBy(m, k - 1)
  BY <1>1, PlacedTasks
<1> QED
  BY <1>1, <1>2, NeedsIsLeast

\* The layers that hold a task are the first ones, without a gap.
LEMMA LayersAreFirst ==
    ASSUME NEW m, m.ids \in Seq(TaskIds(m))
    PROVE  /\ LayerCount(m) \in 0 .. Len(m.ids)
           /\ \A k \in 1 .. Len(m.ids) : Layer(m, k) # {} <=> k <= LayerCount(m)
<1>1. PICK n \in Nat : n = Len(m.ids)
  BY TasksAreFinite
<1>2. PICK S : S = {k \in 1 .. n : Layer(m, k) # {}}
  OBVIOUS
<1>3. PICK E : E = {k \in 1 .. n + 1 : k \notin S}
  OBVIOUS
<1>4. E \subseteq Nat /\ E # {} /\ 0 \notin E
  <2>1. n + 1 \in 1 .. n + 1 /\ n + 1 \notin S
    BY <1>2
  <2> QED
    BY <1>3, <2>1
<1>5. PICK p \in Nat : p + 1 \in E /\ \A j \in 0 .. p : j \notin E
  BY <1>4, LeastRound
<1>6. p <= n /\ 1 .. p \subseteq S
  BY <1>3, <1>5
<1>7. S \subseteq 1 .. p
  <2>1. SUFFICES ASSUME NEW k \in S, p < k PROVE FALSE
    BY <1>2
  <2>2. k \in 1 .. n /\ Layer(m, k) # {} /\ k # p + 1
    BY <1>2, <1>3, <1>5
  <2>3. p + 1 \in 1 .. n /\ Layer(m, p + 1) = {}
    BY <1>2, <1>3, <1>5, <2>1, <2>2
  <2>4. PlacedBy(m, p) = PlacedBy(m, p + 1)
    <3>1. PICK q \in Nat \ {0} : q = p + 1 /\ q - 1 = p
      OBVIOUS
    <3>2. PlacedBy(m, q) = PlacedBy(m, q - 1) \cup Layer(m, q)
      BY LayerTasks
    <3> QED
      BY <2>3, <3>1, <3>2
  <2>5. k - 1 \in Nat /\ p <= k - 1 /\ (k - 1) + 1 = k
    BY <2>1, <2>2
  <2>6. PlacedBy(m, k) = PlacedBy(m, k - 1)
    BY <2>4, <2>5, RoundsEnd
  <2> QED
    BY <2>2, <2>6 DEF Layer
<1>8. S = 1 .. p
  BY <1>6, <1>7
<1>9. Cardinality(S) = p
  BY <1>8, FS_Interval
<1>10. LayerCount(m) = p
  BY <1>1, <1>2, <1>9 DEF LayerCount
<1> QED
  BY <1>1, <1>2, <1>6, <1>8, <1>10

-----------------------------------------------------------------------------
\* The planner calls a mission cyclic exactly when some task needs itself
\* (planMission, execution-planner.ts:30).
THEOREM CyclesAreFound ==
    ASSUME NEW m, Listed(m)
    PROVE  HasCycle(m) <=> \E t \in TaskIds(m) : Needs(m, t, t)
<1>1. PICK n \in Nat : n = Len(m.ids)
  BY TasksAreFinite DEF Listed
<1>2. ASSUME HasCycle(m)
      PROVE  \E t \in TaskIds(m) : Needs(m, t, t)
  <2>1. PICK R : R = TaskIds(m) \ PlacedBy(m, n)
    OBVIOUS
  <2>2. R # {} /\ R \subseteq TaskIds(m)
    BY <1>1, <1>2, <2>1, PlacedTasks DEF HasCycle
  <2>3. \A t \in R : \E d \in R : d \in m.deps[t]
    BY <1>1, <2>1, LeftOverNeedsLeftOver
  <2> QED
    BY <2>2, <2>3, EndlessNeedsItself
<1>3. ASSUME NEW t \in TaskIds(m), Needs(m, t, t), ~HasCycle(m)
      PROVE  FALSE
  <2>1. t \in PlacedBy(m, n)
    BY <1>1, <1>3 DEF HasCycle
  <2>2. PICK k \in 1 .. n : t \in Layer(m, k)
    BY <2>1, PlacedInLayer
  <2>3. t \in PlacedBy(m, k - 1)
    BY <1>3, <2>2, LayerNeedsPlaced
  <2> QED
    BY <2>2, <2>3 DEF Layer
<1> QED
  BY <1>2, <1>3

\* Every task of a mission without a cycle is in exactly one of the layers, and what it
\* needs is in earlier ones (planMission, execution-planner.ts:30).
THEOREM LayersFollowNeeds ==
    ASSUME NEW m, Listed(m), ~HasCycle(m), NEW t \in TaskIds(m)
    PROVE  \E n \in 1 .. LayerCount(m) :
             /\ {k \in 1 .. Len(m.ids) : t \in Layer(m, k)} = {n}
             /\ \A d \in TaskIds(m) : Needs(m, t, d) => \E k \in 1 .. n - 1 : d \in Layer(m, k)
<1>1. PICK len \in Nat : len = Len(m.ids)
  BY TasksAreFinite DEF Listed
<1>2. t \in PlacedBy(m, len)
  BY <1>1 DEF HasCycle
<1>3. PICK n \in 1 .. len : t \in Layer(m, n)
  BY <1>2, PlacedInLayer
<1>4. LayerCount(m) \in Nat /\ n <= LayerCount(m)
  BY <1>1, <1>3, LayersAreFirst DEF Listed
<1>5. ASSUME NEW k \in 1 .. len, t \in Layer(m, k), k # n
      PROVE  FALSE
  <2>1. \A i, j \in 1 .. len : i < j /\ t \in Layer(m, i) => t \notin Layer(m, j)
    <3>1. SUFFICES ASSUME NEW i \in 1 .. len, NEW j \in 1 .. len, i < j, t \in Layer(m, i)
                   PROVE  t \notin Layer(m, j)
      OBVIOUS
    <3>2. i \in Nat /\ j - 1 \in Nat /\ i <= j - 1
      BY <3>1
    <3>3. PlacedBy(m, i) \subseteq PlacedBy(m, j - 1)
      BY <3>2, PlacedStays
    <3> QED
      BY <3>1, <3>3 DEF Layer
  <2> QED
    BY <1>3, <1>5, <2>1
<1>6. {k \in 1 .. Len(m.ids) : t \in Layer(m, k)} = {n}
  BY <1>1, <1>3, <1>5
<1>7. ASSUME NEW d \in TaskIds(m), Needs(m, t, d)
      PROVE  \E k \in 1 .. n - 1 : d \in Layer(m, k)
  <2>1. n - 1 \in Nat /\ d \in PlacedBy(m, n - 1)
    BY <1>3, <1>7, LayerNeedsPlaced
  <2> QED
    BY <2>1, PlacedInLayer
<1> QED
  BY <1>3, <1>4, <1>6, <1>7

\* The last layer completes the plan of a mission the planner accepts.
LEMMA PlanIsComplete ==
    ASSUME NEW m, Listed(m), ~HasCycle(m), NEW k \in Nat, LayerCount(m) <= k
    PROVE  PlacedBy(m, k) = TaskIds(m)
<1>1. PlacedBy(m, k) \subseteq TaskIds(m)
  BY PlacedTasks
<1>2. ASSUME NEW t \in TaskIds(m)
      PROVE  t \in PlacedBy(m, k)
  <2>1. LayerCount(m) \in Nat
    BY LayersAreFirst, TasksAreFinite DEF Listed
  <2>2. PICK n \in 1 .. LayerCount(m) : {i \in 1 .. Len(m.ids) : t \in Layer(m, i)} = {n}
    BY <1>2, LayersFollowNeeds
  <2>3. t \in PlacedBy(m, n) /\ n \in Nat /\ n <= k
    BY <2>1, <2>2 DEF Layer
  <2> QED
    BY <2>3, PlacedStays
<1> QED
  BY <1>1, <1>2

-----------------------------------------------------------------------------
\* The executions.
\* States of a task that was begun, and of one whose layer is done with it.
Begun == {"running", "completed", "failed"}
EndStates == {"completed", "failed", "skipped"}

MissionTyped ==
    /\ mission \in Missions
    /\ MissionTypeOK
    /\ execution = 0 => stage = "idle" /\ taskState = [t \in Tasks |-> "pending"]
                                       /\ outcome = [t \in Tasks |-> "none"]

\* What a row says of its effects: those denied by a row that failed, and one more that
\* stands once the row is written and can only stand while it runs.  A row that waits
\* has an effect to come within the attempts allowed.
RowIsCounted(row, took, failed, most) ==
    /\ took \in {failed, failed + 1}
    /\ row \in {"written", "completed"} => took = failed + 1
    /\ row \notin {"running", "written", "completed"} => took = failed
    /\ took <= most
    /\ row = "awaiting_approval" => took + 1 <= most

\* Every row is counted so, and executions to come have none.
RowsCountEffects ==
    \A e \in Executions, t \in Tasks :
      /\ RowIsCounted(actionRow[e][t], effects[e][t], denied[e][t], mission.maxAttempts[t])
      /\ e > execution => actionRow[e][t] = "none" /\ effects[e][t] = 0

\* The attempts of the execution bound the effects of the row, with the one to come of a
\* row that waits or whose handler is yet to run.
AttemptIsCounted(row, took, failed, out, n) ==
    /\ took <= n
    /\ row = "awaiting_approval" => took + 1 <= n
    /\ out = "inserting" => row \notin Deduplicated /\ took + 1 <= n
    /\ out = "attempting" => row \in {"running", "written"}
    /\ out = "attempting" /\ row = "running" => took = failed /\ took + 1 <= n

AttemptsBoundEffects ==
    \A t \in Tasks :
      /\ attempts[t] <= mission.maxAttempts[t]
      /\ outcome[t] = "none" => attempts[t] < mission.maxAttempts[t]
      /\ execution # 0 => AttemptIsCounted(actionRow[execution][t], effects[execution][t],
                                           denied[execution][t], outcome[t], attempts[t])

\* A key shared by tasks that do not run together has one row that answers it, and none
\* while one of them is to insert its own.
OneRowPerKey ==
    KeysApart =>
      /\ \A e, f \in Executions, t, u \in Tasks :
           SameKey(t, u) /\ {actionRow[e][t], actionRow[f][u]} \subseteq Deduplicated => <<e, t>> = <<f, u>>
      /\ \A f \in Executions, t, u \in Tasks :
           outcome[t] = "inserting" /\ SameKey(t, u) => actionRow[f][u] \notin Deduplicated

RowsInv == RowsCountEffects /\ AttemptsBoundEffects /\ OneRowPerKey

\* A task runs while its layer does, and only an action that took effect completes it.
OutcomesMatchRows ==
    \A t \in Tasks :
      /\ taskState[t] = "running" => stage = "running"
      /\ outcome[t] \in {"inserting", "attempting"} => taskState[t] = "running"
      /\ outcome[t] = "ok" => TookEffect(execution, t)
      /\ taskState[t] = "completed" => TookEffect(execution, t)
      /\ attempts[t] > 0 => taskState[t] \in Begun

\* Where an execution stands: only an accepted mission has layers.
PlanIsKept ==
    /\ stage \in {"layer", "running", "paused", "final"} =>
         execution \in Executions /\ PlanError(mission) = "none" /\ layer \in 1 .. LayerCount(mission) + 1
    /\ stage = "running" => layer <= LayerCount(mission)

\* Layers before the current one ended, those after it did not begin.
LayersAreInOrder ==
    /\ stage \in {"layer", "running"} => \A t \in PlacedBy(mission, layer - 1) : taskState[t] \in EndStates
    /\ stage = "layer" => \A t \in Tasks \ PlacedBy(mission, layer - 1) : taskState[t] = "pending"
    /\ stage = "running" =>
         /\ \A t \in Layer(mission, layer) : taskState[t] \in {"skipped", "waiting", "running"}
         /\ \A t \in Tasks \ PlacedBy(mission, layer) : taskState[t] = "pending"
    /\ stage = "final" /\ ~cancelled => \A t \in Tasks : taskState[t] \in EndStates
    /\ stage = "paused" => \E t \in Tasks : taskState[t] = "waiting"

\* A task that was begun had its gate and all it depends on, one that waits has a gate,
\* and behind a skipped task there is a failed one.
TasksAreGrounded ==
    /\ \A t \in Tasks : taskState[t] \in Begun =>
         /\ PlanError(mission) = "none"
         /\ t \in mission.gated => t \in approvals
         /\ \A d \in mission.deps[t] : taskState[d] = "completed"
    /\ \A t \in Tasks : taskState[t] = "waiting" => t \in mission.gated
    /\ (\E t \in Tasks : taskState[t] = "skipped") => \E t \in Tasks : taskState[t] = "failed"

MissionInv ==
    /\ MissionTyped
    /\ RowsInv
    /\ OutcomesMatchRows
    /\ PlanIsKept
    /\ LayersAreInOrder
    /\ TasksAreGrounded
    /\ ReportTellsTruth

-----------------------------------------------------------------------------
\* A task's entry in a table of executions and tasks is set.
LEMMA EntryIsSet ==
    ASSUME NEW E, NEW T, NEW S, NEW f \in [E -> [T -> S]], NEW e \in E, NEW t \in T, NEW v \in S,
           NEW g, g = [f EXCEPT ![e][t] = v]
    PROVE  /\ g \in [E -> [T -> S]]
           /\ g[e][t] = v
           /\ \A d \in E, s \in T : <<d, s>> # <<e, t>> => g[d][s] = f[d][s]
<1>1. g = [d \in E |-> IF d = e THEN [f[d] EXCEPT ![t] = v] ELSE f[d]]
  OBVIOUS
<1>2. [f[e] EXCEPT ![t] = v] \in [T -> S]
  OBVIOUS
<1> QED
  BY <1>1, <1>2

\* An accepted mission has a list of tasks and no cycle.
LEMMA AcceptedIsListed ==
    ASSUME NEW m \in Missions, PlanError(m) = "none"
    PROVE  Listed(m) /\ ~HasCycle(m)
BY MissionAssumption DEF PlanError, Listed

\* The mission's tasks and rows, with their types.
LEMMA TypesAtHand ==
    ASSUME MissionInv
    PROVE  /\ mission \in Missions /\ mission.ids \in Seq(TaskIds(mission))
           /\ MaxExecutions \in Nat
           /\ execution \in Nat /\ (execution # 0 => execution \in Executions)
           /\ stage \in Stages /\ layer \in Nat
           /\ taskState \in [Tasks -> TaskStates]
           /\ attempts \in [Tasks -> Nat]
           /\ outcome \in [Tasks -> Outcomes]
           /\ actionRow \in [Executions -> [Tasks -> RowStates]]
           /\ effects \in [Executions -> [Tasks -> Nat]]
           /\ denied \in [Executions -> [Tasks -> Nat]]
           /\ cancelled \in BOOLEAN
           /\ \A t \in Tasks : mission.maxAttempts[t] \in Nat \ {0}
<1>1. /\ mission \in Missions /\ mission.ids \in Seq(TaskIds(mission))
      /\ MaxExecutions \in Nat
      /\ execution \in Nat /\ (execution # 0 => execution \in Executions)
      /\ stage \in Stages /\ layer \in Nat
  BY MissionAssumption, TasksAreFinite DEF MissionInv, MissionTyped, MissionTypeOK, Executions
<1>2. /\ taskState \in [Tasks -> TaskStates]
      /\ attempts \in [Tasks -> Nat]
      /\ outcome \in [Tasks -> Outcomes]
      /\ actionRow \in [Executions -> [Tasks -> RowStates]]
      /\ effects \in [Executions -> [Tasks -> Nat]]
      /\ denied \in [Executions -> [Tasks -> Nat]]
      /\ cancelled \in BOOLEAN
  BY Zenon DEF MissionInv, MissionTyped, MissionTypeOK
<1>3. \A t \in Tasks : mission.maxAttempts[t] \in Nat \ {0}
  BY <1>1, MissionAssumption DEF Tasks
<1> QED
  BY <1>1, <1>2, <1>3

\* While tasks, stage and plan stand, so does what is said of them alone.
LEMMA TasksStand ==
    ASSUME MissionInv, UNCHANGED <<mission, execution, stage, layer, taskState, approvals, cancelled>>
    PROVE  PlanIsKept' /\ LayersAreInOrder' /\ TasksAreGrounded'
<1>1. PlanIsKept'
  BY DEF MissionInv, PlanIsKept
<1>2. LayersAreInOrder'
  BY DEF MissionInv, LayersAreInOrder, Tasks
<1>3. TasksAreGrounded'
  BY DEF MissionInv, TasksAreGrounded, Tasks
<1> QED
  BY <1>1, <1>2, <1>3

\* Reports stay true while effects stay.
LEMMA ReportsStand ==
    ASSUME MissionInv, UNCHANGED <<mission, reports>>,
           \A e \in Executions, t \in Tasks : effects[e][t] >= 1 => effects'[e][t] >= 1
    PROVE  ReportTellsTruth'
<1>1. ASSUME NEW e \in Executions, NEW t \in Tasks, TookEffect(e, t)
      PROVE  TookEffect(e, t)'
  BY <1>1 DEF TookEffect, SameKey, Tasks
<1> QED
  BY <1>1 DEF MissionInv, ReportTellsTruth, Tasks

\* What the rows say stands when only the tasks' states move.
LEMMA RowsStand ==
    ASSUME MissionInv, UNCHANGED <<mission, execution, attempts, outcome, actionRow, effects, denied>>
    PROVE  RowsInv'
<1>1. RowsCountEffects' /\ AttemptsBoundEffects'
  BY DEF MissionInv, RowsInv, RowsCountEffects, AttemptsBoundEffects, Tasks
<1>2. OneRowPerKey'
  BY DEF MissionInv, RowsInv, OneRowPerKey, KeysApart, SameKey, Tasks
<1> QED
  BY <1>1, <1>2 DEF RowsInv

\* No key gets a second row while no row begins to answer and nothing begins an insert.
LEMMA KeysStay ==
    ASSUME MissionInv, UNCHANGED mission,
           \A e \in Executions, t \in Tasks : actionRow'[e][t] \in Deduplicated => actionRow[e][t] \in Deduplicated,
           \A t \in Tasks : outcome'[t] = "inserting" => outcome[t] = "inserting"
    PROVE  OneRowPerKey'
BY DEF MissionInv, RowsInv, OneRowPerKey, KeysApart, SameKey, Tasks

\* The end of an execution: either its report is added or there is none.
LEMMA ReportIsAdded ==
    ASSUME MissionInv, NEW e \in Executions, NEW state \in MissionStates,
           NEW tasks \in [Tasks -> TaskStates], Finalize(e, state, tasks),
           UNCHANGED <<mission, effects>>,
           state = "completed" => \A t \in Tasks : tasks[t] = "completed",
           state = "failed" => (\E t \in Tasks : tasks[t] = "failed") \/ PlanError(mission) # "none",
           state = "waiting" => \E t \in mission.gated : tasks[t] = "waiting",
           \A t \in Tasks : tasks[t] = "completed" => TookEffect(e, t)
    PROVE  /\ ReportTellsTruth'
           /\ stage' \in {"idle", "rejected"}
           /\ DOMAIN reports' = Executions
           /\ \A d \in Executions : reports'[d] # NoReport =>
                reports'[d].state \in MissionStates /\ reports'[d].tasks \in [Tasks -> TaskStates]
<1>1. /\ DOMAIN reports = Executions
      /\ \A d \in Executions : reports[d] # NoReport =>
           reports[d].state \in MissionStates /\ reports[d].tasks \in [Tasks -> TaskStates]
  BY Zenon DEF MissionInv, MissionTyped, MissionTypeOK
<1>2. CASE stage' = "rejected" /\ UNCHANGED reports
  BY <1>1, <1>2, ReportsStand
<1>3. CASE reports' = [reports EXCEPT ![e] = Report(state, tasks)] /\ stage' = "idle"
  <2>1. /\ DOMAIN reports' = Executions
        /\ reports'[e] = Report(state, tasks)
        /\ \A d \in Executions : d # e => reports'[d] = reports[d]
    BY <1>1, <1>3
  <2>2. Report(state, tasks).state = state /\ Report(state, tasks).tasks = tasks
    BY DEF Report
  <2>3. ASSUME NEW d \in Executions, reports'[d] # NoReport
        PROVE  LET r == reports'[d] IN
               /\ r.state = "completed" => \A t \in Tasks : r.tasks[t] = "completed"
               /\ r.state = "failed" => \/ \E t \in Tasks : r.tasks[t] = "failed"
                                       \/ PlanError(mission) # "none"
               /\ r.state = "waiting" => \E t \in mission.gated : r.tasks[t] = "waiting"
               /\ \A t \in Tasks : r.tasks[t] = "completed" => TookEffect(d, t)
    <3>1. CASE d = e
      BY <2>1, <2>2, <3>1
    <3>2. CASE d # e
      BY <2>1, <2>3, <3>2 DEF MissionInv, ReportTellsTruth
    <3> QED
      BY <3>1, <3>2
  <2>4. ReportTellsTruth'
    BY <2>3 DEF ReportTellsTruth, TookEffect, SameKey, Tasks
  <2> QED
    BY <1>1, <1>3, <2>1, <2>2, <2>4
<1> QED
  BY <1>2, <1>3 DEF Finalize

-----------------------------------------------------------------------------
LEMMA InvInit ==
    ASSUME MissionInit
    PROVE  MissionInv
<1>1. mission.ids \in Seq(TaskIds(mission)) /\ Len(mission.ids) \in Nat
  BY MissionAssumption, TasksAreFinite DEF MissionInit
<1>2. MissionTypeOK
  <2>1. /\ execution \in {0} \cup Executions
        /\ stage \in Stages
        /\ layer \in 0 .. Len(mission.ids) + 1
        /\ approvals \subseteq mission.gated
    BY <1>1 DEF MissionInit, Stages
  <2>2. /\ taskState \in [Tasks -> TaskStates]
        /\ attempts \in [Tasks -> Nat]
        /\ outcome \in [Tasks -> Outcomes]
    BY DEF MissionInit, TaskStates, Outcomes
  <2>3. /\ actionRow \in [Executions -> [Tasks -> RowStates]]
        /\ effects \in [Executions -> [Tasks -> Nat]]
        /\ denied \in [Executions -> [Tasks -> Nat]]
    BY DEF MissionInit, RowStates
  <2>4. /\ DOMAIN reports = Executions
        /\ \A e \in Executions : reports[e] = NoReport
    BY DEF MissionInit
  <2>5. cancelled \in BOOLEAN
    BY Zenon DEF MissionInit
  <2> QED
    BY <2>1, <2>2, <2>3, <2>4, <2>5 DEF MissionTypeOK
<1>3. MissionTyped
  BY <1>2 DEF MissionInit, MissionTyped
<1>4. RowsInv
  <2>1. \A t \in Tasks : mission.maxAttempts[t] \in Nat \ {0}
    BY MissionAssumption DEF MissionInit, Tasks
  <2>2. RowsCountEffects
    BY <2>1 DEF MissionInit, RowsCountEffects, RowIsCounted
  <2>3. AttemptsBoundEffects
    BY <2>1 DEF MissionInit, AttemptsBoundEffects
  <2>4. OneRowPerKey
    BY DEF MissionInit, OneRowPerKey, Deduplicated
  <2> QED
    BY <2>2, <2>3, <2>4 DEF RowsInv
<1>5. OutcomesMatchRows /\ PlanIsKept
  BY DEF MissionInit, OutcomesMatchRows, PlanIsKept, Begun
<1>6. LayersAreInOrder
  BY DEF MissionInit, LayersAreInOrder
<1>7. TasksAreGrounded
  BY DEF MissionInit, TasksAreGrounded, Begun
<1>8. ReportTellsTruth
  BY DEF MissionInit, ReportTellsTruth
<1> QED
  BY <1>3, <1>4, <1>5, <1>6, <1>7, <1>8 DEF MissionInv

\* Cancelling changes nothing else.
LEMMA CancelKeeps ==
    ASSUME MissionInv, Cancel
    PROVE  MissionInv'
<1>1. MissionTyped'
  <2>1. MissionTypeOK'
    BY DEF MissionInv, MissionTyped, MissionTypeOK, Cancel, Tasks
  <2> QED
    BY <2>1 DEF MissionInv, MissionTyped, Cancel, Tasks
<1>2. RowsInv' /\ OutcomesMatchRows'
  <2>1. RowsInv'
    BY RowsStand DEF Cancel
  <2>2. OutcomesMatchRows'
    BY DEF MissionInv, OutcomesMatchRows, TookEffect, SameKey, Cancel, Tasks
  <2> QED
    BY <2>1, <2>2
<1>3. PlanIsKept' /\ TasksAreGrounded'
  BY DEF MissionInv, PlanIsKept, TasksAreGrounded, Cancel, Tasks
<1>4. LayersAreInOrder'
  BY DEF MissionInv, LayersAreInOrder, Cancel, Tasks
<1>5. ReportTellsTruth'
  BY ReportsStand DEF Cancel
<1> QED
  BY <1>1, <1>2, <1>3, <1>4, <1>5 DEF MissionInv

\* A new execution begins with every task pending.
LEMMA ExecuteKeeps ==
    ASSUME MissionInv, NEW granted \in SUBSET mission.gated, Execute(granted)
    PROVE  MissionInv'
<1>0. /\ mission \in Missions /\ mission.ids \in Seq(TaskIds(mission)) /\ Len(mission.ids) \in Nat
      /\ execution \in Nat
  BY TypesAtHand, TasksAreFinite
<1>1. PICK e \in Executions : e = execution + 1 /\ e # 0
  BY <1>0 DEF Execute, Executions
<1>2. PICK fresh : fresh = [t \in Tasks |-> "pending"]
  OBVIOUS
<1>3. /\ execution' = e
      /\ approvals' = granted
      /\ cancelled' = FALSE
      /\ taskState' = fresh
      /\ attempts' = [t \in Tasks |-> 0]
      /\ outcome' = [t \in Tasks |-> "none"]
      /\ layer' = 1
      /\ UNCHANGED <<mission, actionRow, effects, denied>>
      /\ \/ Finalize(e, "blocked", fresh)
         \/ PlanError(mission) # "none" /\ Finalize(e, "failed", fresh)
         \/ PlanError(mission) = "none" /\ stage' = "layer" /\ UNCHANGED reports
  BY <1>1, <1>2 DEF Execute
<1>4. fresh \in [Tasks -> TaskStates] /\ \A t \in Tasks : fresh[t] = "pending"
  BY <1>2 DEF TaskStates
<1>5. /\ ReportTellsTruth'
      /\ \/ stage' \in {"idle", "rejected"}
         \/ PlanError(mission) = "none" /\ stage' = "layer"
      /\ DOMAIN reports' = Executions
      /\ \A d \in Executions : reports'[d] # NoReport =>
                reports'[d].state \in MissionStates /\ reports'[d].tasks \in [Tasks -> TaskStates]
  <2>1. CASE Finalize(e, "blocked", fresh)
    BY <1>3, <1>4, <2>1, ReportIsAdded DEF MissionStates
  <2>2. CASE PlanError(mission) # "none" /\ Finalize(e, "failed", fresh)
    BY <1>3, <1>4, <2>2, ReportIsAdded DEF MissionStates
  <2>3. CASE PlanError(mission) = "none" /\ stage' = "layer" /\ UNCHANGED reports
    <3>1. ReportTellsTruth'
      BY <1>3, <2>3, ReportsStand
    <3>2. /\ DOMAIN reports = Executions
          /\ \A d \in Executions : reports[d] # NoReport =>
                reports[d].state \in MissionStates /\ reports[d].tasks \in [Tasks -> TaskStates]
      BY Zenon DEF MissionInv, MissionTyped, MissionTypeOK
    <3> QED
      BY <2>3, <3>1, <3>2
  <2> QED
    BY <1>3, <2>1, <2>2, <2>3
<1>6. MissionTyped'
  <2>1. /\ execution' \in {0} \cup Executions
        /\ stage' \in Stages
        /\ layer' \in 0 .. Len(mission'.ids) + 1
        /\ approvals' \subseteq mission'.gated
    BY <1>0, <1>1, <1>3, <1>5 DEF Stages
  <2>2. cancelled' \in BOOLEAN
    BY <1>3
  <2>3. /\ taskState' \in [Tasks' -> TaskStates]
        /\ attempts' \in [Tasks' -> Nat]
        /\ outcome' \in [Tasks' -> Outcomes]
    BY <1>3, <1>4 DEF Tasks, Outcomes
  <2>4. /\ actionRow' \in [Executions -> [Tasks' -> RowStates]]
        /\ effects' \in [Executions -> [Tasks' -> Nat]]
        /\ denied' \in [Executions -> [Tasks' -> Nat]]
    BY <1>3, TypesAtHand DEF Tasks
  <2>5. MissionTypeOK'
    BY <1>3, <1>5, <2>1, <2>2, <2>3, <2>4 DEF MissionTypeOK, Tasks
  <2>6. mission' \in Missions /\ execution' # 0
    BY <1>0, <1>1, <1>3
  <2> QED
    BY <2>5, <2>6 DEF MissionTyped
<1>7. RowsInv'
  <2>1. /\ \A t \in Tasks : mission.maxAttempts[t] \in Nat \ {0}
        /\ \A d \in Executions : d \in Nat
    BY TypesAtHand DEF Executions
  <2>2. /\ \A d \in Executions, t \in Tasks :
             RowIsCounted(actionRow[d][t], effects[d][t], denied[d][t], mission.maxAttempts[t])
        /\ \A d \in Executions, t \in Tasks : d > execution => actionRow[d][t] = "none" /\ effects[d][t] = 0
    BY DEF MissionInv, RowsInv, RowsCountEffects
  <2>3. RowsCountEffects'
    BY <1>0, <1>1, <1>3, <2>1, <2>2 DEF RowsCountEffects, Tasks
  <2>4. \A t \in Tasks : AttemptIsCounted(actionRow[e][t], effects[e][t], denied[e][t], "none", 0)
    BY <1>0, <1>1, <2>2 DEF AttemptIsCounted
  <2>5. AttemptsBoundEffects'
    BY <1>3, <2>1, <2>4 DEF AttemptsBoundEffects, Tasks
  <2>6. OneRowPerKey'
    BY <1>3, KeysStay
  <2> QED
    BY <2>3, <2>5, <2>6 DEF RowsInv
<1>8. OutcomesMatchRows'
  BY <1>3, <1>4 DEF OutcomesMatchRows, Tasks
<1>9. PlanIsKept'
  <2>1. LayerCount(mission) \in Nat
    BY <1>0, LayersAreFirst
  <2> QED
    BY <1>1, <1>3, <1>5, <2>1 DEF PlanIsKept
<1>10. LayersAreInOrder'
  <2>1. PlacedBy(mission, 1 - 1) = {}
    BY PlacingRounds
  <2> QED
    BY <1>3, <1>4, <1>5, <2>1 DEF LayersAreInOrder, Tasks
<1>11. TasksAreGrounded'
  BY <1>3, <1>4 DEF TasksAreGrounded, Begun, Tasks
<1> QED
  BY <1>5, <1>6, <1>7, <1>8, <1>9, <1>10, <1>11 DEF MissionInv

-----------------------------------------------------------------------------
\* What a layer holds, relative to the layers before it.
LEMMA LayerAtHand ==
    ASSUME MissionInv, stage \in {"layer", "running"}
    PROVE  /\ Listed(mission) /\ ~HasCycle(mission) /\ PlanError(mission) = "none"
           /\ LayerCount(mission) \in Nat
           /\ layer \in Nat \ {0} /\ layer - 1 \in Nat /\ layer <= LayerCount(mission) + 1
           /\ layer + 1 \in Nat \ {0} /\ (layer + 1) - 1 = layer
           /\ PlacedBy(mission, layer) = PlacedBy(mission, layer - 1) \cup Layer(mission, layer)
           /\ PlacedBy(mission, layer) \subseteq Tasks
           /\ \A t \in Layer(mission, layer) :
                t \notin PlacedBy(mission, layer - 1) /\ mission.deps[t] \subseteq PlacedBy(mission, layer - 1)
           /\ \A t \in Tasks : mission.deps[t] \subseteq Tasks
<1>1. mission \in Missions /\ PlanError(mission) = "none" /\ layer \in 1 .. LayerCount(mission) + 1
  BY TypesAtHand DEF MissionInv, PlanIsKept
<1>2. Listed(mission) /\ ~HasCycle(mission)
  BY <1>1, AcceptedIsListed
<1>3. LayerCount(mission) \in Nat
  BY <1>2, LayersAreFirst, TasksAreFinite DEF Listed
<1>4. layer \in Nat \ {0}
  BY <1>1, <1>3
<1>5. \A t \in Tasks : mission.deps[t] \subseteq Tasks
  BY <1>2 DEF Listed, HasUnknownDependency, Tasks
<1> QED
  BY <1>1, <1>2, <1>3, <1>4, <1>5, LayerTasks, PlacedTasks DEF Tasks

\* The mission is cancelled or all its layers are done.
LEMMA LayersDone ==
    ASSUME MissionInv, ScheduleLayer, cancelled \/ layer > LayerCount(mission)
    PROVE  MissionInv'
<1>1. stage = "layer" /\ stage' = "final"
  BY DEF ScheduleLayer
<1>2. UNCHANGED <<mission, execution, layer, taskState, attempts, outcome, approvals, cancelled, actionRow, effects, denied, reports>>
  BY DEF ScheduleLayer
<1>3. MissionTyped'
  <2>1. stage' \in Stages
    BY <1>1 DEF Stages
  <2>2. MissionTypeOK'
    BY <1>2, <2>1 DEF MissionInv, MissionTyped, MissionTypeOK, Tasks
  <2>3. execution # 0
    BY <1>1 DEF MissionInv, MissionTyped
  <2> QED
    BY <1>2, <2>2, <2>3 DEF MissionInv, MissionTyped
<1>4. RowsInv'
  BY <1>2, RowsStand
<1>5. OutcomesMatchRows'
  BY <1>1, <1>2 DEF MissionInv, OutcomesMatchRows, TookEffect, SameKey, Tasks
<1>6. PlanIsKept'
  BY <1>1, <1>2 DEF MissionInv, PlanIsKept
<1>7. LayersAreInOrder'
  <2>1. ~cancelled => \A t \in Tasks : taskState[t] \in EndStates
    <3>1. SUFFICES ASSUME layer > LayerCount(mission) PROVE \A t \in Tasks : taskState[t] \in EndStates
      OBVIOUS
    <3>2. LayerCount(mission) <= layer - 1 /\ layer - 1 \in Nat
      BY <1>1, <3>1, LayerAtHand
    <3>3. PlacedBy(mission, layer - 1) = Tasks
      BY <1>1, <3>2, LayerAtHand, PlanIsComplete DEF Tasks
    <3> QED
      BY <1>1, <3>3 DEF MissionInv, LayersAreInOrder
  <2> QED
    BY <1>1, <1>2, <2>1 DEF LayersAreInOrder, Tasks
<1>8. TasksAreGrounded'
  BY <1>2 DEF MissionInv, TasksAreGrounded, Tasks
<1>9. ReportTellsTruth'
  BY <1>2, ReportsStand
<1> QED
  BY <1>3, <1>4, <1>5, <1>6, <1>7, <1>8, <1>9 DEF MissionInv

\* The state a task of the layer gets: it begins only when all it depends on completed,
\* and is skipped only behind a failure.
LEMMA ScheduledTask ==
    ASSUME MissionInv, stage = "layer", NEW t \in Layer(mission, layer)
    PROVE  /\ ScheduledState(t) \in {"skipped", "waiting", "running"}
           /\ ScheduledState(t) = "running" =>
                /\ t \in mission.gated => t \in approvals
                /\ \A d \in mission.deps[t] : taskState[d] = "completed"
           /\ ScheduledState(t) = "waiting" => t \in mission.gated
           /\ ScheduledState(t) = "skipped" => \E d \in Tasks : taskState[d] = "failed"
<1>1. \A d \in mission.deps[t] : d \in Tasks /\ taskState[d] \in {"completed", "failed", "skipped"}
  BY LayerAtHand DEF MissionInv, LayersAreInOrder, EndStates
<1>2. \A d \in mission.deps[t] : taskState[d] \notin {"waiting", "pending"}
  BY <1>1
<1>3. ScheduledState(t) =
        IF \E d \in mission.deps[t] : taskState[d] \in {"failed", "skipped"} THEN "skipped"
        ELSE IF t \in mission.gated \ approvals THEN "waiting" ELSE "running"
  BY <1>1, <1>2 DEF ScheduledState, TerminalDepFailure
<1>4. ASSUME NEW d \in mission.deps[t], taskState[d] \in {"failed", "skipped"}
      PROVE  \E s \in Tasks : taskState[s] = "failed"
  BY <1>1, <1>4 DEF MissionInv, TasksAreGrounded
<1>5. (\A d \in mission.deps[t] : taskState[d] \notin {"failed", "skipped"}) =>
        \A d \in mission.deps[t] : taskState[d] = "completed"
  BY <1>1
<1> QED
  BY <1>3, <1>4, <1>5

\* The next layer is scheduled.
LEMMA LayerBegins ==
    ASSUME MissionInv, ScheduleLayer, ~(cancelled \/ layer > LayerCount(mission))
    PROVE  MissionInv'
<1>1. /\ stage = "layer" /\ stage' = "running" /\ ~cancelled /\ ~(layer > LayerCount(mission))
      /\ taskState' = [t \in Tasks |-> IF t \in Layer(mission, layer) THEN ScheduledState(t) ELSE taskState[t]]
  BY DEF ScheduleLayer
<1>2. UNCHANGED <<mission, execution, layer, attempts, outcome, approvals, cancelled, actionRow, effects, denied, reports>>
  BY DEF ScheduleLayer
<1>3. /\ layer \in Nat \ {0} /\ layer - 1 \in Nat /\ LayerCount(mission) \in Nat
      /\ PlacedBy(mission, layer) = PlacedBy(mission, layer - 1) \cup Layer(mission, layer)
      /\ PlacedBy(mission, layer) \subseteq Tasks
      /\ \A t \in Layer(mission, layer) : t \notin PlacedBy(mission, layer - 1)
      /\ PlanError(mission) = "none"
      /\ \A t \in Tasks : mission.deps[t] \subseteq Tasks
  BY <1>1, LayerAtHand
<1>4. /\ \A t \in PlacedBy(mission, layer - 1) : taskState[t] \in EndStates
      /\ \A t \in Tasks \ PlacedBy(mission, layer - 1) : taskState[t] = "pending"
  BY <1>1 DEF MissionInv, LayersAreInOrder
<1>5. /\ \A t \in PlacedBy(mission, layer - 1) : taskState'[t] = taskState[t]
      /\ \A t \in Layer(mission, layer) : t \in Tasks /\ taskState[t] = "pending" /\ taskState'[t] = ScheduledState(t)
      /\ \A t \in Tasks \ PlacedBy(mission, layer) : taskState'[t] = "pending"
      /\ \A t \in Tasks \ Layer(mission, layer) : taskState'[t] = taskState[t]
  BY <1>1, <1>3, <1>4
<1>6. \A t \in Layer(mission, layer) :
        /\ ScheduledState(t) \in {"skipped", "waiting", "running"}
        /\ ScheduledState(t) = "running" =>
                /\ t \in mission.gated => t \in approvals
                /\ \A d \in mission.deps[t] : taskState[d] = "completed"
        /\ ScheduledState(t) = "waiting" => t \in mission.gated
        /\ ScheduledState(t) = "skipped" => \E d \in Tasks : taskState[d] = "failed"
  BY <1>1, ScheduledTask
<1>7. \A t \in Tasks : taskState[t] # "pending" => taskState'[t] = taskState[t]
  BY <1>5
<1>8. MissionTyped'
  <2>1. taskState \in [Tasks -> TaskStates]
    BY TypesAtHand
  <2>2. \A t \in Tasks : (IF t \in Layer(mission, layer) THEN ScheduledState(t) ELSE taskState[t]) \in TaskStates
    BY <1>6, <2>1 DEF TaskStates
  <2>3. taskState' \in [Tasks -> TaskStates]
    BY <1>1, <2>2
  <2>4. stage' \in Stages
    BY <1>1 DEF Stages
  <2>5. MissionTypeOK'
    BY <1>2, <2>3, <2>4 DEF MissionInv, MissionTyped, MissionTypeOK, Tasks
  <2>6. execution # 0
    BY <1>1 DEF MissionInv, MissionTyped
  <2> QED
    BY <1>2, <2>5, <2>6 DEF MissionInv, MissionTyped
<1>9. RowsInv'
  BY <1>2, RowsStand
<1>10. OutcomesMatchRows'
  <2>1. ASSUME NEW t \in Tasks
        PROVE  /\ taskState'[t] = "running" => stage' = "running"
               /\ outcome[t] \in {"inserting", "attempting"} => taskState'[t] = "running"
               /\ outcome[t] = "ok" => TookEffect(execution, t)
               /\ taskState'[t] = "completed" => TookEffect(execution, t)
               /\ attempts[t] > 0 => taskState'[t] \in Begun
    <3>1. /\ outcome[t] \in {"inserting", "attempting"} => taskState[t] = "running"
          /\ outcome[t] = "ok" => TookEffect(execution, t)
          /\ taskState[t] = "completed" => TookEffect(execution, t)
          /\ attempts[t] > 0 => taskState[t] \in Begun
      BY DEF MissionInv, OutcomesMatchRows
    <3>2. CASE t \in Layer(mission, layer)
      <4>1. taskState[t] = "pending" /\ taskState'[t] \in {"skipped", "waiting", "running"}
        BY <1>5, <1>6, <3>2
      <4> QED
        BY <1>1, <3>1, <4>1 DEF Begun
    <3>3. CASE t \notin Layer(mission, layer)
      BY <1>1, <1>5, <3>1, <3>3
    <3> QED
      BY <3>2, <3>3
  <2> QED
    BY <1>2, <2>1 DEF OutcomesMatchRows, TookEffect, SameKey, Tasks
<1>11. PlanIsKept'
  BY <1>1, <1>2, <1>3 DEF MissionInv, PlanIsKept
<1>12. LayersAreInOrder'
  BY <1>1, <1>2, <1>4, <1>5, <1>6 DEF LayersAreInOrder, Tasks
<1>13. TasksAreGrounded'
  <2>1. ASSUME NEW t \in Tasks, taskState'[t] \in Begun
        PROVE  /\ t \in mission.gated => t \in approvals
               /\ \A d \in mission.deps[t] : taskState[d] = "completed"
    <3>1. CASE t \in Layer(mission, layer)
      BY <1>5, <1>6, <2>1, <3>1 DEF Begun
    <3>2. CASE t \notin Layer(mission, layer)
      BY <1>5, <2>1, <3>2 DEF MissionInv, TasksAreGrounded
    <3> QED
      BY <3>1, <3>2
  <2>2. ASSUME NEW t \in Tasks, taskState'[t] = "waiting"
        PROVE  t \in mission.gated
    BY <1>5, <1>6, <2>2 DEF MissionInv, TasksAreGrounded
  <2>3. ASSUME NEW t \in Tasks, taskState'[t] = "skipped"
        PROVE  \E d \in Tasks : taskState[d] = "failed"
    BY <1>5, <1>6, <2>3 DEF MissionInv, TasksAreGrounded
  <2>4. \A d \in Tasks : taskState[d] \in {"completed", "failed"} => taskState'[d] = taskState[d]
    BY <1>7
  <2>5. (\E t \in Tasks : taskState'[t] = "skipped") => \E t \in Tasks : taskState'[t] = "failed"
    BY <2>3, <2>4
  <2>6. ASSUME NEW t \in Tasks, taskState'[t] \in Begun
        PROVE  \A d \in mission.deps[t] : taskState'[d] = "completed"
    BY <1>3, <2>1, <2>4, <2>6
  <2> QED
    BY <1>2, <1>3, <2>1, <2>2, <2>5, <2>6 DEF TasksAreGrounded, Tasks
<1>14. ReportTellsTruth'
  BY <1>2, ReportsStand
<1> QED
  BY <1>8, <1>9, <1>10, <1>11, <1>12, <1>13, <1>14 DEF MissionInv

-----------------------------------------------------------------------------
\* The layer's tasks settle; none of them is left running.
LEMMA SettleKeeps ==
    ASSUME MissionInv, SettleLayer
    PROVE  MissionInv'
<1>1. PICK now :
        /\ now = [t \in Tasks |->
                    IF taskState[t] # "running" THEN taskState[t]
                    ELSE IF outcome[t] = "ok" THEN "completed" ELSE "failed"]
        /\ stage = "running"
        /\ taskState' = now
        /\ \/ (\E t \in Layer(mission, layer) : now[t] = "waiting") /\ stage' = "paused" /\ UNCHANGED layer
           \/ ~(\E t \in Layer(mission, layer) : now[t] = "waiting") /\ stage' = "layer" /\ layer' = layer + 1
  BY DEF SettleLayer
<1>2. UNCHANGED <<mission, execution, attempts, outcome, approvals, cancelled, actionRow, effects, denied, reports>>
  BY DEF SettleLayer
<1>3. \A t \in Tasks : taskState[t] = "running" => outcome[t] \in {"ok", "error"}
  BY DEF SettleLayer
<1>4. /\ layer \in Nat \ {0} /\ layer - 1 \in Nat /\ LayerCount(mission) \in Nat /\ layer <= LayerCount(mission)
      /\ layer + 1 \in Nat \ {0} /\ (layer + 1) - 1 = layer
      /\ PlacedBy(mission, layer) = PlacedBy(mission, layer - 1) \cup Layer(mission, layer)
      /\ PlacedBy(mission, layer) \subseteq Tasks
      /\ PlanError(mission) = "none"
      /\ \A t \in Tasks : mission.deps[t] \subseteq Tasks
      /\ execution \in Executions
      /\ mission.ids \in Seq(TaskIds(mission))
  BY <1>1, LayerAtHand, TypesAtHand DEF MissionInv, PlanIsKept
<1>5. /\ \A t \in PlacedBy(mission, layer - 1) : taskState[t] \in EndStates
      /\ \A t \in Layer(mission, layer) : taskState[t] \in {"skipped", "waiting", "running"}
      /\ \A t \in Tasks \ PlacedBy(mission, layer) : taskState[t] = "pending"
  BY <1>1 DEF MissionInv, LayersAreInOrder
<1>6. /\ \A t \in Tasks : taskState[t] # "running" => now[t] = taskState[t]
      /\ \A t \in Tasks : taskState[t] = "running" => now[t] \in {"completed", "failed"}
      /\ \A t \in Tasks : taskState[t] = "running" /\ now[t] = "completed" => outcome[t] = "ok"
      /\ \A t \in Tasks : now[t] # "running"
  BY <1>1
<1>7. MissionTyped'
  <2>1. taskState \in [Tasks -> TaskStates]
    BY TypesAtHand
  <2>2. \A t \in Tasks : (IF taskState[t] # "running" THEN taskState[t]
                          ELSE IF outcome[t] = "ok" THEN "completed" ELSE "failed") \in TaskStates
    BY <2>1 DEF TaskStates
  <2>3. taskState' \in [Tasks -> TaskStates]
    BY <1>1, <2>2
  <2>4. stage' \in Stages
    BY <1>1 DEF Stages
  <2>5. layer' \in 0 .. Len(mission.ids) + 1
    <3>1. LayerCount(mission) \in 0 .. Len(mission.ids) /\ Len(mission.ids) \in Nat
      BY <1>4, LayersAreFirst, TasksAreFinite
    <3> QED
      BY <1>1, <1>4, <3>1
  <2>6. MissionTypeOK'
    BY <1>2, <2>3, <2>4, <2>5 DEF MissionInv, MissionTyped, MissionTypeOK, Tasks
  <2>7. execution # 0
    BY <1>1 DEF MissionInv, MissionTyped
  <2> QED
    BY <1>2, <2>6, <2>7 DEF MissionInv, MissionTyped
<1>8. RowsInv'
  BY <1>2, RowsStand
<1>9. OutcomesMatchRows'
  <2>1. ASSUME NEW t \in Tasks
        PROVE  /\ now[t] # "running" /\ outcome[t] \notin {"inserting", "attempting"}
               /\ outcome[t] = "ok" => TookEffect(execution, t)
               /\ now[t] = "completed" => TookEffect(execution, t)
               /\ attempts[t] > 0 => now[t] \in Begun
    <3>1. /\ outcome[t] \in {"inserting", "attempting"} => taskState[t] = "running"
          /\ outcome[t] = "ok" => TookEffect(execution, t)
          /\ taskState[t] = "completed" => TookEffect(execution, t)
          /\ attempts[t] > 0 => taskState[t] \in Begun
      BY DEF MissionInv, OutcomesMatchRows
    <3> QED
      BY <1>3, <1>6, <3>1 DEF Begun
  <2> QED
    BY <1>1, <1>2, <2>1 DEF OutcomesMatchRows, TookEffect, SameKey, Tasks
<1>10. PlanIsKept'
  BY <1>1, <1>2, <1>4 DEF PlanIsKept
<1>11. LayersAreInOrder'
  <2>1. CASE stage' = "paused"
    <3>1. \E t \in Tasks : now[t] = "waiting"
      BY <1>1, <1>4, <2>1
    <3> QED
      BY <1>1, <1>2, <2>1, <3>1 DEF LayersAreInOrder, Tasks
  <2>2. CASE stage' = "layer"
    <3>1. layer' = layer + 1 /\ \A t \in Layer(mission, layer) : now[t] # "waiting"
      BY <1>1, <2>2
    <3>2. \A t \in PlacedBy(mission, layer) : now[t] \in EndStates
      BY <1>4, <1>5, <1>6, <3>1 DEF EndStates
    <3>3. \A t \in Tasks \ PlacedBy(mission, layer) : now[t] = "pending"
      BY <1>5, <1>6
    <3>4. PlacedBy(mission, layer' - 1) = PlacedBy(mission, layer)
      BY <1>4, <3>1
    <3> QED
      BY <1>1, <1>2, <2>2, <3>2, <3>3, <3>4 DEF LayersAreInOrder, Tasks
  <2> QED
    BY <1>1, <2>1, <2>2
<1>12. TasksAreGrounded'
  <2>1. \A t \in Tasks : now[t] \in Begun => taskState[t] \in Begun
    BY <1>6 DEF Begun
  <2>2. \A t \in Tasks : now[t] \in {"waiting", "skipped"} => taskState[t] = now[t]
    BY <1>6
  <2>3. \A t \in Tasks : taskState[t] \in {"completed", "failed"} => now[t] = taskState[t]
    BY <1>6
  <2>4. ASSUME NEW t \in Tasks, now[t] \in Begun
        PROVE  /\ t \in mission.gated => t \in approvals
               /\ \A d \in mission.deps[t] : now[d] = "completed"
    <3>1. /\ t \in mission.gated => t \in approvals
          /\ \A d \in mission.deps[t] : d \in Tasks /\ taskState[d] = "completed"
      BY <1>4, <2>1, <2>4 DEF MissionInv, TasksAreGrounded
    <3> QED
      BY <2>3, <3>1
  <2>5. \A t \in Tasks : now[t] = "waiting" => t \in mission.gated
    BY <2>2 DEF MissionInv, TasksAreGrounded
  <2>6. (\E t \in Tasks : now[t] = "skipped") => \E t \in Tasks : now[t] = "failed"
    BY <2>2, <2>3 DEF MissionInv, TasksAreGrounded
  <2> QED
    BY <1>1, <1>2, <1>4, <2>4, <2>5, <2>6 DEF TasksAreGrounded, Tasks
<1>13. ReportTellsTruth'
  BY <1>2, ReportsStand
<1> QED
  BY <1>7, <1>8, <1>9, <1>10, <1>11, <1>12, <1>13 DEF MissionInv

\* The final state of an execution is what its tasks say.
LEMMA FinishKeeps ==
    ASSUME MissionInv, Finish
    PROVE  MissionInv'
<1>1. PICK final, state :
        /\ final = IF cancelled
                   THEN [t \in Tasks |-> IF taskState[t] \in {"completed", "failed", "skipped"}
                                         THEN taskState[t] ELSE "cancelled"]
                   ELSE taskState
        /\ state = IF cancelled THEN "cancelled"
                   ELSE IF stage = "paused" THEN "waiting"
                   ELSE IF \E t \in Tasks : taskState[t] = "failed" THEN "failed"
                   ELSE "completed"
        /\ stage \in {"paused", "final"}
        /\ taskState' = final
        /\ Finalize(execution, state, final)
  BY DEF Finish
<1>2. UNCHANGED <<mission, execution, layer, attempts, outcome, approvals, cancelled, actionRow, effects, denied>>
  BY DEF Finish
<1>3. taskState \in [Tasks -> TaskStates] /\ execution \in Executions
  BY <1>1, TypesAtHand DEF MissionInv, PlanIsKept
<1>4. final \in [Tasks -> TaskStates]
  <2>1. \A t \in Tasks : (IF taskState[t] \in {"completed", "failed", "skipped"}
                          THEN taskState[t] ELSE "cancelled") \in TaskStates
    BY <1>3 DEF TaskStates
  <2> QED
    BY <1>1, <1>3, <2>1
<1>5. /\ \A t \in Tasks : taskState[t] \in {"completed", "failed", "skipped"} => final[t] = taskState[t]
      /\ \A t \in Tasks : final[t] = taskState[t] \/ final[t] = "cancelled"
      /\ ~cancelled => \A t \in Tasks : final[t] = taskState[t]
  BY <1>1
<1>6. \A t \in Tasks : taskState[t] # "running"
  BY <1>1 DEF MissionInv, OutcomesMatchRows
<1>7. /\ ReportTellsTruth'
      /\ stage' \in {"idle", "rejected"}
      /\ DOMAIN reports' = Executions
      /\ \A d \in Executions : reports'[d] # NoReport =>
                reports'[d].state \in MissionStates /\ reports'[d].tasks \in [Tasks -> TaskStates]
  <2>1. state \in MissionStates
    BY <1>1 DEF MissionStates
  <2>2. state = "completed" => \A t \in Tasks : final[t] = "completed"
    <3>1. SUFFICES ASSUME state = "completed" PROVE \A t \in Tasks : final[t] = "completed"
      OBVIOUS
    <3>2. ~cancelled /\ stage = "final" /\ \A t \in Tasks : taskState[t] # "failed"
      BY <1>1, <3>1
    <3>3. \A t \in Tasks : taskState[t] \in EndStates
      BY <3>2 DEF MissionInv, LayersAreInOrder
    <3>4. \A t \in Tasks : taskState[t] # "skipped"
      BY <3>2 DEF MissionInv, TasksAreGrounded
    <3> QED
      BY <1>5, <3>2, <3>3, <3>4 DEF EndStates
  <2>3. state = "failed" => \E t \in Tasks : final[t] = "failed"
    BY <1>1, <1>5
  <2>4. state = "waiting" => \E t \in mission.gated : final[t] = "waiting"
    <3>1. SUFFICES ASSUME state = "waiting" PROVE \E t \in mission.gated : final[t] = "waiting"
      OBVIOUS
    <3>2. ~cancelled /\ stage = "paused"
      BY <1>1, <3>1
    <3>3. PICK t \in Tasks : taskState[t] = "waiting"
      BY <3>2 DEF MissionInv, LayersAreInOrder
    <3> QED
      BY <1>5, <3>2, <3>3 DEF MissionInv, TasksAreGrounded
  <2>5. ASSUME NEW t \in Tasks, final[t] = "completed"
        PROVE  TookEffect(execution, t)
    <3>1. taskState[t] = "completed"
      BY <1>5, <2>5
    <3> QED
      BY <3>1 DEF MissionInv, OutcomesMatchRows
  <2> QED
    BY <1>1, <1>2, <1>3, <1>4, <2>1, <2>2, <2>3, <2>4, <2>5, ReportIsAdded
<1>8. MissionTyped'
  <2>1. stage' \in Stages
    BY <1>7 DEF Stages
  <2>2. MissionTypeOK'
    BY <1>1, <1>2, <1>4, <1>7, <2>1 DEF MissionInv, MissionTyped, MissionTypeOK, Tasks
  <2>3. execution # 0
    BY <1>1 DEF MissionInv, MissionTyped
  <2> QED
    BY <1>2, <2>2, <2>3 DEF MissionInv, MissionTyped
<1>9. RowsInv'
  BY <1>2, RowsStand
<1>10. OutcomesMatchRows'
  <2>1. ASSUME NEW t \in Tasks
        PROVE  /\ final[t] # "running" /\ outcome[t] \notin {"inserting", "attempting"}
               /\ outcome[t] = "ok" => TookEffect(execution, t)
               /\ final[t] = "completed" => TookEffect(execution, t)
               /\ attempts[t] > 0 => final[t] \in Begun
    <3>1. /\ outcome[t] \in {"inserting", "attempting"} => taskState[t] = "running"
          /\ outcome[t] = "ok" => TookEffect(execution, t)
          /\ taskState[t] = "completed" => TookEffect(execution, t)
          /\ attempts[t] > 0 => taskState[t] \in Begun
      BY DEF MissionInv, OutcomesMatchRows
    <3> QED
      BY <1>5, <1>6, <3>1 DEF Begun
  <2> QED
    BY <1>1, <1>2, <2>1 DEF OutcomesMatchRows, TookEffect, SameKey, Tasks
<1>11. PlanIsKept'
  BY <1>7 DEF PlanIsKept
<1>12. LayersAreInOrder'
  BY <1>7 DEF LayersAreInOrder
<1>13. TasksAreGrounded'
  <2>1. ASSUME NEW t \in Tasks, final[t] \in Begun
        PROVE  /\ PlanError(mission) = "none"
               /\ t \in mission.gated => t \in approvals
               /\ \A d \in mission.deps[t] : final[d] = "completed"
    <3>1. taskState[t] \in Begun
      BY <1>5, <2>1 DEF Begun
    <3>2. /\ PlanError(mission) = "none"
          /\ t \in mission.gated => t \in approvals
          /\ \A d \in mission.deps[t] : taskState[d] = "completed"
      BY <3>1 DEF MissionInv, TasksAreGrounded
    <3>3. \A d \in mission.deps[t] : d \in Tasks
      <4>1. Listed(mission)
        BY <3>2, TypesAtHand, AcceptedIsListed
      <4> QED
        BY <4>1 DEF Listed, HasUnknownDependency, Tasks
    <3> QED
      BY <1>5, <3>2, <3>3
  <2>2. \A t \in Tasks : final[t] = "waiting" => t \in mission.gated
    BY <1>5 DEF MissionInv, TasksAreGrounded
  <2>3. (\E t \in Tasks : final[t] = "skipped") => \E t \in Tasks : final[t] = "failed"
    BY <1>5 DEF MissionInv, TasksAreGrounded
  <2> QED
    BY <1>1, <1>2, <2>1, <2>2, <2>3 DEF TasksAreGrounded, Tasks
<1> QED
  BY <1>7, <1>8, <1>9, <1>10, <1>11, <1>12, <1>13 DEF MissionInv

-----------------------------------------------------------------------------
\* What a row's move is: the row, its effects and those of them it denies.
RowMoved(e, t, row, more, lost) ==
    /\ actionRow' \in [Executions -> [Tasks -> RowStates]]
    /\ effects' \in [Executions -> [Tasks -> Nat]]
    /\ denied' \in [Executions -> [Tasks -> Nat]]
    /\ actionRow'[e][t] = row
    /\ effects'[e][t] = effects[e][t] + more
    /\ denied'[e][t] = denied[e][t] + lost
    /\ \A d \in Executions, s \in Tasks : <<d, s>> # <<e, t>> =>
         /\ actionRow'[d][s] = actionRow[d][s]
         /\ effects'[d][s] = effects[d][s]
         /\ denied'[d][s] = denied[d][s]

\* What took effect did so for good.
LEMMA EffectsAreForGood ==
    ASSUME UNCHANGED <<mission, execution>>,
           \A e \in Executions, t \in Tasks : effects[e][t] >= 1 => effects'[e][t] >= 1
    PROVE  \A t \in Tasks : TookEffect(execution, t) => TookEffect(execution, t)'
BY DEF TookEffect, SameKey, Tasks

\* A row moves on and still says what became of its effects.
LEMMA RowMoves ==
    ASSUME MissionInv, UNCHANGED <<mission, execution, reports>>,
           NEW e \in Executions, NEW t \in Tasks, e <= execution,
           NEW row \in RowStates, NEW more \in {0, 1}, NEW lost \in {0, 1},
           actionRow' = [actionRow EXCEPT ![e][t] = row],
           effects' = [effects EXCEPT ![e][t] = effects[e][t] + more],
           denied' = [denied EXCEPT ![e][t] = denied[e][t] + lost],
           RowIsCounted(row, effects[e][t] + more, denied[e][t] + lost, mission.maxAttempts[t])
    PROVE  /\ RowMoved(e, t, row, more, lost)
           /\ RowsCountEffects'
           /\ ReportTellsTruth'
           /\ \A s \in Tasks : TookEffect(execution, s) => TookEffect(execution, s)'
<1>1. /\ actionRow \in [Executions -> [Tasks -> RowStates]]
      /\ effects \in [Executions -> [Tasks -> Nat]]
      /\ denied \in [Executions -> [Tasks -> Nat]]
      /\ execution \in Nat /\ \A d \in Executions : d \in Nat
  BY TypesAtHand DEF Executions
<1>2. effects[e][t] \in Nat /\ denied[e][t] \in Nat
  BY <1>1
<1>3. effects[e][t] + more \in Nat /\ denied[e][t] + lost \in Nat
  BY <1>2
<1>4. /\ actionRow' \in [Executions -> [Tasks -> RowStates]]
      /\ actionRow'[e][t] = row
      /\ \A d \in Executions, s \in Tasks : <<d, s>> # <<e, t>> => actionRow'[d][s] = actionRow[d][s]
  BY <1>1, EntryIsSet, ZenonT(60)
<1>5. /\ effects' \in [Executions -> [Tasks -> Nat]]
      /\ effects'[e][t] = effects[e][t] + more
      /\ \A d \in Executions, s \in Tasks : <<d, s>> # <<e, t>> => effects'[d][s] = effects[d][s]
  BY <1>1, <1>3, EntryIsSet, ZenonT(60)
<1>6. /\ denied' \in [Executions -> [Tasks -> Nat]]
      /\ denied'[e][t] = denied[e][t] + lost
      /\ \A d \in Executions, s \in Tasks : <<d, s>> # <<e, t>> => denied'[d][s] = denied[d][s]
  BY <1>1, <1>3, EntryIsSet, ZenonT(60)
<1>7. RowMoved(e, t, row, more, lost)
  BY <1>4, <1>5, <1>6 DEF RowMoved
<1>8. RowsCountEffects'
  <2>1. SUFFICES ASSUME NEW d \in Executions, NEW s \in Tasks
                 PROVE  /\ RowIsCounted(actionRow'[d][s], effects'[d][s], denied'[d][s], mission.maxAttempts[s])
                        /\ d > execution => actionRow'[d][s] = "none" /\ effects'[d][s] = 0
    BY DEF RowsCountEffects, Tasks
  <2>2. /\ RowIsCounted(actionRow[d][s], effects[d][s], denied[d][s], mission.maxAttempts[s])
        /\ d > execution => actionRow[d][s] = "none" /\ effects[d][s] = 0
    BY DEF MissionInv, RowsInv, RowsCountEffects
  <2>3. CASE d = e /\ s = t
    BY <1>1, <1>4, <1>5, <1>6, <2>3
  <2>4. CASE <<d, s>> # <<e, t>>
    <3>1. actionRow'[d][s] = actionRow[d][s] /\ effects'[d][s] = effects[d][s] /\ denied'[d][s] = denied[d][s]
      BY <1>4, <1>5, <1>6, <2>4
    <3> QED
      BY <2>2, <3>1
  <2> QED
    BY <2>3, <2>4
<1>9. \A d \in Executions, s \in Tasks : effects[d][s] >= 1 => effects'[d][s] >= 1
  <2>1. SUFFICES ASSUME NEW d \in Executions, NEW s \in Tasks, effects[d][s] >= 1
                 PROVE  effects'[d][s] >= 1
    OBVIOUS
  <2>2. CASE d = e /\ s = t
    BY <1>2, <1>5, <2>1, <2>2
  <2>3. CASE <<d, s>> # <<e, t>>
    BY <1>5, <2>1, <2>3
  <2> QED
    BY <2>2, <2>3
<1>10. ReportTellsTruth'
  BY <1>9, ReportsStand
<1>11. \A s \in Tasks : TookEffect(execution, s) => TookEffect(execution, s)'
  BY <1>9, EffectsAreForGood
<1> QED
  BY <1>7, <1>8, <1>10, <1>11

\* What is typed when only attempts, outcomes, rows and effects move.
LEMMA TypesStand ==
    ASSUME MissionInv,
           UNCHANGED <<mission, execution, stage, layer, taskState, approvals, cancelled, reports>>,
           execution # 0,
           attempts' \in [Tasks -> Nat], outcome' \in [Tasks -> Outcomes],
           actionRow' \in [Executions -> [Tasks -> RowStates]], effects' \in [Executions -> [Tasks -> Nat]],
           denied' \in [Executions -> [Tasks -> Nat]]
    PROVE  MissionTyped'
<1>1. MissionTypeOK'
  BY DEF MissionInv, MissionTyped, MissionTypeOK, Tasks
<1> QED
  BY <1>1 DEF MissionInv, MissionTyped

\* What is known of a task that runs.
LEMMA RunningAtHand ==
    ASSUME MissionInv, NEW t \in Tasks, taskState[t] = "running"
    PROVE  /\ stage = "running" /\ execution \in Executions /\ execution # 0 /\ execution <= execution
           /\ outcome \in [Tasks -> Outcomes] /\ attempts \in [Tasks -> Nat]
           /\ effects[execution][t] \in Nat /\ denied[execution][t] \in Nat
           /\ attempts[t] \in Nat /\ mission.maxAttempts[t] \in Nat /\ attempts[t] <= mission.maxAttempts[t]
           /\ outcome[t] = "none" => attempts[t] < mission.maxAttempts[t]
           /\ RowIsCounted(actionRow[execution][t], effects[execution][t], denied[execution][t],
                           mission.maxAttempts[t])
           /\ AttemptIsCounted(actionRow[execution][t], effects[execution][t], denied[execution][t],
                               outcome[t], attempts[t])
<1>1. stage = "running"
  BY DEF MissionInv, OutcomesMatchRows
<1>2. execution \in Executions /\ execution # 0 /\ execution \in Nat
  BY <1>1, TypesAtHand DEF MissionInv, MissionTyped
<1>3. /\ outcome \in [Tasks -> Outcomes] /\ attempts \in [Tasks -> Nat]
      /\ effects \in [Executions -> [Tasks -> Nat]] /\ denied \in [Executions -> [Tasks -> Nat]]
      /\ mission.maxAttempts[t] \in Nat
  BY TypesAtHand
<1>4. effects[execution][t] \in Nat /\ denied[execution][t] \in Nat /\ attempts[t] \in Nat
  BY <1>2, <1>3
<1> QED
  BY <1>1, <1>2, <1>3, <1>4 DEF MissionInv, RowsInv, RowsCountEffects, AttemptsBoundEffects

\* Tasks that run together are of one layer.
LEMMA RunningAreTogether ==
    ASSUME MissionInv, NEW s \in Tasks, NEW t \in Tasks,
           taskState[s] = "running", taskState[t] = "running", SameKey(s, t), KeysApart
    PROVE  s = t
<1>1. stage = "running"
  BY RunningAtHand
<1>2. layer \in Nat \ {0} /\ layer <= LayerCount(mission) /\ LayerCount(mission) \in Nat
  BY <1>1, LayerAtHand DEF MissionInv, PlanIsKept
<1>3. s \in Layer(mission, layer) /\ t \in Layer(mission, layer)
  <2>1. /\ PlacedBy(mission, layer) = PlacedBy(mission, layer - 1) \cup Layer(mission, layer)
        /\ \A u \in PlacedBy(mission, layer - 1) : taskState[u] \in EndStates
        /\ \A u \in Tasks \ PlacedBy(mission, layer) : taskState[u] = "pending"
    BY <1>1, LayerAtHand DEF MissionInv, LayersAreInOrder
  <2> QED
    BY <2>1 DEF EndStates
<1> QED
  BY <1>2, <1>3 DEF KeysApart

\* What an attempt that ended comes to.
LEMMA AttemptEnds ==
    ASSUME NEW t, NEW n \in Nat, mission.maxAttempts[t] \in Nat, NEW ok \in BOOLEAN
    PROVE  \E o \in {"none", "ok", "error"} :
             AfterAttempt(t, n, ok) = o /\ (o = "ok" => ok) /\ (o = "none" => n < mission.maxAttempts[t])
BY DEF AfterAttempt

\* The outcome of one task is set.
LEMMA OutcomeIsSet ==
    ASSUME MissionInv, NEW t \in Tasks, NEW o \in Outcomes, outcome' = [outcome EXCEPT ![t] = o]
    PROVE  /\ outcome' \in [Tasks -> Outcomes]
           /\ \A s \in Tasks : outcome'[s] = IF s = t THEN o ELSE outcome[s]
BY TypesAtHand

\* What the rows and tasks are left with when one task's outcome is set.
LEMMA OutcomeKeeps ==
    ASSUME MissionInv, NEW t \in Tasks, NEW o \in Outcomes, outcome' = [outcome EXCEPT ![t] = o],
           UNCHANGED <<mission, execution, stage, layer, taskState, approvals, cancelled>>,
           \A s \in Tasks : s # t => attempts'[s] = attempts[s],
           taskState[t] = "running",
           \A s \in Tasks : TookEffect(execution, s) => TookEffect(execution, s)',
           o = "ok" => TookEffect(execution, t)'
    PROVE  OutcomesMatchRows'
<1>1. \A s \in Tasks : outcome'[s] = IF s = t THEN o ELSE outcome[s]
  BY OutcomeIsSet
<1>2. ASSUME NEW s \in Tasks
      PROVE  /\ taskState[s] = "running" => stage = "running"
             /\ outcome'[s] \in {"inserting", "attempting"} => taskState[s] = "running"
             /\ outcome'[s] = "ok" => TookEffect(execution, s)'
             /\ taskState[s] = "completed" => TookEffect(execution, s)'
             /\ attempts'[s] > 0 => taskState[s] \in Begun
  BY <1>1 DEF MissionInv, OutcomesMatchRows, Begun
<1> QED
  BY <1>2 DEF OutcomesMatchRows, Tasks

LEMMA NoExecutorKeeps ==
    ASSUME MissionInv, NEW t \in Tasks, NoExecutor(t)
    PROVE  MissionInv'
<1>1. /\ taskState[t] = "running" /\ outcome[t] = "none"
      /\ outcome' = [outcome EXCEPT ![t] = "error"]
      /\ UNCHANGED <<mission, execution, stage, layer, taskState, attempts, approvals, cancelled, actionRow, effects, denied, reports>>
  BY DEF NoExecutor
<1>2. "error" \in Outcomes /\ execution # 0
  BY <1>1, RunningAtHand DEF Outcomes
<1>3. /\ outcome' \in [Tasks -> Outcomes]
      /\ \A s \in Tasks : outcome'[s] = IF s = t THEN "error" ELSE outcome[s]
  BY <1>1, <1>2, OutcomeIsSet
<1>4. MissionTyped'
  BY <1>1, <1>2, <1>3, TypesAtHand, TypesStand
<1>5. RowsInv'
  <2>1. RowsCountEffects'
    BY <1>1 DEF MissionInv, RowsInv, RowsCountEffects, Tasks
  <2>2. AttemptsBoundEffects'
    BY <1>1, <1>3 DEF MissionInv, RowsInv, AttemptsBoundEffects, AttemptIsCounted, Tasks
  <2>3. OneRowPerKey'
    BY <1>1, <1>3, KeysStay
  <2> QED
    BY <2>1, <2>2, <2>3 DEF RowsInv
<1>6. \A s \in Tasks : TookEffect(execution, s) => TookEffect(execution, s)'
  BY <1>1, EffectsAreForGood
<1>7. OutcomesMatchRows'
  BY <1>1, <1>2, <1>6, OutcomeKeeps
<1>8. PlanIsKept' /\ LayersAreInOrder' /\ TasksAreGrounded'
  BY <1>1, TasksStand
<1>9. ReportTellsTruth'
  BY <1>1, ReportsStand
<1> QED
  BY <1>4, <1>5, <1>7, <1>8, <1>9 DEF MissionInv

\* A completed row that the task's key finds took effect.
LEMMA FoundTookEffect ==
    ASSUME MissionInv, NEW t \in Tasks, execution \in Executions,
           NEW row \in FoundRows(t), row \in {"written", "completed"}
    PROVE  TookEffect(execution, t)
<1>1. PICK e \in Executions, u \in Tasks :
        row = actionRow[e][u] /\ (<<e, u>> = <<execution, t>> \/ SameKey(t, u))
  BY DEF FoundRows
<1>2. effects[e][u] = denied[e][u] + 1
  BY <1>1 DEF MissionInv, RowsInv, RowsCountEffects, RowIsCounted
<1>3. effects[e][u] \in Nat /\ denied[e][u] \in Nat
  BY TypesAtHand
<1>4. effects[e][u] >= 1
  BY <1>2, <1>3
<1> QED
  BY <1>1, <1>4 DEF TookEffect

\* An attempt is answered by a row it finds, or is to insert one.
LEMMA AttemptKeeps ==
    ASSUME MissionInv, NEW t \in Tasks, Attempt(t)
    PROVE  MissionInv'
<1>1. /\ stage = "running" /\ taskState[t] = "running" /\ outcome[t] = "none"
      /\ attempts' = [attempts EXCEPT ![t] = @ + 1]
      /\ UNCHANGED <<mission, execution, stage, layer, taskState, approvals, cancelled, actionRow, effects, denied, reports>>
  BY DEF Attempt
<1>2. /\ execution \in Executions /\ execution # 0
      /\ attempts \in [Tasks -> Nat] /\ attempts[t] \in Nat /\ mission.maxAttempts[t] \in Nat
      /\ attempts[t] < mission.maxAttempts[t]
      /\ AttemptIsCounted(actionRow[execution][t], effects[execution][t], denied[execution][t],
                          outcome[t], attempts[t])
  BY <1>1, RunningAtHand
<1>3. PICK o \in Outcomes :
        /\ outcome' = [outcome EXCEPT ![t] = o]
        /\ o \in {"none", "ok", "error", "inserting"}
        /\ o = "ok" => TookEffect(execution, t)
        /\ o = "none" => attempts[t] + 1 < mission.maxAttempts[t]
        /\ o = "inserting" => FoundRows(t) = {}
  <2>1. CASE FoundRows(t) = {} /\ outcome' = [outcome EXCEPT ![t] = "inserting"]
    BY <2>1 DEF Outcomes
  <2>2. ASSUME NEW row \in FoundRows(t),
               outcome' = [outcome EXCEPT ![t] =
                             AfterAttempt(t, attempts[t] + 1, row \in {"written", "completed"})]
        PROVE  \E o \in Outcomes :
                  /\ outcome' = [outcome EXCEPT ![t] = o]
                  /\ o \in {"none", "ok", "error"}
                  /\ o = "ok" => TookEffect(execution, t)
                  /\ o = "none" => attempts[t] + 1 < mission.maxAttempts[t]
    <3>1. attempts[t] + 1 \in Nat /\ (row \in {"written", "completed"}) \in BOOLEAN
      BY <1>2
    <3>2. PICK o \in {"none", "ok", "error"} :
            /\ AfterAttempt(t, attempts[t] + 1, row \in {"written", "completed"}) = o
            /\ o = "ok" => row \in {"written", "completed"}
            /\ o = "none" => attempts[t] + 1 < mission.maxAttempts[t]
      BY <1>2, <3>1, AttemptEnds
    <3>3. o = "ok" => TookEffect(execution, t)
      BY <1>2, <3>2, FoundTookEffect
    <3> QED
      BY <2>2, <3>2, <3>3 DEF Outcomes
  <2>3. \/ FoundRows(t) = {} /\ outcome' = [outcome EXCEPT ![t] = "inserting"]
        \/ \E row \in FoundRows(t) :
             outcome' = [outcome EXCEPT ![t] =
                           AfterAttempt(t, attempts[t] + 1, row \in {"written", "completed"})]
    BY DEF Attempt
  <2>4. CASE \E row \in FoundRows(t) :
               outcome' = [outcome EXCEPT ![t] =
                             AfterAttempt(t, attempts[t] + 1, row \in {"written", "completed"})]
    <3>1. PICK row \in FoundRows(t) :
            outcome' = [outcome EXCEPT ![t] =
                          AfterAttempt(t, attempts[t] + 1, row \in {"written", "completed"})]
      BY <2>4
    <3>2. PICK o \in Outcomes :
            /\ outcome' = [outcome EXCEPT ![t] = o]
            /\ o \in {"none", "ok", "error"}
            /\ o = "ok" => TookEffect(execution, t)
            /\ o = "none" => attempts[t] + 1 < mission.maxAttempts[t]
      BY <2>2, <3>1
    <3> QED
      BY <3>2
  <2> QED
    BY <2>1, <2>3, <2>4
<1>4. /\ outcome' \in [Tasks -> Outcomes]
      /\ \A s \in Tasks : outcome'[s] = IF s = t THEN o ELSE outcome[s]
  BY <1>3, OutcomeIsSet
<1>5. /\ attempts' \in [Tasks -> Nat] /\ attempts'[t] = attempts[t] + 1
      /\ \A s \in Tasks : s # t => attempts'[s] = attempts[s]
  BY <1>1, <1>2
<1>6. MissionTyped'
  BY <1>1, <1>2, <1>4, <1>5, TypesAtHand, TypesStand
<1>7. RowsCountEffects'
  BY <1>1 DEF MissionInv, RowsInv, RowsCountEffects, Tasks
<1>8. FoundRows(t) = {} =>
        /\ actionRow[execution][t] \notin Deduplicated
        /\ \A f \in Executions, u \in Tasks : SameKey(t, u) => actionRow[f][u] \notin Deduplicated
  BY <1>2 DEF FoundRows
<1>9. AttemptsBoundEffects'
  <2>1. SUFFICES ASSUME NEW s \in Tasks
                 PROVE  /\ attempts'[s] <= mission.maxAttempts[s]
                        /\ outcome'[s] = "none" => attempts'[s] < mission.maxAttempts[s]
                        /\ AttemptIsCounted(actionRow[execution][s], effects[execution][s],
                                            denied[execution][s], outcome'[s], attempts'[s])
    BY <1>1 DEF AttemptsBoundEffects, Tasks
  <2>2. CASE s = t
    <3>1. effects[execution][t] \in Nat
      BY <1>1, RunningAtHand
    <3>2. AttemptIsCounted(actionRow[execution][t], effects[execution][t], denied[execution][t],
                           o, attempts[t] + 1)
      BY <1>2, <1>3, <1>8, <3>1 DEF AttemptIsCounted
    <3> QED
      BY <1>2, <1>3, <1>4, <1>5, <2>2, <3>2
  <2>3. CASE s # t
    <3>1. outcome'[s] = outcome[s] /\ attempts'[s] = attempts[s]
      BY <1>4, <1>5, <2>3
    <3> QED
      BY <1>2, <3>1 DEF MissionInv, RowsInv, AttemptsBoundEffects
  <2> QED
    BY <2>2, <2>3
<1>10. OneRowPerKey'
  BY <1>1, <1>3, <1>4, <1>8 DEF MissionInv, RowsInv, OneRowPerKey, KeysApart, SameKey, Tasks
<1>11. \A s \in Tasks : TookEffect(execution, s) => TookEffect(execution, s)'
  BY <1>1, EffectsAreForGood
<1>12. OutcomesMatchRows'
  BY <1>1, <1>3, <1>5, <1>11, OutcomeKeeps
<1>13. PlanIsKept' /\ LayersAreInOrder' /\ TasksAreGrounded'
  BY <1>1, TasksStand
<1>14. ReportTellsTruth'
  BY <1>1, ReportsStand
<1> QED
  BY <1>6, <1>7, <1>9, <1>10, <1>12, <1>13, <1>14 DEF MissionInv, RowsInv

\* The insert finds no row that answers the task's key, unless tasks that run together
\* share it.
LEMMA BeginActionKeeps ==
    ASSUME MissionInv, NEW t \in Tasks, BeginAction(t)
    PROVE  MissionInv'
<1>1. /\ outcome[t] = "inserting"
      /\ \/ /\ actionRow' = [actionRow EXCEPT ![execution][t] = "running"]
            /\ outcome' = [outcome EXCEPT ![t] = "attempting"]
         \/ /\ outcome' = [outcome EXCEPT ![t] = AfterAttempt(t, attempts[t], FALSE)]
            /\ UNCHANGED actionRow
      /\ UNCHANGED <<mission, execution, stage, layer, taskState, attempts, approvals, cancelled, effects, denied, reports>>
  BY DEF BeginAction
<1>2. taskState[t] = "running"
  BY <1>1 DEF MissionInv, OutcomesMatchRows
<1>3. /\ execution \in Executions /\ execution # 0 /\ execution <= execution
      /\ attempts \in [Tasks -> Nat] /\ attempts[t] \in Nat /\ mission.maxAttempts[t] \in Nat
      /\ attempts[t] <= mission.maxAttempts[t]
      /\ effects[execution][t] \in Nat /\ denied[execution][t] \in Nat
      /\ RowIsCounted(actionRow[execution][t], effects[execution][t], denied[execution][t],
                      mission.maxAttempts[t])
      /\ AttemptIsCounted(actionRow[execution][t], effects[execution][t], denied[execution][t],
                          outcome[t], attempts[t])
  BY <1>2, RunningAtHand
<1>4. PlanIsKept' /\ LayersAreInOrder' /\ TasksAreGrounded'
  BY <1>1, TasksStand
<1>5. \A s \in Tasks : TookEffect(execution, s) => TookEffect(execution, s)'
  BY <1>1, EffectsAreForGood
<1>6. CASE outcome' = [outcome EXCEPT ![t] = AfterAttempt(t, attempts[t], FALSE)] /\ UNCHANGED actionRow
  <2>1. PICK o \in {"none", "ok", "error"} :
          /\ AfterAttempt(t, attempts[t], FALSE) = o
          /\ o # "ok" /\ (o = "none" => attempts[t] < mission.maxAttempts[t])
    BY <1>3, AttemptEnds
  <2>2. o \in Outcomes /\ outcome' = [outcome EXCEPT ![t] = o]
    BY <1>6, <2>1 DEF Outcomes
  <2>3. outcome' \in [Tasks -> Outcomes] /\ \A s \in Tasks : outcome'[s] = IF s = t THEN o ELSE outcome[s]
    BY <2>2, OutcomeIsSet
  <2>4. MissionTyped'
    BY <1>1, <1>3, <1>6, <2>3, TypesAtHand, TypesStand
  <2>5. RowsCountEffects'
    BY <1>1, <1>6 DEF MissionInv, RowsInv, RowsCountEffects, Tasks
  <2>6. AttemptsBoundEffects'
    BY <1>1, <1>6, <2>1, <2>3 DEF MissionInv, RowsInv, AttemptsBoundEffects, AttemptIsCounted, Tasks
  <2>7. OneRowPerKey'
    BY <1>1, <1>6, <2>1, <2>3, KeysStay
  <2>8. OutcomesMatchRows'
    BY <1>1, <1>2, <1>5, <2>1, <2>2, OutcomeKeeps
  <2>9. ReportTellsTruth'
    BY <1>1, ReportsStand
  <2> QED
    BY <1>4, <2>4, <2>5, <2>6, <2>7, <2>8, <2>9 DEF MissionInv, RowsInv
<1>7. CASE /\ actionRow' = [actionRow EXCEPT ![execution][t] = "running"]
           /\ outcome' = [outcome EXCEPT ![t] = "attempting"]
  <2>1. "running" \in RowStates /\ "attempting" \in Outcomes /\ 0 \in {0, 1} /\ "attempting" # "ok"
    BY DEF RowStates, Outcomes
  <2>2. actionRow[execution][t] \notin Deduplicated
    BY <1>1, <1>3 DEF AttemptIsCounted
  <2>3. /\ effects[execution][t] = denied[execution][t]
        /\ effects[execution][t] + 1 <= attempts[t]
    BY <1>1, <1>3, <2>2 DEF RowIsCounted, AttemptIsCounted, Deduplicated
  <2>4. RowIsCounted("running", effects[execution][t] + 0, denied[execution][t] + 0, mission.maxAttempts[t])
    BY <1>3, <2>3 DEF RowIsCounted
  <2>5. /\ effects' = [effects EXCEPT ![execution][t] = effects[execution][t] + 0]
        /\ denied' = [denied EXCEPT ![execution][t] = denied[execution][t] + 0]
    <3>1. effects \in [Executions -> [Tasks -> Nat]] /\ denied \in [Executions -> [Tasks -> Nat]]
      BY TypesAtHand
    <3>2. effects[execution][t] + 0 = effects[execution][t] /\ denied[execution][t] + 0 = denied[execution][t]
      BY <1>3
    <3> QED
      BY <1>1, <1>3, <3>1, <3>2
  <2>6. /\ RowMoved(execution, t, "running", 0, 0)
        /\ RowsCountEffects'
        /\ ReportTellsTruth'
    BY <1>1, <1>3, <1>7, <2>1, <2>4, <2>5, RowMoves
  <2>7. outcome' \in [Tasks -> Outcomes] /\ \A s \in Tasks : outcome'[s] = IF s = t THEN "attempting" ELSE outcome[s]
    BY <1>7, <2>1, OutcomeIsSet
  <2>8. MissionTyped'
    BY <1>1, <1>3, <2>6, <2>7, TypesStand DEF RowMoved
  <2>9. /\ actionRow'[execution][t] = "running"
        /\ \A d \in Executions, s \in Tasks : <<d, s>> # <<execution, t>> => actionRow'[d][s] = actionRow[d][s]
    BY <2>6 DEF RowMoved
  <2>10. AttemptsBoundEffects'
    <3>1. SUFFICES ASSUME NEW s \in Tasks
                   PROVE  /\ attempts[s] <= mission.maxAttempts[s]
                          /\ outcome'[s] = "none" => attempts[s] < mission.maxAttempts[s]
                          /\ AttemptIsCounted(actionRow'[execution][s], effects[execution][s],
                                              denied[execution][s], outcome'[s], attempts[s])
      BY <1>1 DEF AttemptsBoundEffects, Tasks
    <3>2. CASE s = t
      <4>1. AttemptIsCounted("running", effects[execution][t], denied[execution][t], "attempting", attempts[t])
        BY <1>3, <2>3 DEF AttemptIsCounted
      <4> QED
        BY <1>3, <2>7, <2>9, <3>2, <4>1
    <3>3. CASE s # t
      <4>1. outcome'[s] = outcome[s] /\ actionRow'[execution][s] = actionRow[execution][s]
        BY <1>3, <2>7, <2>9, <3>3
      <4> QED
        BY <1>3, <4>1 DEF MissionInv, RowsInv, AttemptsBoundEffects
    <3> QED
      BY <3>2, <3>3
  <2>11. OneRowPerKey'
    <3>1. SUFFICES ASSUME KeysApart
                   PROVE  /\ \A e, f \in Executions, s, u \in Tasks :
                               SameKey(s, u) /\ {actionRow'[e][s], actionRow'[f][u]} \subseteq Deduplicated
                                 => <<e, s>> = <<f, u>>
                          /\ \A f \in Executions, s, u \in Tasks :
                               outcome'[s] = "inserting" /\ SameKey(s, u) => actionRow'[f][u] \notin Deduplicated
      BY <1>1 DEF OneRowPerKey, KeysApart, SameKey, Tasks
    <3>2. /\ \A e, f \in Executions, s, u \in Tasks :
               SameKey(s, u) /\ {actionRow[e][s], actionRow[f][u]} \subseteq Deduplicated => <<e, s>> = <<f, u>>
          /\ \A f \in Executions, s, u \in Tasks :
               outcome[s] = "inserting" /\ SameKey(s, u) => actionRow[f][u] \notin Deduplicated
      BY <3>1 DEF MissionInv, RowsInv, OneRowPerKey
    <3>3. \A s, u \in Tasks : SameKey(s, u) => SameKey(u, s)
      BY DEF SameKey
    <3>4. ASSUME NEW e \in Executions, NEW f \in Executions, NEW s \in Tasks, NEW u \in Tasks,
                 SameKey(s, u), actionRow'[e][s] \in Deduplicated, actionRow'[f][u] \in Deduplicated
          PROVE  <<e, s>> = <<f, u>>
      <4>1. CASE <<e, s>> # <<execution, t>> /\ <<f, u>> # <<execution, t>>
        BY <2>9, <3>2, <3>4, <4>1
      <4>2. CASE <<e, s>> = <<execution, t>> /\ <<f, u>> # <<execution, t>>
        <5>1. s = t /\ actionRow[f][u] \in Deduplicated
          BY <2>9, <3>4, <4>2
        <5> QED
          BY <1>1, <3>2, <3>4, <5>1
      <4>3. CASE <<e, s>> # <<execution, t>> /\ <<f, u>> = <<execution, t>>
        <5>1. u = t /\ actionRow[e][s] \in Deduplicated
          BY <2>9, <3>4, <4>3
        <5> QED
          BY <1>1, <3>2, <3>3, <3>4, <5>1
      <4> QED
        BY <4>1, <4>2, <4>3
    <3>5. ASSUME NEW f \in Executions, NEW s \in Tasks, NEW u \in Tasks,
                 outcome'[s] = "inserting", SameKey(s, u)
          PROVE  actionRow'[f][u] \notin Deduplicated
      <4>1. s # t /\ outcome[s] = "inserting" /\ taskState[s] = "running"
        BY <2>7, <3>5 DEF MissionInv, OutcomesMatchRows
      <4>2. u # t
        BY <1>2, <3>1, <3>5, <4>1, RunningAreTogether
      <4>3. actionRow'[f][u] = actionRow[f][u]
        BY <2>9, <4>2
      <4> QED
        BY <3>2, <3>5, <4>1, <4>3
    <3> QED
      BY <3>4, <3>5
  <2>12. OutcomesMatchRows'
    BY <1>1, <1>2, <1>5, <1>7, <2>1, OutcomeKeeps
  <2> QED
    BY <1>4, <2>6, <2>8, <2>10, <2>11, <2>12 DEF MissionInv, RowsInv
<1> QED
  BY <1>1, <1>6, <1>7

\* A step of a row that answers its key already, and of the outcome of its task at most.
LEMMA LiveRowKeeps ==
    ASSUME MissionInv,
           UNCHANGED <<mission, execution, stage, layer, taskState, attempts, approvals, cancelled, reports>>,
           NEW e \in Executions, NEW t \in Tasks, e <= execution, actionRow[e][t] \in Deduplicated,
           NEW row \in RowStates, NEW more \in {0, 1}, NEW lost \in {0, 1},
           actionRow' = [actionRow EXCEPT ![e][t] = row],
           effects' = [effects EXCEPT ![e][t] = effects[e][t] + more],
           denied' = [denied EXCEPT ![e][t] = denied[e][t] + lost],
           RowIsCounted(row, effects[e][t] + more, denied[e][t] + lost, mission.maxAttempts[t]),
           outcome' \in [Tasks -> Outcomes],
           \A s \in Tasks : s # t => outcome'[s] = outcome[s],
           outcome'[t] = "inserting" => outcome[t] = "inserting",
           outcome'[t] = "none" => attempts[t] < mission.maxAttempts[t],
           e = execution => AttemptIsCounted(row, effects[e][t] + more, denied[e][t] + lost, outcome'[t], attempts[t]),
           e # execution => outcome'[t] = outcome[t],
           OutcomesMatchRows'
    PROVE  MissionInv'
<1>1. /\ RowMoved(e, t, row, more, lost)
      /\ RowsCountEffects'
      /\ ReportTellsTruth'
  BY RowMoves
<1>2. execution \in Executions /\ execution # 0
  BY TypesAtHand DEF Executions
<1>3. attempts \in [Tasks -> Nat]
  BY TypesAtHand
<1>4. MissionTyped'
  BY <1>1, <1>2, <1>3, TypesStand DEF RowMoved
<1>5. AttemptsBoundEffects'
  <2>1. SUFFICES ASSUME NEW s \in Tasks
                 PROVE  /\ attempts[s] <= mission.maxAttempts[s]
                        /\ outcome'[s] = "none" => attempts[s] < mission.maxAttempts[s]
                        /\ AttemptIsCounted(actionRow'[execution][s], effects'[execution][s],
                                            denied'[execution][s], outcome'[s], attempts[s])
    BY DEF AttemptsBoundEffects, Tasks
  <2>2. /\ attempts[s] <= mission.maxAttempts[s]
        /\ outcome[s] = "none" => attempts[s] < mission.maxAttempts[s]
        /\ AttemptIsCounted(actionRow[execution][s], effects[execution][s],
                            denied[execution][s], outcome[s], attempts[s])
    BY <1>2 DEF MissionInv, RowsInv, AttemptsBoundEffects
  <2>3. CASE e = execution /\ s = t
    BY <1>1, <2>2, <2>3 DEF RowMoved
  <2>4. CASE <<execution, s>> # <<e, t>>
    <3>1. /\ outcome'[s] = outcome[s]
          /\ actionRow'[execution][s] = actionRow[execution][s]
          /\ effects'[execution][s] = effects[execution][s]
          /\ denied'[execution][s] = denied[execution][s]
      BY <1>1, <1>2, <2>4 DEF RowMoved
    <3> QED
      BY <2>2, <3>1
  <2> QED
    BY <2>3, <2>4
<1>6. OneRowPerKey'
  <2>1. \A d \in Executions, s \in Tasks :
          actionRow'[d][s] \in Deduplicated => actionRow[d][s] \in Deduplicated
    <3>1. SUFFICES ASSUME NEW d \in Executions, NEW s \in Tasks, actionRow'[d][s] \in Deduplicated
                   PROVE  actionRow[d][s] \in Deduplicated
      OBVIOUS
    <3>2. CASE d = e /\ s = t
      BY <3>2
    <3>3. CASE <<d, s>> # <<e, t>>
      BY <1>1, <3>1, <3>3 DEF RowMoved
    <3> QED
      BY <3>2, <3>3
  <2>2. \A s \in Tasks : outcome'[s] = "inserting" => outcome[s] = "inserting"
    OBVIOUS
  <2> QED
    BY <2>1, <2>2, KeysStay
<1>7. PlanIsKept' /\ LayersAreInOrder' /\ TasksAreGrounded'
  BY TasksStand
<1> QED
  BY <1>1, <1>4, <1>5, <1>6, <1>7 DEF MissionInv, RowsInv

\* The handler runs, takes effect or not, and its row says how it ended.
LEMMA HandlerRan ==
    ASSUME MissionInv, NEW e \in Executions, NEW t \in Tasks,
           NEW status \in {"written", "failed", "running", "blocked", "awaiting_approval"},
           NEW taken \in {0, 1}, HandlerRuns(e, t, status, taken),
           effects[e][t] = denied[e][t], effects[e][t] + 1 <= mission.maxAttempts[t]
    PROVE  \E lost \in {0, 1} :
             /\ actionRow' = [actionRow EXCEPT ![e][t] = status]
             /\ effects' = [effects EXCEPT ![e][t] = effects[e][t] + taken]
             /\ denied' = [denied EXCEPT ![e][t] = denied[e][t] + lost]
             /\ RowIsCounted(status, effects[e][t] + taken, denied[e][t] + lost, mission.maxAttempts[t])
<1>1. /\ effects \in [Executions -> [Tasks -> Nat]] /\ denied \in [Executions -> [Tasks -> Nat]]
      /\ mission.maxAttempts[t] \in Nat
  BY TypesAtHand
<1>2. effects[e][t] \in Nat /\ denied[e][t] \in Nat
  BY <1>1
<1>3. /\ status \in {"blocked", "awaiting_approval"} => taken = 0
      /\ status = "written" => taken = 1
      /\ actionRow' = [actionRow EXCEPT ![e][t] = status]
      /\ effects' = [effects EXCEPT ![e][t] = effects[e][t] + taken]
      /\ denied' = [denied EXCEPT ![e][t] = IF status = "failed" THEN denied[e][t] + taken ELSE denied[e][t]]
  BY DEF HandlerRuns
<1>4. PICK lost \in {0, 1} : lost = IF status = "failed" THEN taken ELSE 0
  OBVIOUS
<1>5. (IF status = "failed" THEN denied[e][t] + taken ELSE denied[e][t]) = denied[e][t] + lost
  BY <1>2, <1>4
<1>6. RowIsCounted(status, effects[e][t] + taken, denied[e][t] + lost, mission.maxAttempts[t])
  BY <1>1, <1>2, <1>3, <1>4 DEF RowIsCounted
<1> QED
  BY <1>3, <1>5, <1>6

\* What follows a written row keeps its effect or denies it.
LEMMA HandlerReturned ==
    ASSUME MissionInv, NEW e \in Executions, NEW t \in Tasks, NEW status \in {"completed", "failed"},
           HandlerReturns(e, t, status)
    PROVE  \E lost \in {0, 1} :
             /\ actionRow[e][t] = "written"
             /\ actionRow' = [actionRow EXCEPT ![e][t] = status]
             /\ effects' = [effects EXCEPT ![e][t] = effects[e][t] + 0]
             /\ denied' = [denied EXCEPT ![e][t] = denied[e][t] + lost]
             /\ RowIsCounted(status, effects[e][t] + 0, denied[e][t] + lost, mission.maxAttempts[t])
             /\ effects[e][t] + 0 >= 1
<1>1. /\ effects \in [Executions -> [Tasks -> Nat]] /\ denied \in [Executions -> [Tasks -> Nat]]
      /\ mission.maxAttempts[t] \in Nat
  BY TypesAtHand
<1>2. effects[e][t] \in Nat /\ denied[e][t] \in Nat
  BY <1>1
<1>3. /\ actionRow[e][t] = "written"
      /\ actionRow' = [actionRow EXCEPT ![e][t] = status]
      /\ denied' = [denied EXCEPT ![e][t] = IF status = "failed" THEN denied[e][t] + 1 ELSE denied[e][t]]
      /\ UNCHANGED effects
  BY DEF HandlerReturns
<1>4. RowIsCounted("written", effects[e][t], denied[e][t], mission.maxAttempts[t])
  BY <1>3 DEF MissionInv, RowsInv, RowsCountEffects
<1>5. PICK lost \in {0, 1} : lost = IF status = "failed" THEN 1 ELSE 0
  OBVIOUS
<1>6. (IF status = "failed" THEN denied[e][t] + 1 ELSE denied[e][t]) = denied[e][t] + lost
  BY <1>2, <1>5
<1>7. effects[e][t] + 0 = effects[e][t]
  BY <1>2
<1>8. effects' = [effects EXCEPT ![e][t] = effects[e][t] + 0]
  BY <1>1, <1>3, <1>7
<1>9. RowIsCounted(status, effects[e][t], denied[e][t] + lost, mission.maxAttempts[t]) /\ effects[e][t] >= 1
  BY <1>1, <1>2, <1>4, <1>5 DEF RowIsCounted
<1> QED
  BY <1>3, <1>6, <1>7, <1>8, <1>9

\* The action the attempt began runs up to its row's status.
LEMMA AttemptRunsKeeps ==
    ASSUME MissionInv, NEW t \in Tasks,
           NEW status \in {"written", "failed", "running", "blocked", "awaiting_approval"},
           NEW taken \in {0, 1}, AttemptRuns(t, status, taken)
    PROVE  MissionInv'
<1>1. /\ outcome[t] = "attempting" /\ actionRow[execution][t] = "running"
      /\ HandlerRuns(execution, t, status, taken)
      /\ outcome' = [outcome EXCEPT ![t] = IF status = "written" THEN outcome[t]
                                           ELSE AfterAttempt(t, attempts[t], FALSE)]
      /\ UNCHANGED <<mission, execution, stage, layer, taskState, attempts, approvals, cancelled, reports>>
  BY DEF AttemptRuns
<1>2. taskState[t] = "running"
  BY <1>1 DEF MissionInv, OutcomesMatchRows
<1>3. /\ execution \in Executions /\ execution <= execution
      /\ attempts[t] \in Nat /\ mission.maxAttempts[t] \in Nat /\ attempts[t] <= mission.maxAttempts[t]
      /\ effects[execution][t] \in Nat /\ denied[execution][t] \in Nat
      /\ AttemptIsCounted(actionRow[execution][t], effects[execution][t], denied[execution][t],
                          outcome[t], attempts[t])
  BY <1>2, RunningAtHand
<1>4. effects[execution][t] = denied[execution][t] /\ effects[execution][t] + 1 <= attempts[t]
  BY <1>1, <1>3 DEF AttemptIsCounted
<1>5. effects[execution][t] + 1 <= mission.maxAttempts[t]
  BY <1>3, <1>4
<1>6. PICK lost \in {0, 1} :
        /\ actionRow' = [actionRow EXCEPT ![execution][t] = status]
        /\ effects' = [effects EXCEPT ![execution][t] = effects[execution][t] + taken]
        /\ denied' = [denied EXCEPT ![execution][t] = denied[execution][t] + lost]
        /\ RowIsCounted(status, effects[execution][t] + taken, denied[execution][t] + lost, mission.maxAttempts[t])
  BY <1>1, <1>3, <1>4, <1>5, HandlerRan
<1>7. PICK o \in Outcomes :
        /\ outcome' = [outcome EXCEPT ![t] = o]
        /\ o \in {"none", "error", "attempting"} /\ (o = "attempting" => status = "written")
        /\ o = "none" => attempts[t] < mission.maxAttempts[t]
  <2>1. CASE status = "written"
    BY <1>1, <2>1 DEF Outcomes
  <2>2. CASE status # "written"
    <3>1. PICK o \in {"none", "ok", "error"} :
            AfterAttempt(t, attempts[t], FALSE) = o /\ o # "ok" /\ (o = "none" => attempts[t] < mission.maxAttempts[t])
      BY <1>3, AttemptEnds
    <3> QED
      BY <1>1, <2>2, <3>1 DEF Outcomes
  <2> QED
    BY <2>1, <2>2
<1>8. outcome' \in [Tasks -> Outcomes] /\ \A s \in Tasks : outcome'[s] = IF s = t THEN o ELSE outcome[s]
  BY <1>7, OutcomeIsSet
<1>9. status \in RowStates /\ "running" \in Deduplicated
  BY DEF RowStates, Deduplicated
<1>10. status = "awaiting_approval" => taken = 0
  BY <1>1 DEF HandlerRuns
<1>11. AttemptIsCounted(status, effects[execution][t] + taken, denied[execution][t] + lost, o, attempts[t])
  BY <1>3, <1>4, <1>7, <1>10 DEF AttemptIsCounted
<1>12. \A s \in Tasks : TookEffect(execution, s) => TookEffect(execution, s)'
  BY <1>1, <1>3, <1>6, <1>9, RowMoves
<1>13. OutcomesMatchRows'
  BY <1>1, <1>2, <1>7, <1>12, OutcomeKeeps
<1>14. /\ \A s \in Tasks : s # t => outcome'[s] = outcome[s]
       /\ outcome'[t] = o /\ o # "inserting"
  BY <1>7, <1>8
<1>15. actionRow[execution][t] \in Deduplicated /\ execution = execution
  BY <1>1, <1>9
<1> QED
  BY <1>1, <1>3, <1>6, <1>7, <1>8, <1>9, <1>11, <1>13, <1>14, <1>15, LiveRowKeeps

\* The action answers the attempt that began it.
LEMMA AttemptReturnsKeeps ==
    ASSUME MissionInv, NEW t \in Tasks, NEW status \in {"completed", "failed"}, NEW returned \in BOOLEAN,
           AttemptReturns(t, status, returned)
    PROVE  MissionInv'
<1>1. /\ outcome[t] = "attempting"
      /\ HandlerReturns(execution, t, status)
      /\ outcome' = [outcome EXCEPT ![t] = AfterAttempt(t, attempts[t], status = "completed" /\ returned)]
      /\ UNCHANGED <<mission, execution, stage, layer, taskState, attempts, approvals, cancelled, reports>>
  BY DEF AttemptReturns
<1>2. taskState[t] = "running"
  BY <1>1 DEF MissionInv, OutcomesMatchRows
<1>3. /\ execution \in Executions /\ execution <= execution
      /\ attempts[t] \in Nat /\ mission.maxAttempts[t] \in Nat
      /\ effects[execution][t] \in Nat /\ denied[execution][t] \in Nat
      /\ AttemptIsCounted(actionRow[execution][t], effects[execution][t], denied[execution][t],
                          outcome[t], attempts[t])
  BY <1>2, RunningAtHand
<1>4. PICK lost \in {0, 1} :
        /\ actionRow[execution][t] = "written"
        /\ actionRow' = [actionRow EXCEPT ![execution][t] = status]
        /\ effects' = [effects EXCEPT ![execution][t] = effects[execution][t] + 0]
        /\ denied' = [denied EXCEPT ![execution][t] = denied[execution][t] + lost]
        /\ RowIsCounted(status, effects[execution][t] + 0, denied[execution][t] + lost, mission.maxAttempts[t])
        /\ effects[execution][t] + 0 >= 1
  BY <1>1, <1>3, HandlerReturned
<1>5. PICK o \in {"none", "ok", "error"} :
        /\ AfterAttempt(t, attempts[t], status = "completed" /\ returned) = o
        /\ o = "none" => attempts[t] < mission.maxAttempts[t]
  <2>1. (status = "completed" /\ returned) \in BOOLEAN
    OBVIOUS
  <2> QED
    BY <1>3, <2>1, AttemptEnds
<1>6. o \in Outcomes /\ outcome' = [outcome EXCEPT ![t] = o]
  BY <1>1, <1>5 DEF Outcomes
<1>7. outcome' \in [Tasks -> Outcomes] /\ \A s \in Tasks : outcome'[s] = IF s = t THEN o ELSE outcome[s]
  BY <1>6, OutcomeIsSet
<1>8. status \in RowStates /\ actionRow[execution][t] \in Deduplicated /\ 0 \in {0, 1}
  BY <1>4 DEF RowStates, Deduplicated
<1>9. /\ RowMoved(execution, t, status, 0, lost)
      /\ \A s \in Tasks : TookEffect(execution, s) => TookEffect(execution, s)'
  BY <1>1, <1>3, <1>4, <1>8, RowMoves
<1>10. TookEffect(execution, t)'
  <2>1. effects'[execution][t] >= 1
    BY <1>4, <1>9 DEF RowMoved
  <2> QED
    BY <1>1, <1>3, <2>1 DEF TookEffect, Tasks
<1>11. OutcomesMatchRows'
  BY <1>1, <1>2, <1>6, <1>9, <1>10, OutcomeKeeps
<1>12. AttemptIsCounted(status, effects[execution][t] + 0, denied[execution][t] + lost, o, attempts[t])
  BY <1>3, <1>4, <1>5 DEF AttemptIsCounted
<1>13. /\ \A s \in Tasks : s # t => outcome'[s] = outcome[s]
       /\ outcome'[t] = o /\ o # "inserting"
  BY <1>5, <1>7
<1> QED
  BY <1>1, <1>3, <1>4, <1>5, <1>7, <1>8, <1>11, <1>12, <1>13, LiveRowKeeps

\* A row exists only in an execution that began.
LEMMA RowsWereBegun ==
    ASSUME MissionInv, NEW e \in Executions, NEW t \in Tasks, actionRow[e][t] # "none"
    PROVE  e <= execution
BY TypesAtHand DEF MissionInv, RowsInv, RowsCountEffects, Executions

\* The outcomes stand while a row moves on by itself.
LEMMA OutcomesStand ==
    ASSUME MissionInv,
           UNCHANGED <<mission, execution, stage, taskState, attempts, outcome>>,
           \A s \in Tasks : TookEffect(execution, s) => TookEffect(execution, s)'
    PROVE  OutcomesMatchRows'
<1>1. ASSUME NEW s \in Tasks
      PROVE  /\ taskState[s] = "running" => stage = "running"
             /\ outcome[s] \in {"inserting", "attempting"} => taskState[s] = "running"
             /\ outcome[s] = "ok" => TookEffect(execution, s)'
             /\ taskState[s] = "completed" => TookEffect(execution, s)'
             /\ attempts[s] > 0 => taskState[s] \in Begun
  BY DEF MissionInv, OutcomesMatchRows
<1> QED
  BY <1>1 DEF OutcomesMatchRows, Tasks

\* An approved action runs on its own; nothing waits for it.
LEMMA ApproveActionKeeps ==
    ASSUME MissionInv, NEW e \in Executions, NEW t \in Tasks, NEW status \in {"written", "failed", "running"},
           NEW taken \in {0, 1}, ApproveAction(e, t, status, taken)
    PROVE  MissionInv'
<1>1. /\ actionRow[e][t] = "awaiting_approval"
      /\ HandlerRuns(e, t, status, taken)
      /\ UNCHANGED <<mission, execution, stage, layer, taskState, attempts, outcome, approvals, cancelled, reports>>
  BY DEF ApproveAction
<1>2. e <= execution
  BY <1>1, RowsWereBegun
<1>3. /\ effects \in [Executions -> [Tasks -> Nat]] /\ denied \in [Executions -> [Tasks -> Nat]]
      /\ outcome \in [Tasks -> Outcomes] /\ attempts \in [Tasks -> Nat]
      /\ execution \in Nat /\ (execution # 0 => execution \in Executions)
      /\ \A d \in Executions : d \in Nat \ {0}
  BY TypesAtHand DEF Executions
<1>4. /\ execution # 0 /\ effects[e][t] \in Nat /\ denied[e][t] \in Nat /\ attempts[t] \in Nat
  BY <1>2, <1>3
<1>5. RowIsCounted("awaiting_approval", effects[e][t], denied[e][t], mission.maxAttempts[t])
  BY <1>1 DEF MissionInv, RowsInv, RowsCountEffects
<1>6. effects[e][t] = denied[e][t] /\ effects[e][t] + 1 <= mission.maxAttempts[t]
  BY <1>5 DEF RowIsCounted
<1>7. PICK lost \in {0, 1} :
        /\ actionRow' = [actionRow EXCEPT ![e][t] = status]
        /\ effects' = [effects EXCEPT ![e][t] = effects[e][t] + taken]
        /\ denied' = [denied EXCEPT ![e][t] = denied[e][t] + lost]
        /\ RowIsCounted(status, effects[e][t] + taken, denied[e][t] + lost, mission.maxAttempts[t])
  BY <1>1, <1>6, HandlerRan
<1>8. status \in RowStates /\ actionRow[e][t] \in Deduplicated
  BY <1>1 DEF RowStates, Deduplicated
<1>9. \A s \in Tasks : TookEffect(execution, s) => TookEffect(execution, s)'
  BY <1>1, <1>2, <1>7, <1>8, RowMoves
<1>10. OutcomesMatchRows'
  BY <1>1, <1>9, OutcomesStand
<1>11. /\ outcome[t] = "none" => attempts[t] < mission.maxAttempts[t]
       /\ AttemptIsCounted(actionRow[execution][t], effects[execution][t], denied[execution][t],
                           outcome[t], attempts[t])
  BY <1>4 DEF MissionInv, RowsInv, AttemptsBoundEffects
<1>12. CASE e = execution
  <2>1. AttemptIsCounted("awaiting_approval", effects[e][t], denied[e][t], outcome[t], attempts[t])
    BY <1>1, <1>11, <1>12
  <2>2. /\ effects[e][t] + 1 <= attempts[t]
        /\ outcome[t] \notin {"inserting", "attempting"}
    BY <2>1 DEF AttemptIsCounted, Deduplicated
  <2>3. effects[e][t] + taken <= attempts[t]
    BY <1>4, <2>2
  <2>4. AttemptIsCounted(status, effects[e][t] + taken, denied[e][t] + lost, outcome[t], attempts[t])
    BY <2>2, <2>3 DEF AttemptIsCounted
  <2> QED
    BY <1>1, <1>2, <1>3, <1>7, <1>8, <1>10, <1>11, <1>12, <2>2, <2>4, LiveRowKeeps
<1>13. CASE e # execution
  BY <1>1, <1>2, <1>3, <1>7, <1>8, <1>10, <1>11, <1>13, LiveRowKeeps
<1> QED
  BY <1>12, <1>13

\* What follows an approved action's completion.
LEMMA ApprovalReturnsKeeps ==
    ASSUME MissionInv, NEW e \in Executions, NEW t \in Tasks, NEW status \in {"completed", "failed"},
           ApprovalReturns(e, t, status)
    PROVE  MissionInv'
<1>1. /\ ~(e = execution /\ outcome[t] = "attempting")
      /\ HandlerReturns(e, t, status)
      /\ UNCHANGED <<mission, execution, stage, layer, taskState, attempts, outcome, approvals, cancelled, reports>>
  BY DEF ApprovalReturns
<1>2. PICK lost \in {0, 1} :
        /\ actionRow[e][t] = "written"
        /\ actionRow' = [actionRow EXCEPT ![e][t] = status]
        /\ effects' = [effects EXCEPT ![e][t] = effects[e][t] + 0]
        /\ denied' = [denied EXCEPT ![e][t] = denied[e][t] + lost]
        /\ RowIsCounted(status, effects[e][t] + 0, denied[e][t] + lost, mission.maxAttempts[t])
  BY <1>1, HandlerReturned
<1>3. e <= execution
  BY <1>2, RowsWereBegun
<1>4. /\ effects \in [Executions -> [Tasks -> Nat]] /\ denied \in [Executions -> [Tasks -> Nat]]
      /\ outcome \in [Tasks -> Outcomes] /\ attempts \in [Tasks -> Nat]
      /\ execution \in Nat /\ (execution # 0 => execution \in Executions)
      /\ \A d \in Executions : d \in Nat \ {0}
  BY TypesAtHand DEF Executions
<1>5. /\ execution # 0 /\ effects[e][t] \in Nat /\ denied[e][t] \in Nat /\ attempts[t] \in Nat
  BY <1>3, <1>4
<1>6. status \in RowStates /\ actionRow[e][t] \in Deduplicated /\ 0 \in {0, 1}
  BY <1>2 DEF RowStates, Deduplicated
<1>7. \A s \in Tasks : TookEffect(execution, s) => TookEffect(execution, s)'
  BY <1>1, <1>2, <1>3, <1>6, RowMoves
<1>8. OutcomesMatchRows'
  BY <1>1, <1>7, OutcomesStand
<1>9. /\ outcome[t] = "none" => attempts[t] < mission.maxAttempts[t]
      /\ AttemptIsCounted(actionRow[execution][t], effects[execution][t], denied[execution][t],
                          outcome[t], attempts[t])
  BY <1>5 DEF MissionInv, RowsInv, AttemptsBoundEffects
<1>10. CASE e = execution
  <2>1. AttemptIsCounted("written", effects[e][t], denied[e][t], outcome[t], attempts[t])
    BY <1>2, <1>9, <1>10
  <2>2. /\ effects[e][t] + 0 <= attempts[t]
        /\ outcome[t] \notin {"inserting", "attempting"}
    BY <1>1, <1>5, <1>10, <2>1 DEF AttemptIsCounted, Deduplicated
  <2>3. AttemptIsCounted(status, effects[e][t] + 0, denied[e][t] + lost, outcome[t], attempts[t])
    BY <2>2 DEF AttemptIsCounted
  <2> QED
    BY <1>1, <1>2, <1>3, <1>4, <1>6, <1>8, <1>9, <1>10, <2>2, <2>3, LiveRowKeeps
<1>11. CASE e # execution
  BY <1>1, <1>2, <1>3, <1>4, <1>6, <1>8, <1>9, <1>11, LiveRowKeeps
<1> QED
  BY <1>10, <1>11

LEMMA StutterKeeps ==
    ASSUME MissionInv, UNCHANGED missionVars
    PROVE  MissionInv'
<1>1. UNCHANGED <<mission, execution, stage, layer, taskState, attempts, outcome, approvals, cancelled, actionRow, effects, denied, reports>>
  BY DEF missionVars
<1>2. MissionTyped'
  <2>1. MissionTypeOK'
    BY <1>1 DEF MissionInv, MissionTyped, MissionTypeOK, Tasks
  <2> QED
    BY <1>1, <2>1 DEF MissionInv, MissionTyped, Tasks
<1>3. RowsInv' /\ OutcomesMatchRows'
  <2>1. RowsInv'
    BY <1>1, RowsStand
  <2>2. OutcomesMatchRows'
    BY <1>1 DEF MissionInv, OutcomesMatchRows, TookEffect, SameKey, Tasks
  <2> QED
    BY <2>1, <2>2
<1>4. PlanIsKept' /\ LayersAreInOrder' /\ TasksAreGrounded'
  BY <1>1, TasksStand
<1>5. ReportTellsTruth'
  BY <1>1, ReportsStand
<1> QED
  BY <1>2, <1>3, <1>4, <1>5 DEF MissionInv

-----------------------------------------------------------------------------
LEMMA MissionStepKeeps == MissionInv /\ [MissionNext]_missionVars => MissionInv'
<1>1. SUFFICES ASSUME MissionInv, [MissionNext]_missionVars PROVE MissionInv'
  OBVIOUS
<1>2. ASSUME NEW granted \in SUBSET mission.gated, Execute(granted)
      PROVE  MissionInv'
  BY <1>1, <1>2, ExecuteKeeps
<1>3. CASE Cancel
  BY <1>1, <1>3, CancelKeeps
<1>4. CASE ScheduleLayer
  BY <1>1, <1>4, LayersDone, LayerBegins
<1>5. CASE SettleLayer
  BY <1>1, <1>5, SettleKeeps
<1>6. CASE Finish
  BY <1>1, <1>6, FinishKeeps
<1>7. ASSUME NEW t \in Tasks, NoExecutor(t)
      PROVE  MissionInv'
  BY <1>1, <1>7, NoExecutorKeeps
<1>8. ASSUME NEW t \in Tasks, Attempt(t)
      PROVE  MissionInv'
  BY <1>1, <1>8, AttemptKeeps
<1>9. ASSUME NEW t \in Tasks, BeginAction(t)
      PROVE  MissionInv'
  BY <1>1, <1>9, BeginActionKeeps
<1>10. ASSUME NEW t \in Tasks, NEW status \in {"written", "failed", "running", "blocked", "awaiting_approval"},
              NEW taken \in {0, 1}, AttemptRuns(t, status, taken)
       PROVE  MissionInv'
  BY <1>1, <1>10, AttemptRunsKeeps
<1>11. ASSUME NEW t \in Tasks, NEW status \in {"completed", "failed"}, NEW returned \in BOOLEAN,
              AttemptReturns(t, status, returned)
       PROVE  MissionInv'
  BY <1>1, <1>11, AttemptReturnsKeeps
<1>12. ASSUME NEW e \in Executions, NEW t \in Tasks, NEW status \in {"written", "failed", "running"},
              NEW taken \in {0, 1}, ApproveAction(e, t, status, taken)
       PROVE  MissionInv'
  BY <1>1, <1>12, ApproveActionKeeps
<1>13. ASSUME NEW e \in Executions, NEW t \in Tasks, NEW status \in {"completed", "failed"},
              ApprovalReturns(e, t, status)
       PROVE  MissionInv'
  BY <1>1, <1>13, ApprovalReturnsKeeps
<1>14. CASE UNCHANGED missionVars
  BY <1>1, <1>14, StutterKeeps
<1> QED
  BY <1>1, <1>2, <1>3, <1>4, <1>5, <1>6, <1>7, <1>8, <1>9, <1>10, <1>11, <1>12, <1>13, <1>14
     DEF MissionNext, MissionStep

\* The invariant holds in every state of every execution: planning, layers, attempts,
\* approvals and reports (executeMission, mission-runtime.ts:107).
THEOREM MissionInvariant == MissionSpec => []MissionInv
<1>1. MissionInit => MissionInv
  BY InvInit
<1>2. MissionInv /\ [MissionNext]_missionVars => MissionInv'
  BY MissionStepKeeps
<1> QED
  BY <1>1, <1>2, PTL DEF MissionSpec

LEMMA MissionsAreTyped == MissionInv => MissionTypeOK
BY DEF MissionInv, MissionTyped

\* The mission runtime's state has its declared type (mission-types.ts).
THEOREM MissionTypeCorrect == MissionSpec => []MissionTypeOK
<1>1. MissionInv => MissionTypeOK
  BY MissionsAreTyped
<1> QED
  BY <1>1, MissionInvariant, PTL

\* Whatever retries, repeated executions and late approvals do, a task's action takes
\* effect again only after the row of its last effect was changed to failed, and tasks
\* that do not run together have one row under a key they share (action-executor.ts:53;
\* action-service.ts:233).
THEOREM EffectsRepeatAfterFailure == MissionSpec => []RepeatsOnlyAfterFailure
<1>1. MissionInv => RepeatsOnlyAfterFailure
  BY DEF MissionInv, RowsInv, RowsCountEffects, RowIsCounted, OneRowPerKey, RepeatsOnlyAfterFailure
<1> QED
  BY <1>1, MissionInvariant, PTL

\* A mission's durable report says of its tasks what is the case (final state resolution,
\* mission-runtime.ts:262).
THEOREM ReportsAreTrue == MissionSpec => []ReportTellsTruth
<1>1. MissionInv => ReportTellsTruth
  BY DEF MissionInv
<1> QED
  BY <1>1, MissionInvariant, PTL

\* What a task that was begun needs, however far away, completed, with its gate granted:
\* the completed tasks pass on what they depend on, and needing is the least such relation.
LEMMA BegunTasksHadTheirNeeds ==
    ASSUME MissionInv
    PROVE  AttemptsFollowDependencies
<1>1. SUFFICES ASSUME NEW t \in Tasks, attempts[t] > 0
               PROVE  /\ t \in mission.gated => t \in approvals
                      /\ \A d \in Tasks : Needs(mission, t, d) =>
                           taskState[d] = "completed" /\ (d \in mission.gated => d \in approvals)
  BY DEF AttemptsFollowDependencies
<1>2. taskState[t] \in Begun
  BY <1>1 DEF MissionInv, OutcomesMatchRows
<1>3. \A s \in Tasks : taskState[s] \in Begun =>
        /\ PlanError(mission) = "none"
        /\ s \in mission.gated => s \in approvals
        /\ \A d \in mission.deps[s] : taskState[d] = "completed"
  BY DEF MissionInv, TasksAreGrounded
<1>4. Listed(mission)
  BY <1>2, <1>3, TypesAtHand, AcceptedIsListed
<1>5. \A s \in Tasks : mission.deps[s] \subseteq Tasks
  BY <1>4 DEF Listed, HasUnknownDependency, Tasks
<1>6. PICK C : C = {d \in Tasks : taskState[d] = "completed"}
  OBVIOUS
<1>7. mission.deps[t] \subseteq C
  BY <1>2, <1>3, <1>5, <1>6
<1>8. \A s \in C \cap TaskIds(mission) : mission.deps[s] \subseteq C
  BY <1>3, <1>5, <1>6 DEF Begun
<1>9. \A d : Needs(mission, t, d) => d \in C
  BY <1>4, <1>7, <1>8, NeedsIsLeast DEF Tasks
<1>10. \A d \in C : taskState[d] = "completed" /\ (d \in mission.gated => d \in approvals)
  BY <1>3, <1>6 DEF Begun
<1> QED
  BY <1>2, <1>3, <1>9, <1>10

\* The planner's answer for the mission under execution.
LEMMA PlansAreSound ==
    ASSUME MissionInv
    PROVE  PlanIsSound
<1>1. SUFFICES ASSUME ~HasDuplicate(mission), ~HasUnknownDependency(mission)
               PROVE  /\ PlanError(mission) = "CYCLE" <=> \E t \in Tasks : Needs(mission, t, t)
                      /\ PlanError(mission) = "none" =>
                           \A t \in Tasks : \E n \in 1 .. LayerCount(mission) :
                             /\ {k \in 1 .. Len(mission.ids) : t \in Layer(mission, k)} = {n}
                             /\ \A d \in Tasks : Needs(mission, t, d) =>
                                  \E k \in 1 .. n - 1 : d \in Layer(mission, k)
  BY DEF PlanIsSound
<1>2. Listed(mission)
  BY <1>1, TypesAtHand DEF Listed
<1>3. PlanError(mission) = IF HasCycle(mission) THEN "CYCLE" ELSE "none"
  BY <1>1 DEF PlanError
<1>4. PlanError(mission) = "CYCLE" <=> \E t \in Tasks : Needs(mission, t, t)
  BY <1>2, <1>3, CyclesAreFound DEF Tasks
<1>5. ASSUME PlanError(mission) = "none", NEW t \in Tasks
      PROVE  \E n \in 1 .. LayerCount(mission) :
                /\ {k \in 1 .. Len(mission.ids) : t \in Layer(mission, k)} = {n}
                /\ \A d \in Tasks : Needs(mission, t, d) => \E k \in 1 .. n - 1 : d \in Layer(mission, k)
  BY <1>2, <1>3, <1>5, LayersFollowNeeds DEF Tasks
<1> QED
  BY <1>4, <1>5

\* Executions follow a sound plan: no task is attempted before all it transitively needs
\* has completed and every gate on the way was granted (planMission,
\* execution-planner.ts:30; layer scheduling, mission-runtime.ts:184).
THEOREM ExecutionsAreOrderly == MissionSpec => []ExecutionsFollowPlan
<1>1. MissionInv => ExecutionsFollowPlan
  BY BegunTasksHadTheirNeeds, PlansAreSound DEF ExecutionsFollowPlan
<1> QED
  BY <1>1, MissionInvariant, PTL

=============================================================================
