----------------------------- MODULE LeastIndex -----------------------------
(***************************************************************************)
(* The fact behind every "first slot of the probe window that ...", and    *)
(* induction over an interval, for a set: the index that is missing first  *)
(* would follow one that is not.                                           *)
(***************************************************************************)
EXTENDS Naturals, FiniteSetTheorems, TLAPS

\* A set of indices below a bound that is not empty has a least one.
THEOREM LeastExists ==
    ASSUME NEW N \in Nat, NEW S \in SUBSET (0 .. N), S # {}
    PROVE  \E i \in S : \A j \in S : i <= j
  <1> DEFINE Below(i) == {j \in S : j <= i}
             T == {Below(i) : i \in S}
  <1>1. IsFiniteSet(0 .. N)
    BY FS_Interval
  <1>2. T \subseteq SUBSET (0 .. N) /\ T # {}
    OBVIOUS
  <1>3. T \subseteq FiniteSubsetsOf(0 .. N)
    BY <1>1, <1>2, FS_FiniteSubsetsOfFinite
  <1>4. PICK x \in T : \A y \in T : ~ (<<y, x>> \in StrictSubsetOrdering(0 .. N))
    <2> HIDE DEF T
    <2> QED
      BY <1>2, <1>3, FS_StrictSubsetOrderingWellFounded, WFMin
  <1>5. PICK i \in S : x = Below(i)
    BY <1>4
  <1>6. \A j \in S : i <= j
    <2> SUFFICES ASSUME NEW j \in S, j < i
                 PROVE  FALSE
      OBVIOUS
    <2>1. Below(j) \in T
      OBVIOUS
    <2>2. i \in Nat /\ \A k \in S : k \in Nat
      OBVIOUS
    <2>3. Below(j) \subseteq Below(i)
      <3>1. \A k \in S : k <= j => k <= i
        BY <2>2
      <3> QED
        BY <3>1
    <2>4. i \in Below(i) /\ i \notin Below(j)
      BY <2>2
    <2> QED
      BY <1>2, <1>4, <1>5, <2>1, <2>3, <2>4 DEF StrictSubsetOrdering
  <1> QED
    BY <1>6

\* What holds at 0 and is handed on up to N holds for every index up to N.
THEOREM RangeInduction ==
    ASSUME NEW N \in Nat, NEW S, 0 \in S, \A i \in 0 .. N : i + 1 \in 0 .. N /\ i \in S => i + 1 \in S
    PROVE  0 .. N \subseteq S
  <1> SUFFICES ASSUME NEW n \in 0 .. N, n \notin S PROVE FALSE
    OBVIOUS
  <1> DEFINE Missing == {i \in 0 .. N : i \notin S}
  <1>1. PICK least \in Missing : \A j \in Missing : least <= j
    <2>1. Missing \in SUBSET (0 .. N) /\ Missing # {}
      OBVIOUS
    <2> HIDE DEF Missing
    <2> QED
      BY <2>1, LeastExists
  <1>2. least # 0 /\ least \in 0 .. N /\ least \notin S
    OBVIOUS
  <1>3. least - 1 \in 0 .. N /\ least - 1 \notin Missing
    BY <1>1, <1>2
  <1> QED
    BY <1>2, <1>3

\* A step for each number up to N, on the elements of a set D, can be taken
\* from any element on: what a recursive function over 0 .. N computes.
StepsThrough(g, N, D, base, step) ==
    /\ g \in [0 .. N -> D] /\ g[0] = base
    /\ \A i \in 1 .. N : g[i] = step[i][g[i - 1]]

THEOREM RangeRecursion ==
    ASSUME NEW N \in Nat, NEW D, NEW base \in D, NEW step \in [1 .. N -> [D -> D]]
    PROVE  \E g : StepsThrough(g, N, D, base, step)
  <1> DEFINE Runs(g, m) == /\ g \in [0 .. m -> D] /\ g[0] = base
                           /\ \A i \in 1 .. m : g[i] = step[i][g[i - 1]]
             S == {m \in 0 .. N : \E g : Runs(g, m)}
  <1>1. 0 \in S
    <2>1. Runs([i \in 0 .. 0 |-> base], 0)
      OBVIOUS
    <2>2. 0 \in 0 .. N
      OBVIOUS
    <2> HIDE DEF Runs
    <2> QED
      BY <2>1, <2>2
  <1>2. ASSUME NEW m \in 0 .. N, m + 1 \in 0 .. N, m \in S PROVE m + 1 \in S
    <2>1. PICK g : Runs(g, m)
      BY <1>2
    <2> DEFINE h == [i \in 0 .. m + 1 |-> IF i = m + 1 THEN step[m + 1][g[m]] ELSE g[i]]
    <2>2. m \in Nat /\ m + 1 \in 1 .. N
      BY <1>2
    <2>3. step[m + 1] \in [D -> D] /\ g[m] \in D
      BY <2>1, <2>2
    <2>4. h \in [0 .. m + 1 -> D] /\ h[0] = base
      BY <2>1, <2>2, <2>3
    <2>5. ASSUME NEW i \in 1 .. m + 1 PROVE h[i] = step[i][h[i - 1]]
      <3>1. CASE i = m + 1
        BY <2>2, <3>1
      <3>2. CASE i # m + 1
        <4>1. i \in 1 .. m /\ i - 1 \in 0 .. m + 1 /\ i - 1 # m + 1 /\ i \in 0 .. m + 1
          BY <2>2, <3>2
        <4>2. h[i] = g[i] /\ h[i - 1] = g[i - 1]
          BY <3>2, <4>1
        <4> QED
          BY <2>1, <4>1, <4>2
      <3> QED
        BY <3>1, <3>2
    <2>6. Runs(h, m + 1)
      BY <2>4, <2>5
    <2> QED
      BY <1>2, <2>6
  <1>3. N \in S
    <2> HIDE DEF S
    <2>1. 0 .. N \subseteq S
      BY <1>1, <1>2, RangeInduction
    <2> QED
      BY <2>1
  <1> QED
    BY <1>3 DEF StepsThrough

\* And a greatest one.
THEOREM GreatestExists ==
    ASSUME NEW N \in Nat, NEW S \in SUBSET (0 .. N), S # {}
    PROVE  \E i \in S : \A j \in S : j <= i
  <1> DEFINE Mirror == {N - i : i \in S}
  <1>1. Mirror \in SUBSET (0 .. N) /\ Mirror # {}
    <2>1. ASSUME NEW i \in S PROVE N - i \in 0 .. N
      <3>1. i \in 0 .. N
        OBVIOUS
      <3> QED
        BY <3>1
    <2> QED
      BY <2>1
  <1>2. PICK m \in Mirror : \A k \in Mirror : m <= k
    <2> HIDE DEF Mirror
    <2> QED
      BY <1>1, LeastExists
  <1>3. PICK i \in S : m = N - i
    BY <1>2
  <1>4. ASSUME NEW j \in S PROVE j <= i
    <2>1. N - j \in Mirror
      OBVIOUS
    <2>2. m <= N - j
      BY <1>2, <2>1
    <2> QED
      BY <1>3, <2>2
  <1> QED
    BY <1>4

\* A function defined along links that come nearer to an end exists: where it
\* does not stop at an element it has the value of the next one.
ChainEquation(g, M, stop, val, next) ==
    \A m \in M : g[m] = IF m \in stop THEN val[m] ELSE g[next[m]]

Nearer(M, size, stop, next, N) ==
    /\ size \in [M -> 0 .. N] /\ next \in [M -> M]
    /\ \A m \in M \ stop : size[next[m]] < size[m]

THEOREM ChainRecursion ==
    ASSUME NEW M, NEW D, NEW stop, NEW val \in [M -> D], NEW next, NEW size, NEW N \in Nat,
           Nearer(M, size, stop, next, N)
    PROVE  \E g \in [M -> D] : ChainEquation(g, M, stop, val, next)
  <1> DEFINE Turn == [g \in [M -> D] |-> [m \in M |-> IF m \in stop THEN val[m] ELSE g[next[m]]]]
             step == [i \in 1 .. N |-> Turn]
  <1>1. Turn \in [[M -> D] -> [M -> D]]
    BY DEF Nearer
  <1>2. step \in [1 .. N -> [[M -> D] -> [M -> D]]]
    BY <1>1
  <1>3. PICK runs : StepsThrough(runs, N, [M -> D], val, step)
    <2> HIDE DEF step
    <2> QED
      BY <1>2, RangeRecursion
  <1>4. runs \in [0 .. N -> [M -> D]] /\ \A i \in 1 .. N : runs[i] = Turn[runs[i - 1]]
    BY <1>3 DEF StepsThrough
  <1>0. runs[0] = val
    BY <1>3 DEF StepsThrough
  <1> DEFINE Same(n) == \A m \in M : size[m] < n => runs[n][m] = runs[n - 1][m]
             S == {n \in 0 .. N : n = 0 \/ Same(n)}
  <1>5. 0 \in S
    OBVIOUS
  <1>6. \A m \in M : size[m] \in 0 .. N
    BY DEF Nearer
  <1>7. ASSUME NEW n \in 1 .. N, NEW m \in M
        PROVE  runs[n][m] = IF m \in stop THEN val[m] ELSE runs[n - 1][next[m]]
    <2>1. n - 1 \in 0 .. N
      OBVIOUS
    <2>2. runs[n - 1] \in [M -> D]
      BY <1>4, <2>1
    <2>3. runs[n] = Turn[runs[n - 1]]
      BY <1>4
    <2>4. Turn[runs[n - 1]] = [k \in M |-> IF k \in stop THEN val[k] ELSE runs[n - 1][next[k]]]
      BY <2>2
    <2> QED
      BY <2>3, <2>4
  <1>8. ASSUME NEW n \in 0 .. N, n + 1 \in 0 .. N, n \in S PROVE n + 1 \in S
    <2>1. SUFFICES ASSUME NEW m \in M, size[m] < n + 1 PROVE runs[n + 1][m] = runs[n][m]
      BY <1>8
    <2>2. n + 1 \in 1 .. N /\ (n + 1) - 1 = n
      BY <1>8
    <2>3. runs[n + 1][m] = IF m \in stop THEN val[m] ELSE runs[n][next[m]]
      BY <1>7, <2>2
    <2>4. CASE n = 0
      <3>1. m \in stop
        <4>1. m \notin stop => size[next[m]] < size[m] /\ next[m] \in M
          BY DEF Nearer
        <4>2. m \notin stop => size[next[m]] \in 0 .. N
          BY <4>1, <1>6
        <4> QED
          BY <2>1, <2>4, <4>1, <4>2, <1>6
      <3> QED
        BY <1>0, <2>3, <2>4, <3>1
    <2>5. CASE n # 0
      <3>1. n \in 1 .. N
        BY <2>5
      <3>2. runs[n][m] = IF m \in stop THEN val[m] ELSE runs[n - 1][next[m]]
        BY <1>7, <3>1
      <3>3. m \notin stop => next[m] \in M /\ size[next[m]] < size[m]
        BY DEF Nearer
      <3>4. m \notin stop => size[next[m]] < n
        BY <2>1, <3>3, <1>6
      <3>5. m \notin stop => runs[n][next[m]] = runs[n - 1][next[m]]
        BY <1>8, <2>5, <3>3, <3>4
      <3> QED
        BY <2>3, <3>2, <3>5
    <2> QED
      BY <2>4, <2>5
  <1>9. 0 .. N \subseteq S
    <2> HIDE DEF S
    <2> QED
      BY <1>5, <1>8, RangeInduction
  <1>10. runs[N] \in [M -> D]
    BY <1>4
  <1>11. ASSUME NEW m \in M PROVE runs[N][m] = IF m \in stop THEN val[m] ELSE runs[N][next[m]]
    <2>1. CASE N = 0
      <3>1. m \in stop
        <4>1. m \notin stop => size[next[m]] < size[m] /\ next[m] \in M
          BY DEF Nearer
        <4>2. m \notin stop => size[next[m]] \in 0 .. N
          BY <4>1, <1>6
        <4> QED
          BY <2>1, <4>1, <4>2, <1>6
      <3> QED
        BY <1>0, <2>1, <3>1
    <2>2. CASE N # 0
      <3>1. N \in 1 .. N /\ N \in S
        BY <2>2, <1>9
      <3>2. runs[N][m] = IF m \in stop THEN val[m] ELSE runs[N - 1][next[m]]
        BY <1>7, <3>1
      <3>3. m \notin stop => next[m] \in M /\ size[next[m]] < size[m]
        BY DEF Nearer
      <3>4. m \notin stop => size[next[m]] < N
        BY <3>3, <1>6
      <3>5. m \notin stop => runs[N][next[m]] = runs[N - 1][next[m]]
        BY <2>2, <3>1, <3>3, <3>4
      <3> QED
        BY <3>2, <3>5
    <2> QED
      BY <2>1, <2>2
  <1> QED
    BY <1>10, <1>11 DEF ChainEquation
=============================================================================
