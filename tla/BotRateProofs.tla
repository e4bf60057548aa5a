---------------------------- MODULE BotRateProofs ----------------------------
(***************************************************************************)
(* Theorems of what the administrator configured: of BotRate, for any      *)
(* directory, configuration, robots.txt, pool and number of workers and    *)
(* requests, and, in the last parts, of ConfigMerge and of Robots.         *)
(***************************************************************************)
EXTENDS BotRate, ConfigMerge, Robots, LeastIndex, SequenceTheorems
-----------------------------------------------------------------------------
(* The passes that lay the budgets over the directory. *)

\* The layouts after the orders of a pass, one by one; they stay in a set that
\* every order stays in.
PassRun(g, l, orders, n, D) ==
    /\ g \in [0 .. n -> D] /\ g[0] = l /\ AfterPass(l, orders) = g[n]
    /\ \A k \in 1 .. n : g[k] = CarryOut(g[k - 1], orders[k])

LEMMA AfterPassRuns ==
    ASSUME NEW D, NEW l \in D, NEW orders, NEW n \in Nat, Len(orders) = n,
           \A k \in 1 .. n : \A x \in D : CarryOut(x, orders[k]) \in D
    PROVE  \E g : PassRun(g, l, orders, n, D)
  <1> DEFINE step == [k \in 1 .. n |-> [x \in D |-> CarryOut(x, orders[k])]]
             Rec(s) == s = [k \in 0 .. n |-> IF k = 0 THEN l ELSE CarryOut(s[k - 1], orders[k])]
             c == CHOOSE s : Rec(s)
  <1>1. step \in [1 .. n -> [D -> D]]
    OBVIOUS
  <1>2. PICK g \in [0 .. n -> D] : g[0] = l /\ \A k \in 1 .. n : g[k] = step[k][g[k - 1]]
    <2> HIDE DEF step
    <2>1. PICK g : StepsThrough(g, n, D, l, step)
      BY <1>1, RangeRecursion, Zenon
    <2> QED
      BY <2>1 DEF StepsThrough
  <1>3. \A k \in 1 .. n : g[k] = CarryOut(g[k - 1], orders[k])
    <2> SUFFICES ASSUME NEW k \in 1 .. n PROVE g[k] = CarryOut(g[k - 1], orders[k])
      OBVIOUS
    <2>1. k - 1 \in 0 .. n
      OBVIOUS
    <2>2. g[k - 1] \in D
      BY <1>2, <2>1
    <2> QED
      BY <1>2, <2>2
  <1>4. Rec(g)
    <2>1. ASSUME NEW k \in 0 .. n PROVE g[k] = IF k = 0 THEN l ELSE CarryOut(g[k - 1], orders[k])
      BY <1>2, <1>3, <2>1
    <2>2. g = [k \in 0 .. n |-> g[k]]
      BY <1>2
    <2> QED
      BY <2>1, <2>2
  <1>5. Rec(c)
    <2> HIDE DEF Rec
    <2> QED
      BY <1>4
  <1>6. AfterPass(l, orders) = c[n]
    BY DEF AfterPass
  <1>7. c[0] = l /\ \A k \in 1 .. n : c[k] = CarryOut(c[k - 1], orders[k])
    <2> HIDE DEF c
    <2> QED
      BY <1>5
  <1>8. c[n] = g[n]
    <2> DEFINE E == {k \in 0 .. n : c[k] = g[k]}
    <2> HIDE DEF c
    <2>1. 0 \in E
      BY <1>2, <1>7
    <2>2. ASSUME NEW k \in 0 .. n, k + 1 \in 0 .. n, k \in E PROVE k + 1 \in E
      <3>1. k + 1 \in 1 .. n /\ (k + 1) - 1 = k
        BY <2>2
      <3> QED
        BY <1>3, <1>7, <2>2, <3>1
    <2>3. 0 .. n \subseteq E
      <3> HIDE DEF E
      <3> QED
        BY <2>1, <2>2, RangeInduction
    <2> QED
      BY <2>3
  <1> HIDE DEF step, Rec, c
  <1>9. AfterPass(l, orders) = g[n]
    BY <1>6, <1>8
  <1>10. PassRun(g, l, orders, n, D)
    BY <1>2, <1>3, <1>9 DEF PassRun
  <1> QED
    BY <1>10
-----------------------------------------------------------------------------
(* Layouts. *)

Origins == {<<"robots", g>> : g \in Nat} \cup {<<"rule", i>> : i \in Nat}
               \cup {<<"wildcard">>, <<"total">>}

\* A counter of a configuration: if the configuration enforces all that it
\* says, the counter refuses too.
CountersOf(c) ==
    {x \in [origin : Origins, budget : Nat, observe : BOOLEAN, group : {0}] :
        Enforcing(c) => x.observe = FALSE}

Layouts(c) ==
    {l \in [slots : Seq(CountersOf(c)), by : [Slugs \cup Late -> Nat], named : [Names -> Nat]] :
        /\ \A s \in Slugs \cup Late : l.by[s] <= Len(l.slots)
        /\ \A x \in Names : l.named[x] <= Len(l.slots)}

OrdersOf(c) ==
    {OneForAll(x, S) : x \in CountersOf(c), S \in SUBSET Slugs}
    \cup {OneEach(x, S) : x \in CountersOf(c), S \in SUBSET Slugs}
    \cup {OneNamed(x, n) : x \in CountersOf(c), n \in Names \cup STRING}
    \cup {NoOrder}

Drained(l) == Len(l.slots) >= PoolSize

\* A layout that more orders led to: no fewer counters, none of them lost.
Grown(l, m) ==
    /\ Len(l.slots) <= Len(m.slots)
    /\ \A s \in Slugs \cup Late : l.by[s] # 0 => m.by[s] # 0
    /\ \A x \in Names : l.named[x] # 0 => m.named[x] # 0

LEMMA GrownTwice ==
    ASSUME NEW c, NEW l \in Layouts(c), NEW m \in Layouts(c), NEW k \in Layouts(c),
           Grown(l, m), Grown(m, k)
    PROVE  Grown(l, k)
  <1>1. Len(l.slots) \in Nat /\ Len(m.slots) \in Nat /\ Len(k.slots) \in Nat
    BY DEF Layouts
  <1> QED
    BY <1>1 DEF Grown

LEMMA NoCountersIsLayout == \A c : NoCounters \in Layouts(c)
  BY DEF NoCounters, Layouts

\* An order was carried out, if the pool had counters for it.
Allocated(c, l, m, x, slugs, names) ==
    /\ m \in Layouts(c) /\ Grown(l, m)
    /\ ~Drained(m) => /\ \A s \in slugs \cap (Slugs \cup Late) : m.by[s] # 0
                      /\ \A y \in names \cap Names : m.named[y] = Len(m.slots) /\ m.named[y] # 0
                      /\ m.slots[Len(m.slots)] = x

LEMMA AllocateGrows ==
    ASSUME NEW c, NEW l \in Layouts(c), NEW x \in CountersOf(c), NEW slugs, NEW names
    PROVE  Allocated(c, l, Allocate(l, x, slugs, names), x, slugs, names)
  <1> DEFINE m == Allocate(l, x, slugs, names)
             n == Len(l.slots)
  <1>1. l.slots \in Seq(CountersOf(c)) /\ l.by \in [Slugs \cup Late -> Nat] /\ l.named \in [Names -> Nat]
        /\ l = [slots |-> l.slots, by |-> l.by, named |-> l.named] /\ n \in Nat /\ PoolSize \in Nat
    BY BotRateAssumption DEF Layouts
  <1>2. (\A s \in Slugs \cup Late : l.by[s] <= n) /\ (\A y \in Names : l.named[y] <= n)
    BY DEF Layouts
  <1>3. CASE n >= PoolSize
    <2>1. m = l
      BY <1>3 DEF Allocate
    <2> QED
      BY <1>1, <1>3, <2>1 DEF Grown, Drained, Allocated
  <1>4. CASE ~(n >= PoolSize)
    <2>1. m = [slots |-> Append(l.slots, x),
               by    |-> [s \in Slugs \cup Late |-> IF s \in slugs THEN n + 1 ELSE l.by[s]],
               named |-> [y \in Names |-> IF y \in names THEN n + 1 ELSE l.named[y]]]
      BY <1>1, <1>4 DEF Allocate
    <2>2. m.slots = Append(l.slots, x) /\ Len(m.slots) = n + 1 /\ m.slots[n + 1] = x
          /\ m.slots \in Seq(CountersOf(c))
      BY <1>1, <2>1
    <2>3. /\ m.by \in [Slugs \cup Late -> Nat]
          /\ \A s \in Slugs \cup Late : m.by[s] = IF s \in slugs THEN n + 1 ELSE l.by[s]
      BY <1>1, <2>1
    <2>4. /\ m.named \in [Names -> Nat]
          /\ \A y \in Names : m.named[y] = IF y \in names THEN n + 1 ELSE l.named[y]
      BY <1>1, <2>1
    <2>5. \A s \in Slugs \cup Late : m.by[s] <= Len(m.slots) /\ (l.by[s] # 0 => m.by[s] # 0)
      BY SMTT(30), <1>1, <1>2, <2>2, <2>3
    <2>6. \A y \in Names : m.named[y] <= Len(m.slots) /\ (l.named[y] # 0 => m.named[y] # 0)
      BY <1>1, <1>2, <2>2, <2>4
    <2>7. m \in [slots : Seq(CountersOf(c)), by : [Slugs \cup Late -> Nat], named : [Names -> Nat]]
      <3>1. m = [slots |-> m.slots, by |-> m.by, named |-> m.named]
        BY <2>1
      <3> HIDE DEF m
      <3> QED
        BY <2>2, <2>3, <2>4, <3>1
    <2>8. m \in Layouts(c) /\ Grown(l, m)
      <3> HIDE DEF m
      <3> QED
        BY <1>1, <2>2, <2>5, <2>6, <2>7 DEF Layouts, Grown
    <2>9. (\A s \in slugs \cap (Slugs \cup Late) : m.by[s] # 0)
          /\ \A y \in names \cap Names : m.named[y] = Len(m.slots) /\ m.named[y] # 0
      <3> HIDE DEF m
      <3> QED
        BY <1>1, <2>2, <2>3, <2>4
    <2> QED
      BY <2>2, <2>8, <2>9 DEF Allocated
  <1> QED
    BY <1>3, <1>4

\* SetToSeq lists all the elements of a finite set, each once.
LEMMA Listed ==
    ASSUME NEW S, IsFiniteSet(S)
    PROVE  /\ SetToSeq(S) \in [1 .. Cardinality(S) -> S] /\ Cardinality(S) \in Nat
           /\ \A s \in S : \E k \in 1 .. Cardinality(S) : SetToSeq(S)[k] = s
  <1> DEFINE n == Cardinality(S)
  <1>1. n \in Nat /\ ExistsBijection(1 .. n, S)
    BY FS_CardinalityType
  <1>2. PICK f \in [1 .. n -> S] : IsInjective(f)
    BY <1>1 DEF ExistsBijection, Bijection, Injection
  <1>3. SetToSeq(S) \in [1 .. n -> S] /\ IsInjective(SetToSeq(S))
    BY <1>2 DEF SetToSeq
  <1>4. SetToSeq(S) \in Injection(1 .. n, S)
    BY <1>3 DEF Injection
  <1>5. Cardinality(1 .. n) = n
    BY <1>1, FS_Interval
  <1>6. SetToSeq(S) \in Surjection(1 .. n, S)
    BY <1>4, <1>5, FS_Injection
  <1> QED
    BY <1>1, <1>3, <1>6 DEF Surjection

\* Counters for some of the slugs that had none, behind those there were.
Shared(l, m, x, slugs) ==
    /\ \A k \in 1 .. Len(l.slots) : m.slots[k] = l.slots[k]
    /\ \A s \in Slugs :
           \/ m.by[s] = l.by[s]
           \/ s \in slugs /\ l.by[s] = 0 /\ m.by[s] # 0 /\ m.slots[m.by[s]] = x

LEMMA AllocateEachGrows ==
    ASSUME NEW c, NEW l \in Layouts(c), NEW x \in CountersOf(c), NEW slugs \in SUBSET Slugs
    PROVE  /\ AllocateEach(l, x, slugs) \in Layouts(c) /\ Grown(l, AllocateEach(l, x, slugs))
           /\ ~Drained(AllocateEach(l, x, slugs)) => \A s \in slugs : AllocateEach(l, x, slugs).by[s] # 0
           /\ Shared(l, AllocateEach(l, x, slugs), x, slugs)
  <1> DEFINE m    == AllocateEach(l, x, slugs)
             n    == Len(l.slots)
             none == {s \in slugs : l.by[s] = 0}
             left == SetToSeq(none)
             len  == Cardinality(none)
             got  == {k \in DOMAIN left : n + k <= PoolSize}
             nth(s) == {k \in got : left[k] = s}
  <1>1. l.slots \in Seq(CountersOf(c)) /\ l.by \in [Slugs \cup Late -> Nat] /\ l.named \in [Names -> Nat]
        /\ l = [slots |-> l.slots, by |-> l.by, named |-> l.named] /\ n \in Nat /\ PoolSize \in Nat
    BY BotRateAssumption DEF Layouts
  <1>2. (\A s \in Slugs \cup Late : l.by[s] <= n) /\ (\A y \in Names : l.named[y] <= n)
    BY DEF Layouts
  <1>3. /\ left \in [1 .. len -> none] /\ len \in Nat
        /\ \A s \in none : \E k \in 1 .. len : left[k] = s
    <2>1. IsFiniteSet(none)
      BY BotRateAssumption, FS_Subset
    <2> QED
      BY <2>1, Listed
  <1> DEFINE g == IF n >= PoolSize THEN 0 ELSE IF n + len <= PoolSize THEN len ELSE PoolSize - n
  <1>4. g \in 0 .. len /\ got = 1 .. g /\ (n + g < PoolSize => g = len)
    <2> HIDE DEF none, left, len, n
    <2>1. DOMAIN left = 1 .. len
      BY <1>3
    <2> QED
      BY <1>1, <1>3, <2>1
  <1>5. m = [slots |-> l.slots \o [k \in got |-> x],
             by    |-> [s \in Slugs \cup Late |-> IF nth(s) = {} THEN l.by[s] ELSE n + (CHOOSE k \in nth(s) : TRUE)],
             named |-> l.named]
    BY <1>1 DEF AllocateEach
  <1>6. \A s : nth(s) # {} => (CHOOSE k \in nth(s) : TRUE) \in got
    OBVIOUS
  <1> HIDE DEF none, left, len, n, g, got
  <1>7. /\ m.slots = l.slots \o [k \in 1 .. g |-> x]
        /\ \A s \in Slugs \cup Late : m.by[s] = IF nth(s) = {} THEN l.by[s] ELSE n + (CHOOSE k \in nth(s) : TRUE)
        /\ m.named = l.named /\ m = [slots |-> m.slots, by |-> m.by, named |-> m.named]
        /\ DOMAIN m.by = Slugs \cup Late /\ m.by = [s \in Slugs \cup Late |-> m.by[s]]
    BY <1>4, <1>5
  <1> HIDE DEF m
  <1>7a. g \in Nat /\ n \in Nat
    BY <1>1, <1>3, <1>4
  <1>8. /\ m.slots \in Seq(CountersOf(c)) /\ Len(m.slots) = n + g
        /\ \A k \in 1 .. n : m.slots[k] = l.slots[k]
        /\ \A k \in 1 .. g : m.slots[n + k] = x
    <2> DEFINE t == [k \in 1 .. g |-> x]
    <2>1. t \in Seq(CountersOf(c)) /\ Len(t) = g /\ \A k \in 1 .. g : t[k] = x
      BY <1>7a
    <2>2. m.slots = l.slots \o t /\ l.slots \in Seq(CountersOf(c)) /\ n = Len(l.slots)
      BY <1>1, <1>7 DEF n
    <2> HIDE DEF t
    <2>3. m.slots \in Seq(CountersOf(c)) /\ Len(m.slots) = n + g
      BY <2>1, <2>2, ConcatProperties
    <2>4. \A k \in 1 .. n : m.slots[k] = l.slots[k]
      BY <2>1, <2>2, ConcatProperties
    <2>5. \A k \in 1 .. g : m.slots[n + k] = t[k]
      BY <2>1, <2>2, ConcatProperties
    <2> QED
      BY <2>1, <2>3, <2>4, <2>5
  <1>9. ASSUME NEW s \in Slugs \cup Late
        PROVE  m.by[s] \in Nat /\ m.by[s] <= n + g /\ (l.by[s] # 0 => m.by[s] # 0) /\ (nth(s) # {} => m.by[s] # 0)
    <2>1. CASE nth(s) = {}
      <3>1. m.by[s] = l.by[s] /\ l.by[s] \in Nat /\ l.by[s] <= n
        BY <1>1, <1>2, <1>7, <2>1
      <3> QED
        BY <1>7a, <2>1, <3>1
    <2>2. CASE nth(s) # {}
      <3>1. m.by[s] = n + (CHOOSE k \in nth(s) : TRUE)
        BY <1>7, <2>2
      <3>2. (CHOOSE k \in nth(s) : TRUE) \in 1 .. g
        BY <1>4, <1>6, <2>2
      <3> HIDE DEF nth
      <3> QED
        BY <1>1, <1>3, <1>4, <3>1, <3>2
    <2> QED
      BY <2>1, <2>2
  <1>9a. ASSUME NEW s \in Slugs
         PROVE  \/ m.by[s] = l.by[s]
                \/ s \in slugs /\ l.by[s] = 0 /\ m.by[s] # 0 /\ m.slots[m.by[s]] = x
    <2>1. CASE nth(s) = {}
      BY <1>7, <2>1
    <2>2. CASE nth(s) # {}
      <3> DEFINE k == CHOOSE k \in nth(s) : TRUE
      <3>1. m.by[s] = n + k /\ k \in nth(s)
        BY <1>7, <2>2
      <3>2. k \in 1 .. g /\ left[k] = s
        BY <1>4, <3>1
      <3>3. s \in none
        BY <1>3, <1>4, <3>2
      <3> HIDE DEF k
      <3>4. n + k # 0
        BY <1>7a, <3>2
      <3> QED
        BY <1>8, <3>1, <3>2, <3>3, <3>4 DEF none
    <2> QED
      BY <2>1, <2>2
  <1> HIDE DEF nth
  <1>10. m \in Layouts(c) /\ Grown(l, m)
    <2>1. m.by \in [Slugs \cup Late -> Nat] /\ m.named \in [Names -> Nat]
      BY <1>1, <1>7, <1>9
    <2>2. m \in [slots : Seq(CountersOf(c)), by : [Slugs \cup Late -> Nat], named : [Names -> Nat]]
      BY <1>7, <1>8, <2>1
    <2>3. /\ \A s \in Slugs \cup Late : m.by[s] <= Len(m.slots)
          /\ \A y \in Names : m.named[y] <= Len(m.slots)
      <3>1. \A y \in Names : m.named[y] = l.named[y] /\ l.named[y] \in Nat
        BY <1>1, <1>7
      <3> QED
        BY <1>2, <1>7a, <1>8, <1>9, <3>1
    <2>4. Grown(l, m)
      <3>1. m.named = l.named /\ n = Len(l.slots) /\ n <= Len(m.slots)
        BY <1>7a, <1>7, <1>8 DEF n
      <3> QED
        BY <1>9, <3>1 DEF Grown
    <2> QED
      BY <2>2, <2>3, <2>4 DEF Layouts
  <1>11. ASSUME ~Drained(m), NEW s \in slugs PROVE m.by[s] # 0
    <2>1. n + g < PoolSize /\ g = len /\ s \in Slugs \cup Late
      BY <1>1, <1>3, <1>4, <1>8, <1>11 DEF Drained
    <2>2. CASE l.by[s] # 0
      BY <1>9, <2>1, <2>2
    <2>3. CASE l.by[s] = 0
      <3>1. PICK k \in 1 .. len : left[k] = s
        BY <1>3, <2>3 DEF none
      <3>2. nth(s) # {}
        BY <1>4, <2>1, <3>1 DEF nth
      <3> QED
        BY <1>9, <2>1, <3>2
    <2> QED
      BY <2>2, <2>3
  <1>12. Shared(l, m, x, slugs)
    BY <1>8, <1>9a DEF Shared, n
  <1> QED
    BY <1>10, <1>11, <1>12 DEF m

\* An order leads to a layout, and loses no counter.
LEMMA CarryOutGrows ==
    ASSUME NEW c, NEW l \in Layouts(c), NEW o \in OrdersOf(c)
    PROVE  CarryOut(l, o) \in Layouts(c) /\ Grown(l, CarryOut(l, o))
  <1>1. ASSUME NEW x \in CountersOf(c), NEW S \in SUBSET Slugs, o = OneForAll(x, S)
        PROVE  CarryOut(l, o) \in Layouts(c) /\ Grown(l, CarryOut(l, o))
    <2>1. CarryOut(l, o) = Allocate(l, x, S, {})
      BY <1>1 DEF CarryOut, OneForAll
    <2>2. Allocated(c, l, Allocate(l, x, S, {}), x, S, {})
      BY AllocateGrows
    <2> QED
      BY <2>1, <2>2 DEF Allocated
  <1>2. ASSUME NEW x \in CountersOf(c), NEW S \in SUBSET Slugs, o = OneEach(x, S)
        PROVE  CarryOut(l, o) \in Layouts(c) /\ Grown(l, CarryOut(l, o))
    <2>1. CarryOut(l, o) = AllocateEach(l, x, S)
      BY <1>2 DEF CarryOut, OneEach
    <2> QED
      BY <2>1, AllocateEachGrows
  <1>3. ASSUME NEW x \in CountersOf(c), NEW n \in Names \cup STRING, o = OneNamed(x, n)
        PROVE  CarryOut(l, o) \in Layouts(c) /\ Grown(l, CarryOut(l, o))
    <2>1. CarryOut(l, o) = Allocate(l, x, {}, {n})
      BY <1>3 DEF CarryOut, OneNamed
    <2>2. Allocated(c, l, Allocate(l, x, {}, {n}), x, {}, {n})
      BY AllocateGrows
    <2> QED
      BY <2>1, <2>2 DEF Allocated
  <1>4. ASSUME o = NoOrder
        PROVE  CarryOut(l, o) \in Layouts(c) /\ Grown(l, CarryOut(l, o))
    <2>1. CarryOut(l, o) = l
      BY <1>4 DEF CarryOut, NoOrder
    <2>2. Len(l.slots) \in Nat
      BY DEF Layouts
    <2> QED
      BY <2>1, <2>2 DEF Grown
  <1> QED
    BY <1>1, <1>2, <1>3, <1>4 DEF OrdersOf

\* So does a pass.
LEMMA PassGrows ==
    ASSUME NEW c, NEW l \in Layouts(c), NEW orders \in Seq(OrdersOf(c))
    PROVE  AfterPass(l, orders) \in Layouts(c) /\ Grown(l, AfterPass(l, orders))
  <1> DEFINE D == {m \in Layouts(c) : Grown(l, m)}
             n == Len(orders)
  <1>1. n \in Nat /\ \A k \in 1 .. n : orders[k] \in OrdersOf(c)
    OBVIOUS
  <1>2. l \in D
    <2>1. Len(l.slots) \in Nat
      BY DEF Layouts
    <2> QED
      BY <2>1 DEF Grown
  <1>3. ASSUME NEW k \in 1 .. n, NEW x \in D PROVE CarryOut(x, orders[k]) \in D
    <2>1. x \in Layouts(c) /\ Grown(l, x) /\ orders[k] \in OrdersOf(c)
      BY <1>1
    <2>2. CarryOut(x, orders[k]) \in Layouts(c) /\ Grown(x, CarryOut(x, orders[k]))
      BY <2>1, CarryOutGrows
    <2> QED
      BY <2>1, <2>2, GrownTwice
  <1>4. PICK g : PassRun(g, l, orders, n, D)
    <2> HIDE DEF D
    <2> QED
      BY <1>1, <1>2, <1>3, AfterPassRuns
  <1>5. n \in 0 .. n
    BY <1>1
  <1> QED
    BY <1>4, <1>5 DEF PassRun

\* The counters and the orders of a configuration.
LEMMA CounterIn ==
    ASSUME NEW c, NEW origin \in Origins, NEW budget \in Nat, NEW observe \in BOOLEAN,
           Enforcing(c) => observe = FALSE
    PROVE  Counter(origin, budget, observe) \in CountersOf(c)
  BY DEF Counter, CountersOf

LEMMA RuleCounterIn ==
    ASSUME NEW c \in Configs, NEW i \in DOMAIN c.rules
    PROVE  RuleCounter(c, i) \in CountersOf(c) /\ c.rules[i] \in BotRules
  <1>1. c.rules \in Seq(BotRules)
    BY ConfigsAssumption
  <1>2. i \in Nat /\ c.rules[i] \in BotRules
    BY <1>1
  <1>3. <<"rule", i>> \in Origins
    BY <1>2 DEF Origins
  <1>4. c.rules[i].budget \in Nat /\ c.rules[i].observe \in BOOLEAN
    BY <1>2 DEF BotRules
  <1>5. Enforcing(c) => c.rules[i].observe = FALSE
    BY <1>4 DEF Enforcing
  <1> QED
    BY <1>2, <1>3, <1>4, <1>5, CounterIn DEF RuleCounter

LEMMA OrderIn ==
    ASSUME NEW c, NEW x \in CountersOf(c)
    PROVE  /\ \A S \in SUBSET Slugs : OneForAll(x, S) \in OrdersOf(c) /\ OneEach(x, S) \in OrdersOf(c)
           /\ \A n \in Names \cup STRING : OneNamed(x, n) \in OrdersOf(c)
           /\ NoOrder \in OrdersOf(c)
  BY DEF OrdersOf

LEMMA RobotsOrdersIn ==
    ASSUME NEW c \in Configs
    PROVE  RobotsOrders(c) \in Seq(OrdersOf(c))
  <1>1. c.off \in BOOLEAN /\ c.robots \in Seq(DelayGroups)
    BY ConfigsAssumption
  <1>2. NoOrder \in OrdersOf(c)
    BY DEF OrdersOf
  <1>3. CASE c.off
    BY <1>3 DEF RobotsOrders
  <1>4. CASE ~c.off
    <2> DEFINE order(g) ==
            IF Won(c.robots, g) = {} \/ (c.robots[g].delay = 0 /\ c.wildcard = NoLimit)
            THEN NoOrder
            ELSE OneForAll(Counter(<<"robots", g>>,
                                IF c.robots[g].delay = 0 THEN Unlimited ELSE 1, FALSE),
                           Won(c.robots, g))
    <2>1. RobotsOrders(c) = [g \in DOMAIN c.robots |-> order(g)]
      BY <1>4 DEF RobotsOrders
    <2>2. ASSUME NEW g \in DOMAIN c.robots PROVE order(g) \in OrdersOf(c)
      <3> DEFINE x == Counter(<<"robots", g>>, IF c.robots[g].delay = 0 THEN Unlimited ELSE 1, FALSE)
      <3>1. g \in Nat
        BY <1>1
      <3>2. <<"robots", g>> \in Origins
        BY <3>1 DEF Origins
      <3>3. x \in CountersOf(c)
        BY <3>2, CounterIn DEF Unlimited
      <3>4. Won(c.robots, g) \in SUBSET Slugs
        BY DEF Won
      <3>5. OneForAll(x, Won(c.robots, g)) \in OrdersOf(c)
        <4> HIDE DEF x
        <4> QED
          BY <3>3, <3>4, OrderIn
      <3> QED
        BY <1>2, <3>5
    <2>3. DOMAIN c.robots = 1 .. Len(c.robots) /\ Len(c.robots) \in Nat
      BY <1>1
    <2> HIDE DEF order
    <2>4. [g \in 1 .. Len(c.robots) |-> order(g)] \in Seq(OrdersOf(c))
      BY <2>2, <2>3
    <2> QED
      BY <2>1, <2>3, <2>4
  <1> QED
    BY <1>1, <1>3, <1>4

LEMMA RuleOrdersIn ==
    ASSUME NEW c \in Configs
    PROVE  /\ EachOrders(c) \in Seq(OrdersOf(c))
           /\ BotgroupOrders(c) \in Seq(OrdersOf(c))
           /\ GroupOrders(c) \in Seq(OrdersOf(c))
  <1>1. c.rules \in Seq(BotRules)
    BY ConfigsAssumption
  <1>2. DOMAIN c.rules = 1 .. Len(c.rules) /\ Len(c.rules) \in Nat
    BY <1>1
  <1>3. NoOrder \in OrdersOf(c)
    BY DEF OrdersOf
  <1>4. ASSUME NEW i \in DOMAIN c.rules
        PROVE  /\ OneForAll(RuleCounter(c, i), c.rules[i].slugs) \in OrdersOf(c)
               /\ OneEach(RuleCounter(c, i), c.rules[i].slugs) \in OrdersOf(c)
               /\ OneNamed(RuleCounter(c, i), c.rules[i].group) \in OrdersOf(c)
    <2>1. RuleCounter(c, i) \in CountersOf(c) /\ c.rules[i] \in BotRules
      BY RuleCounterIn
    <2>2. c.rules[i].slugs \in SUBSET Slugs /\ c.rules[i].group \in STRING
      BY <2>1 DEF BotRules
    <2> QED
      BY <2>1, <2>2, OrderIn
  <1>5. EachOrders(c) \in Seq(OrdersOf(c))
    <2>1. [i \in 1 .. Len(c.rules) |-> IF c.rules[i].kind = "each" THEN OneForAll(RuleCounter(c, i), c.rules[i].slugs) ELSE NoOrder]
              \in Seq(OrdersOf(c))
      BY <1>2, <1>3, <1>4
    <2> QED
      BY <1>2, <2>1 DEF EachOrders
  <1>6. BotgroupOrders(c) \in Seq(OrdersOf(c))
    <2>1. [i \in 1 .. Len(c.rules) |-> IF c.rules[i].kind = "botgroup" THEN OneEach(RuleCounter(c, i), c.rules[i].slugs) ELSE NoOrder]
              \in Seq(OrdersOf(c))
      BY <1>2, <1>3, <1>4
    <2> QED
      BY <1>2, <2>1 DEF BotgroupOrders
  <1>7. GroupOrders(c) \in Seq(OrdersOf(c))
    <2> DEFINE first(i) == /\ c.rules[i].kind = "group"
                           /\ ~\E j \in 1 .. i - 1 : c.rules[j].kind = "group" /\ c.rules[j].group = c.rules[i].group
    <2>1. GroupOrders(c) = [i \in DOMAIN c.rules |-> IF first(i) THEN OneNamed(RuleCounter(c, i), c.rules[i].group) ELSE NoOrder]
      BY DEF GroupOrders
    <2> HIDE DEF first
    <2>2. [i \in 1 .. Len(c.rules) |-> IF first(i) THEN OneNamed(RuleCounter(c, i), c.rules[i].group) ELSE NoOrder]
              \in Seq(OrdersOf(c))
      BY <1>2, <1>3, <1>4
    <2> QED
      BY <1>2, <2>1, <2>2
  <1> QED
    BY <1>5, <1>6, <1>7

\* The counters that stand for more than one slug.
Aggregates == {"unknown", "no-ua", "fake", "fallback"}

\* What the wildcard promises: a counter for every slug, and the aggregates.
Covered(l) ==
    /\ \A s \in Slugs : l.by[s] # 0
    /\ \A x \in Aggregates : l.named[x] # 0

\* What the total promises.
Capped(c, l) ==
    /\ l.named["total"] # 0
    /\ l.slots[l.named["total"]].budget = c.total.budget

LEMMA GrownUndrained ==
    ASSUME NEW c, NEW l \in Layouts(c), NEW m \in Layouts(c), Grown(l, m), ~Drained(m)
    PROVE  ~Drained(l)
  <1>1. Len(l.slots) \in Nat /\ Len(m.slots) \in Nat /\ PoolSize \in Nat
    BY BotRateAssumption DEF Layouts
  <1> QED
    BY <1>1 DEF Grown, Drained

LEMMA WildCounterIn ==
    ASSUME NEW c \in Configs, c.wildcard # NoLimit
    PROVE  WildCounter(c) \in CountersOf(c)
  <1>1. c.wildcard \in [budget : Nat, observe : BOOLEAN]
    BY ConfigsAssumption DEF Limits
  <1>2. c.wildcard.budget \in Nat /\ c.wildcard.observe \in BOOLEAN
    BY <1>1
  <1>3. Enforcing(c) => c.wildcard.observe = FALSE
    BY <1>2 DEF Enforcing
  <1>4. <<"wildcard">> \in Origins
    BY DEF Origins
  <1> QED
    BY <1>2, <1>3, <1>4, CounterIn DEF WildCounter

LEMMA WildcardOrdersIn ==
    ASSUME NEW c \in Configs
    PROVE  WildcardOrders(c) \in Seq(OrdersOf(c))
  <1>1. CASE c.wildcard = NoLimit
    BY <1>1 DEF WildcardOrders
  <1>2. CASE c.wildcard # NoLimit
    <2>1. WildCounter(c) \in CountersOf(c)
      BY <1>2, WildCounterIn
    <2>2. /\ OneEach(WildCounter(c), Slugs) \in OrdersOf(c)
          /\ \A n \in Aggregates : OneNamed(WildCounter(c), n) \in OrdersOf(c)
      BY <2>1, OrderIn DEF Aggregates, Names
    <2> QED
      BY <1>2, <2>2 DEF WildcardOrders, Aggregates
  <1> QED
    BY <1>1, <1>2

LEMMA WildcardCovers ==
    ASSUME NEW c \in Configs, c.wildcard # NoLimit, NEW l \in Layouts(c),
           ~Drained(AfterPass(l, WildcardOrders(c)))
    PROVE  Covered(AfterPass(l, WildcardOrders(c)))
  <1> DEFINE orders == WildcardOrders(c)
             w == WildCounter(c)
             D == Layouts(c)
  <1>1. w \in CountersOf(c) /\ orders \in Seq(OrdersOf(c))
    BY WildCounterIn, WildcardOrdersIn
  <1>2. orders = <<OneEach(w, Slugs), OneNamed(w, "unknown"), OneNamed(w, "no-ua"),
                   OneNamed(w, "fake"), OneNamed(w, "fallback")>>
    BY DEF WildcardOrders
  <1>3. Len(orders) = 5 /\ \A k \in 1 .. 5 : orders[k] \in OrdersOf(c)
    <2>1. Len(orders) = 5
      BY <1>2
    <2> HIDE DEF orders
    <2>2. \A k \in 1 .. Len(orders) : orders[k] \in OrdersOf(c)
      BY <1>1
    <2> QED
      BY <2>1, <2>2
  <1>4. \A k \in 1 .. 5 : \A x \in D : CarryOut(x, orders[k]) \in D
    BY <1>3, CarryOutGrows
  <1>5. PICK g : PassRun(g, l, orders, 5, D)
    <2> DEFINE n == Len(orders)
    <2>0. l \in D
      OBVIOUS
    <2> HIDE DEF orders, D
    <2>1. n = 5 /\ n \in Nat /\ Len(orders) = n
      BY <1>3
    <2>2. \A k \in 1 .. n : \A x \in D : CarryOut(x, orders[k]) \in D
      BY <1>4, <2>1
    <2> HIDE DEF n
    <2>3. \E g : PassRun(g, l, orders, n, D)
      BY <2>0, <2>1, <2>2, AfterPassRuns
    <2> QED
      BY <2>1, <2>3
  <1>6. /\ g[0] = l /\ g[0] \in D /\ g[1] \in D /\ g[2] \in D /\ g[3] \in D /\ g[4] \in D /\ g[5] \in D
        /\ AfterPass(l, orders) = g[5]
    BY <1>5 DEF PassRun
  <1>7. /\ g[1] = CarryOut(g[0], orders[1]) /\ g[2] = CarryOut(g[1], orders[2])
        /\ g[3] = CarryOut(g[2], orders[3]) /\ g[4] = CarryOut(g[3], orders[4])
        /\ g[5] = CarryOut(g[4], orders[5])
    <2>1. \A k \in 1 .. 5 : g[k] = CarryOut(g[k - 1], orders[k])
      BY <1>5 DEF PassRun
    <2> QED
      BY <2>1
  <1>8. /\ g[1] = AllocateEach(g[0], w, Slugs)
        /\ g[2] = Allocate(g[1], w, {}, {"unknown"}) /\ g[3] = Allocate(g[2], w, {}, {"no-ua"})
        /\ g[4] = Allocate(g[3], w, {}, {"fake"}) /\ g[5] = Allocate(g[4], w, {}, {"fallback"})
    <2>1. CarryOut(g[0], orders[1]) = AllocateEach(g[0], w, Slugs)
      BY <1>2 DEF CarryOut, OneEach
    <2>2. \A m, n : CarryOut(m, OneNamed(w, n)) = Allocate(m, w, {}, {n})
      BY DEF CarryOut, OneNamed
    <2> QED
      BY <1>2, <1>7, <2>1, <2>2
  <1>9. /\ Allocated(c, g[1], g[2], w, {}, {"unknown"}) /\ Allocated(c, g[2], g[3], w, {}, {"no-ua"})
        /\ Allocated(c, g[3], g[4], w, {}, {"fake"}) /\ Allocated(c, g[4], g[5], w, {}, {"fallback"})
    <2> HIDE DEF w, D, orders
    <2>1. \A m \in Layouts(c) : \A n : Allocated(c, m, Allocate(m, w, {}, {n}), w, {}, {n})
      BY <1>1, AllocateGrows
    <2> QED
      BY <1>6, <1>8, <2>1 DEF D
  <1>10. ~Drained(g[5]) /\ Grown(g[1], g[2]) /\ Grown(g[2], g[3]) /\ Grown(g[3], g[4]) /\ Grown(g[4], g[5])
    BY <1>6, <1>9 DEF Allocated
  <1>11. ~Drained(g[4]) /\ Grown(g[3], g[5])
    BY <1>6, <1>10, GrownUndrained, GrownTwice
  <1>12. ~Drained(g[3]) /\ Grown(g[2], g[5])
    BY <1>6, <1>10, <1>11, GrownUndrained, GrownTwice
  <1>13. ~Drained(g[2]) /\ Grown(g[1], g[5])
    BY <1>6, <1>10, <1>12, GrownUndrained, GrownTwice
  <1>14. ~Drained(g[1])
    BY <1>6, <1>10, <1>13, GrownUndrained
  <1>15. \A s \in Slugs : g[1].by[s] # 0
    <2> HIDE DEF w, D, orders
    <2> QED
      BY <1>1, <1>6, <1>8, <1>14, AllocateEachGrows DEF D
  <1>16. \A s \in Slugs : g[5].by[s] # 0
    BY <1>13, <1>15 DEF Grown
  <1>17. Aggregates \subseteq Names
    BY DEF Aggregates, Names
  <1>18. /\ g[2].named["unknown"] # 0 /\ g[3].named["no-ua"] # 0
         /\ g[4].named["fake"] # 0 /\ g[5].named["fallback"] # 0
    BY <1>9, <1>10, <1>11, <1>12, <1>13, <1>17 DEF Allocated, Aggregates
  <1>19. \A x \in Aggregates : g[5].named[x] # 0
    BY <1>10, <1>11, <1>12, <1>17, <1>18 DEF Grown, Aggregates
  <1> QED
    BY <1>6, <1>16, <1>19 DEF Covered

LEMMA TotalCounterIn ==
    ASSUME NEW c \in Configs, c.total # NoLimit
    PROVE  Counter(<<"total">>, c.total.budget, c.total.observe) \in CountersOf(c)
  <1>1. c.total \in [budget : Nat, observe : BOOLEAN]
    BY ConfigsAssumption DEF Limits
  <1>2. c.total.budget \in Nat /\ c.total.observe \in BOOLEAN
    BY <1>1
  <1>3. Enforcing(c) => c.total.observe = FALSE
    BY <1>2 DEF Enforcing
  <1>4. <<"total">> \in Origins
    BY DEF Origins
  <1> QED
    BY <1>2, <1>3, <1>4, CounterIn

LEMMA TotalOrdersIn ==
    ASSUME NEW c \in Configs
    PROVE  TotalOrders(c) \in Seq(OrdersOf(c))
  <1>1. CASE c.total = NoLimit
    BY <1>1 DEF TotalOrders
  <1>2. CASE c.total # NoLimit
    <2> DEFINE x == Counter(<<"total">>, c.total.budget, c.total.observe)
    <2>1. x \in CountersOf(c)
      BY <1>2, TotalCounterIn
    <2> HIDE DEF x
    <2>2. OneNamed(x, "total") \in OrdersOf(c)
      BY <2>1, OrderIn DEF Names
    <2> QED
      BY <1>2, <2>2 DEF TotalOrders, x
  <1> QED
    BY <1>1, <1>2

LEMMA TotalCaps ==
    ASSUME NEW c \in Configs, c.total # NoLimit, NEW l \in Layouts(c),
           ~Drained(AfterPass(l, TotalOrders(c)))
    PROVE  Capped(c, AfterPass(l, TotalOrders(c)))
  <1> DEFINE orders == TotalOrders(c)
             x == Counter(<<"total">>, c.total.budget, c.total.observe)
             D == Layouts(c)
  <1>1. x \in CountersOf(c) /\ orders \in Seq(OrdersOf(c)) /\ x.budget = c.total.budget
    BY TotalCounterIn, TotalOrdersIn DEF Counter
  <1>2. orders = <<OneNamed(x, "total")>> /\ Len(orders) = 1
    BY DEF TotalOrders
  <1> HIDE DEF orders, x
  <1>3. \A k \in 1 .. 1 : \A m \in D : CarryOut(m, orders[k]) \in D
    <2>1. \A k \in 1 .. 1 : orders[k] \in OrdersOf(c)
      BY <1>1, <1>2
    <2> QED
      BY <2>1, CarryOutGrows
  <1>4. PICK g : PassRun(g, l, orders, 1, D)
    <2> DEFINE n == Len(orders)
    <2>0. l \in D
      OBVIOUS
    <2> HIDE DEF D
    <2>1. n = 1 /\ n \in Nat /\ Len(orders) = n
      BY <1>2
    <2>2. \A k \in 1 .. n : \A m \in D : CarryOut(m, orders[k]) \in D
      BY <1>3, <2>1
    <2> HIDE DEF n
    <2>3. \E g : PassRun(g, l, orders, n, D)
      BY <2>0, <2>1, <2>2, AfterPassRuns
    <2> QED
      BY <2>1, <2>3
  <1>5. g[0] = l /\ g[1] = CarryOut(g[0], orders[1]) /\ AfterPass(l, orders) = g[1]
    <2>1. \A k \in 1 .. 1 : g[k] = CarryOut(g[k - 1], orders[k])
      BY <1>4 DEF PassRun
    <2> QED
      BY <1>4, <2>1 DEF PassRun
  <1> DEFINE m == Allocate(l, x, {}, {"total"})
  <1>6. AfterPass(l, orders) = m
    <2>1. CarryOut(l, OneNamed(x, "total")) = m
      BY DEF CarryOut, OneNamed
    <2> HIDE DEF m
    <2> QED
      BY <1>2, <1>5, <2>1
  <1>7. Allocated(c, l, m, x, {}, {"total"}) /\ "total" \in Names /\ ~Drained(m)
    BY <1>1, <1>6, AllocateGrows DEF Names, orders
  <1>8. m.named["total"] = Len(m.slots) /\ m.named["total"] # 0 /\ m.slots[Len(m.slots)] = x
    <2> HIDE DEF m
    <2> QED
      BY <1>7 DEF Allocated
  <1> HIDE DEF m
  <1> QED
    BY <1>1, <1>6, <1>8 DEF Capped, orders

\* The layouts of a configuration.
LEMMA FullLayoutHolds ==
    ASSUME NEW c \in Configs
    PROVE  /\ FullLayout(c) \in Layouts(c)
           /\ c.wildcard # NoLimit /\ ~Drained(FullLayout(c)) => Covered(FullLayout(c))
           /\ c.total # NoLimit /\ ~Drained(FullLayout(c)) => Capped(c, FullLayout(c))
  <1> DEFINE l0 == AfterPass(NoCounters, RobotsOrders(c))
             l1 == AfterPass(l0, EachOrders(c))
             l2 == AfterPass(l1, BotgroupOrders(c))
             l3 == AfterPass(l2, WildcardOrders(c))
             l4 == AfterPass(l3, GroupOrders(c))
             l5 == AfterPass(l4, TotalOrders(c))
  <1>1. l0 \in Layouts(c)
    BY NoCountersIsLayout, RobotsOrdersIn, PassGrows
  <1>2. l1 \in Layouts(c)
    <2> HIDE DEF l0
    <2> QED
      BY <1>1, RuleOrdersIn, PassGrows
  <1>3. l2 \in Layouts(c)
    <2> HIDE DEF l1
    <2> QED
      BY <1>2, RuleOrdersIn, PassGrows
  <1>4. l3 \in Layouts(c)
    <2> HIDE DEF l2
    <2> QED
      BY <1>3, WildcardOrdersIn, PassGrows
  <1>5. l4 \in Layouts(c) /\ Grown(l3, l4)
    <2> HIDE DEF l3
    <2> QED
      BY <1>4, RuleOrdersIn, PassGrows
  <1>6. l5 \in Layouts(c) /\ Grown(l4, l5)
    <2> HIDE DEF l4
    <2> QED
      BY <1>5, TotalOrdersIn, PassGrows
  <1>7. FullLayout(c) = l5
    BY DEF FullLayout, SlugLayout
  <1>8. ASSUME c.total # NoLimit, ~Drained(l5) PROVE Capped(c, l5)
    <2> HIDE DEF l4
    <2> QED
      BY <1>5, <1>8, TotalCaps
  <1>9. ASSUME c.wildcard # NoLimit, ~Drained(l5) PROVE Covered(l5)
    <2> HIDE DEF l0, l1
    <2>1. Grown(l3, l5) /\ ~Drained(l3)
      <3> HIDE DEF l2, l3, l4, l5
      <3>1. Grown(l3, l5)
        BY <1>4, <1>5, <1>6, GrownTwice
      <3> QED
        BY <1>4, <1>6, <1>9, <3>1, GrownUndrained
    <2>2. Covered(l3)
      <3> HIDE DEF l2
      <3> QED
        BY <1>3, <1>9, <2>1, WildcardCovers
    <2> HIDE DEF l2, l3, l4, l5
    <2>3. Aggregates \subseteq Names
      BY DEF Aggregates, Names
    <2> QED
      BY <2>1, <2>2, <2>3 DEF Covered, Grown
  <1> HIDE DEF l5
  <1> QED
    BY <1>6, <1>7, <1>8, <1>9

\* The slug that the walk over the hash reaches last, if any.
LEMMA LastOfWalk ==
    ASSUME NEW order \in HashOrders, NEW slugs \in SUBSET Slugs, slugs # {}
    PROVE  \E s \in slugs : \A t \in slugs : order[t] <= order[s]
  <1> DEFINE n == Cardinality(Slugs)
             Back == {n - order[s] : s \in slugs}
  <1>1. n \in Nat
    BY BotRateAssumption, FS_CardinalityType
  <1>2. \A s \in slugs : order[s] \in 1 .. n
    BY DEF HashOrders
  <1>3. Back \in SUBSET (0 .. n) /\ Back # {}
    <2> HIDE DEF n
    <2> QED
      BY <1>1, <1>2
  <1>4. PICK i \in Back : \A j \in Back : i <= j
    <2> HIDE DEF Back, n
    <2> QED
      BY <1>1, <1>3, LeastExists
  <1>5. PICK s \in slugs : i = n - order[s]
    BY <1>4
  <1>6. \A t \in slugs : n - order[s] <= n - order[t]
    BY <1>4, <1>5
  <1> HIDE DEF n
  <1> QED
    BY <1>1, <1>2, <1>6

LEMMA WiredIn ==
    ASSUME NEW named \in [Names -> Nat], NEW order \in HashOrders, NEW slugs \in SUBSET Slugs,
           NEW N \in Nat, \A x \in Names : named[x] <= N
    PROVE  Wired(named, order, slugs) \in 0 .. N
  <1>1. CASE slugs = {}
    BY <1>1 DEF Wired
  <1>2. CASE slugs # {}
    <2> DEFINE s == CHOOSE s \in slugs : \A t \in slugs : order[t] <= order[s]
    <2>1. s \in slugs
      BY <1>2, LastOfWalk
    <2>2. Wired(named, order, slugs) = named[BotgroupOf[s]]
      BY <1>2 DEF Wired
    <2>3. BotgroupOf[s] \in Names
      BY <2>1 DEF Names
    <2> HIDE DEF s
    <2> QED
      BY <2>2, <2>3
  <1> QED
    BY <1>1, <1>2
-----------------------------------------------------------------------------
(* The tables of a server that has started. *)

\* Every counter is in the pool, as are the counters they lead to.
TablesFit ==
    /\ config \in Configs
    /\ Len(slots) \in Nat /\ DOMAIN slots = 1 .. Len(slots)
    /\ \A n \in 1 .. Len(slots) :
           /\ slots[n].budget \in Nat /\ slots[n].observe \in BOOLEAN
           /\ slots[n].group \in 0 .. Len(slots)
           /\ Enforcing(config) => ~slots[n].observe
    /\ bySlug \in [Slugs \cup Late -> 0 .. Len(slots)]
    /\ special \in [Names -> 0 .. Len(slots)]

\* What the ceiling is promised for.
Ceiling == Enforcing(config) /\ config.wildcard # NoLimit /\ Len(slots) < PoolSize

\* Then no crawler is without a counter, and the total has one.
TablesCover ==
    Ceiling =>
        /\ \A s \in Slugs : bySlug[s] # 0
        /\ \A x \in Aggregates : special[x] # 0
        /\ special["total"] # 0
        /\ slots[special["total"]].budget = config.total.budget
        /\ config.total.budget \in Nat \ {Unlimited}

LEMMA ConfiguredTables ==
    ASSUME config \in Configs, Configured(config)
    PROVE  TablesFit /\ TablesCover /\ spent = [n \in 1 .. Len(slots) |-> 0]
  <1> DEFINE l == FullLayout(config)
             mine(n) == {s \in Slugs : l.by[s] = n}
  <1>1. PICK order \in HashOrders :
            slots = [n \in DOMAIN l.slots |->
                        [l.slots[n] EXCEPT !.group = Wired(l.named, order, mine(n))]]
    BY DEF Configured
  <1>2. bySlug = l.by /\ special = l.named /\ spent = [n \in DOMAIN l.slots |-> 0]
    BY DEF Configured
  <1>3. l \in Layouts(config)
    BY FullLayoutHolds
  <1> HIDE DEF l
  <1> DEFINE N == Len(l.slots)
  <1>4. /\ N \in Nat /\ DOMAIN l.slots = 1 .. N /\ \A n \in 1 .. N : l.slots[n] \in CountersOf(config)
        /\ l.by \in [Slugs \cup Late -> Nat] /\ l.named \in [Names -> Nat]
        /\ \A s \in Slugs \cup Late : l.by[s] <= N
        /\ \A x \in Names : l.named[x] <= N
    BY <1>3 DEF Layouts
  <1>5. bySlug \in [Slugs \cup Late -> 0 .. N] /\ special \in [Names -> 0 .. N]
    <2>1. \A s \in Slugs \cup Late : l.by[s] \in 0 .. N
      BY <1>4
    <2>2. \A x \in Names : l.named[x] \in 0 .. N
      BY <1>4
    <2> HIDE DEF N
    <2> QED
      BY <1>2, <1>4, <2>1, <2>2
  <1>6. DOMAIN slots = 1 .. N /\ Len(slots) = N
    BY <1>1, <1>4
  <1>7. ASSUME NEW n \in 1 .. N
        PROVE  /\ slots[n].budget = l.slots[n].budget /\ slots[n].observe = l.slots[n].observe
               /\ slots[n].group = Wired(l.named, order, mine(n))
               /\ slots[n].budget \in Nat /\ slots[n].observe \in BOOLEAN
               /\ Enforcing(config) => ~slots[n].observe
    <2>1. l.slots[n] \in [origin : Origins, budget : Nat, observe : BOOLEAN, group : {0}]
          /\ (Enforcing(config) => l.slots[n].observe = FALSE)
      BY <1>4 DEF CountersOf
    <2>2. slots[n] = [l.slots[n] EXCEPT !.group = Wired(l.named, order, mine(n))]
      BY <1>1, <1>4
    <2> HIDE DEF mine
    <2> QED
      BY <2>1, <2>2
  <1>8. ASSUME NEW n \in 1 .. N PROVE slots[n].group \in 0 .. N
    <2>1. mine(n) \in SUBSET Slugs
      OBVIOUS
    <2> HIDE DEF mine, N
    <2>2. Wired(l.named, order, mine(n)) \in 0 .. N
      BY <1>4, <2>1, WiredIn
    <2> QED
      BY <1>7, <2>2
  <1> HIDE DEF mine, N
  <1>9. TablesFit
    BY <1>4, <1>5, <1>6, <1>7, <1>8 DEF TablesFit
  <1>10. ASSUME Ceiling PROVE Covered(l) /\ Capped(config, l) /\ config.total.budget \in Nat \ {Unlimited}
    <2>1. config.total # NoLimit /\ config.wildcard # NoLimit /\ config.total.budget # Unlimited
      BY <1>10 DEF Ceiling, Enforcing
    <2>2. ~Drained(l)
      <3>1. Len(slots) < PoolSize /\ PoolSize \in Nat
        BY <1>10, BotRateAssumption DEF Ceiling
      <3> QED
        BY <1>4, <1>6, <3>1 DEF Drained, N
    <2>3. config.total \in [budget : Nat, observe : BOOLEAN]
      BY <2>1, ConfigsAssumption DEF Limits
    <2> QED
      BY <2>1, <2>2, <2>3, FullLayoutHolds DEF l
  <1>11. ASSUME Ceiling PROVE slots[special["total"]].budget = config.total.budget
    <2>1. "total" \in Names
      BY DEF Names
    <2>2. special["total"] \in 1 .. N
      BY <1>2, <1>4, <1>5, <1>10, <1>11, <2>1 DEF Capped
    <2> QED
      BY <1>2, <1>7, <1>10, <1>11, <2>2 DEF Capped
  <1>12. TablesCover
    BY <1>2, <1>10, <1>11 DEF TablesCover, Covered, Capped
  <1> QED
    BY <1>2, <1>4, <1>6, <1>9, <1>12

\* The counter a client is looked up under is in the pool; under a ceiling
\* every crawler has one.
LEMMA OwnSlotIn ==
    ASSUME TablesFit, NEW cl \in Clients
    PROVE  OwnSlot(cl) \in 0 .. Len(slots)
  <1> DEFINE N == Len(slots)
             cand == Candidates(cl)
             found == {k \in DOMAIN cand : cand[k] # 0}
  <1>1. N \in Nat /\ bySlug \in [Slugs \cup Late -> 0 .. N] /\ special \in [Names -> 0 .. N]
    BY DEF TablesFit
  <1>2. /\ cl.known # NoLimit => cl.known \in Slugs \cup Late
        /\ cl.verified # NoLimit => cl.verified \in Slugs \cup Late
    BY DEF Clients, Client
  <1>3. {"no-ua", "unknown", "fake", "fallback"} \subseteq Names
    BY DEF Names
  <1>4. DOMAIN cand = 1 .. 6 /\ \A k \in 1 .. 6 : cand[k] \in 0 .. N
    <2> HIDE DEF N
    <2>1. /\ (IF cl.known = NoLimit THEN 0 ELSE bySlug[cl.known]) \in 0 .. N
          /\ (IF cl.verified = NoLimit THEN 0 ELSE bySlug[cl.verified]) \in 0 .. N
          /\ (IF cl.kind = "no-ua" THEN special["no-ua"] ELSE 0) \in 0 .. N
          /\ (IF cl.kind \in {"no-ua", "unknown"} THEN special["unknown"] ELSE 0) \in 0 .. N
          /\ (IF cl.kind = "fake" THEN special["fake"] ELSE 0) \in 0 .. N
          /\ (IF cl.kind \in {"known", "verified"} THEN special["fallback"] ELSE 0) \in 0 .. N
      BY <1>1, <1>2, <1>3
    <2> QED
      BY <2>1 DEF Candidates
  <1> HIDE DEF cand
  <1>5. CASE found = {}
    BY <1>1, <1>5 DEF OwnSlot, cand
  <1>6. CASE found # {}
    <2>1. found \in SUBSET (0 .. 6)
      BY <1>4
    <2>2. \E i \in found : \A j \in found : i <= j
      <3> HIDE DEF found
      <3> QED
        BY <1>6, <2>1, LeastExists
    <2>3. Min(found) \in found
      <3> HIDE DEF found
      <3> QED
        BY <2>2 DEF Min
    <2>4. OwnSlot(cl) = cand[Min(found)]
      BY <1>6 DEF OwnSlot, cand
    <2> HIDE DEF cand, N
    <2> QED
      BY <1>4, <2>3, <2>4 DEF N
  <1> QED
    BY <1>5, <1>6

LEMMA OwnSlotOfBot ==
    ASSUME TablesFit, TablesCover, Ceiling, NEW cl \in Clients, IsBot(cl)
    PROVE  OwnSlot(cl) # 0
  <1> DEFINE cand == Candidates(cl)
             found == {k \in DOMAIN cand : cand[k] # 0}
  <1>1. /\ \A s \in Slugs : bySlug[s] # 0
        /\ special["no-ua"] # 0 /\ special["unknown"] # 0 /\ special["fake"] # 0 /\ special["fallback"] # 0
    BY DEF TablesCover, Aggregates
  <1>2. \/ cl.kind = "known" \/ cl.kind = "verified" \/ cl.kind = "unknown" \/ cl.kind = "no-ua"
        \/ cl.kind = "fake"
    BY DEF Clients, Client, IsBot
  <1>3. DOMAIN cand = 1 .. 6 /\ cand[4] = (IF cl.kind \in {"no-ua", "unknown"} THEN special["unknown"] ELSE 0)
        /\ cand[5] = (IF cl.kind = "fake" THEN special["fake"] ELSE 0)
        /\ cand[6] = (IF cl.kind \in {"known", "verified"} THEN special["fallback"] ELSE 0)
    BY DEF Candidates
  <1> HIDE DEF cand
  <1>4. found # {}
    <2>1. cand[4] # 0 \/ cand[5] # 0 \/ cand[6] # 0
      BY <1>1, <1>2, <1>3
    <2> QED
      BY <1>3, <2>1
  <1>5. found \in SUBSET (0 .. 6)
    BY <1>3
  <1>6. \E i \in found : \A j \in found : i <= j
    <2> HIDE DEF found
    <2> QED
      BY <1>4, <1>5, LeastExists
  <1>7. Min(found) \in found
    <2> HIDE DEF found
    <2> QED
      BY <1>6 DEF Min
  <1>8. OwnSlot(cl) = cand[Min(found)]
    BY <1>4 DEF OwnSlot, cand
  <1> QED
    BY <1>7, <1>8

LEMMA TierIn ==
    ASSUME NEW N \in Nat, NEW n \in 0 .. N
    PROVE  /\ Tier(n) \in Seq(1 .. N) /\ Len(Tier(n)) \in Nat
           /\ n # 0 => Len(Tier(n)) = 1 /\ Tier(n)[1] = n
  <1>1. CASE n = 0
    <2>1. Tier(n) = <<>>
      BY <1>1 DEF Tier
    <2>2. <<>> \in Seq(1 .. N) /\ Len(<<>>) \in Nat
      OBVIOUS
    <2>3. Tier(n) \in Seq(1 .. N) /\ Len(Tier(n)) \in Nat
      BY <2>1, <2>2, Zenon
    <2> QED
      BY <1>1, <2>3
  <1>2. CASE n # 0
    <2>1. Tier(n) = <<n>> /\ n \in 1 .. N
      BY <1>2 DEF Tier
    <2> QED
      BY <1>2, <2>1
  <1> QED
    BY <1>1, <1>2

\* The tiers of a request end with the total, if there is one.
LEMMA TiersOfIn ==
    ASSUME TablesFit, NEW own \in 1 .. Len(slots)
    PROVE  /\ TiersOf(own) \in Seq(1 .. Len(slots)) /\ Len(TiersOf(own)) >= 1
           /\ special["total"] # 0 => TiersOf(own)[Len(TiersOf(own))] = special["total"]
  <1> DEFINE N == Len(slots)
             g == slots[own].group
             t == special["total"]
             first == Tier(own) \o Tier(g)
  <1>1. N \in Nat /\ own \in 0 .. N /\ own # 0 /\ g \in 0 .. N /\ t \in 0 .. N
    <2>1. "total" \in Names
      BY DEF Names
    <2> QED
      BY <2>1 DEF TablesFit
  <1>2. TiersOf(own) = first \o Tier(t)
    BY DEF TiersOf
  <1> HIDE DEF N, g, t
  <1>3. /\ Tier(own) \in Seq(1 .. N) /\ Tier(g) \in Seq(1 .. N) /\ Tier(t) \in Seq(1 .. N)
        /\ Len(Tier(own)) = 1 /\ Len(Tier(g)) \in Nat /\ Len(Tier(t)) \in Nat
        /\ t # 0 => Len(Tier(t)) = 1 /\ Tier(t)[1] = t
    BY <1>1, TierIn
  <1>4. first \in Seq(1 .. N) /\ Len(first) \in Nat /\ Len(first) >= 1
    <2>1. Tier(own) \in Seq(1 .. N) /\ Tier(g) \in Seq(1 .. N)
      BY <1>3
    <2>2. first \in Seq(1 .. N) /\ Len(first) = Len(Tier(own)) + Len(Tier(g))
      BY <2>1, ConcatProperties
    <2> HIDE DEF first
    <2> QED
      BY <1>3, <2>2
  <1> HIDE DEF first
  <1>5. TiersOf(own) \in Seq(1 .. N) /\ Len(TiersOf(own)) = Len(first) + Len(Tier(t))
    BY <1>2, <1>3, <1>4, ConcatProperties
  <1>6. ASSUME t # 0 PROVE TiersOf(own)[Len(TiersOf(own))] = t
    <2>1. Len(Tier(t)) = 1 /\ Tier(t)[1] = t
      BY <1>3, <1>6
    <2>2. (first \o Tier(t))[Len(first) + 1] = Tier(t)[1]
      <3> DEFINE k == Len(first) + 1
      <3>1. k \in 1 .. Len(first) + Len(Tier(t)) /\ ~(k <= Len(first)) /\ k - Len(first) = 1
        BY <1>4, <2>1
      <3> HIDE DEF k
      <3>2. (first \o Tier(t))[k] = IF k <= Len(first) THEN first[k] ELSE Tier(t)[k - Len(first)]
        BY <1>3, <1>4, <3>1, ConcatProperties
      <3>3. (first \o Tier(t))[k] = Tier(t)[1]
        BY <3>1, <3>2
      <3> QED
        BY <3>3 DEF k
    <2> QED
      BY <1>2, <1>5, <2>1, <2>2
  <1> QED
    BY <1>3, <1>4, <1>5, <1>6 DEF N, t
-----------------------------------------------------------------------------
(* The invariant. *)

\* A request under way: its tiers are counters of the pool, the last of them
\* the total if the ceiling is promised, and if its own counter refused, that
\* one had admitted its whole budget.
ChargeKept(a) ==
    /\ a \in [tiers : Seq(1 .. Len(slots)), at : Nat \ {0}, tripped : Nat, ownSpent : Nat, logOnly : BOOLEAN]
    /\ Len(a.tiers) >= 1 /\ a.at <= Len(a.tiers) + 1 /\ a.tripped < a.at
    /\ Ceiling => a.tiers[Len(a.tiers)] = special["total"]
    /\ a.tripped = 1 => a.ownSpent >= slots[a.tiers[1]].budget

AsksKept ==
    /\ DOMAIN ask = Workers /\ ask = [w \in Workers |-> ask[w]]
    /\ \A w \in Workers : ask[w] # NoAsk => ChargeKept(ask[w])

\* Requests that the total has admitted, and that are to be served.
Through(a) == a # NoAsk /\ ~GoesOn(a) /\ a.tripped = 0 /\ ~a.logOnly
Passed == {w \in Workers : Through(ask[w])}

\* Whoever was served, or is about to be, was admitted by the total.
ChargesKept ==
    /\ spent \in [1 .. Len(slots) -> Nat] /\ served \in Nat
    /\ Ceiling => /\ spent[special["total"]] <= config.total.budget
                  /\ served + Cardinality(Passed) <= spent[special["total"]]

BlamedKept == \A b \in blamed : b[1] >= b[2]

BotInv == TablesFit /\ TablesCover /\ AsksKept /\ ChargesKept /\ BlamedKept

LEMMA BotInvImplies == BotInv => CeilingHolds
  <1> SUFFICES ASSUME BotInv PROVE CeilingHolds
    OBVIOUS
  <1>1. \A b \in blamed : b[1] >= b[2]
    BY DEF BotInv, BlamedKept
  <1>2. ASSUME Ceiling PROVE served <= config.total.budget
    <2>1. special["total"] \in 1 .. Len(slots) /\ config.total.budget \in Nat
      <3>1. "total" \in Names
        BY DEF Names
      <3> QED
        BY <1>2, <3>1 DEF BotInv, TablesFit, TablesCover
    <2>2. IsFiniteSet(Passed)
      BY BotRateAssumption, FS_Subset DEF Passed
    <2>3. Cardinality(Passed) \in Nat
      BY <2>2, FS_CardinalityType
    <2> QED
      BY <1>2, <2>1, <2>3 DEF BotInv, ChargesKept
  <1> QED
    BY <1>1, <1>2 DEF CeilingHolds, Ceiling

LEMMA BotInitKeeps == BotInit => BotInv
  <1> SUFFICES ASSUME BotInit PROVE BotInv
    OBVIOUS
  <1>1. config \in Configs /\ Configured(config) /\ ask = [w \in Workers |-> NoAsk] /\ served = 0 /\ blamed = {}
    BY DEF BotInit
  <1>2. TablesFit /\ TablesCover /\ spent = [n \in 1 .. Len(slots) |-> 0]
    BY <1>1, ConfiguredTables
  <1>3. AsksKept /\ BlamedKept
    BY <1>1 DEF AsksKept, BlamedKept
  <1>4. Passed = {}
    BY <1>1 DEF Passed, Through
  <1>5. ChargesKept
    <2>1. spent \in [1 .. Len(slots) -> Nat]
      BY <1>2
    <2>2. ASSUME Ceiling
          PROVE  spent[special["total"]] <= config.total.budget /\ served + Cardinality(Passed) <= spent[special["total"]]
      <3>1. special["total"] \in 1 .. Len(slots) /\ config.total.budget \in Nat
        <4>1. "total" \in Names
          BY DEF Names
        <4> QED
          BY <1>2, <2>2, <4>1 DEF TablesFit, TablesCover
      <3>2. spent[special["total"]] = 0 /\ Cardinality(Passed) = 0
        BY <1>2, <1>4, <3>1, FS_EmptySet
      <3> QED
        BY <1>1, <3>1, <3>2
    <2> QED
      BY <1>1, <2>1, <2>2 DEF ChargesKept
  <1> QED
    BY <1>2, <1>3, <1>5 DEF BotInv

\* How a step of one request changes who is through.
LEMMA PassedFinite == IsFiniteSet(Passed) /\ Cardinality(Passed) \in Nat
  <1>1. IsFiniteSet(Passed)
    BY BotRateAssumption, FS_Subset DEF Passed
  <1> QED
    BY <1>1, FS_CardinalityType

LEMMA PassedMoves ==
    ASSUME AsksKept, NEW w \in Workers, NEW x, ask' = [ask EXCEPT ![w] = x]
    PROVE  /\ Cardinality(Passed') \in Nat
           /\ Cardinality(Passed') <= Cardinality(Passed) + 1
           /\ ~Through(x) => Cardinality(Passed') <= Cardinality(Passed)
           /\ ~Through(x) /\ Through(ask[w]) => Cardinality(Passed') + 1 = Cardinality(Passed)
  <1>1. ask'[w] = x /\ \A v \in Workers : v # w => ask'[v] = ask[v]
    BY DEF AsksKept
  <1>2. Passed' = {v \in Workers : Through(ask'[v])}
    BY DEF Passed, Through, GoesOn
  <1>3. IsFiniteSet(Passed) /\ Cardinality(Passed) \in Nat
    BY PassedFinite
  <1>4. CASE Through(x)
    <2>1. Passed' = Passed \cup {w}
      BY <1>1, <1>2, <1>4 DEF Passed
    <2> QED
      BY <1>3, <1>4, <2>1, FS_AddElement
  <1>5. CASE ~Through(x)
    <2>1. Passed' = Passed \ {w}
      BY <1>1, <1>2, <1>5 DEF Passed
    <2>2. w \in Passed <=> Through(ask[w])
      BY DEF Passed
    <2>3. Cardinality(Passed') = IF w \in Passed THEN Cardinality(Passed) - 1 ELSE Cardinality(Passed)
      BY <1>3, <2>1, FS_RemoveElement
    <2>4. w \in Passed => Cardinality(Passed) # 0
      BY <1>3, FS_EmptySet
    <2> QED
      BY <1>3, <1>5, <2>2, <2>3, <2>4
  <1> QED
    BY <1>4, <1>5

\* The tables do not change once the server has started.
Static == UNCHANGED <<config, slots, bySlug, special>>

LEMMA TablesStay ==
    ASSUME TablesFit, TablesCover, Static
    PROVE  TablesFit' /\ TablesCover' /\ (Ceiling' <=> Ceiling)
  BY DEF TablesFit, TablesCover, Static, Ceiling

LEMMA AsksMove ==
    ASSUME AsksKept, Static, NEW w \in Workers, NEW x, x # NoAsk => ChargeKept(x),
           ask' = [ask EXCEPT ![w] = x]
    PROVE  AsksKept'
  <1>1. DOMAIN ask' = Workers /\ ask' = [v \in Workers |-> ask'[v]]
    BY DEF AsksKept
  <1>2. \A v \in Workers : ask'[v] # NoAsk => ChargeKept(ask'[v])
    BY DEF AsksKept
  <1>3. \A v \in Workers : ChargeKept(ask'[v]) => ChargeKept(ask[v])'
    BY DEF ChargeKept, Static, Ceiling
  <1> QED
    BY <1>1, <1>2, <1>3 DEF AsksKept

\* The total of a promised ceiling.
LEMMA TotalIn ==
    ASSUME TablesFit, TablesCover, Ceiling
    PROVE  special["total"] \in 1 .. Len(slots) /\ config.total.budget \in Nat \ {0}
           /\ slots[special["total"]].budget = config.total.budget
  <1>1. "total" \in Names
    BY DEF Names
  <1> QED
    BY <1>1 DEF TablesFit, TablesCover, Unlimited

LEMMA AskKeeps ==
    ASSUME BotInv, NEW w \in Workers, Ask(w)
    PROVE  BotInv'
  <1>1. ask[w] = NoAsk /\ Static /\ spent' = spent /\ blamed' = blamed
    BY DEF Ask, Static
  <1>2. PICK cl \in Clients, logOnly \in BOOLEAN :
           IF OwnSlot(cl) = 0
           THEN /\ served' = IF IsBot(cl) /\ ~logOnly THEN served + 1 ELSE served
                /\ UNCHANGED ask
           ELSE /\ ask' = [ask EXCEPT ![w] = Charging(TiersOf(OwnSlot(cl)), logOnly)]
                /\ UNCHANGED served
    BY DEF Ask
  <1>3. TablesFit /\ TablesCover /\ AsksKept /\ ChargesKept /\ BlamedKept
    BY DEF BotInv
  <1>4. TablesFit' /\ TablesCover' /\ (Ceiling' <=> Ceiling) /\ BlamedKept'
    BY <1>1, <1>3, TablesStay DEF BlamedKept
  <1>5. CASE OwnSlot(cl) = 0
    <2>1. ask' = ask /\ served' \in Nat /\ (Ceiling => served' = served)
      BY <1>2, <1>3, <1>5, OwnSlotOfBot DEF ChargesKept
    <2>2. AsksKept'
      BY <1>1, <1>3, <2>1 DEF AsksKept, ChargeKept, Static, Ceiling
    <2>3. Passed' = Passed
      BY <2>1 DEF Passed, Through, GoesOn
    <2>4. ChargesKept'
      BY <1>1, <1>3, <1>4, <2>1, <2>3 DEF ChargesKept, Static
    <2> QED
      BY <1>4, <2>2, <2>4 DEF BotInv
  <1>6. CASE OwnSlot(cl) # 0
    <2> DEFINE own == OwnSlot(cl)
               x == Charging(TiersOf(own), logOnly)
    <2>1. own \in 1 .. Len(slots) /\ Len(slots) \in Nat
      <3>1. own \in 0 .. Len(slots) /\ Len(slots) \in Nat
        BY <1>3, OwnSlotIn DEF TablesFit
      <3> QED
        BY <1>6, <3>1
    <2>2. ask' = [ask EXCEPT ![w] = x] /\ served' = served
      BY <1>2, <1>6
    <2> HIDE DEF own
    <2>3. /\ TiersOf(own) \in Seq(1 .. Len(slots)) /\ Len(TiersOf(own)) >= 1
          /\ special["total"] # 0 => TiersOf(own)[Len(TiersOf(own))] = special["total"]
      BY <1>3, <2>1, TiersOfIn
    <2>4. Ceiling => special["total"] # 0
      BY <1>3 DEF TablesCover
    <2>5. ChargeKept(x) /\ ~Through(x)
      <3>1. x = [tiers |-> TiersOf(own), at |-> 1, tripped |-> 0, ownSpent |-> 0, logOnly |-> logOnly]
        BY DEF Charging
      <3> HIDE DEF x
      <3>2. x \in [tiers : Seq(1 .. Len(slots)), at : Nat \ {0}, tripped : Nat, ownSpent : Nat, logOnly : BOOLEAN]
        BY <2>3, <3>1
      <3>3. x.at = 1 /\ x.tiers = TiersOf(own) /\ x.tripped = 0
        BY <3>1
      <3>4. Len(x.tiers) \in Nat
        BY <3>2
      <3> QED
        BY <2>3, <2>4, <3>2, <3>3, <3>4 DEF ChargeKept, Through, GoesOn
    <2> HIDE DEF x
    <2>6. AsksKept'
      BY <1>1, <1>3, <2>2, <2>5, AsksMove
    <2>7. Cardinality(Passed') \in Nat /\ Cardinality(Passed') <= Cardinality(Passed) /\ Cardinality(Passed) \in Nat
      BY <1>3, <2>2, <2>5, PassedMoves, PassedFinite
    <2>8. ChargesKept'
      <3>1. ASSUME Ceiling PROVE served + Cardinality(Passed') <= spent[special["total"]]
        <4>1. spent[special["total"]] \in Nat /\ served \in Nat /\ served + Cardinality(Passed) <= spent[special["total"]]
          BY <1>3, <3>1, TotalIn DEF ChargesKept
        <4> QED
          BY <2>7, <4>1
      <3> QED
        BY <1>1, <1>3, <1>4, <2>2, <3>1 DEF ChargesKept, Static
    <2> QED
      BY <1>4, <2>6, <2>8 DEF BotInv
  <1> QED
    BY <1>5, <1>6

\* A tier leaves a request as the invariant has it.
LEMMA ChargedKept ==
    ASSUME TablesFit, NEW a, ChargeKept(a), GoesOn(a), spent \in [1 .. Len(slots) -> Nat]
    PROVE  a.tiers[a.at] \in 1 .. Len(slots) /\ ChargeKept(Charged(a, a.tiers[a.at]))
  <1> DEFINE n == a.tiers[a.at]
             x == Charged(a, n)
  <1>1. /\ a.tiers \in Seq(1 .. Len(slots)) /\ a.at \in Nat \ {0} /\ a.tripped \in Nat /\ a.ownSpent \in Nat
        /\ a.logOnly \in BOOLEAN /\ Len(a.tiers) \in Nat
        /\ Len(a.tiers) >= 1 /\ a.at <= Len(a.tiers) /\ a.tripped < a.at
        /\ a.tripped = 1 => a.ownSpent >= slots[a.tiers[1]].budget
        /\ Ceiling => a.tiers[Len(a.tiers)] = special["total"]
    BY DEF ChargeKept, GoesOn
  <1>2. n \in 1 .. Len(slots)
    <2>1. a.at \in 1 .. Len(a.tiers)
      BY <1>1
    <2> QED
      BY <1>1, <2>1
  <1>3. spent[n] \in Nat /\ slots[n].budget \in Nat
    BY <1>2 DEF TablesFit
  <1> HIDE DEF n
  <1>4. /\ x.tiers = a.tiers /\ x.at = a.at + 1 /\ x.logOnly = a.logOnly
        /\ x.tripped = IF a.tripped = 0 /\ ~SlotAdmits(n) THEN a.at ELSE a.tripped
        /\ x.ownSpent = IF a.at = 1 THEN spent[n] ELSE a.ownSpent
        /\ x = [tiers |-> x.tiers, at |-> x.at, tripped |-> x.tripped, ownSpent |-> x.ownSpent, logOnly |-> x.logOnly]
    BY DEF Charged
  <1> HIDE DEF x
  <1>5. x.at \in Nat \ {0} /\ x.tripped \in Nat /\ x.ownSpent \in Nat /\ x.tripped < x.at /\ x.at <= Len(x.tiers) + 1
    BY SMTT(30), <1>1, <1>3, <1>4
  <1>6. x \in [tiers : Seq(1 .. Len(slots)), at : Nat \ {0}, tripped : Nat, ownSpent : Nat, logOnly : BOOLEAN]
    BY <1>1, <1>4, <1>5
  <1>7. ASSUME x.tripped = 1 PROVE x.ownSpent >= slots[x.tiers[1]].budget
    <2>1. CASE a.tripped = 0 /\ ~SlotAdmits(n)
      <3>1. a.at = 1 /\ n = a.tiers[1]
        BY <1>4, <1>7, <2>1 DEF n
      <3>2. spent[n] >= slots[n].budget
        BY <1>3, <2>1 DEF SlotAdmits
      <3> QED
        BY <1>4, <3>1, <3>2
    <2>2. CASE ~(a.tripped = 0 /\ ~SlotAdmits(n))
      <3>1. a.tripped = 1 /\ a.at # 1
        BY <1>1, <1>4, <1>7, <2>2
      <3> QED
        BY <1>1, <1>4, <3>1
    <2> QED
      BY <2>1, <2>2
  <1>8. ChargeKept(x)
    BY <1>1, <1>4, <1>5, <1>6, <1>7 DEF ChargeKept
  <1> QED
    BY <1>2, <1>8 DEF n, x

LEMMA ChargeKeeps ==
    ASSUME BotInv, NEW w \in Workers, Charge(w)
    PROVE  BotInv'
  <1> DEFINE a == ask[w]
             n == a.tiers[a.at]
             x == Charged(a, n)
             T == special["total"]
  <1>1. TablesFit /\ TablesCover /\ AsksKept /\ ChargesKept /\ BlamedKept
    BY DEF BotInv
  <1>2. a # NoAsk /\ GoesOn(a) /\ Static /\ served' = served /\ blamed' = blamed
    BY DEF Charge, Static
  <1>3. ChargeKept(a) /\ spent \in [1 .. Len(slots) -> Nat] /\ served \in Nat
    BY <1>1, <1>2 DEF AsksKept, ChargesKept
  <1>4. n \in 1 .. Len(slots) /\ ChargeKept(x)
    BY <1>1, <1>2, <1>3, ChargedKept
  <1>5. ask' = [ask EXCEPT ![w] = x]
    BY DEF Charge
  <1>6. spent' = IF SlotAdmits(n) /\ slots[n].budget # Unlimited THEN [spent EXCEPT ![n] = @ + 1] ELSE spent
    BY DEF Charge
  <1>7. TablesFit' /\ TablesCover' /\ (Ceiling' <=> Ceiling) /\ BlamedKept'
    BY <1>1, <1>2, TablesStay DEF BlamedKept
  <1>8. AsksKept'
    <2> HIDE DEF x
    <2> QED
      BY <1>1, <1>2, <1>4, <1>5, AsksMove
  <1>9. spent' \in [1 .. Len(slots) -> Nat]
    <2> HIDE DEF n
    <2> QED
      BY <1>3, <1>4, <1>6
  <1>10. ASSUME Ceiling
         PROVE  spent'[T] <= config.total.budget /\ served + Cardinality(Passed') <= spent'[T]
    <2>1. T \in 1 .. Len(slots) /\ config.total.budget \in Nat \ {0} /\ slots[T].budget = config.total.budget
      BY <1>1, <1>10, TotalIn
    <2>2. spent[T] \in Nat /\ spent[T] <= config.total.budget /\ served + Cardinality(Passed) <= spent[T]
      BY <1>1, <1>10, <2>1 DEF ChargesKept
    <2>3. Cardinality(Passed) \in Nat
      BY PassedFinite
    <2>4. /\ Cardinality(Passed') \in Nat /\ Cardinality(Passed') <= Cardinality(Passed) + 1
          /\ ~Through(x) => Cardinality(Passed') <= Cardinality(Passed)
      <3> HIDE DEF x
      <3> QED
        BY <1>1, <1>5, PassedMoves
    <2>5. spent'[T] = IF n = T /\ SlotAdmits(T) THEN spent[T] + 1 ELSE spent[T]
      <3> HIDE DEF n, T
      <3> QED
        BY <1>3, <1>4, <1>6, <2>1 DEF Unlimited
    <2>6. SlotAdmits(T) <=> spent[T] < config.total.budget
      BY <2>1 DEF SlotAdmits, Unlimited
    <2>7. ASSUME Through(x) PROVE n = T /\ SlotAdmits(T)
      <3>1. x.at = a.at + 1 /\ x.tiers = a.tiers /\ x.tripped = (IF a.tripped = 0 /\ ~SlotAdmits(n) THEN a.at ELSE a.tripped)
        BY DEF Charged
      <3>2. ~(x.at <= Len(x.tiers)) /\ x.tripped = 0
        BY <2>7 DEF Through, GoesOn
      <3>3. a.at \in Nat \ {0} /\ Len(a.tiers) \in Nat /\ a.at <= Len(a.tiers)
        BY <1>2, <1>3 DEF ChargeKept, GoesOn
      <3>4. a.at = Len(a.tiers)
        <4> HIDE DEF a, x
        <4> QED
          BY <3>1, <3>2, <3>3
      <3>5. n = T
        BY <1>3, <1>10, <3>4 DEF ChargeKept
      <3>6. SlotAdmits(n)
        <4> HIDE DEF a, x, n
        <4> QED
          BY <3>1, <3>2, <3>3
      <3> QED
        BY <3>5, <3>6
    <2>8. CASE Through(x)
      <3>1. spent'[T] = spent[T] + 1 /\ spent[T] < config.total.budget
        BY <2>5, <2>6, <2>7, <2>8
      <3> HIDE DEF T, x
      <3> QED
        BY <1>3, <2>1, <2>2, <2>3, <2>4, <3>1
    <2>9. CASE ~Through(x)
      <3>1. spent'[T] \in Nat /\ spent'[T] >= spent[T] /\ spent'[T] <= config.total.budget
        <4> HIDE DEF T, n
        <4> QED
          BY <2>1, <2>2, <2>5, <2>6
      <3> HIDE DEF T, x
      <3> QED
        BY <1>3, <2>2, <2>3, <2>4, <2>9, <3>1
    <2> QED
      BY <2>8, <2>9
  <1>11. ChargesKept'
    <2> HIDE DEF a, n, x
    <2> QED
      BY <1>2, <1>3, <1>7, <1>9, <1>10 DEF ChargesKept, Static
  <1> QED
    BY <1>7, <1>8, <1>11 DEF BotInv

\* A finished request leaves.
LEMMA LeaveKeeps ==
    ASSUME BotInv, NEW w \in Workers, Static, spent' = spent, ask' = [ask EXCEPT ![w] = NoAsk],
           BlamedKept', served' \in Nat,
           Ceiling /\ served' # served => served' = served + 1 /\ Through(ask[w])
    PROVE  BotInv'
  <1>1. TablesFit /\ TablesCover /\ AsksKept /\ ChargesKept
    BY DEF BotInv
  <1>2. TablesFit' /\ TablesCover' /\ (Ceiling' <=> Ceiling)
    BY <1>1, TablesStay
  <1>3. AsksKept' /\ ~Through(NoAsk)
    BY <1>1, AsksMove DEF Through
  <1>4. /\ Cardinality(Passed') \in Nat /\ Cardinality(Passed) \in Nat
        /\ Cardinality(Passed') <= Cardinality(Passed)
        /\ Through(ask[w]) => Cardinality(Passed') + 1 = Cardinality(Passed)
    BY <1>1, <1>3, PassedMoves, PassedFinite
  <1>5. ASSUME Ceiling PROVE served' + Cardinality(Passed') <= spent[special["total"]]
    <2>1. spent[special["total"]] \in Nat /\ served \in Nat /\ served + Cardinality(Passed) <= spent[special["total"]]
      BY <1>1, <1>5, TotalIn DEF ChargesKept
    <2>2. CASE served' = served
      BY <1>4, <2>1, <2>2
    <2>3. CASE served' # served
      BY <1>4, <1>5, <2>1, <2>3
    <2> QED
      BY <2>2, <2>3
  <1>6. ChargesKept'
    BY <1>1, <1>2, <1>5 DEF ChargesKept, Static
  <1> QED
    BY <1>2, <1>3, <1>6 DEF BotInv

LEMMA ServeKeeps ==
    ASSUME BotInv, NEW w \in Workers, Serve(w)
    PROVE  BotInv'
  <1> DEFINE a == ask[w]
  <1>1. /\ a # NoAsk /\ ~GoesOn(a) /\ ~Refuses(a) /\ Static /\ spent' = spent /\ blamed' = blamed
        /\ served' = (IF a.logOnly THEN served ELSE served + 1) /\ ask' = [ask EXCEPT ![w] = NoAsk]
    BY DEF Serve, Finished, Static
  <1>2. TablesFit /\ ChargeKept(a) /\ served \in Nat /\ BlamedKept
    BY <1>1 DEF BotInv, AsksKept, ChargesKept
  <1>3. BlamedKept' /\ served' \in Nat
    BY <1>1, <1>2 DEF BlamedKept
  <1>4. ASSUME Ceiling, served' # served PROVE served' = served + 1 /\ Through(a)
    <2>1. ~a.logOnly /\ served' = served + 1
      BY <1>1, <1>4
    <2>2. a.tripped = 0
      <3> SUFFICES ASSUME a.tripped # 0 PROVE FALSE
        OBVIOUS
      <3>1. a.tiers \in Seq(1 .. Len(slots)) /\ a.tripped \in 1 .. Len(a.tiers)
        BY <1>2 DEF ChargeKept
      <3>2. a.tiers[a.tripped] \in 1 .. Len(slots)
        BY <3>1
      <3>3. ~TrippedSlot(a).observe
        BY <1>2, <1>4, <3>2 DEF TrippedSlot, TablesFit, Ceiling
      <3> QED
        BY <1>1, <2>1, <3>3 DEF Refuses
    <2> QED
      BY <1>1, <2>1, <2>2 DEF Through
  <1> QED
    BY <1>1, <1>3, <1>4, LeaveKeeps

LEMMA RefuseKeeps ==
    ASSUME BotInv, NEW w \in Workers, Refuse(w)
    PROVE  BotInv'
  <1> DEFINE a == ask[w]
             b == <<a.ownSpent, slots[a.tiers[1]].budget>>
  <1>1. /\ a # NoAsk /\ Static /\ spent' = spent /\ served' = served
        /\ blamed' = (IF Blames(a) THEN blamed \cup {b} ELSE blamed) /\ ask' = [ask EXCEPT ![w] = NoAsk]
    BY DEF Refuse, Finished, Static
  <1>2. ChargeKept(a) /\ served \in Nat /\ BlamedKept
    BY <1>1 DEF BotInv, AsksKept, ChargesKept
  <1>3. Blames(a) => b[1] >= b[2]
    BY <1>2 DEF ChargeKept, Blames
  <1>4. BlamedKept'
    <2> HIDE DEF b
    <2> QED
      BY <1>1, <1>2, <1>3 DEF BlamedKept
  <1> QED
    BY <1>1, <1>2, <1>4, LeaveKeeps

\* The invariant of the crawler budgets.
THEOREM BotInvariant == BotSpec => []BotInv
  <1>1. BotInv /\ [BotNext]_botVars => BotInv'
    <2> SUFFICES ASSUME BotInv, [BotNext]_botVars PROVE BotInv'
      OBVIOUS
    <2>1. CASE UNCHANGED botVars
      BY <2>1 DEF botVars, BotInv, TablesFit, TablesCover, AsksKept, ChargeKept, ChargesKept, BlamedKept,
             Ceiling, Passed, Through, GoesOn
    <2>2. ASSUME NEW w \in Workers, Ask(w) \/ Charge(w) \/ Serve(w) \/ Refuse(w) PROVE BotInv'
      BY <2>2, AskKeeps, ChargeKeeps, ServeKeeps, RefuseKeeps
    <2> QED
      BY <2>1, <2>2 DEF BotNext
  <1> QED
    BY <1>1, BotInitKeeps, PTL DEF BotSpec

\* The total is a ceiling over the crawlers let through, and only a client
\* whose own counter is used up is marked.
THEOREM CeilingIsKept == BotSpec => []CeilingHolds
  BY BotInvariant, BotInvImplies, PTL
-----------------------------------------------------------------------------
(* The robots.txt group that governs a slug. *)

ClaimsOrNone == {NoLimit} \cup [g : Nat, len : Nat]

GroupRun(r, robots, slug, claim, g, n) ==
    /\ r \in [0 .. n -> ClaimsOrNone] /\ r[0] = claim /\ GroupClaims(robots, slug, claim, g) = r[n]
    /\ \A i \in 1 .. n : r[i] = Claimed(robots, slug, r[i - 1], [g |-> g, tok |-> robots[g].tokens[i]])

LEMMA ClaimedIn ==
    ASSUME NEW robots, NEW slug, NEW claim \in ClaimsOrNone, NEW g \in Nat, NEW tok, tok.len \in Nat
    PROVE  Claimed(robots, slug, claim, [g |-> g, tok |-> tok]) \in ClaimsOrNone
  BY DEF Claimed, ClaimsOrNone

LEMMA GroupClaimsRun ==
    ASSUME NEW robots \in Seq(DelayGroups), NEW slug, NEW claim \in ClaimsOrNone, NEW g \in DOMAIN robots
    PROVE  \E r : GroupRun(r, robots, slug, claim, g, Len(robots[g].tokens))
  <1> DEFINE tokens == robots[g].tokens
             n == Len(tokens)
             D == ClaimsOrNone
             Next1(x, i) == Claimed(robots, slug, x, [g |-> g, tok |-> tokens[i]])
             step == [i \in 1 .. n |-> [x \in D |-> Next1(x, i)]]
             Rec(s) == s = [i \in 0 .. n |-> IF i = 0 THEN claim ELSE Next1(s[i - 1], i)]
             c == CHOOSE s : Rec(s)
  <1>1. n \in Nat /\ g \in Nat /\ \A i \in 1 .. n : tokens[i].len \in Nat
    <2>1. g \in Nat /\ robots[g] \in DelayGroups
      OBVIOUS
    <2>2. tokens \in Seq(RobotsTokens)
      BY <2>1 DEF DelayGroups
    <2>3. n \in Nat /\ \A i \in 1 .. n : tokens[i] \in RobotsTokens
      BY <2>2
    <2> QED
      BY <2>1, <2>3 DEF RobotsTokens
  <1>2. \A i \in 1 .. n : \A x \in D : Next1(x, i) \in D
    BY <1>1, ClaimedIn
  <1> HIDE DEF n, D, Next1
  <1>3. step \in [1 .. n -> [D -> D]]
    BY <1>2
  <1>4. claim \in D
    BY DEF D
  <1>5. PICK r : StepsThrough(r, n, D, claim, step)
    <2> HIDE DEF step
    <2> QED
      BY <1>1, <1>3, <1>4, RangeRecursion, Zenon
  <1>6. r \in [0 .. n -> D] /\ r[0] = claim /\ \A i \in 1 .. n : r[i] = step[i][r[i - 1]]
    BY <1>5 DEF StepsThrough
  <1>7. \A i \in 1 .. n : r[i] = Next1(r[i - 1], i)
    <2> SUFFICES ASSUME NEW i \in 1 .. n PROVE r[i] = Next1(r[i - 1], i)
      OBVIOUS
    <2>1. i - 1 \in 0 .. n
      BY <1>1
    <2>2. r[i - 1] \in D
      BY <1>6, <2>1
    <2> QED
      BY <1>6, <2>2
  <1>8. Rec(r)
    <2>1. ASSUME NEW i \in 0 .. n PROVE r[i] = IF i = 0 THEN claim ELSE Next1(r[i - 1], i)
      BY <1>1, <1>6, <1>7, <2>1
    <2>2. r = [i \in 0 .. n |-> r[i]]
      BY <1>6
    <2> QED
      BY <2>1, <2>2
  <1>9. Rec(c)
    <2> HIDE DEF Rec
    <2> QED
      BY <1>8
  <1>10. GroupClaims(robots, slug, claim, g) = c[n]
    BY DEF GroupClaims, n, Next1
  <1>11. c[0] = claim /\ \A i \in 1 .. n : c[i] = Next1(c[i - 1], i)
    <2> HIDE DEF c
    <2> QED
      BY <1>1, <1>9
  <1>12. c[n] = r[n]
    <2> DEFINE E == {i \in 0 .. n : c[i] = r[i]}
    <2> HIDE DEF c
    <2>1. 0 \in E
      BY <1>1, <1>6, <1>11
    <2>2. ASSUME NEW i \in 0 .. n, i + 1 \in 0 .. n, i \in E PROVE i + 1 \in E
      <3>1. i + 1 \in 1 .. n /\ (i + 1) - 1 = i
        BY <1>1, <2>2
      <3> QED
        BY <1>7, <1>11, <2>2, <3>1
    <2>3. 0 .. n \subseteq E
      <3> HIDE DEF E
      <3> QED
        BY <1>1, <2>1, <2>2, RangeInduction
    <2> QED
      BY <1>1, <2>3
  <1>13. GroupRun(r, robots, slug, claim, g, n)
    BY <1>6, <1>7, <1>10, <1>12 DEF GroupRun, D, Next1
  <1> QED
    BY <1>13 DEF n

ClaimsRun(r, robots, slug, n) ==
    /\ r \in [0 .. n -> ClaimsOrNone] /\ r[0] = NoLimit /\ Claims(robots, slug) = r[n]
    /\ \A g \in 1 .. n : r[g] = GroupClaims(robots, slug, r[g - 1], g)

LEMMA ClaimsRuns ==
    ASSUME NEW robots \in Seq(DelayGroups), NEW slug
    PROVE  \E r : ClaimsRun(r, robots, slug, Len(robots))
  <1> DEFINE n == Len(robots)
             D == ClaimsOrNone
             Next1(x, g) == GroupClaims(robots, slug, x, g)
             step == [g \in 1 .. n |-> [x \in D |-> Next1(x, g)]]
             Rec(s) == s = [g \in 0 .. n |-> IF g = 0 THEN NoLimit ELSE Next1(s[g - 1], g)]
             c == CHOOSE s : Rec(s)
  <1>1. n \in Nat /\ DOMAIN robots = 1 .. n
    OBVIOUS
  <1>2. \A g \in 1 .. n : \A x \in D : Next1(x, g) \in D
    <2> SUFFICES ASSUME NEW g \in 1 .. n, NEW x \in D PROVE Next1(x, g) \in D
      OBVIOUS
    <2>1. PICK r : GroupRun(r, robots, slug, x, g, Len(robots[g].tokens))
      BY <1>1, GroupClaimsRun
    <2>2. Len(robots[g].tokens) \in Nat
      <3>1. robots[g] \in DelayGroups
        BY <1>1
      <3>2. robots[g].tokens \in Seq(RobotsTokens)
        BY <3>1 DEF DelayGroups
      <3> QED
        BY <3>2
    <2> QED
      BY <2>1, <2>2 DEF GroupRun
  <1> HIDE DEF n, D, Next1
  <1>3. step \in [1 .. n -> [D -> D]]
    BY <1>2
  <1>4. NoLimit \in D
    BY DEF D, ClaimsOrNone
  <1>5. PICK r : StepsThrough(r, n, D, NoLimit, step)
    <2> HIDE DEF step
    <2> QED
      BY <1>1, <1>3, <1>4, RangeRecursion, Zenon
  <1>6. r \in [0 .. n -> D] /\ r[0] = NoLimit /\ \A g \in 1 .. n : r[g] = step[g][r[g - 1]]
    BY <1>5 DEF StepsThrough
  <1>7. \A g \in 1 .. n : r[g] = Next1(r[g - 1], g)
    <2> SUFFICES ASSUME NEW g \in 1 .. n PROVE r[g] = Next1(r[g - 1], g)
      OBVIOUS
    <2>1. g - 1 \in 0 .. n
      BY <1>1
    <2>2. r[g - 1] \in D
      BY <1>6, <2>1
    <2> QED
      BY <1>6, <2>2
  <1>8. Rec(r)
    <2>1. ASSUME NEW g \in 0 .. n PROVE r[g] = IF g = 0 THEN NoLimit ELSE Next1(r[g - 1], g)
      BY <1>1, <1>6, <1>7, <2>1
    <2>2. r = [g \in 0 .. n |-> r[g]]
      BY <1>6
    <2> QED
      BY <2>1, <2>2
  <1>9. Rec(c)
    <2> HIDE DEF Rec
    <2> QED
      BY <1>8
  <1>10. Claims(robots, slug) = c[n]
    BY DEF Claims, n, Next1
  <1>11. c[0] = NoLimit /\ \A g \in 1 .. n : c[g] = Next1(c[g - 1], g)
    <2> HIDE DEF c
    <2> QED
      BY <1>1, <1>9
  <1>12. c[n] = r[n]
    <2> DEFINE E == {g \in 0 .. n : c[g] = r[g]}
    <2> HIDE DEF c
    <2>1. 0 \in E
      BY <1>1, <1>6, <1>11
    <2>2. ASSUME NEW g \in 0 .. n, g + 1 \in 0 .. n, g \in E PROVE g + 1 \in E
      <3>1. g + 1 \in 1 .. n /\ (g + 1) - 1 = g
        BY <1>1, <2>2
      <3> QED
        BY <1>7, <1>11, <2>2, <3>1
    <2>3. 0 .. n \subseteq E
      <3> HIDE DEF E
      <3> QED
        BY <1>1, <2>1, <2>2, RangeInduction
    <2> QED
      BY <1>1, <2>3
  <1>13. ClaimsRun(r, robots, slug, n)
    BY <1>6, <1>7, <1>10, <1>12 DEF ClaimsRun, D, Next1
  <1> QED
    BY <1>13 DEF n

\* Token j of group h resolves to the slug; it is passed before token i + 1 of
\* group g is looked at.
Hit(robots, slug, h, j) ==
    /\ h \in DOMAIN robots /\ j \in DOMAIN robots[h].tokens
    /\ slug \in robots[h].tokens[j].slugs
Past(g, i, h, j) == h < g \/ (h = g /\ j <= i)

\* A claim on a slug, among the tokens passed: the longest token, of those the
\* longest delay, of those the first group.
Worse(robots, claim, h, j) ==
    /\ robots[h].tokens[j].len <= claim.len
    /\ robots[h].tokens[j].len = claim.len =>
           /\ robots[h].delay <= robots[claim.g].delay
           /\ robots[h].delay = robots[claim.g].delay => claim.g <= h

Best(robots, slug, g, i, claim) ==
    \/ /\ claim = NoLimit
       /\ \A h \in Nat, j \in Nat : Hit(robots, slug, h, j) => ~Past(g, i, h, j)
    \/ /\ claim \in [g : Nat, len : Nat]
       /\ \E j \in Nat : /\ Hit(robots, slug, claim.g, j) /\ Past(g, i, claim.g, j)
                         /\ robots[claim.g].tokens[j].len = claim.len
       /\ \A h \in Nat, j \in Nat :
              Hit(robots, slug, h, j) /\ Past(g, i, h, j) => Worse(robots, claim, h, j)

LEMMA TokenTypes ==
    ASSUME NEW robots \in Seq(DelayGroups), NEW h \in DOMAIN robots
    PROVE  /\ h \in Nat /\ robots[h].delay \in Nat
           /\ Len(robots[h].tokens) \in Nat /\ DOMAIN robots[h].tokens = 1 .. Len(robots[h].tokens)
           /\ \A j \in DOMAIN robots[h].tokens :
                  robots[h].tokens[j].len \in Nat /\ robots[h].tokens[j].slugs \in SUBSET Slugs
  <1>1. h \in Nat /\ robots[h] \in DelayGroups
    OBVIOUS
  <1>2. robots[h].delay \in Nat /\ robots[h].tokens \in Seq(RobotsTokens)
    BY <1>1 DEF DelayGroups
  <1>3. /\ Len(robots[h].tokens) \in Nat /\ DOMAIN robots[h].tokens = 1 .. Len(robots[h].tokens)
        /\ \A j \in DOMAIN robots[h].tokens : robots[h].tokens[j] \in RobotsTokens
    BY <1>2
  <1> QED
    BY <1>1, <1>2, <1>3 DEF RobotsTokens

LEMMA PastStep ==
    ASSUME NEW g \in Nat, NEW i \in Nat \ {0}, NEW h \in Nat, NEW j \in Nat
    PROVE  Past(g, i, h, j) <=> Past(g, i - 1, h, j) \/ (h = g /\ j = i)
  <1>1. j <= i <=> j <= i - 1 \/ j = i
    OBVIOUS
  <1> QED
    BY <1>1, Zenon DEF Past

LEMMA PastTurns ==
    ASSUME NEW g \in Nat, NEW n \in Nat, NEW h \in Nat, NEW j \in Nat, j >= 1, h = g => j <= n
    PROVE  Past(g + 1, 0, h, j) <=> Past(g, n, h, j)
  <1>1. (h < g + 1 <=> h < g \/ h = g) /\ ~(j <= 0)
    OBVIOUS
  <1> QED
    BY <1>1, Zenon DEF Past

LEMMA StillWorse ==
    ASSUME NEW a \in Nat, NEW b \in Nat, NEW t \in Nat, NEW da \in Nat, NEW db \in Nat, NEW dt \in Nat,
           a <= b, a = b => da <= db, b < t \/ (b = t /\ dt > db)
    PROVE  a <= t /\ (a = t => da <= dt /\ da # dt)
  OBVIOUS

LEMMA BestStep ==
    ASSUME NEW robots \in Seq(DelayGroups), NEW slug, NEW claim, NEW g \in DOMAIN robots,
           NEW i \in DOMAIN robots[g].tokens, Best(robots, slug, g, i - 1, claim)
    PROVE  Best(robots, slug, g, i, Claimed(robots, slug, claim, [g |-> g, tok |-> robots[g].tokens[i]]))
  <1> DEFINE tok == robots[g].tokens[i]
             x == [g |-> g, tok |-> tok]
  <1>1. /\ g \in Nat /\ i \in Nat \ {0} /\ tok.len \in Nat /\ robots[g].delay \in Nat
        /\ x.g = g /\ x.tok = tok
    BY TokenTypes
  <1>2. \A h, j \in Nat : Past(g, i, h, j) <=> Past(g, i - 1, h, j) \/ (h = g /\ j = i)
    <2> HIDE DEF tok
    <2> QED
      BY <1>1, PastStep
  <1>3. CASE slug \notin tok.slugs
    <2>1. Claimed(robots, slug, claim, x) = claim
      BY <1>3 DEF Claimed
    <2>2. ~Hit(robots, slug, g, i)
      BY <1>3 DEF Hit
    <2>3. \A h, j \in Nat : Hit(robots, slug, h, j) => (Past(g, i, h, j) <=> Past(g, i - 1, h, j))
      BY <1>2, <2>2
    <2> HIDE DEF x
    <2>4. Best(robots, slug, g, i, claim)
      <3>1. CASE claim = NoLimit /\ \A h \in Nat, j \in Nat : Hit(robots, slug, h, j) => ~Past(g, i - 1, h, j)
        BY <2>3, <3>1 DEF Best
      <3>2. ASSUME claim \in [g : Nat, len : Nat],
                   NEW k \in Nat, Hit(robots, slug, claim.g, k), Past(g, i - 1, claim.g, k),
                   robots[claim.g].tokens[k].len = claim.len,
                   \A h \in Nat, j \in Nat :
                       Hit(robots, slug, h, j) /\ Past(g, i - 1, h, j) => Worse(robots, claim, h, j)
            PROVE  Best(robots, slug, g, i, claim)
        <4>1. claim.g \in Nat
          BY <3>2
        <4>2. Past(g, i, claim.g, k)
          BY <2>3, <3>2, <4>1
        <4> QED
          BY <2>3, <3>2, <4>2 DEF Best
      <3> QED
        BY <3>1, <3>2 DEF Best
    <2> QED
      BY <2>1, <2>4 DEF x
  <1>4. CASE slug \in tok.slugs
    <2>0. Hit(robots, slug, g, i) /\ Past(g, i, g, i)
      BY <1>1, <1>4 DEF Hit, Past
    <2> DEFINE fresh == [g |-> g, len |-> tok.len]
    <2>1. fresh \in [g : Nat, len : Nat] /\ fresh.g = g /\ fresh.len = tok.len
      BY <1>1
    <2>2. CASE claim = NoLimit /\ \A h \in Nat, j \in Nat : Hit(robots, slug, h, j) => ~Past(g, i - 1, h, j)
      <3>1. Claimed(robots, slug, claim, x) = fresh
        BY <1>1, <1>4, <2>2 DEF Claimed
      <3>2. ASSUME NEW h \in Nat, NEW j \in Nat, Hit(robots, slug, h, j), Past(g, i, h, j)
            PROVE  Worse(robots, fresh, h, j)
        <4>1. h = g /\ j = i
          BY <1>2, <2>2, <3>2
        <4> HIDE DEF fresh
        <4> QED
          BY <1>1, <2>1, <4>1 DEF Worse
      <3>3. \E j \in Nat : /\ Hit(robots, slug, fresh.g, j) /\ Past(g, i, fresh.g, j)
                           /\ robots[fresh.g].tokens[j].len = fresh.len
        BY <1>1, <2>0, <2>1
      <3> HIDE DEF fresh
      <3>4. Best(robots, slug, g, i, fresh)
        BY <2>1, <3>2, <3>3 DEF Best
      <3> QED
        BY <3>1, <3>4
    <2>3. ASSUME claim \in [g : Nat, len : Nat],
                 NEW k \in Nat, Hit(robots, slug, claim.g, k), Past(g, i - 1, claim.g, k),
                 robots[claim.g].tokens[k].len = claim.len,
                 \A h \in Nat, j \in Nat :
                     Hit(robots, slug, h, j) /\ Past(g, i - 1, h, j) => Worse(robots, claim, h, j)
          PROVE  Best(robots, slug, g, i, Claimed(robots, slug, claim, x))
      <3>1. claim.g \in Nat /\ claim.len \in Nat /\ claim.g <= g /\ claim # NoLimit
        BY <1>1, <2>3, BotRateAssumption DEF Past
      <3>2. robots[claim.g].delay \in Nat
        BY <2>3, TokenTypes DEF Hit
      <3>3. CASE Keeps(robots, claim, x)
        <4>1. Claimed(robots, slug, claim, x) = claim
          BY <1>1, <3>1, <3>3 DEF Claimed
        <4>2. \/ claim.len > tok.len
              \/ claim.len = tok.len /\ robots[g].delay <= robots[claim.g].delay
          BY <1>1, <3>3 DEF Keeps
        <4> HIDE DEF x
        <4>3. Worse(robots, claim, g, i)
          <5> HIDE DEF tok
          <5>1. robots[g].tokens[i].len = tok.len
            BY DEF tok
          <5> QED
            BY <1>1, <3>1, <3>2, <4>2, <5>1 DEF Worse
        <4>4. \A h \in Nat, j \in Nat :
                  Hit(robots, slug, h, j) /\ Past(g, i, h, j) => Worse(robots, claim, h, j)
          BY <1>2, <2>3, <4>3
        <4>5. Past(g, i, claim.g, k)
          BY <1>2, <2>3, <3>1
        <4> QED
          BY <2>3, <4>1, <4>4, <4>5 DEF Best
      <3>4. CASE ~Keeps(robots, claim, x)
        <4>1. Claimed(robots, slug, claim, x) = fresh
          BY <1>1, <1>4, <3>4 DEF Claimed
        <4>2. \/ claim.len < tok.len
              \/ claim.len = tok.len /\ robots[g].delay > robots[claim.g].delay
          BY <1>1, <3>1, <3>2, <3>4 DEF Keeps
        <4> HIDE DEF x
        <4>3. ASSUME NEW h \in Nat, NEW j \in Nat, Hit(robots, slug, h, j), Past(g, i, h, j)
              PROVE  Worse(robots, fresh, h, j)
          <5>1. h \in DOMAIN robots /\ j \in DOMAIN robots[h].tokens
            BY <4>3 DEF Hit
          <5>2. robots[h].tokens[j].len \in Nat /\ robots[h].delay \in Nat
            BY <5>1, TokenTypes
          <5>3. CASE h = g /\ j = i
            <6> HIDE DEF fresh
            <6> QED
              BY <1>1, <2>1, <5>3 DEF Worse
          <5>4. CASE ~(h = g /\ j = i)
            <6>1. Worse(robots, claim, h, j)
              BY <1>2, <2>3, <4>3, <5>4
            <6>2. /\ robots[h].tokens[j].len <= claim.len
                  /\ robots[h].tokens[j].len = claim.len => robots[h].delay <= robots[claim.g].delay
              BY <6>1 DEF Worse
            <6> HIDE DEF fresh, tok
            <6>3. /\ robots[h].tokens[j].len <= tok.len
                  /\ robots[h].tokens[j].len = tok.len =>
                         robots[h].delay <= robots[g].delay /\ robots[h].delay # robots[g].delay
              <7> DEFINE p == robots[h].tokens[j].len
                         q == claim.len
                         dp == robots[h].delay
                         dq == robots[claim.g].delay
                         dt == robots[g].delay
              <7>1. /\ p \in Nat /\ q \in Nat /\ tok.len \in Nat /\ dp \in Nat /\ dq \in Nat /\ dt \in Nat
                    /\ p <= q /\ (p = q => dp <= dq)
                    /\ q < tok.len \/ (q = tok.len /\ dt > dq)
                BY <1>1, <3>1, <3>2, <4>2, <5>2, <6>2
              <7> HIDE DEF p, q, dp, dq, dt
              <7>2. p <= tok.len /\ (p = tok.len => dp <= dt /\ dp # dt)
                BY <7>1, StillWorse
              <7> QED
                BY <7>2 DEF p, dp, dt
            <6> QED
              BY <2>1, <6>3, Zenon DEF Worse
          <5> QED
            BY <5>3, <5>4
        <4>4. \E j \in Nat : /\ Hit(robots, slug, fresh.g, j) /\ Past(g, i, fresh.g, j)
                             /\ robots[fresh.g].tokens[j].len = fresh.len
          BY <1>1, <2>0, <2>1
        <4> HIDE DEF fresh
        <4>5. Best(robots, slug, g, i, fresh)
          BY <2>1, <4>3, <4>4 DEF Best
        <4> QED
          BY <4>1, <4>5
      <3> QED
        BY <3>3, <3>4
    <2> QED
      BY <2>2, <2>3 DEF Best
  <1> QED
    BY <1>3, <1>4

\* The tokens of a group that was walked are past when the next one begins.
LEMMA BestTurns ==
    ASSUME NEW robots \in Seq(DelayGroups), NEW slug, NEW claim, NEW g \in DOMAIN robots,
           Best(robots, slug, g, Len(robots[g].tokens), claim)
    PROVE  Best(robots, slug, g + 1, 0, claim)
  <1> DEFINE n == Len(robots[g].tokens)
  <1>1. g \in Nat /\ n \in Nat
    BY TokenTypes
  <1>2. ASSUME NEW h \in Nat, NEW j \in Nat, Hit(robots, slug, h, j)
        PROVE  Past(g + 1, 0, h, j) <=> Past(g, n, h, j)
    <2>1. h \in DOMAIN robots /\ j \in DOMAIN robots[h].tokens
      BY <1>2 DEF Hit
    <2>2. j >= 1 /\ (h = g => j <= n)
      BY <2>1, TokenTypes
    <2> QED
      BY <1>1, <2>2, PastTurns
  <1>3. CASE claim = NoLimit /\ \A h \in Nat, j \in Nat : Hit(robots, slug, h, j) => ~Past(g, n, h, j)
    BY <1>2, <1>3 DEF Best
  <1>4. ASSUME claim \in [g : Nat, len : Nat],
               NEW k \in Nat, Hit(robots, slug, claim.g, k), Past(g, n, claim.g, k),
               robots[claim.g].tokens[k].len = claim.len,
               \A h \in Nat, j \in Nat :
                   Hit(robots, slug, h, j) /\ Past(g, n, h, j) => Worse(robots, claim, h, j)
        PROVE  Best(robots, slug, g + 1, 0, claim)
    <2>1. claim.g \in Nat
      BY <1>4
    <2>2. Past(g + 1, 0, claim.g, k)
      BY <1>2, <1>4, <2>1
    <2> QED
      BY <1>2, <1>4, <2>2 DEF Best
  <1> QED
    BY <1>3, <1>4 DEF Best

LEMMA GroupClaimsBest ==
    ASSUME NEW robots \in Seq(DelayGroups), NEW slug, NEW claim \in ClaimsOrNone, NEW g \in DOMAIN robots,
           Best(robots, slug, g, 0, claim)
    PROVE  Best(robots, slug, g + 1, 0, GroupClaims(robots, slug, claim, g))
  <1> DEFINE n == Len(robots[g].tokens)
  <1>1. PICK r : GroupRun(r, robots, slug, claim, g, n)
    BY GroupClaimsRun
  <1>2. n \in Nat /\ DOMAIN robots[g].tokens = 1 .. n
    BY TokenTypes
  <1> HIDE DEF n
  <1> DEFINE E == {i \in 0 .. n : Best(robots, slug, g, i, r[i])}
  <1>3. 0 \in E
    BY <1>1, <1>2 DEF GroupRun
  <1>4. ASSUME NEW i \in 0 .. n, i + 1 \in 0 .. n, i \in E PROVE i + 1 \in E
    <2>1. i + 1 \in 1 .. n /\ (i + 1) - 1 = i
      BY <1>2, <1>4
    <2>2. r[i + 1] = Claimed(robots, slug, r[i], [g |-> g, tok |-> robots[g].tokens[i + 1]])
      BY <1>1, <2>1 DEF GroupRun
    <2>3. Best(robots, slug, g, i + 1, r[i + 1])
      BY <1>2, <1>4, <2>1, <2>2, BestStep
    <2> QED
      BY <1>4, <2>3
  <1>5. Best(robots, slug, g, n, r[n])
    <2>1. 0 .. n \subseteq E
      <3> HIDE DEF E
      <3> QED
        BY <1>2, <1>3, <1>4, RangeInduction
    <2> QED
      BY <1>2, <2>1
  <1>6. GroupClaims(robots, slug, claim, g) = r[n]
    BY <1>1 DEF GroupRun
  <1> QED
    BY <1>5, <1>6, BestTurns DEF n

LEMMA ClaimsBest ==
    ASSUME NEW robots \in Seq(DelayGroups), NEW slug
    PROVE  Best(robots, slug, Len(robots) + 1, 0, Claims(robots, slug))
  <1> DEFINE n == Len(robots)
  <1>1. PICK r : ClaimsRun(r, robots, slug, n)
    BY ClaimsRuns
  <1>2. n \in Nat /\ DOMAIN robots = 1 .. n
    OBVIOUS
  <1> HIDE DEF n
  <1> DEFINE E == {g \in 0 .. n : Best(robots, slug, g + 1, 0, r[g])}
  <1>3. 0 \in E
    <2>1. r[0] = NoLimit
      BY <1>1 DEF ClaimsRun
    <2>2. \A h \in Nat, j \in Nat : Hit(robots, slug, h, j) => ~Past(0 + 1, 0, h, j)
      <3> SUFFICES ASSUME NEW h \in Nat, NEW j \in Nat, Hit(robots, slug, h, j) PROVE ~Past(0 + 1, 0, h, j)
        OBVIOUS
      <3>1. h >= 1 /\ j >= 1
        BY <1>2, TokenTypes DEF Hit
      <3> QED
        BY <3>1 DEF Past
    <2> QED
      BY <1>2, <2>1, <2>2 DEF Best
  <1>4. ASSUME NEW g \in 0 .. n, g + 1 \in 0 .. n, g \in E PROVE g + 1 \in E
    <2>1. g + 1 \in 1 .. n /\ (g + 1) - 1 = g
      BY <1>2, <1>4
    <2>2. r[g + 1] = GroupClaims(robots, slug, r[g], g + 1) /\ r[g] \in ClaimsOrNone
      BY <1>1, <2>1 DEF ClaimsRun
    <2>3. Best(robots, slug, (g + 1) + 1, 0, r[g + 1])
      BY <1>2, <1>4, <2>1, <2>2, GroupClaimsBest
    <2> QED
      BY <1>4, <2>3
  <1>5. Best(robots, slug, n + 1, 0, r[n])
    <2>1. 0 .. n \subseteq E
      <3> HIDE DEF E
      <3> QED
        BY <1>2, <1>3, <1>4, RangeInduction
    <2> QED
      BY <1>2, <2>1
  <1>6. Claims(robots, slug) = r[n]
    BY <1>1 DEF ClaimsRun
  <1> QED
    BY <1>5, <1>6 DEF n

\* The claim that is left in the end, of all the tokens that resolve to the
\* slug.
LEMMA ClaimsWin ==
    ASSUME NEW robots \in Seq(DelayGroups), NEW slug
    PROVE  \/ /\ Claims(robots, slug) = NoLimit
              /\ \A h \in Nat, j \in Nat : ~Hit(robots, slug, h, j)
           \/ /\ Claims(robots, slug) \in [g : Nat, len : Nat] /\ Claims(robots, slug) # NoLimit
              /\ \E j \in Nat : /\ Hit(robots, slug, Claims(robots, slug).g, j)
                                /\ robots[Claims(robots, slug).g].tokens[j].len = Claims(robots, slug).len
              /\ \A h \in Nat, j \in Nat :
                     Hit(robots, slug, h, j) => Worse(robots, Claims(robots, slug), h, j)
  <1> DEFINE n == Len(robots)
             claim == Claims(robots, slug)
  <1>1. Best(robots, slug, n + 1, 0, claim)
    BY ClaimsBest
  <1>2. n \in Nat /\ DOMAIN robots = 1 .. n
    OBVIOUS
  <1>3. ASSUME NEW h \in Nat, NEW j \in Nat, Hit(robots, slug, h, j) PROVE Past(n + 1, 0, h, j)
    <2> HIDE DEF n
    <2>1. h < n + 1
      BY <1>2, <1>3 DEF Hit
    <2> QED
      BY <2>1 DEF Past
  <1>4. claim \in [g : Nat, len : Nat] => claim # NoLimit
    BY BotRateAssumption
  <1> HIDE DEF claim, n
  <1>5. \/ claim = NoLimit /\ \A h \in Nat, j \in Nat : ~Hit(robots, slug, h, j)
        \/ /\ claim \in [g : Nat, len : Nat] /\ claim # NoLimit
           /\ \E j \in Nat : /\ Hit(robots, slug, claim.g, j)
                             /\ robots[claim.g].tokens[j].len = claim.len
           /\ \A h \in Nat, j \in Nat : Hit(robots, slug, h, j) => Worse(robots, claim, h, j)
    BY <1>1, <1>3, <1>4 DEF Best
  <1> QED
    BY <1>5 DEF claim

LEMMA MatchingIsHit ==
    ASSUME NEW c, NEW slug, c.robots \in Seq(DelayGroups)
    PROVE  /\ \A m \in Matching(c, slug) :
                  /\ m[1] \in Nat /\ m[2] \in Nat /\ m = <<m[1], m[2]>>
                  /\ Hit(c.robots, slug, m[1], m[2])
           /\ \A h \in Nat, j \in Nat : Hit(c.robots, slug, h, j) => <<h, j>> \in Matching(c, slug)
  <1>1. ASSUME NEW m \in Matching(c, slug)
        PROVE  /\ m[1] \in Nat /\ m[2] \in Nat /\ m = <<m[1], m[2]>>
               /\ Hit(c.robots, slug, m[1], m[2])
    <2>1. PICK g \in DOMAIN c.robots : m \in {<<g, i>> : i \in Resolved(c, g, slug)}
      BY <1>1 DEF Matching
    <2>2. PICK i \in Resolved(c, g, slug) : m = <<g, i>>
      BY <2>1
    <2>3. i \in DOMAIN c.robots[g].tokens /\ slug \in c.robots[g].tokens[i].slugs
      BY <2>2 DEF Resolved
    <2>4. g \in Nat /\ i \in Nat
      BY <2>3, TokenTypes
    <2>5. m[1] = g /\ m[2] = i
      BY <2>2
    <2> QED
      BY <2>2, <2>3, <2>4, <2>5 DEF Hit
  <1>2. ASSUME NEW h \in Nat, NEW j \in Nat, Hit(c.robots, slug, h, j)
        PROVE  <<h, j>> \in Matching(c, slug)
    <2>1. h \in DOMAIN c.robots /\ j \in Resolved(c, h, slug)
      BY <1>2 DEF Hit, Resolved
    <2>2. <<h, j>> \in {<<h, i>> : i \in Resolved(c, h, slug)}
      BY <2>1
    <2> QED
      BY <2>1, <2>2 DEF Matching
  <1> QED
    BY <1>1, <1>2

\* It is the group that the directives mean: the first of the groups with the
\* longest delay, of those with the longest token.
LEMMA ClaimsGovern ==
    ASSUME NEW c \in Configs, NEW slug
    PROVE  \/ Claims(c.robots, slug) = NoLimit /\ Slowest(c, slug) = {}
           \/ /\ Claims(c.robots, slug) # NoLimit
              /\ Claims(c.robots, slug).g \in Slowest(c, slug) \cap DOMAIN c.robots
              /\ \A h \in Slowest(c, slug) :
                     /\ h \in Nat /\ Claims(c.robots, slug).g <= h
                     /\ c.robots[h].delay = c.robots[Claims(c.robots, slug).g].delay
  <1> DEFINE robots == c.robots
             claim == Claims(robots, slug)
  <1>1. robots \in Seq(DelayGroups)
    BY ConfigsAssumption
  <1>2. \/ claim = NoLimit /\ \A h \in Nat, j \in Nat : ~Hit(robots, slug, h, j)
        \/ /\ claim \in [g : Nat, len : Nat] /\ claim # NoLimit
           /\ \E j \in Nat : /\ Hit(robots, slug, claim.g, j)
                             /\ robots[claim.g].tokens[j].len = claim.len
           /\ \A h \in Nat, j \in Nat : Hit(robots, slug, h, j) => Worse(robots, claim, h, j)
    BY <1>1, ClaimsWin
  <1>3. /\ \A m \in Matching(c, slug) :
                  /\ m[1] \in Nat /\ m[2] \in Nat /\ m = <<m[1], m[2]>>
                  /\ Hit(robots, slug, m[1], m[2])
        /\ \A h \in Nat, j \in Nat : Hit(robots, slug, h, j) => <<h, j>> \in Matching(c, slug)
    BY <1>1, MatchingIsHit
  <1> HIDE DEF claim
  <1>4. CASE claim = NoLimit /\ \A h \in Nat, j \in Nat : ~Hit(robots, slug, h, j)
    <2>1. Matching(c, slug) = {}
      BY <1>3, <1>4
    <2> QED
      BY <1>4, <2>1 DEF Slowest, Longest, claim
  <1>5. ASSUME claim \in [g : Nat, len : Nat], claim # NoLimit,
               NEW k \in Nat, Hit(robots, slug, claim.g, k), robots[claim.g].tokens[k].len = claim.len,
               \A h \in Nat, j \in Nat : Hit(robots, slug, h, j) => Worse(robots, claim, h, j)
        PROVE  /\ claim.g \in Slowest(c, slug) \cap DOMAIN robots
               /\ \A h \in Slowest(c, slug) :
                     h \in Nat /\ claim.g <= h /\ robots[h].delay = robots[claim.g].delay
    <2> DEFINE first == <<claim.g, k>>
               Len2(m) == robots[m[1]].tokens[m[2]].len
               Waits(m) == robots[m[1]].delay
    <2>1. claim.g \in Nat /\ claim.g \in DOMAIN robots
      BY <1>5 DEF Hit
    <2>2. first \in Matching(c, slug) /\ first[1] = claim.g /\ Len2(first) = claim.len
          /\ Waits(first) = robots[claim.g].delay
      BY <1>3, <1>5, <2>1
    <2>3. ASSUME NEW m \in Matching(c, slug)
          PROVE  Len2(m) \in Nat /\ Waits(m) \in Nat /\ Worse(robots, claim, m[1], m[2]) /\ m[1] \in Nat
      <3>1. m[1] \in Nat /\ m[2] \in Nat /\ Hit(robots, slug, m[1], m[2])
        BY <1>3
      <3>2. m[1] \in DOMAIN robots /\ m[2] \in DOMAIN robots[m[1]].tokens
        BY <3>1 DEF Hit
      <3> QED
        BY <1>1, <1>5, <3>1, <3>2, TokenTypes
    <2>4. Longest(c, slug) = {m \in Matching(c, slug) : \A o \in Matching(c, slug) : Len2(o) <= Len2(m)}
      BY DEF Longest
    <2>5. Slowest(c, slug) = {m[1] : m \in {m \in Longest(c, slug) : \A o \in Longest(c, slug) : Waits(o) <= Waits(m)}}
      BY DEF Slowest
    <2>6. \A m \in Matching(c, slug) :
              /\ Len2(m) <= claim.len
              /\ Len2(m) = claim.len => /\ Waits(m) <= Waits(first)
                                        /\ Waits(m) = Waits(first) => claim.g <= m[1]
      BY <2>2, <2>3 DEF Worse
    <2> HIDE DEF first, Len2, Waits
    <2>7. first \in Longest(c, slug) /\ \A m \in Longest(c, slug) : m \in Matching(c, slug) /\ Len2(m) = claim.len
      <3>1. first \in Longest(c, slug)
        BY <2>2, <2>4, <2>6
      <3>2. ASSUME NEW m \in Longest(c, slug) PROVE m \in Matching(c, slug) /\ Len2(m) = claim.len
        <4>1. m \in Matching(c, slug) /\ Len2(first) <= Len2(m)
          BY <2>2, <2>4
        <4>2. Len2(m) <= claim.len /\ Len2(m) \in Nat /\ claim.len \in Nat
          BY <1>5, <2>3, <2>6, <4>1
        <4> QED
          BY <2>2, <4>1, <4>2
      <3> QED
        BY <3>1, <3>2
    <2>8. claim.g \in Slowest(c, slug)
      BY <2>2, <2>5, <2>6, <2>7
    <2>9. ASSUME NEW h \in Slowest(c, slug)
          PROVE  h \in Nat /\ claim.g <= h /\ robots[h].delay = robots[claim.g].delay
      <3>1. PICK m \in Longest(c, slug) : h = m[1] /\ \A o \in Longest(c, slug) : Waits(o) <= Waits(m)
        BY <2>5, <2>9
      <3>2. Waits(m) \in Nat /\ Waits(first) \in Nat /\ Waits(m) <= Waits(first) /\ Waits(first) <= Waits(m)
        BY <2>2, <2>3, <2>6, <2>7, <3>1
      <3>3. Waits(m) = Waits(first)
        BY <3>2
      <3> QED
        BY <2>2, <2>3, <2>6, <2>7, <3>1, <3>3 DEF Waits
    <2> QED
      BY <2>1, <2>8, <2>9
  <1> QED
    BY <1>2, <1>4, <1>5 DEF claim
-----------------------------------------------------------------------------
(* The rule that the counter of a slug comes from. *)

\* The rule that the counter of a slug comes from, as a set of at most one.
OriginOf(l, s) == {l.slots[n].origin : n \in {l.by[s]} \ {0}}

LEMMA OriginSays ==
    ASSUME NEW l, NEW s
    PROVE  /\ l.by[s] = 0 <=> OriginOf(l, s) = {}
           /\ l.by[s] # 0 => OriginOf(l, s) = {l.slots[l.by[s]].origin}
  BY DEF OriginOf

\* Counters are added behind the ones there are: whoever keeps its counter
\* keeps its rule.
LEMMA OriginStays ==
    ASSUME NEW c, NEW l \in Layouts(c), NEW m, NEW s \in Slugs, m.by[s] = l.by[s],
           \A n \in 1 .. Len(l.slots) : m.slots[n] = l.slots[n]
    PROVE  OriginOf(m, s) = OriginOf(l, s)
  <1>1. l.by[s] = 0 \/ l.by[s] \in 1 .. Len(l.slots)
    BY DEF Layouts
  <1> QED
    BY ZenonT(30), <1>1, OriginSays

LEMMA AllocateOrigin ==
    ASSUME NEW c, NEW l \in Layouts(c), NEW x \in CountersOf(c), NEW slugs, NEW names, NEW s \in Slugs,
           ~Drained(Allocate(l, x, slugs, names))
    PROVE  OriginOf(Allocate(l, x, slugs, names), s) = IF s \in slugs THEN {x.origin} ELSE OriginOf(l, s)
  <1> DEFINE m == Allocate(l, x, slugs, names)
             n == Len(l.slots)
  <1>1. l.slots \in Seq(CountersOf(c)) /\ l.by \in [Slugs \cup Late -> Nat] /\ n \in Nat /\ PoolSize \in Nat
    BY BotRateAssumption DEF Layouts
  <1>2. ~(n >= PoolSize)
    <2>1. CASE n >= PoolSize
      <3>1. m = l
        BY <2>1 DEF Allocate
      <3> QED
        BY <2>1, <3>1 DEF Drained
    <2> QED
      BY <2>1
  <1>3. m = [slots |-> Append(l.slots, x),
             by    |-> [t \in Slugs \cup Late |-> IF t \in slugs THEN n + 1 ELSE l.by[t]],
             named |-> [y \in DOMAIN l.named |-> IF y \in names THEN n + 1 ELSE l.named[y]]]
    BY <1>1, <1>2 DEF Allocate
  <1>4. m.slots[n + 1] = x /\ \A k \in 1 .. n : m.slots[k] = l.slots[k]
    BY <1>1, <1>3
  <1>5. m.by[s] = IF s \in slugs THEN n + 1 ELSE l.by[s]
    BY <1>3
  <1> HIDE DEF m
  <1>6. CASE s \in slugs
    BY <1>1, <1>4, <1>5, <1>6, OriginSays DEF m
  <1>7. CASE s \notin slugs
    BY <1>4, <1>5, <1>7, OriginStays DEF m
  <1> QED
    BY <1>6, <1>7 DEF m

LEMMA AllocateEachOrigin ==
    ASSUME NEW c, NEW l \in Layouts(c), NEW x \in CountersOf(c), NEW slugs \in SUBSET Slugs, NEW s \in Slugs,
           ~Drained(AllocateEach(l, x, slugs))
    PROVE  OriginOf(AllocateEach(l, x, slugs), s) =
               IF s \in slugs /\ OriginOf(l, s) = {} THEN {x.origin} ELSE OriginOf(l, s)
  <1> DEFINE m == AllocateEach(l, x, slugs)
  <1>1. Shared(l, m, x, slugs) /\ (s \in slugs => m.by[s] # 0)
    BY AllocateEachGrows
  <1> HIDE DEF m
  <1>2. CASE m.by[s] = l.by[s]
    <2>1. OriginOf(m, s) = OriginOf(l, s)
      BY <1>1, <1>2, OriginStays DEF Shared
    <2>2. s \in slugs => OriginOf(l, s) # {}
      BY <1>1, <1>2, OriginSays
    <2> QED
      BY <2>1, <2>2 DEF m
  <1>3. CASE s \in slugs /\ l.by[s] = 0 /\ m.by[s] # 0 /\ m.slots[m.by[s]] = x
    <2>1. OriginOf(l, s) = {} /\ OriginOf(m, s) = {x.origin}
      BY <1>3, OriginSays
    <2> QED
      BY <1>3, <2>1 DEF m
  <1> QED
    BY <1>1, <1>2, <1>3 DEF Shared

\* What an order does to the rule of a slug: a counter for all replaces it,
\* one for each only where there is none.
Ordered(o, s, before) ==
    IF \/ o.kind = "all" /\ s \in o.slugs
       \/ o.kind = "each" /\ s \in o.slugs /\ before = {}
    THEN {o.counter.origin} ELSE before

LEMMA CarryOutOrigin ==
    ASSUME NEW c, NEW l \in Layouts(c), NEW o \in OrdersOf(c), NEW s \in Slugs, ~Drained(CarryOut(l, o))
    PROVE  OriginOf(CarryOut(l, o), s) = Ordered(o, s, OriginOf(l, s))
  <1>1. ASSUME NEW x \in CountersOf(c), NEW S \in SUBSET Slugs, o = OneForAll(x, S)
        PROVE  OriginOf(CarryOut(l, o), s) = Ordered(o, s, OriginOf(l, s))
    <2>1. CarryOut(l, o) = Allocate(l, x, S, {})
      BY <1>1 DEF CarryOut, OneForAll
    <2>2. o.kind = "all" /\ o.slugs = S /\ o.counter = x
      BY <1>1 DEF OneForAll
    <2>3. OriginOf(CarryOut(l, o), s) = IF s \in S THEN {x.origin} ELSE OriginOf(l, s)
      BY <2>1, AllocateOrigin
    <2> QED
      BY <2>2, <2>3 DEF Ordered
  <1>2. ASSUME NEW x \in CountersOf(c), NEW S \in SUBSET Slugs, o = OneEach(x, S)
        PROVE  OriginOf(CarryOut(l, o), s) = Ordered(o, s, OriginOf(l, s))
    <2>1. CarryOut(l, o) = AllocateEach(l, x, S)
      BY <1>2 DEF CarryOut, OneEach
    <2>2. o.kind = "each" /\ o.slugs = S /\ o.counter = x
      BY <1>2 DEF OneEach
    <2>3. OriginOf(CarryOut(l, o), s) = IF s \in S /\ OriginOf(l, s) = {} THEN {x.origin} ELSE OriginOf(l, s)
      BY <2>1, AllocateEachOrigin
    <2> QED
      BY <2>2, <2>3 DEF Ordered
  <1>3. ASSUME NEW x \in CountersOf(c), NEW n \in Names \cup STRING, o = OneNamed(x, n)
        PROVE  OriginOf(CarryOut(l, o), s) = Ordered(o, s, OriginOf(l, s))
    <2>1. CarryOut(l, o) = Allocate(l, x, {}, {n})
      BY <1>3 DEF CarryOut, OneNamed
    <2>2. o.kind = "name"
      BY <1>3 DEF OneNamed
    <2>3. OriginOf(CarryOut(l, o), s) = OriginOf(l, s)
      BY <2>1, AllocateOrigin
    <2> QED
      BY <2>2, <2>3 DEF Ordered
  <1>4. ASSUME o = NoOrder
        PROVE  OriginOf(CarryOut(l, o), s) = Ordered(o, s, OriginOf(l, s))
    <2>1. CarryOut(l, o) = l /\ o.kind = "none"
      BY <1>4 DEF CarryOut, NoOrder
    <2> QED
      BY <2>1 DEF Ordered
  <1> QED
    BY <1>1, <1>2, <1>3, <1>4 DEF OrdersOf

\* The layouts of a pass, until the pool is drained.
LEMMA PassOrigins ==
    ASSUME NEW c, NEW l \in Layouts(c), NEW orders \in Seq(OrdersOf(c)), NEW s \in Slugs
    PROVE  \E g : /\ PassRun(g, l, orders, Len(orders), Layouts(c))
                  /\ \A k \in 1 .. Len(orders) :
                         ~Drained(g[k]) => /\ ~Drained(g[k - 1])
                                           /\ OriginOf(g[k], s) = Ordered(orders[k], s, OriginOf(g[k - 1], s))
  <1> DEFINE n == Len(orders)
             D == Layouts(c)
  <1>1. n \in Nat /\ \A k \in 1 .. n : orders[k] \in OrdersOf(c)
    OBVIOUS
  <1>2. \A k \in 1 .. n : \A x \in D : CarryOut(x, orders[k]) \in D
    BY <1>1, CarryOutGrows
  <1>3. l \in D
    OBVIOUS
  <1>4. PICK g : PassRun(g, l, orders, n, D)
    <2> HIDE DEF D
    <2> QED
      BY <1>1, <1>2, <1>3, AfterPassRuns
  <1>5. ASSUME NEW k \in 1 .. n, ~Drained(g[k])
        PROVE  ~Drained(g[k - 1]) /\ OriginOf(g[k], s) = Ordered(orders[k], s, OriginOf(g[k - 1], s))
    <2>1. k \in 0 .. n /\ k - 1 \in 0 .. n
      BY <1>1
    <2>2. g[k] \in D /\ g[k - 1] \in D /\ g[k] = CarryOut(g[k - 1], orders[k])
      BY <1>4, <2>1 DEF PassRun
    <2>3. Grown(g[k - 1], g[k])
      BY <1>1, <2>2, CarryOutGrows
    <2>4. ~Drained(g[k - 1])
      BY <1>5, <2>2, <2>3, GrownUndrained
    <2> QED
      BY <1>1, <1>5, <2>2, <2>4, CarryOutOrigin
  <1> QED
    BY <1>4, <1>5

\* The orders of a pass that speak of a slug.
Speaks(orders, kind, s) == {k \in DOMAIN orders : orders[k].kind = kind /\ s \in orders[k].slugs}

\* A pass of counters for all: the last order decides.
LEMMA LastForAll ==
    ASSUME NEW c, NEW l \in Layouts(c), NEW orders \in Seq(OrdersOf(c)), NEW s \in Slugs,
           Speaks(orders, "each", s) = {}, ~Drained(AfterPass(l, orders))
    PROVE  \/ /\ Speaks(orders, "all", s) = {}
              /\ OriginOf(AfterPass(l, orders), s) = OriginOf(l, s)
           \/ \E k \in Speaks(orders, "all", s) :
                  /\ \A j \in Speaks(orders, "all", s) : j <= k
                  /\ OriginOf(AfterPass(l, orders), s) = {orders[k].counter.origin}
  <1> DEFINE n == Len(orders)
             K == Speaks(orders, "all", s)
  <1>1. PICK g : /\ PassRun(g, l, orders, n, Layouts(c))
                 /\ \A k \in 1 .. n :
                        ~Drained(g[k]) => /\ ~Drained(g[k - 1])
                                          /\ OriginOf(g[k], s) = Ordered(orders[k], s, OriginOf(g[k - 1], s))
    BY PassOrigins
  <1>2. n \in Nat /\ DOMAIN orders = 1 .. n
    OBVIOUS
  <1> DEFINE So(i) == ~Drained(g[i]) =>
                 \/ (\A j \in K : i < j) /\ OriginOf(g[i], s) = OriginOf(l, s)
                 \/ \E k \in K : /\ k <= i /\ \A j \in K : j <= i => j <= k
                                 /\ OriginOf(g[i], s) = {orders[k].counter.origin}
             E == {i \in 0 .. n : So(i)}
  <1>3. K \subseteq 1 .. n
    BY <1>2 DEF Speaks
  <1>3a. g[0] = l /\ AfterPass(l, orders) = g[n]
    BY <1>1 DEF PassRun
  <1> HIDE DEF K, n
  <1>4. 0 \in E
    BY <1>2, <1>3, <1>3a
  <1>5. ASSUME NEW i \in 0 .. n, i + 1 \in 0 .. n, i \in E PROVE i + 1 \in E
    <2> SUFFICES ASSUME ~Drained(g[i + 1])
                 PROVE  \/ (\A j \in K : i + 1 < j) /\ OriginOf(g[i + 1], s) = OriginOf(l, s)
                        \/ \E k \in K : /\ k <= i + 1 /\ \A j \in K : j <= i + 1 => j <= k
                                        /\ OriginOf(g[i + 1], s) = {orders[k].counter.origin}
      BY <1>5
    <2>1. i + 1 \in 1 .. n /\ (i + 1) - 1 = i /\ i \in Nat
      BY <1>2, <1>5
    <2>2. ~Drained(g[i]) /\ OriginOf(g[i + 1], s) = Ordered(orders[i + 1], s, OriginOf(g[i], s))
      BY <1>1, <2>1
    <2>3. So(i)
      BY <1>5
    <2>4. CASE i + 1 \in K
      <3>1. OriginOf(g[i + 1], s) = {orders[i + 1].counter.origin}
        BY <2>2, <2>4 DEF K, Speaks, Ordered
      <3> QED
        BY <2>1, <2>4, <3>1
    <2>5. CASE i + 1 \notin K
      <3>1. i + 1 \notin Speaks(orders, "each", s)
        OBVIOUS
      <3>2. OriginOf(g[i + 1], s) = OriginOf(g[i], s)
        BY <1>2, <2>1, <2>2, <2>5, <3>1 DEF K, Speaks, Ordered
      <3>3. \A j \in K : (i < j => i + 1 < j) /\ (j <= i + 1 => j <= i)
        BY <1>3, <2>1, <2>5
      <3>4. \A k \in K : k <= i => k <= i + 1
        BY <1>3, <2>1
      <3> QED
        BY <2>2, <2>3, <3>2, <3>3, <3>4
    <2> QED
      BY <2>4, <2>5
  <1>6. So(n)
    <2>1. 0 .. n \subseteq E
      <3> HIDE DEF E
      <3> QED
        BY <1>2, <1>4, <1>5, RangeInduction
    <2> HIDE DEF So
    <2> QED
      BY <1>2, <2>1
  <1>7. CASE (\A j \in K : n < j) /\ OriginOf(g[n], s) = OriginOf(l, s)
    <2>1. K = {}
      BY <1>2, <1>3, <1>7
    <2> QED
      BY <1>3a, <1>7, <2>1 DEF K
  <1>8. ASSUME NEW k \in K, \A j \in K : j <= n => j <= k,
               OriginOf(g[n], s) = {orders[k].counter.origin}
        PROVE  /\ \A j \in K : j <= k
               /\ OriginOf(AfterPass(l, orders), s) = {orders[k].counter.origin}
    BY <1>2, <1>3, <1>3a, <1>8
  <1> QED
    BY <1>3a, <1>6, <1>7, <1>8 DEF K

\* A pass of counters for each: the first order decides, if there was none.
LEMMA FirstForEach ==
    ASSUME NEW c, NEW l \in Layouts(c), NEW orders \in Seq(OrdersOf(c)), NEW s \in Slugs,
           Speaks(orders, "all", s) = {}, ~Drained(AfterPass(l, orders))
    PROVE  \/ /\ Speaks(orders, "each", s) = {} \/ OriginOf(l, s) # {}
              /\ OriginOf(AfterPass(l, orders), s) = OriginOf(l, s)
           \/ /\ OriginOf(l, s) = {}
              /\ \E k \in Speaks(orders, "each", s) :
                     /\ \A j \in Speaks(orders, "each", s) : k <= j
                     /\ OriginOf(AfterPass(l, orders), s) = {orders[k].counter.origin}
  <1> DEFINE n == Len(orders)
             K == Speaks(orders, "each", s)
             before == OriginOf(l, s)
  <1>1. PICK g : /\ PassRun(g, l, orders, n, Layouts(c))
                 /\ \A k \in 1 .. n :
                        ~Drained(g[k]) => /\ ~Drained(g[k - 1])
                                          /\ OriginOf(g[k], s) = Ordered(orders[k], s, OriginOf(g[k - 1], s))
    BY PassOrigins
  <1>2. n \in Nat /\ DOMAIN orders = 1 .. n
    OBVIOUS
  <1> DEFINE So(i) == ~Drained(g[i]) =>
                 \/ ((\A j \in K : i < j) \/ before # {}) /\ OriginOf(g[i], s) = before
                 \/ /\ before = {}
                    /\ \E k \in K : /\ k <= i /\ \A j \in K : k <= j
                                    /\ OriginOf(g[i], s) = {orders[k].counter.origin}
             E == {i \in 0 .. n : So(i)}
  <1>3. K \subseteq 1 .. n
    BY <1>2 DEF Speaks
  <1>3a. g[0] = l /\ AfterPass(l, orders) = g[n]
    BY <1>1 DEF PassRun
  <1> HIDE DEF K, n
  <1>4. 0 \in E
    BY <1>2, <1>3, <1>3a
  <1> HIDE DEF before
  <1>5. ASSUME NEW i \in 0 .. n, i + 1 \in 0 .. n, i \in E PROVE i + 1 \in E
    <2> SUFFICES ASSUME ~Drained(g[i + 1])
                 PROVE  \/ ((\A j \in K : i + 1 < j) \/ before # {}) /\ OriginOf(g[i + 1], s) = before
                        \/ /\ before = {}
                           /\ \E k \in K : /\ k <= i + 1 /\ \A j \in K : k <= j
                                           /\ OriginOf(g[i + 1], s) = {orders[k].counter.origin}
      BY <1>5
    <2>1. i + 1 \in 1 .. n /\ (i + 1) - 1 = i /\ i \in Nat
      BY <1>2, <1>5
    <2>2. ~Drained(g[i]) /\ OriginOf(g[i + 1], s) = Ordered(orders[i + 1], s, OriginOf(g[i], s))
      BY <1>1, <2>1
    <2>3. So(i)
      BY <1>5
    <2>4. i + 1 \notin Speaks(orders, "all", s)
      OBVIOUS
    <2>5. OriginOf(g[i + 1], s) = IF i + 1 \in K /\ OriginOf(g[i], s) = {} THEN {orders[i + 1].counter.origin}
                                  ELSE OriginOf(g[i], s)
      BY <1>2, <2>1, <2>2, <2>4 DEF K, Speaks, Ordered
    <2>6. \A j \in K : /\ (i < j => i + 1 <= j /\ (i + 1 \notin K => i + 1 < j))
                       /\ (j <= i => j <= i + 1)
      BY <1>3, <2>1
    <2>7. CASE ((\A j \in K : i < j) \/ before # {}) /\ OriginOf(g[i], s) = before
      <3>1. CASE before # {}
        BY <2>5, <2>7, <3>1
      <3>2. CASE before = {} /\ i + 1 \in K
        <4>1. \A j \in K : i + 1 <= j
          BY <2>6, <2>7, <3>2
        <4>2. i + 1 <= i + 1
          BY <2>1
        <4> QED
          BY <2>5, <2>7, <3>2, <4>1, <4>2
      <3>3. CASE before = {} /\ i + 1 \notin K
        BY <2>5, <2>6, <2>7, <3>3
      <3> QED
        BY <3>1, <3>2, <3>3
    <2>8. CASE /\ before = {}
               /\ \E k \in K : /\ k <= i /\ \A j \in K : k <= j
                               /\ OriginOf(g[i], s) = {orders[k].counter.origin}
      BY <2>5, <2>6, <2>8
    <2> QED
      BY <2>2, <2>3, <2>7, <2>8
  <1>6. So(n)
    <2>1. 0 .. n \subseteq E
      <3> HIDE DEF E
      <3> QED
        BY <1>2, <1>4, <1>5, RangeInduction
    <2> HIDE DEF So
    <2> QED
      BY <1>2, <2>1
  <1>7. (\A j \in K : n < j) => K = {}
    BY <1>2, <1>3
  <1> QED
    BY <1>3a, <1>6, <1>7 DEF K, before

\* The robots.txt groups that may govern a slug, and the rule they make.
Counting(c, s) ==
    {g \in IF c.off THEN {} ELSE Slowest(c, s) : c.robots[g].delay > 0 \/ c.wildcard # NoLimit}
RobotsRule(c, s) == IF Counting(c, s) = {} THEN {} ELSE {<<"robots", Min(Counting(c, s))>>}

LEMMA NothingYet == \A s \in Slugs : OriginOf(NoCounters, s) = {}
  BY DEF OriginOf, NoCounters

LEMMA MinIs ==
    ASSUME NEW S \in SUBSET Nat, NEW x \in S, \A y \in S : x <= y
    PROVE  Min(S) = x
  <1>1. Min(S) \in S /\ \A y \in S : Min(S) <= y
    BY DEF Min
  <1>2. Min(S) <= x /\ x <= Min(S) /\ x \in Nat /\ Min(S) \in Nat
    BY <1>1
  <1> QED
    BY <1>2

LEMMA MaxIs ==
    ASSUME NEW S \in SUBSET Nat, NEW x \in S, \A y \in S : y <= x
    PROVE  Max(S) = x
  <1>1. Max(S) \in S /\ \A y \in S : Max(S) >= y
    BY DEF Max
  <1>2. Max(S) >= x /\ Max(S) <= x /\ x \in Nat /\ Max(S) \in Nat
    BY <1>1
  <1> QED
    BY <1>2

LEMMA RobotsPass ==
    ASSUME NEW c \in Configs, NEW s \in Slugs, ~Drained(AfterPass(NoCounters, RobotsOrders(c)))
    PROVE  OriginOf(AfterPass(NoCounters, RobotsOrders(c)), s) = RobotsRule(c, s)
  <1> DEFINE orders == RobotsOrders(c)
             l == AfterPass(NoCounters, orders)
             claim == Claims(c.robots, s)
  <1>1. /\ c.off \in BOOLEAN /\ c.robots \in Seq(DelayGroups) /\ orders \in Seq(OrdersOf(c))
        /\ NoCounters \in Layouts(c) /\ OriginOf(NoCounters, s) = {}
    BY ConfigsAssumption, RobotsOrdersIn, NoCountersIsLayout, NothingYet
  <1>2. CASE c.off
    <2>1. orders = <<>>
      BY <1>2 DEF RobotsOrders
    <2>2. DOMAIN orders = {}
      BY <2>1
    <2>3. Speaks(orders, "all", s) = {} /\ Speaks(orders, "each", s) = {}
      BY <2>2 DEF Speaks
    <2>4. OriginOf(l, s) = {}
      <3> HIDE DEF orders
      <3> QED
        BY <1>1, <2>3, LastForAll DEF orders
    <2>5. Counting(c, s) = {}
      BY <1>2 DEF Counting
    <2> QED
      BY <2>4, <2>5 DEF RobotsRule
  <1>3. CASE ~c.off
    <2> DEFINE counts(g) == c.robots[g].delay > 0 \/ c.wildcard # NoLimit
    <2>1. /\ DOMAIN orders = DOMAIN c.robots
          /\ \A g \in DOMAIN c.robots :
                 IF Won(c.robots, g) = {} \/ (c.robots[g].delay = 0 /\ c.wildcard = NoLimit)
                 THEN orders[g].kind = "none"
                 ELSE /\ orders[g].kind = "all" /\ orders[g].slugs = Won(c.robots, g)
                      /\ orders[g].counter.origin = <<"robots", g>>
      BY <1>3 DEF RobotsOrders, NoOrder, OneForAll, Counter
    <2> HIDE DEF orders
    <2>2. \A g \in DOMAIN c.robots : c.robots[g].delay \in Nat /\ g \in Nat
      BY <1>1, TokenTypes
    <2>3. Speaks(orders, "each", s) = {}
      <3>1. \A g \in DOMAIN orders : orders[g].kind # "each"
        BY <2>1
      <3> QED
        BY <3>1 DEF Speaks
    <2>4. Speaks(orders, "all", s) = {g \in DOMAIN c.robots : s \in Won(c.robots, g) /\ counts(g)}
      <3>1. ASSUME NEW g \in DOMAIN c.robots
            PROVE  (orders[g].kind = "all" /\ s \in orders[g].slugs) <=> (s \in Won(c.robots, g) /\ counts(g))
        BY <2>1, <2>2
      <3> HIDE DEF counts
      <3> QED
        BY <2>1, <3>1 DEF Speaks
    <2>5. \A g : s \in Won(c.robots, g) <=> claim # NoLimit /\ claim.g = g
      BY DEF Won
    <2>6. Counting(c, s) = {g \in Slowest(c, s) : counts(g)}
      BY <1>3 DEF Counting
    <2>7. \/ /\ Speaks(orders, "all", s) = {} /\ OriginOf(l, s) = {}
          \/ \E k \in Speaks(orders, "all", s) : OriginOf(l, s) = {orders[k].counter.origin}
      BY <1>1, <2>3, LastForAll DEF orders
    <2>8. \/ claim = NoLimit /\ Slowest(c, s) = {}
          \/ /\ claim # NoLimit /\ claim.g \in Slowest(c, s) \cap DOMAIN c.robots
             /\ \A h \in Slowest(c, s) :
                    h \in Nat /\ claim.g <= h /\ c.robots[h].delay = c.robots[claim.g].delay
      BY ClaimsGovern
    <2> HIDE DEF claim, l
    <2>9. CASE claim # NoLimit /\ counts(claim.g)
      <3>1. Speaks(orders, "all", s) = {claim.g} /\ claim.g \in DOMAIN c.robots
        BY <2>4, <2>5, <2>8, <2>9
      <3>2. OriginOf(l, s) = {<<"robots", claim.g>>}
        <4>1. orders[claim.g].kind # "none"
          BY <3>1 DEF Speaks
        <4>2. orders[claim.g].counter.origin = <<"robots", claim.g>>
          BY <2>1, <3>1, <4>1
        <4> QED
          BY <2>7, <3>1, <4>2
      <3>3. Counting(c, s) \in SUBSET Nat /\ claim.g \in Counting(c, s) /\ \A y \in Counting(c, s) : claim.g <= y
        BY <2>6, <2>8, <2>9
      <3>4. Min(Counting(c, s)) = claim.g
        BY <3>3, MinIs
      <3> QED
        BY <3>2, <3>3, <3>4 DEF RobotsRule, l, orders
    <2>10. CASE claim = NoLimit \/ ~counts(claim.g)
      <3>1. Speaks(orders, "all", s) = {}
        BY <2>4, <2>5, <2>10
      <3>2. Counting(c, s) = {}
        BY <2>6, <2>8, <2>10
      <3> QED
        BY <2>7, <3>1, <3>2 DEF RobotsRule, l, orders
    <2> QED
      BY <2>9, <2>10
  <1> QED
    BY <1>2, <1>3

LEMMA RuleTypes ==
    ASSUME NEW c \in Configs
    PROVE  DOMAIN c.rules \in SUBSET Nat
  <1>1. c.rules \in Seq(BotRules)
    BY ConfigsAssumption
  <1> QED
    BY <1>1

LEMMA EachPass ==
    ASSUME NEW c \in Configs, NEW s \in Slugs, NEW l \in Layouts(c), ~Drained(AfterPass(l, EachOrders(c)))
    PROVE  OriginOf(AfterPass(l, EachOrders(c)), s) =
               IF Naming(c, s, "each") = {} THEN OriginOf(l, s) ELSE {<<"rule", Max(Naming(c, s, "each"))>>}
  <1> DEFINE orders == EachOrders(c)
             K == Naming(c, s, "each")
  <1>1. /\ DOMAIN orders = DOMAIN c.rules
        /\ \A i \in DOMAIN c.rules :
               IF c.rules[i].kind = "each"
               THEN /\ orders[i].kind = "all" /\ orders[i].slugs = c.rules[i].slugs
                    /\ orders[i].counter.origin = <<"rule", i>>
               ELSE orders[i].kind = "none"
    BY DEF EachOrders, NoOrder, OneForAll, RuleCounter, Counter
  <1>2. orders \in Seq(OrdersOf(c)) /\ DOMAIN c.rules \in SUBSET Nat
    BY RuleOrdersIn, RuleTypes
  <1> HIDE DEF orders
  <1>3. Speaks(orders, "each", s) = {}
    <2>1. \A i \in DOMAIN orders : orders[i].kind # "each"
      BY <1>1
    <2> QED
      BY <2>1 DEF Speaks
  <1>4. Speaks(orders, "all", s) = K
    <2>1. ASSUME NEW i \in DOMAIN c.rules
          PROVE  (orders[i].kind = "all" /\ s \in orders[i].slugs) <=> (c.rules[i].kind = "each" /\ s \in c.rules[i].slugs)
      BY <1>1
    <2> QED
      BY <1>1, <2>1 DEF Speaks, Naming
  <1>5. K \in SUBSET Nat /\ \A i \in K : orders[i].counter.origin = <<"rule", i>>
    BY <1>1, <1>2 DEF Naming
  <1> HIDE DEF K
  <1>6. \/ K = {} /\ OriginOf(AfterPass(l, orders), s) = OriginOf(l, s)
        \/ \E k \in K : /\ \A j \in K : j <= k
                        /\ OriginOf(AfterPass(l, orders), s) = {orders[k].counter.origin}
    BY <1>2, <1>3, <1>4, LastForAll DEF orders
  <1>7. \A k \in K : (\A j \in K : j <= k) => Max(K) = k
    BY <1>5, MaxIs
  <1> QED
    BY <1>5, <1>6, <1>7 DEF K, orders

LEMMA BotgroupPass ==
    ASSUME NEW c \in Configs, NEW s \in Slugs, NEW l \in Layouts(c), ~Drained(AfterPass(l, BotgroupOrders(c)))
    PROVE  OriginOf(AfterPass(l, BotgroupOrders(c)), s) =
               IF Naming(c, s, "botgroup") = {} \/ OriginOf(l, s) # {} THEN OriginOf(l, s)
               ELSE {<<"rule", Min(Naming(c, s, "botgroup"))>>}
  <1> DEFINE orders == BotgroupOrders(c)
             K == Naming(c, s, "botgroup")
  <1>1. /\ DOMAIN orders = DOMAIN c.rules
        /\ \A i \in DOMAIN c.rules :
               IF c.rules[i].kind = "botgroup"
               THEN /\ orders[i].kind = "each" /\ orders[i].slugs = c.rules[i].slugs
                    /\ orders[i].counter.origin = <<"rule", i>>
               ELSE orders[i].kind = "none"
    BY DEF BotgroupOrders, NoOrder, OneEach, RuleCounter, Counter
  <1>2. orders \in Seq(OrdersOf(c)) /\ DOMAIN c.rules \in SUBSET Nat
    BY RuleOrdersIn, RuleTypes
  <1> HIDE DEF orders
  <1>3. Speaks(orders, "all", s) = {}
    <2>1. \A i \in DOMAIN orders : orders[i].kind # "all"
      BY <1>1
    <2> QED
      BY <2>1 DEF Speaks
  <1>4. Speaks(orders, "each", s) = K
    <2>1. ASSUME NEW i \in DOMAIN c.rules
          PROVE  (orders[i].kind = "each" /\ s \in orders[i].slugs) <=> (c.rules[i].kind = "botgroup" /\ s \in c.rules[i].slugs)
      BY <1>1
    <2> QED
      BY <1>1, <2>1 DEF Speaks, Naming
  <1>5. K \in SUBSET Nat /\ \A i \in K : orders[i].counter.origin = <<"rule", i>>
    BY <1>1, <1>2 DEF Naming
  <1> HIDE DEF K
  <1>6. \/ (K = {} \/ OriginOf(l, s) # {}) /\ OriginOf(AfterPass(l, orders), s) = OriginOf(l, s)
        \/ /\ OriginOf(l, s) = {}
           /\ \E k \in K : /\ \A j \in K : k <= j
                           /\ OriginOf(AfterPass(l, orders), s) = {orders[k].counter.origin}
    BY <1>2, <1>3, <1>4, FirstForEach DEF orders
  <1>7. \A k \in K : (\A j \in K : k <= j) => Min(K) = k
    BY <1>5, MinIs
  <1> QED
    BY <1>5, <1>6, <1>7 DEF K, orders

LEMMA WildcardPass ==
    ASSUME NEW c \in Configs, NEW s \in Slugs, NEW l \in Layouts(c), ~Drained(AfterPass(l, WildcardOrders(c)))
    PROVE  OriginOf(AfterPass(l, WildcardOrders(c)), s) =
               IF c.wildcard = NoLimit \/ OriginOf(l, s) # {} THEN OriginOf(l, s) ELSE {<<"wildcard">>}
  <1> DEFINE orders == WildcardOrders(c)
             w == WildCounter(c)
  <1>1. orders \in Seq(OrdersOf(c))
    BY WildcardOrdersIn
  <1>2. CASE c.wildcard = NoLimit
    <2>1. orders = <<>>
      BY <1>2 DEF WildcardOrders
    <2>2. DOMAIN orders = {}
      BY <2>1
    <2>3. Speaks(orders, "all", s) = {} /\ Speaks(orders, "each", s) = {}
      BY <2>2 DEF Speaks
    <2> HIDE DEF orders
    <2> QED
      BY <1>1, <1>2, <2>3, LastForAll DEF orders
  <1>3. CASE c.wildcard # NoLimit
    <2>1. orders = <<OneEach(w, Slugs), OneNamed(w, "unknown"), OneNamed(w, "no-ua"),
                     OneNamed(w, "fake"), OneNamed(w, "fallback")>>
      BY <1>3 DEF WildcardOrders
    <2>2. w.origin = <<"wildcard">>
      BY DEF WildCounter, Counter
    <2> HIDE DEF w, orders
    <2>3. /\ DOMAIN orders = 1 .. 5 /\ orders[1].kind = "each" /\ orders[1].slugs = Slugs
          /\ orders[1].counter = w
          /\ orders[2].kind = "name" /\ orders[3].kind = "name" /\ orders[4].kind = "name"
          /\ orders[5].kind = "name"
      BY <2>1 DEF OneEach, OneNamed
    <2>4. \A k \in 1 .. 5 : k = 1 \/ k = 2 \/ k = 3 \/ k = 4 \/ k = 5
      OBVIOUS
    <2>5. Speaks(orders, "all", s) = {} /\ Speaks(orders, "each", s) = {1}
      BY <2>3, <2>4 DEF Speaks
    <2>6. \/ OriginOf(l, s) # {} /\ OriginOf(AfterPass(l, orders), s) = OriginOf(l, s)
          \/ OriginOf(l, s) = {} /\ OriginOf(AfterPass(l, orders), s) = {w.origin}
      <3>1. \/ /\ Speaks(orders, "each", s) = {} \/ OriginOf(l, s) # {}
               /\ OriginOf(AfterPass(l, orders), s) = OriginOf(l, s)
            \/ /\ OriginOf(l, s) = {}
               /\ \E k \in Speaks(orders, "each", s) :
                      /\ \A j \in Speaks(orders, "each", s) : k <= j
                      /\ OriginOf(AfterPass(l, orders), s) = {orders[k].counter.origin}
        BY <1>1, <2>5, FirstForEach DEF orders
      <3> QED
        BY <2>3, <2>5, <3>1
    <2> QED
      BY <1>3, <2>2, <2>6 DEF orders
  <1> QED
    BY <1>2, <1>3

\* The passes for botgroups and for the total leave the slugs alone.
LEMMA NamedPasses ==
    ASSUME NEW c \in Configs, NEW s \in Slugs, NEW l \in Layouts(c)
    PROVE  /\ ~Drained(AfterPass(l, GroupOrders(c))) =>
                  OriginOf(AfterPass(l, GroupOrders(c)), s) = OriginOf(l, s)
           /\ ~Drained(AfterPass(l, TotalOrders(c))) =>
                  OriginOf(AfterPass(l, TotalOrders(c)), s) = OriginOf(l, s)
  <1>1. ASSUME NEW orders \in Seq(OrdersOf(c)), \A k \in DOMAIN orders : orders[k].kind \in {"name", "none"},
               ~Drained(AfterPass(l, orders))
        PROVE  OriginOf(AfterPass(l, orders), s) = OriginOf(l, s)
    <2>1. Speaks(orders, "all", s) = {} /\ Speaks(orders, "each", s) = {}
      BY <1>1 DEF Speaks
    <2> QED
      BY <1>1, <2>1, LastForAll
  <1>2. \A k \in DOMAIN GroupOrders(c) : GroupOrders(c)[k].kind \in {"name", "none"}
    <2> DEFINE first(i) == /\ c.rules[i].kind = "group"
                           /\ ~\E j \in 1 .. i - 1 : c.rules[j].kind = "group" /\ c.rules[j].group = c.rules[i].group
    <2>1. GroupOrders(c) = [i \in DOMAIN c.rules |-> IF first(i) THEN OneNamed(RuleCounter(c, i), c.rules[i].group) ELSE NoOrder]
      BY DEF GroupOrders
    <2> HIDE DEF first
    <2> QED
      BY <2>1 DEF OneNamed, NoOrder
  <1>3. \A k \in DOMAIN TotalOrders(c) : TotalOrders(c)[k].kind \in {"name", "none"}
    <2>1. CASE c.total = NoLimit
      <3>1. TotalOrders(c) = <<>>
        BY <2>1 DEF TotalOrders
      <3> QED
        BY <3>1
    <2>2. CASE c.total # NoLimit
      <3> DEFINE x == Counter(<<"total">>, c.total.budget, c.total.observe)
      <3>1. TotalOrders(c) = <<OneNamed(x, "total")>>
        BY <2>2 DEF TotalOrders
      <3> HIDE DEF x
      <3> QED
        BY <3>1 DEF OneNamed
    <2> QED
      BY <2>1, <2>2
  <1> QED
    BY <1>1, <1>2, <1>3, RuleOrdersIn, TotalOrdersIn

\* The six passes together: every slug has the counter of the rule that
\* governs it.
LEMMA FullLayoutOrigins ==
    ASSUME NEW c \in Configs, NEW s \in Slugs, ~Drained(FullLayout(c))
    PROVE  OriginOf(FullLayout(c), s) = Governs(c, s)
  <1> DEFINE l0 == AfterPass(NoCounters, RobotsOrders(c))
             l1 == AfterPass(l0, EachOrders(c))
             l2 == AfterPass(l1, BotgroupOrders(c))
             l3 == AfterPass(l2, WildcardOrders(c))
             l4 == AfterPass(l3, GroupOrders(c))
             l5 == AfterPass(l4, TotalOrders(c))
  <1>1. l0 \in Layouts(c)
    BY NoCountersIsLayout, RobotsOrdersIn, PassGrows
  <1>2. ~Drained(l0) => OriginOf(l0, s) = RobotsRule(c, s)
    BY RobotsPass
  <1> HIDE DEF l0
  <1>3. l1 \in Layouts(c) /\ Grown(l0, l1)
    BY <1>1, RuleOrdersIn, PassGrows
  <1>4. ~Drained(l1) => OriginOf(l1, s) =
            IF Naming(c, s, "each") = {} THEN OriginOf(l0, s) ELSE {<<"rule", Max(Naming(c, s, "each"))>>}
    BY <1>1, EachPass
  <1> HIDE DEF l1
  <1>5. l2 \in Layouts(c) /\ Grown(l1, l2)
    BY <1>3, RuleOrdersIn, PassGrows
  <1>6. ~Drained(l2) => OriginOf(l2, s) =
            IF Naming(c, s, "botgroup") = {} \/ OriginOf(l1, s) # {} THEN OriginOf(l1, s)
            ELSE {<<"rule", Min(Naming(c, s, "botgroup"))>>}
    BY <1>3, BotgroupPass
  <1> HIDE DEF l2
  <1>7. l3 \in Layouts(c) /\ Grown(l2, l3)
    BY <1>5, WildcardOrdersIn, PassGrows
  <1>8. ~Drained(l3) => OriginOf(l3, s) =
            IF c.wildcard = NoLimit \/ OriginOf(l2, s) # {} THEN OriginOf(l2, s) ELSE {<<"wildcard">>}
    BY <1>5, WildcardPass
  <1> HIDE DEF l3
  <1>9. l4 \in Layouts(c) /\ Grown(l3, l4) /\ (~Drained(l4) => OriginOf(l4, s) = OriginOf(l3, s))
    BY <1>7, RuleOrdersIn, PassGrows, NamedPasses
  <1> HIDE DEF l4
  <1>10. l5 \in Layouts(c) /\ Grown(l4, l5) /\ (~Drained(l5) => OriginOf(l5, s) = OriginOf(l4, s))
    BY <1>9, TotalOrdersIn, PassGrows, NamedPasses
  <1> HIDE DEF l5
  <1>11. FullLayout(c) = l5
    BY DEF FullLayout, SlugLayout, l0, l1, l2, l3, l4, l5
  <1>12. ~Drained(l5) /\ ~Drained(l4) /\ ~Drained(l3) /\ ~Drained(l2) /\ ~Drained(l1) /\ ~Drained(l0)
    <2>1. ~Drained(l5) /\ ~Drained(l4)
      BY <1>9, <1>10, <1>11, GrownUndrained
    <2>2. ~Drained(l3)
      BY <1>7, <1>9, <2>1, GrownUndrained
    <2>3. ~Drained(l2)
      BY <1>5, <1>7, <2>2, GrownUndrained
    <2>4. ~Drained(l1)
      BY <1>3, <1>5, <2>3, GrownUndrained
    <2> QED
      BY <1>1, <1>3, <2>1, <2>2, <2>3, <2>4, GrownUndrained
  <1> DEFINE each == Naming(c, s, "each")
             group == Naming(c, s, "botgroup")
             counts == Counting(c, s)
  <1>13. OriginOf(l5, s) = OriginOf(l3, s) /\ OriginOf(l0, s) = RobotsRule(c, s)
    BY <1>2, <1>9, <1>10, <1>12
  <1>14. OriginOf(l1, s) = IF each # {} THEN {<<"rule", Max(each)>>} ELSE RobotsRule(c, s)
    BY <1>4, <1>12, <1>13
  <1>15. Governs(c, s) =
             CASE each # {}   -> {<<"rule", Max(each)>>}
               [] each = {} /\ counts # {} -> {<<"robots", Min(counts)>>}
               [] each = {} /\ counts = {} /\ group # {} -> {<<"rule", Min(group)>>}
               [] OTHER -> IF c.wildcard = NoLimit THEN {} ELSE {<<"wildcard">>}
    BY DEF Governs, Counting
  <1> HIDE DEF each, group, counts
  <1>16. CASE each # {}
    BY <1>6, <1>8, <1>11, <1>12, <1>13, <1>14, <1>15, <1>16
  <1>17. CASE each = {} /\ counts # {}
    <2>1. OriginOf(l1, s) = {<<"robots", Min(counts)>>}
      BY <1>14, <1>17 DEF RobotsRule, counts
    <2> QED
      BY <1>6, <1>8, <1>11, <1>12, <1>13, <1>15, <1>17, <2>1
  <1>18. CASE each = {} /\ counts = {}
    <2>1. OriginOf(l1, s) = {}
      BY <1>14, <1>18 DEF RobotsRule, counts
    <2>2. OriginOf(l2, s) = IF group = {} THEN {} ELSE {<<"rule", Min(group)>>}
      BY <1>6, <1>12, <2>1 DEF group
    <2> QED
      BY <1>8, <1>11, <1>12, <1>13, <1>15, <1>18, <2>2
  <1> QED
    BY <1>16, <1>17, <1>18

\* The tables of a server that has started keep the rules of the layout.
LEMMA ConfiguredRules ==
    ASSUME config \in Configs, Configured(config)
    PROVE  RightRule
  <1> DEFINE l == FullLayout(config)
             mine(n) == {s \in Slugs : l.by[s] = n}
  <1>1. PICK order \in HashOrders :
            slots = [n \in DOMAIN l.slots |->
                        [l.slots[n] EXCEPT !.group = Wired(l.named, order, mine(n))]]
    BY DEF Configured
  <1>2. bySlug = l.by
    BY DEF Configured
  <1>3. l \in Layouts(config)
    BY FullLayoutHolds
  <1> HIDE DEF l, mine
  <1>4. /\ Len(l.slots) \in Nat /\ DOMAIN l.slots = 1 .. Len(l.slots) /\ PoolSize \in Nat
        /\ \A n \in 1 .. Len(l.slots) :
               l.slots[n] \in [origin : Origins, budget : Nat, observe : BOOLEAN, group : {0}]
        /\ l.by \in [Slugs \cup Late -> Nat]
        /\ \A s \in Slugs \cup Late : l.by[s] <= Len(l.slots)
    BY <1>3, BotRateAssumption DEF Layouts, CountersOf
  <1>5. DOMAIN slots = 1 .. Len(l.slots) /\ Len(slots) = Len(l.slots)
    BY <1>1, <1>4
  <1>6. \A n \in 1 .. Len(l.slots) : slots[n].origin = l.slots[n].origin
    BY <1>1, <1>4
  <1>7. ASSUME Len(slots) < PoolSize, NEW s \in Slugs
        PROVE  {slots[n].origin : n \in {bySlug[s]} \ {0}} = Governs(config, s)
    <2>1. ~Drained(l)
      BY <1>4, <1>5, <1>7 DEF Drained
    <2>2. OriginOf(l, s) = Governs(config, s)
      BY <2>1, FullLayoutOrigins DEF l
    <2>3. l.by[s] = 0 \/ l.by[s] \in 1 .. Len(l.slots)
      BY <1>4
    <2>4. {slots[n].origin : n \in {bySlug[s]} \ {0}} = OriginOf(l, s)
      BY <1>2, <1>6, <2>3 DEF OriginOf
    <2> QED
      BY <2>2, <2>4
  <1> QED
    BY <1>7 DEF RightRule

\* RightRule, for any directory, configuration, robots.txt and pool: unless
\* the pool has run out, every slug of the directory has the counter of the
\* rule that governs it, and a slug that none governs has no counter, as long
\* as the server runs (bs_bot_rate_init, register_robots_entries).
THEOREM RulesAreRight == BotSpec => []RightRule
  <1>1. BotInit => RightRule
    BY ConfiguredRules DEF BotInit
  <1>2. RightRule /\ [BotNext]_botVars => RightRule'
    <2> SUFFICES ASSUME RightRule, [BotNext]_botVars PROVE RightRule'
      OBVIOUS
    <2>1. slots' = slots /\ bySlug' = bySlug /\ config' = config
      BY DEF BotNext, botVars, Ask, Charge, Serve, Refuse
    <2> QED
      BY <2>1 DEF RightRule
  <1> QED
    BY <1>1, <1>2, PTL DEF BotSpec
-----------------------------------------------------------------------------
(***************************************************************************)
(* Theorems of ConfigMerge, for any set of scopes in use, any directives   *)
(* and any length of the configuration.                                    *)
(***************************************************************************)
-----------------------------------------------------------------------------
(* The values of a kind of line: one more line says one value more, or none. *)

Texts == STRING
ScopeNames == {"main", "vhost", "outer", "inner"}
Lines == ScopeNames \X [kind : LineKinds, value : Texts]

Picks(line, scopes, kind) == line[1] \in scopes /\ line[2].kind = kind
AfterLine(said, line, scopes, kind) ==
    IF Picks(line, scopes, kind) THEN Append(said, line[2].value) ELSE said

Saying(g, lines, scopes, kind) ==
    /\ g \in [0 .. Len(lines) -> Seq(Texts)] /\ g[0] = <<>>
    /\ \A n \in 1 .. Len(lines) : g[n] = AfterLine(g[n - 1], lines[n], scopes, kind)
    /\ ValuesOf(lines, scopes, kind) = g[Len(lines)]

LEMMA AfterLineIn ==
    ASSUME NEW said \in Seq(Texts), NEW line \in Lines, NEW scopes, NEW kind
    PROVE  AfterLine(said, line, scopes, kind) \in Seq(Texts)
  <1>1. line[2].value \in Texts
    BY DEF Lines
  <1> QED
    BY <1>1 DEF AfterLine

LEMMA ValuesSaid ==
    ASSUME NEW lines \in Seq(Lines), NEW scopes, NEW kind
    PROVE  \E g : Saying(g, lines, scopes, kind)
  <1> DEFINE N == Len(lines)
             D == Seq(Texts)
             After(x, n) == AfterLine(x, lines[n], scopes, kind)
             step == [n \in 1 .. N |-> [x \in D |-> After(x, n)]]
             Rec(s) == s = [n \in 0 .. N |-> IF n = 0 THEN <<>> ELSE After(s[n - 1], n)]
             c == CHOOSE s : Rec(s)
  <1>1. N \in Nat /\ \A n \in 1 .. N : lines[n] \in Lines
    OBVIOUS
  <1>2. \A n \in 1 .. N : \A x \in D : After(x, n) \in D
    BY <1>1, AfterLineIn
  <1>0. <<>> \in D
    OBVIOUS
  <1>10. ValuesOf(lines, scopes, kind) = c[N]
    BY DEF ValuesOf, AfterLine, Picks
  <1> HIDE DEF N, D, After
  <1>3. step \in [1 .. N -> [D -> D]]
    BY <1>2
  <1>5. PICK r : StepsThrough(r, N, D, <<>>, step)
    <2> HIDE DEF step
    <2> QED
      BY <1>0, <1>1, <1>3, RangeRecursion, Zenon
  <1>6. r \in [0 .. N -> D] /\ r[0] = <<>> /\ \A n \in 1 .. N : r[n] = step[n][r[n - 1]]
    BY <1>5 DEF StepsThrough
  <1>7. \A n \in 1 .. N : r[n] = After(r[n - 1], n)
    <2> SUFFICES ASSUME NEW n \in 1 .. N PROVE r[n] = After(r[n - 1], n)
      OBVIOUS
    <2>1. n - 1 \in 0 .. N
      BY <1>1
    <2>2. r[n - 1] \in D
      BY <1>6, <2>1
    <2> QED
      BY <1>6, <2>2
  <1>8. Rec(r)
    <2>1. ASSUME NEW n \in 0 .. N PROVE r[n] = IF n = 0 THEN <<>> ELSE After(r[n - 1], n)
      BY <1>1, <1>6, <1>7, <2>1
    <2>2. r = [n \in 0 .. N |-> r[n]]
      BY <1>6
    <2> QED
      BY <2>1, <2>2
  <1>9. Rec(c)
    <2> HIDE DEF Rec
    <2> QED
      BY <1>8
  <1>11. c[0] = <<>> /\ \A n \in 1 .. N : c[n] = After(c[n - 1], n)
    <2> HIDE DEF c
    <2> QED
      BY <1>1, <1>9
  <1>12. c[N] = r[N]
    <2> DEFINE E == {n \in 0 .. N : c[n] = r[n]}
    <2> HIDE DEF c
    <2>1. 0 \in E
      BY <1>1, <1>6, <1>11
    <2>2. ASSUME NEW n \in 0 .. N, n + 1 \in 0 .. N, n \in E PROVE n + 1 \in E
      <3>1. n + 1 \in 1 .. N /\ (n + 1) - 1 = n
        BY <1>1, <2>2
      <3> QED
        BY <1>7, <1>11, <2>2, <3>1
    <2>3. 0 .. N \subseteq E
      <3> HIDE DEF E
      <3> QED
        BY <1>1, <2>1, <2>2, RangeInduction
    <2> QED
      BY <1>1, <2>3
  <1> QED
    BY <1>6, <1>7, <1>10, <1>12 DEF Saying, N, D, After

LEMMA ValuesTyped ==
    ASSUME NEW lines \in Seq(Lines), NEW scopes, NEW kind
    PROVE  ValuesOf(lines, scopes, kind) \in Seq(Texts)
  <1>1. PICK g : Saying(g, lines, scopes, kind)
    BY ValuesSaid
  <1>2. Len(lines) \in 0 .. Len(lines)
    OBVIOUS
  <1> QED
    BY <1>1, <1>2 DEF Saying

LEMMA NoLines ==
    ASSUME NEW scopes, NEW kind
    PROVE  ValuesOf(<<>>, scopes, kind) = <<>>
  <1>1. <<>> \in Seq(Lines) /\ Len(<<>>) = 0
    OBVIOUS
  <1>2. PICK g : Saying(g, <<>>, scopes, kind)
    BY <1>1, ValuesSaid
  <1> QED
    BY <1>1, <1>2 DEF Saying

LEMMA ValuesMore ==
    ASSUME NEW lines \in Seq(Lines), NEW line \in Lines, NEW scopes, NEW kind
    PROVE  ValuesOf(Append(lines, line), scopes, kind) = AfterLine(ValuesOf(lines, scopes, kind), line, scopes, kind)
  <1> DEFINE more == Append(lines, line)
             N == Len(lines)
  <1>1. /\ N \in Nat /\ more \in Seq(Lines) /\ Len(more) = N + 1 /\ more[N + 1] = line
        /\ \A n \in 1 .. N : more[n] = lines[n]
    OBVIOUS
  <1>2. PICK g : Saying(g, lines, scopes, kind)
    BY ValuesSaid
  <1>3. PICK h : Saying(h, more, scopes, kind)
    <2> HIDE DEF more
    <2> QED
      BY <1>1, ValuesSaid
  <1> HIDE DEF more, N
  <1>4. /\ g[0] = <<>> /\ \A n \in 1 .. N : g[n] = AfterLine(g[n - 1], lines[n], scopes, kind)
        /\ ValuesOf(lines, scopes, kind) = g[N]
    BY <1>2 DEF Saying, N
  <1>5. /\ h[0] = <<>> /\ \A n \in 1 .. N + 1 : h[n] = AfterLine(h[n - 1], more[n], scopes, kind)
        /\ ValuesOf(more, scopes, kind) = h[N + 1]
    BY <1>1, <1>3 DEF Saying
  <1> DEFINE E == {n \in 0 .. N : h[n] = g[n]}
  <1>6. 0 \in E
    BY <1>1, <1>4, <1>5
  <1>7. ASSUME NEW n \in 0 .. N, n + 1 \in 0 .. N, n \in E PROVE n + 1 \in E
    <2>1. n + 1 \in 1 .. N /\ n + 1 \in 1 .. N + 1 /\ (n + 1) - 1 = n
      BY <1>1, <1>7
    <2>2. h[n + 1] = AfterLine(h[n], more[n + 1], scopes, kind) /\ g[n + 1] = AfterLine(g[n], lines[n + 1], scopes, kind)
      BY <1>4, <1>5, <2>1
    <2> QED
      BY <1>1, <1>7, <2>1, <2>2
  <1>8. 0 .. N \subseteq E
    <2> HIDE DEF E
    <2> QED
      BY <1>1, <1>6, <1>7, RangeInduction
  <1>9. N \in 0 .. N /\ N + 1 \in 1 .. N + 1 /\ (N + 1) - 1 = N
    BY <1>1
  <1>10. h[N] = g[N]
    BY <1>8, <1>9
  <1>11. h[N + 1] = AfterLine(h[N], line, scopes, kind)
    BY <1>1, <1>5, <1>9
  <1> QED
    BY <1>4, <1>5, <1>10, <1>11 DEF more
-----------------------------------------------------------------------------
(* What the scopes hold while the configuration is read.                     *)

LEMMA ChainFacts ==
    /\ ToSet(Chain) = ScopeNames
    /\ DepthOf("main") = 1 /\ DepthOf("vhost") = 2 /\ DepthOf("outer") = 3 /\ DepthOf("inner") = 4
    /\ Len(Chain) = 4 /\ Chain[1] = "main" /\ Chain[2] = "vhost" /\ Chain[3] = "outer" /\ Chain[4] = "inner"
  <1> DEFINE c == Chain
  <1>1. Len(c) = 4 /\ DOMAIN c = 1 .. 4 /\ c[1] = "main" /\ c[2] = "vhost" /\ c[3] = "outer" /\ c[4] = "inner"
    BY DEF Chain
  <1> HIDE DEF c
  <1>2. \A i \in 1 .. 4 : i = 1 \/ i = 2 \/ i = 3 \/ i = 4
    OBVIOUS
  <1>3. ToSet(c) = ScopeNames
    BY <1>1, <1>2 DEF ToSet, ScopeNames
  <1>4. /\ (CHOOSE i \in DOMAIN c : c[i] = "main") = 1 /\ (CHOOSE i \in DOMAIN c : c[i] = "vhost") = 2
        /\ (CHOOSE i \in DOMAIN c : c[i] = "outer") = 3 /\ (CHOOSE i \in DOMAIN c : c[i] = "inner") = 4
    BY <1>1, <1>2
  <1> QED
    BY <1>1, <1>3, <1>4 DEF c, DepthOf

In(lines, scope, kind) == ValuesOf(lines, {scope}, kind)
LastOf(values) == IF values = <<>> THEN Unset ELSE values[Len(values)]
KeysOf(secret) == IF secret = Unset THEN Unset ELSE DerivedKeys(secret)

\* A directory configuration from what was written in its scope.
DirFrom(knobs, secrets, rules, rows, nones, captchas) ==
    [knob     |-> LastOf(knobs),
     secret   |-> LastOf(secrets),
     keys     |-> KeysOf(LastOf(secrets)),
     rules    |-> rules,
     rows     |-> ToSet(rows),
     reset    |-> nones # <<>>,
     captchas |-> ToSet(captchas)]
RulesIn(lines, s) == IF s \in Servers THEN <<>> ELSE In(lines, s, "rule")
DirOf(lines, s) ==
    DirFrom(In(lines, s, "knob"), In(lines, s, "secret"), RulesIn(lines, s),
            In(lines, s, "row"), In(lines, s, "none"), In(lines, s, "captcha"))

ServerFrom(s, rules, knobs) == [rules |-> Tagged(s, rules), knob |-> LastOf(knobs)]
ServerOf(lines, s) ==
    ServerFrom(s, In(lines, s, "rule"), In(lines, s, "serverknob"))

\* The last of the values in the innermost scope that has one.
InnerLast(lines, kind) ==
    OwnOr(LastOf(In(lines, "inner", kind)), OwnOr(LastOf(In(lines, "outer", kind)),
    OwnOr(LastOf(In(lines, "vhost", kind)), LastOf(In(lines, "main", kind)))))

\* The lines stand in the order of their scopes, those of the server in it.
InSpec(lines) ==
    /\ \A s \in ScopeNames \ Servers : In(lines, s, "serverknob") = <<>>
    /\ \A s \in ScopeNames, k \in LineKinds :
          lines # <<>> /\ DepthOf(s) > DepthOf(lines[Len(lines)][1]) => In(lines, s, k) = <<>>
    /\ \A k \in LineKinds : LastOf(ValuesOf(lines, ScopeNames, k)) = InnerLast(lines, k)

ReadInv ==
    /\ written \in Seq(Lines)
    /\ dir = [s \in ScopeNames |-> DirOf(written, s)]
    /\ server = [s \in Servers |-> ServerOf(written, s)]
    /\ InSpec(written)

ConfigInv == (~started => ReadInv) /\ AsWritten

LEMMA LastOfAppend ==
    ASSUME NEW q \in Seq(Texts), NEW x
    PROVE  LastOf(Append(q, x)) = x
  BY DEF LastOf

LEMMA ToSetAppend ==
    ASSUME NEW q \in Seq(Texts), NEW x \in Texts
    PROVE  ToSet(Append(q, x)) = ToSet(q) \cup {x}
  <1> DEFINE N == Len(q)
             m == Append(q, x)
  <1>1. N \in Nat /\ DOMAIN q = 1 .. N /\ DOMAIN m = 1 .. N + 1 /\ m[N + 1] = x /\ \A i \in 1 .. N : m[i] = q[i]
    OBVIOUS
  <1> HIDE DEF N, m
  <1>2. \A i \in 1 .. N + 1 : i = N + 1 \/ i \in 1 .. N
    BY <1>1
  <1>3. N + 1 \in 1 .. N + 1 /\ \A i \in 1 .. N : i \in 1 .. N + 1
    BY <1>1
  <1> QED
    BY <1>1, <1>2, <1>3 DEF ToSet, m

LEMMA InMore ==
    ASSUME NEW lines \in Seq(Lines), NEW scope, NEW line, <<scope, line>> \in Lines, NEW s, NEW kind
    PROVE  In(Append(lines, <<scope, line>>), s, kind) =
             IF s = scope /\ kind = line.kind THEN Append(In(lines, s, kind), line.value) ELSE In(lines, s, kind)
  <1> DEFINE l == <<scope, line>>
  <1>1. l[1] = scope /\ l[2] = line /\ l \in Lines
    OBVIOUS
  <1> HIDE DEF l
  <1>2. ValuesOf(Append(lines, l), {s}, kind) = AfterLine(ValuesOf(lines, {s}, kind), l, {s}, kind)
    BY <1>1, ValuesMore
  <1>3. Picks(l, {s}, kind) <=> s = scope /\ kind = line.kind
    BY <1>1 DEF Picks
  <1> QED
    BY <1>1, <1>2, <1>3 DEF In, AfterLine, l

\* What each kind of line does to it.
LEMMA KnobLine ==
    ASSUME NEW a, NEW b, NEW c, NEW d, NEW e, NEW f, NEW v, NEW line, line.kind = "knob", line.value = v,
           NEW more, LastOf(more) = v
    PROVE  WithLine(DirFrom(a, b, c, d, e, f), line) = DirFrom(more, b, c, d, e, f)
  BY DEF WithLine, DirFrom
LEMMA SecretLine ==
    ASSUME NEW a, NEW b, NEW c, NEW d, NEW e, NEW f, NEW v, NEW line, line.kind = "secret", line.value = v,
           v # Unset, NEW more, LastOf(more) = v
    PROVE  WithLine(DirFrom(a, b, c, d, e, f), line) = DirFrom(a, more, c, d, e, f)
  BY DEF WithLine, DirFrom, KeysOf
LEMMA RuleLine ==
    ASSUME NEW a, NEW b, NEW c, NEW d, NEW e, NEW f, NEW v, NEW line, line.kind = "rule", line.value = v
    PROVE  WithLine(DirFrom(a, b, c, d, e, f), line) = DirFrom(a, b, Append(c, v), d, e, f)
  BY DEF WithLine, DirFrom
LEMMA RowLine ==
    ASSUME NEW a, NEW b, NEW c, NEW d, NEW e, NEW f, NEW v, NEW line, line.kind = "row", line.value = v,
           NEW more, ToSet(more) = ToSet(d) \cup {v}
    PROVE  WithLine(DirFrom(a, b, c, d, e, f), line) = DirFrom(a, b, c, more, e, f)
  BY DEF WithLine, DirFrom
LEMMA NoneLine ==
    ASSUME NEW a, NEW b, NEW c, NEW d, NEW e, NEW f, NEW line, line.kind = "none", NEW more, more # <<>>
    PROVE  WithLine(DirFrom(a, b, c, d, e, f), line) = DirFrom(a, b, c, d, more, f)
  BY DEF WithLine, DirFrom
LEMMA CaptchaLine ==
    ASSUME NEW a, NEW b, NEW c, NEW d, NEW e, NEW f, NEW v, NEW line, line.kind = "captcha", line.value = v,
           NEW more, ToSet(more) = ToSet(f) \cup {v}
    PROVE  WithLine(DirFrom(a, b, c, d, e, f), line) = DirFrom(a, b, c, d, e, more)
  BY DEF WithLine, DirFrom

LEMMA DirMore ==
    ASSUME NEW lines \in Seq(Lines), NEW scope, NEW line, <<scope, line>> \in Lines, NEW s \in ScopeNames,
           line.kind = "serverknob" => scope \in Servers
    PROVE  DirOf(Append(lines, <<scope, line>>), s) =
             IF s # scope \/ ForServer(scope, line) THEN DirOf(lines, s) ELSE WithLine(DirOf(lines, s), line)
  <1> DEFINE more == Append(lines, <<scope, line>>)
             v == line.value
             V(k) == In(lines, s, k)
             M(k) == In(more, s, k)
  <1>1. /\ scope \in ScopeNames /\ line.kind \in LineKinds /\ v \in Texts
    BY DEF Lines
  <1>2. \A k : V(k) \in Seq(Texts)
    BY ValuesTyped DEF In
  <1>3. \A k : M(k) = IF s = scope /\ k = line.kind THEN Append(V(k), v) ELSE V(k)
    BY InMore
  <1>4. /\ DirOf(lines, s) = DirFrom(V("knob"), V("secret"), RulesIn(lines, s), V("row"), V("none"), V("captcha"))
        /\ DirOf(more, s) = DirFrom(M("knob"), M("secret"), RulesIn(more, s), M("row"), M("none"), M("captcha"))
        /\ RulesIn(lines, s) = IF s \in Servers THEN <<>> ELSE V("rule")
        /\ RulesIn(more, s) = IF s \in Servers THEN <<>> ELSE M("rule")
    BY DEF DirOf, RulesIn
  <1> HIDE DEF more, V, M, v
  <1>5. \A k : LastOf(Append(V(k), v)) = v /\ ToSet(Append(V(k), v)) = ToSet(V(k)) \cup {v} /\ Append(V(k), v) # <<>>
    BY <1>1, <1>2, LastOfAppend, ToSetAppend
  <1>6. CASE s # scope
    <2>1. \A k : M(k) = V(k)
      BY <1>3, <1>6
    <2> QED
      BY <1>4, <1>6, <2>1 DEF more
  <1>7. CASE s = scope /\ ForServer(scope, line)
    <2>1. \A k : k \notin {"rule", "serverknob"} => M(k) = V(k)
      BY <1>3, <1>7 DEF ForServer
    <2>2. RulesIn(more, s) = RulesIn(lines, s)
      BY <1>4, <1>7 DEF ForServer
    <2> QED
      BY <1>4, <1>7, <2>1, <2>2 DEF more
  <1>8. CASE s = scope /\ ~ForServer(scope, line)
    <2>1. line.kind # "serverknob" /\ (line.kind = "rule" => s \notin Servers)
      BY <1>8 DEF ForServer
    <2>2. v # Unset
      BY <1>1, ConfigAssumption DEF Texts
    <2>0. \A k : M(k) = IF k = line.kind THEN Append(V(k), v) ELSE V(k)
      BY <1>3, <1>8
    <2>9. line.kind # "rule" => RulesIn(more, s) = RulesIn(lines, s)
      BY <1>4, <2>0
    <2> SUFFICES DirOf(more, s) = WithLine(DirOf(lines, s), line)
      BY <1>8 DEF more
    <2>10. line.value = v
      BY DEF v
    <2>3. CASE line.kind = "knob"
      <3>1. /\ M("secret") = V("secret") /\ RulesIn(more, s) = RulesIn(lines, s) /\ M("row") = V("row")
            /\ M("none") = V("none") /\ M("captcha") = V("captcha") /\ LastOf(M("knob")) = v
        BY <1>4, <1>5, <2>0, <2>1, <2>9, <2>3
      <3>2. WithLine(DirFrom(V("knob"), V("secret"), RulesIn(lines, s), V("row"), V("none"), V("captcha")), line)
              = DirFrom(M("knob"), V("secret"), RulesIn(lines, s), V("row"), V("none"), V("captcha"))
        BY <2>2, <2>3, <2>10, <3>1, KnobLine
      <3> QED
        BY <1>4, <3>1, <3>2
    <2>4. CASE line.kind = "secret"
      <3>1. /\ M("knob") = V("knob") /\ RulesIn(more, s) = RulesIn(lines, s) /\ M("row") = V("row")
            /\ M("none") = V("none") /\ M("captcha") = V("captcha") /\ LastOf(M("secret")) = v
        BY <1>4, <1>5, <2>0, <2>1, <2>9, <2>4
      <3>2. WithLine(DirFrom(V("knob"), V("secret"), RulesIn(lines, s), V("row"), V("none"), V("captcha")), line)
              = DirFrom(V("knob"), M("secret"), RulesIn(lines, s), V("row"), V("none"), V("captcha"))
        BY <2>2, <2>4, <2>10, <3>1, SecretLine
      <3> QED
        BY <1>4, <3>1, <3>2
    <2>5. CASE line.kind = "rule"
      <3>1. /\ M("knob") = V("knob") /\ M("secret") = V("secret") /\ M("row") = V("row")
            /\ M("none") = V("none") /\ M("captcha") = V("captcha") /\ RulesIn(more, s) = Append(RulesIn(lines, s), v)
        BY <1>4, <1>5, <2>0, <2>1, <2>9, <2>5
      <3>2. WithLine(DirFrom(V("knob"), V("secret"), RulesIn(lines, s), V("row"), V("none"), V("captcha")), line)
              = DirFrom(V("knob"), V("secret"), RulesIn(more, s), V("row"), V("none"), V("captcha"))
        BY <2>2, <2>5, <2>10, <3>1, RuleLine
      <3> QED
        BY <1>4, <3>1, <3>2
    <2>6. CASE line.kind = "row"
      <3>1. /\ M("knob") = V("knob") /\ M("secret") = V("secret") /\ RulesIn(more, s) = RulesIn(lines, s)
            /\ M("none") = V("none") /\ M("captcha") = V("captcha") /\ ToSet(M("row")) = ToSet(V("row")) \cup {v}
        BY <1>4, <1>5, <2>0, <2>1, <2>9, <2>6
      <3>2. WithLine(DirFrom(V("knob"), V("secret"), RulesIn(lines, s), V("row"), V("none"), V("captcha")), line)
              = DirFrom(V("knob"), V("secret"), RulesIn(lines, s), M("row"), V("none"), V("captcha"))
        BY <2>2, <2>6, <2>10, <3>1, RowLine
      <3> QED
        BY <1>4, <3>1, <3>2
    <2>7. CASE line.kind = "none"
      <3>1. /\ M("knob") = V("knob") /\ M("secret") = V("secret") /\ RulesIn(more, s) = RulesIn(lines, s)
            /\ M("row") = V("row") /\ M("captcha") = V("captcha") /\ M("none") # <<>>
        BY <1>4, <1>5, <2>0, <2>1, <2>9, <2>7
      <3>2. WithLine(DirFrom(V("knob"), V("secret"), RulesIn(lines, s), V("row"), V("none"), V("captcha")), line)
              = DirFrom(V("knob"), V("secret"), RulesIn(lines, s), V("row"), M("none"), V("captcha"))
        BY <2>2, <2>7, <2>10, <3>1, NoneLine
      <3> QED
        BY <1>4, <3>1, <3>2
    <2>8. CASE line.kind = "captcha"
      <3>1. /\ M("knob") = V("knob") /\ M("secret") = V("secret") /\ RulesIn(more, s) = RulesIn(lines, s)
            /\ M("row") = V("row") /\ M("none") = V("none") /\ ToSet(M("captcha")) = ToSet(V("captcha")) \cup {v}
        BY <1>4, <1>5, <2>0, <2>1, <2>9, <2>8
      <3>2. WithLine(DirFrom(V("knob"), V("secret"), RulesIn(lines, s), V("row"), V("none"), V("captcha")), line)
              = DirFrom(V("knob"), V("secret"), RulesIn(lines, s), V("row"), V("none"), M("captcha"))
        BY <2>2, <2>8, <2>10, <3>1, CaptchaLine
      <3> QED
        BY <1>4, <3>1, <3>2
    <2> QED
      BY <1>1, <2>1, <2>3, <2>4, <2>5, <2>6, <2>7, <2>8 DEF LineKinds
  <1> QED
    BY <1>6, <1>7, <1>8

LEMMA TaggedAppend ==
    ASSUME NEW scope, NEW q \in Seq(Texts), NEW x \in Texts
    PROVE  Tagged(scope, Append(q, x)) = Append(Tagged(scope, q), <<scope, x>>)
  <1> DEFINE N == Len(q)
             m == Append(q, x)
             T(i) == <<scope, m[i]>>
  <1>1. N \in Nat /\ DOMAIN q = 1 .. N /\ DOMAIN m = 1 .. N + 1 /\ m[N + 1] = x /\ \A i \in 1 .. N : m[i] = q[i]
    OBVIOUS
  <1> HIDE DEF N, m
  <1>2. Tagged(scope, m) = [i \in 1 .. N + 1 |-> T(i)] /\ Tagged(scope, q) = [i \in 1 .. N |-> T(i)]
    BY <1>1 DEF Tagged
  <1>3. T(N + 1) = <<scope, x>>
    BY <1>1
  <1> HIDE DEF T
  <1>4. [i \in 1 .. N + 1 |-> T(i)] = Append([i \in 1 .. N |-> T(i)], T(N + 1))
    BY <1>1
  <1> QED
    BY <1>2, <1>3, <1>4 DEF m

LEMMA ServerRuleLine ==
    ASSUME NEW s, NEW a, NEW b, NEW tag, NEW more, Tagged(s, more) = Append(Tagged(s, a), tag)
    PROVE  ServerFrom(s, more, b) = [ServerFrom(s, a, b) EXCEPT !.rules = Append(@, tag)]
  <1>1. ServerFrom(s, a, b).rules = Tagged(s, a)
    BY DEF ServerFrom
  <1>2. [ServerFrom(s, a, b) EXCEPT !.rules = Tagged(s, more)] = ServerFrom(s, more, b)
    <2>1. ASSUME NEW x, NEW y, NEW z PROVE [[rules |-> x, knob |-> y] EXCEPT !.rules = z] = [rules |-> z, knob |-> y]
      OBVIOUS
    <2> QED
      BY <2>1, Zenon DEF ServerFrom
  <1> QED
    BY <1>1, <1>2, Zenon
LEMMA ServerKnobLine ==
    ASSUME NEW s, NEW a, NEW b, NEW v, NEW more, LastOf(more) = v
    PROVE  ServerFrom(s, a, more) = [ServerFrom(s, a, b) EXCEPT !.knob = v]
  BY DEF ServerFrom

LEMMA ServerMore ==
    ASSUME NEW lines \in Seq(Lines), NEW scope, NEW line, <<scope, line>> \in Lines, NEW s \in Servers
    PROVE  ServerOf(Append(lines, <<scope, line>>), s) =
             IF s # scope \/ ~ForServer(scope, line) THEN ServerOf(lines, s)
             ELSE ServerWithLine(ServerOf(lines, s), scope, line)
  <1> DEFINE more == Append(lines, <<scope, line>>)
             v == line.value
             V(k) == In(lines, s, k)
             M(k) == In(more, s, k)
  <1>1. /\ scope \in ScopeNames /\ line.kind \in LineKinds /\ v \in Texts
    BY DEF Lines
  <1>2. \A k : V(k) \in Seq(Texts)
    BY ValuesTyped DEF In
  <1>3. \A k : M(k) = IF s = scope /\ k = line.kind THEN Append(V(k), v) ELSE V(k)
    BY InMore
  <1>4. ServerOf(lines, s) = ServerFrom(s, V("rule"), V("serverknob")) /\ ServerOf(more, s) = ServerFrom(s, M("rule"), M("serverknob"))
    BY DEF ServerOf
  <1> HIDE DEF more, V, M, v
  <1>5. LastOf(Append(V("serverknob"), v)) = v /\ Tagged(s, Append(V("rule"), v)) = Append(Tagged(s, V("rule")), <<s, v>>)
    BY <1>1, <1>2, LastOfAppend, TaggedAppend
  <1>6. CASE s # scope \/ ~ForServer(scope, line)
    <2>1. M("rule") = V("rule") /\ M("serverknob") = V("serverknob")
      BY <1>3, <1>6 DEF ForServer
    <2> QED
      BY <1>4, <1>6, <2>1 DEF more
  <1>7. CASE s = scope /\ ForServer(scope, line) /\ line.kind = "rule"
    <2>1. M("rule") = Append(V("rule"), v) /\ M("serverknob") = V("serverknob")
      BY <1>3, <1>7
    <2>2. ServerOf(more, s) = [ServerOf(lines, s) EXCEPT !.rules = Append(@, <<scope, v>>)]
      <3>1. ServerFrom(s, M("rule"), V("serverknob")) = [ServerFrom(s, V("rule"), V("serverknob")) EXCEPT !.rules = Append(@, <<s, v>>)]
        <4>1. Tagged(s, M("rule")) = Append(Tagged(s, V("rule")), <<s, v>>)
          BY <1>5, <2>1
        <4> QED
          BY <4>1, ServerRuleLine
      <3> QED
        BY <1>4, <1>7, <2>1, <3>1, Zenon
    <2> QED
      BY <1>7, <2>2 DEF more, v, ServerWithLine
  <1>8. CASE s = scope /\ ForServer(scope, line) /\ line.kind # "rule"
    <2>0. line.kind = "serverknob"
      BY <1>8 DEF ForServer
    <2>1. M("rule") = V("rule") /\ M("serverknob") = Append(V("serverknob"), v)
      BY <1>3, <1>8, <2>0
    <2>2. ServerOf(more, s) = [ServerOf(lines, s) EXCEPT !.knob = v]
      <3>1. ServerFrom(s, V("rule"), M("serverknob")) = [ServerFrom(s, V("rule"), V("serverknob")) EXCEPT !.knob = v]
        <4>1. LastOf(M("serverknob")) = v
          BY <1>5, <2>1
        <4> QED
          BY <4>1, ServerKnobLine
      <3> QED
        BY <1>4, <1>8, <2>1, <3>1, Zenon
    <2> QED
      BY <1>8, <2>0, <2>2 DEF more, v, ServerWithLine
  <1> QED
    BY <1>6, <1>7, <1>8
-----------------------------------------------------------------------------
(* A line more.                                                              *)

LEMMA AllMore ==
    ASSUME NEW lines \in Seq(Lines), NEW scope, NEW line, <<scope, line>> \in Lines, NEW kind
    PROVE  ValuesOf(Append(lines, <<scope, line>>), ScopeNames, kind) =
             IF kind = line.kind THEN Append(ValuesOf(lines, ScopeNames, kind), line.value)
             ELSE ValuesOf(lines, ScopeNames, kind)
  <1> DEFINE l == <<scope, line>>
  <1>1. l[1] = scope /\ l[2] = line /\ l \in Lines /\ scope \in ScopeNames
    BY DEF Lines
  <1> HIDE DEF l
  <1>2. ValuesOf(Append(lines, l), ScopeNames, kind) = AfterLine(ValuesOf(lines, ScopeNames, kind), l, ScopeNames, kind)
    BY <1>1, ValuesMore
  <1>3. Picks(l, ScopeNames, kind) <=> kind = line.kind
    BY <1>1 DEF Picks
  <1> QED
    BY <1>1, <1>2, <1>3 DEF AfterLine, l

LEMMA AppendLast ==
    ASSUME NEW D, NEW q \in Seq(D), NEW x \in D
    PROVE  Append(q, x) \in Seq(D) /\ Append(q, x) # <<>> /\ Append(q, x)[Len(Append(q, x))] = x
  OBVIOUS

LEMMA OrderMore ==
    ASSUME NEW lines \in Seq(Lines), NEW scope, NEW line, <<scope, line>> \in Lines,
           InSpec(lines), line.kind = "serverknob" => scope \in Servers,
           lines # <<>> => DepthOf(lines[Len(lines)][1]) <= DepthOf(scope)
    PROVE  InSpec(Append(lines, <<scope, line>>))
  <1> DEFINE more == Append(lines, <<scope, line>>)
             v == line.value
  <1>1. /\ scope \in ScopeNames /\ line.kind \in LineKinds /\ v \in Texts /\ v # Unset
    BY ConfigAssumption DEF Lines, Texts
  <1>2. /\ more \in Seq(Lines) /\ more # <<>> /\ more[Len(more)][1] = scope
    <2> DEFINE l == <<scope, line>>
    <2>1. l \in Lines /\ l[1] = scope
      OBVIOUS
    <2> HIDE DEF l
    <2>2. Append(lines, l) \in Seq(Lines) /\ Append(lines, l) # <<>> /\ Append(lines, l)[Len(Append(lines, l))] = l
      BY <2>1, AppendLast
    <2> QED
      BY <2>1, <2>2 DEF l
  <1>3. \A s, k : In(more, s, k) = IF s = scope /\ k = line.kind THEN Append(In(lines, s, k), v) ELSE In(lines, s, k)
    BY InMore
  <1>4. \A k : ValuesOf(more, ScopeNames, k) = IF k = line.kind THEN Append(ValuesOf(lines, ScopeNames, k), v) ELSE ValuesOf(lines, ScopeNames, k)
    BY AllMore
  <1>5. \A s, k : In(lines, s, k) \in Seq(Texts)
    BY ValuesTyped DEF In
  <1>6. \A k : ValuesOf(lines, ScopeNames, k) \in Seq(Texts)
    BY ValuesTyped
  <1>7. \A s, k : LastOf(Append(In(lines, s, k), v)) = v /\ LastOf(Append(ValuesOf(lines, ScopeNames, k), v)) = v
    BY <1>1, <1>5, <1>6, LastOfAppend
  <1>8. lines = <<>> => \A s, k : In(lines, s, k) = <<>>
    BY NoLines DEF In
  <1>9. \A s \in ScopeNames : DepthOf(s) \in Nat
    BY ChainFacts DEF ScopeNames
  <1>10. lines # <<>> => lines[Len(lines)][1] \in ScopeNames
    <2>1. lines # <<>> => lines[Len(lines)] \in Lines
      OBVIOUS
    <2> QED
      BY <2>1 DEF Lines
  <1> HIDE DEF more, v
  <1>11. ASSUME NEW s \in ScopeNames, NEW k \in LineKinds, DepthOf(s) > DepthOf(scope)
         PROVE  In(lines, s, k) = <<>> /\ In(more, s, k) = <<>>
    <2>1. s # scope
      BY <1>9, <1>11
    <2>2. lines # <<>> => DepthOf(s) > DepthOf(lines[Len(lines)][1])
      BY <1>1, <1>9, <1>10, <1>11
    <2> QED
      BY <1>3, <1>8, <2>1, <2>2 DEF InSpec
  <1>12. ASSUME NEW s \in ScopeNames \ Servers PROVE In(more, s, "serverknob") = <<>>
    BY <1>3 DEF InSpec
  <1>13. ASSUME NEW k \in LineKinds PROVE LastOf(ValuesOf(more, ScopeNames, k)) = InnerLast(more, k)
    <2>1. CASE k # line.kind
      <3>1. \A s : In(more, s, k) = In(lines, s, k)
        BY <1>3, <2>1
      <3> QED
        BY <1>4, <2>1, <3>1 DEF InSpec, InnerLast
    <2>2. CASE k = line.kind
      <3>1. LastOf(ValuesOf(more, ScopeNames, k)) = v
        BY <1>4, <1>7, <2>2
      <3>2. LastOf(In(more, scope, k)) = v
        BY <1>3, <1>7, <2>2
      <3>3. \A s \in ScopeNames : DepthOf(s) > DepthOf(scope) => LastOf(In(more, s, k)) = Unset
        BY <1>11 DEF LastOf
      <3>4. InnerLast(more, k) = v
        <4> USE ChainFacts, <1>1, <3>2, <3>3 DEF InnerLast, OwnOr, ScopeNames
        <4>1. CASE scope = "main"
          BY <4>1
        <4>2. CASE scope = "vhost"
          BY <4>2
        <4>3. CASE scope = "outer"
          BY <4>3
        <4>4. CASE scope = "inner"
          BY <4>4
        <4> QED
          BY <4>1, <4>2, <4>3, <4>4
      <3> QED
        BY <3>1, <3>4
    <2> QED
      BY <2>1, <2>2
  <1> QED
    BY <1>2, <1>11, <1>12, <1>13 DEF InSpec, more
-----------------------------------------------------------------------------
(* Reading a line keeps what the scopes hold.                                *)

LEMMA WrittenValues ==
    ASSUME NEW kind
    PROVE  Values(kind) = ValuesOf(written, ScopeNames, kind)
  BY ChainFacts DEF Values

LEMMA ConfigStarts == ConfigInit => ConfigInv
  <1> SUFFICES ASSUME ConfigInit PROVE ConfigInv
    OBVIOUS
  <1>1. written = <<>> /\ ~started /\ dir = [s \in ScopeNames |-> NewDir] /\ server = [s \in Servers |-> NewServer]
    BY ChainFacts DEF ConfigInit
  <1>2. \A s, k : In(written, s, k) = <<>> /\ ValuesOf(written, ScopeNames, k) = <<>>
    BY <1>1, NoLines DEF In
  <1>3. LastOf(<<>>) = Unset /\ ToSet(<<>>) = {}
    BY DEF LastOf, ToSet
  <1>4. ASSUME NEW s PROVE DirOf(written, s) = NewDir
    <2>1. RulesIn(written, s) = <<>>
      BY <1>2 DEF RulesIn
    <2>2. DirOf(written, s) = DirFrom(<<>>, <<>>, <<>>, <<>>, <<>>, <<>>)
      BY <1>2, <2>1 DEF DirOf
    <2>3. DirFrom(<<>>, <<>>, <<>>, <<>>, <<>>, <<>>) = NewDir
      BY <1>3 DEF DirFrom, NewDir, KeysOf
    <2> QED
      BY <2>2, <2>3
  <1>5. ASSUME NEW s PROVE ServerOf(written, s) = NewServer
    <2>1. Tagged(s, <<>>) = <<>>
      BY DEF Tagged
    <2>2. ServerOf(written, s) = ServerFrom(s, <<>>, <<>>)
      BY <1>2 DEF ServerOf
    <2> QED
      BY <1>3, <2>1, <2>2 DEF ServerFrom, NewServer
  <1>6. \A k : InnerLast(written, k) = Unset
    BY <1>2, <1>3 DEF InnerLast, OwnOr
  <1>7. InSpec(written)
    BY <1>2, <1>3, <1>6 DEF InSpec
  <1>8. written \in Seq(Lines)
    BY <1>1
  <1>9. ReadInv
    BY <1>1, <1>4, <1>5, <1>7, <1>8 DEF ReadInv
  <1> QED
    BY <1>1, <1>9 DEF ConfigInv, AsWritten

LEMMA ReadKeeps ==
    ASSUME ConfigInv, NEW scope \in Scopes, NEW line \in Directives, Read(scope, line)
    PROVE  ConfigInv'
  <1> DEFINE l == <<scope, line>>
  <1>1. l \in Lines /\ l[1] = scope /\ scope \in ScopeNames
    BY ConfigAssumption DEF Lines, ScopeNames, Texts
  <1>2. ~started /\ ~started' /\ written' = Append(written, l)
    BY DEF Read
  <1>3. ReadInv
    BY <1>2 DEF ConfigInv
  <1>4. (line.kind = "serverknob" => scope \in Servers) /\ (written # <<>> => DepthOf(written[Len(written)][1]) <= DepthOf(scope))
    BY DEF Read, InContext
  <1>5. written' \in Seq(Lines)
    <2> HIDE DEF l
    <2> QED
      BY <1>1, <1>2, <1>3 DEF ReadInv
  <1>6. InSpec(written')
    BY <1>1, <1>2, <1>3, <1>4, OrderMore DEF ReadInv
  <1>7. \A s \in ScopeNames : DirOf(written', s) =
             IF s # scope \/ ForServer(scope, line) THEN DirOf(written, s) ELSE WithLine(DirOf(written, s), line)
    BY <1>1, <1>2, <1>3, <1>4, DirMore DEF ReadInv
  <1>8. \A s \in Servers : ServerOf(written', s) =
             IF s # scope \/ ~ForServer(scope, line) THEN ServerOf(written, s)
             ELSE ServerWithLine(ServerOf(written, s), scope, line)
    BY <1>1, <1>2, <1>3, ServerMore DEF ReadInv
  <1>9. dir = [s \in ScopeNames |-> DirOf(written, s)] /\ server = [s \in Servers |-> ServerOf(written, s)]
    BY <1>3 DEF ReadInv
  <1>10. dir' = [s \in ScopeNames |-> DirOf(written', s)]
    <2>1. CASE ForServer(scope, line)
      <3>1. dir' = dir
        BY <2>1 DEF Read
      <3> QED
        BY <1>7, <1>9, <2>1, <3>1
    <2>2. CASE ~ForServer(scope, line)
      <3>1. dir' = [dir EXCEPT ![scope] = WithLine(dir[scope], line)]
        BY <2>2 DEF Read
      <3>2. dir[scope] = DirOf(written, scope)
        BY <1>1, <1>9
      <3>3. \A s \in ScopeNames : dir'[s] = DirOf(written', s)
        BY <1>7, <1>9, <2>2, <3>1, <3>2
      <3> QED
        BY <1>9, <3>1, <3>3
    <2> QED
      BY <2>1, <2>2
  <1>11. server' = [s \in Servers |-> ServerOf(written', s)]
    <2>1. CASE ~ForServer(scope, line)
      <3>1. server' = server
        BY <2>1 DEF Read
      <3> QED
        BY <1>8, <1>9, <2>1, <3>1
    <2>2. CASE ForServer(scope, line)
      <3>0. scope \in Servers
        BY <2>2 DEF ForServer
      <3>1. server' = [server EXCEPT ![scope] = ServerWithLine(server[scope], scope, line)]
        BY <2>2 DEF Read
      <3>2. server[scope] = ServerOf(written, scope)
        BY <1>9, <3>0
      <3>3. \A s \in Servers : server'[s] = ServerOf(written', s)
        BY <1>8, <1>9, <2>2, <3>0, <3>1, <3>2
      <3> QED
        BY <1>9, <3>1, <3>3
    <2> QED
      BY <2>1, <2>2
  <1>12. ReadInv'
    BY <1>5, <1>6, <1>10, <1>11 DEF ReadInv
  <1> QED
    BY <1>2, <1>12 DEF ConfigInv, AsWritten
-----------------------------------------------------------------------------
(* The ladder of the virtual host: its own rules, then those of the main       *)
(* server they do not shadow.                                                  *)

AfterName(x, name, own) == IF name \in ToSet(own) THEN x ELSE Append(x, name)
Keeping(g, names, own) ==
    /\ g \in [0 .. Len(names) -> Seq(Texts)] /\ g[0] = <<>>
    /\ \A n \in 1 .. Len(names) : g[n] = AfterName(g[n - 1], names[n], own)
    /\ Unshadowed(names, own) = g[Len(names)]

LEMMA KeepingRuns ==
    ASSUME NEW names \in Seq(Texts), NEW own
    PROVE  \E g : Keeping(g, names, own)
  <1> DEFINE N == Len(names)
             D == Seq(Texts)
             After(x, n) == AfterName(x, names[n], own)
             step == [n \in 1 .. N |-> [x \in D |-> After(x, n)]]
             Rec(s) == s = [n \in 0 .. N |-> IF n = 0 THEN <<>> ELSE After(s[n - 1], n)]
             c == CHOOSE s : Rec(s)
  <1>1. N \in Nat /\ \A n \in 1 .. N : names[n] \in Texts
    OBVIOUS
  <1>2. \A n \in 1 .. N : \A x \in D : After(x, n) \in D
    BY <1>1 DEF AfterName
  <1>0. <<>> \in D
    OBVIOUS
  <1>10. Unshadowed(names, own) = c[N]
    BY DEF Unshadowed, AfterName
  <1> HIDE DEF N, D, After
  <1>3. step \in [1 .. N -> [D -> D]]
    BY <1>2
  <1>5. PICK r : StepsThrough(r, N, D, <<>>, step)
    <2> HIDE DEF step
    <2> QED
      BY <1>0, <1>1, <1>3, RangeRecursion, Zenon
  <1>6. r \in [0 .. N -> D] /\ r[0] = <<>> /\ \A n \in 1 .. N : r[n] = step[n][r[n - 1]]
    BY <1>5 DEF StepsThrough
  <1>7. \A n \in 1 .. N : r[n] = After(r[n - 1], n)
    <2> SUFFICES ASSUME NEW n \in 1 .. N PROVE r[n] = After(r[n - 1], n)
      OBVIOUS
    <2>1. n - 1 \in 0 .. N
      BY <1>1
    <2>2. r[n - 1] \in D
      BY <1>6, <2>1
    <2> QED
      BY <1>6, <2>2
  <1>8. Rec(r)
    <2>1. ASSUME NEW n \in 0 .. N PROVE r[n] = IF n = 0 THEN <<>> ELSE After(r[n - 1], n)
      BY <1>1, <1>6, <1>7, <2>1
    <2>2. r = [n \in 0 .. N |-> r[n]]
      BY <1>6
    <2> QED
      BY <2>1, <2>2
  <1>9. Rec(c)
    <2> HIDE DEF Rec
    <2> QED
      BY <1>8
  <1>11. c[0] = <<>> /\ \A n \in 1 .. N : c[n] = After(c[n - 1], n)
    <2> HIDE DEF c
    <2> QED
      BY <1>1, <1>9
  <1>12. c[N] = r[N]
    <2> DEFINE E == {n \in 0 .. N : c[n] = r[n]}
    <2> HIDE DEF c
    <2>1. 0 \in E
      BY <1>1, <1>6, <1>11
    <2>2. ASSUME NEW n \in 0 .. N, n + 1 \in 0 .. N, n \in E PROVE n + 1 \in E
      <3>1. n + 1 \in 1 .. N /\ (n + 1) - 1 = n
        BY <1>1, <2>2
      <3> QED
        BY <1>7, <1>11, <2>2, <3>1
    <2>3. 0 .. N \subseteq E
      <3> HIDE DEF E
      <3> QED
        BY <1>1, <2>1, <2>2, RangeInduction
    <2> QED
      BY <1>1, <2>3
  <1> QED
    BY <1>6, <1>7, <1>10, <1>12 DEF Keeping, N, D, After

Ranked == ScopeNames \X Texts
AfterRule(x, rule) == IF \E i \in DOMAIN x : x[i][2] = rule[2] THEN x ELSE Append(x, rule)
Merging(g, base, add) ==
    /\ g \in [0 .. Len(base) -> Seq(Ranked)] /\ g[0] = add
    /\ \A n \in 1 .. Len(base) : g[n] = AfterRule(g[n - 1], base[n])
    /\ RulesMerged(base, add) = g[Len(base)]

LEMMA MergingRuns ==
    ASSUME NEW base \in Seq(Ranked), NEW add \in Seq(Ranked), add # <<>>
    PROVE  \E g : Merging(g, base, add)
  <1> DEFINE N == Len(base)
             D == Seq(Ranked)
             After(x, n) == AfterRule(x, base[n])
             step == [n \in 1 .. N |-> [x \in D |-> After(x, n)]]
             Rec(s) == s = [n \in 0 .. N |-> IF n = 0 THEN add ELSE After(s[n - 1], n)]
             c == CHOOSE s : Rec(s)
  <1>1. N \in Nat /\ \A n \in 1 .. N : base[n] \in Ranked
    OBVIOUS
  <1>2. \A n \in 1 .. N : \A x \in D : After(x, n) \in D
    BY <1>1 DEF AfterRule
  <1>0. add \in D
    OBVIOUS
  <1>10. RulesMerged(base, add) = c[N]
    BY DEF RulesMerged, AfterRule
  <1> HIDE DEF N, D, After
  <1>3. step \in [1 .. N -> [D -> D]]
    BY <1>2
  <1>5. PICK r : StepsThrough(r, N, D, add, step)
    <2> HIDE DEF step
    <2> QED
      BY <1>0, <1>1, <1>3, RangeRecursion, Zenon
  <1>6. r \in [0 .. N -> D] /\ r[0] = add /\ \A n \in 1 .. N : r[n] = step[n][r[n - 1]]
    BY <1>5 DEF StepsThrough
  <1>7. \A n \in 1 .. N : r[n] = After(r[n - 1], n)
    <2> SUFFICES ASSUME NEW n \in 1 .. N PROVE r[n] = After(r[n - 1], n)
      OBVIOUS
    <2>1. n - 1 \in 0 .. N
      BY <1>1
    <2>2. r[n - 1] \in D
      BY <1>6, <2>1
    <2> QED
      BY <1>6, <2>2
  <1>8. Rec(r)
    <2>1. ASSUME NEW n \in 0 .. N PROVE r[n] = IF n = 0 THEN add ELSE After(r[n - 1], n)
      BY <1>1, <1>6, <1>7, <2>1
    <2>2. r = [n \in 0 .. N |-> r[n]]
      BY <1>6
    <2> QED
      BY <2>1, <2>2
  <1>9. Rec(c)
    <2> HIDE DEF Rec
    <2> QED
      BY <1>8
  <1>11. c[0] = add /\ \A n \in 1 .. N : c[n] = After(c[n - 1], n)
    <2> HIDE DEF c
    <2> QED
      BY <1>1, <1>9
  <1>12. c[N] = r[N]
    <2> DEFINE E == {n \in 0 .. N : c[n] = r[n]}
    <2> HIDE DEF c
    <2>1. 0 \in E
      BY <1>1, <1>6, <1>11
    <2>2. ASSUME NEW n \in 0 .. N, n + 1 \in 0 .. N, n \in E PROVE n + 1 \in E
      <3>1. n + 1 \in 1 .. N /\ (n + 1) - 1 = n
        BY <1>1, <2>2
      <3> QED
        BY <1>7, <1>11, <2>2, <3>1
    <2>3. 0 .. N \subseteq E
      <3> HIDE DEF E
      <3> QED
        BY <1>1, <2>1, <2>2, RangeInduction
    <2> QED
      BY <1>1, <2>3
  <1> QED
    BY <1>6, <1>7, <1>10, <1>12 DEF Merging, N, D, After

LEMMA TaggedIn ==
    ASSUME NEW scope \in ScopeNames, NEW names \in Seq(Texts)
    PROVE  /\ Tagged(scope, names) \in Seq(Ranked) /\ Len(Tagged(scope, names)) = Len(names)
           /\ \A i \in 1 .. Len(names) : Tagged(scope, names)[i] = <<scope, names[i]>>
  BY DEF Tagged, Ranked

LEMMA NameHeld ==
    ASSUME NEW own \in Seq(Texts), NEW kept \in Seq(Texts), NEW x
    PROVE  LET all == Tagged("vhost", own) \o Tagged("main", kept)
           IN  (\E i \in DOMAIN all : all[i][2] = x) <=> x \in ToSet(own) \/ x \in ToSet(kept)
  <1> DEFINE a == Tagged("vhost", own)
             b == Tagged("main", kept)
             M == Len(own)
             N == Len(kept)
             all == a \o b
  <1>1. M \in Nat /\ N \in Nat /\ DOMAIN own = 1 .. M /\ DOMAIN kept = 1 .. N
    OBVIOUS
  <1>2. /\ a \in Seq(Ranked) /\ Len(a) = M /\ \A i \in 1 .. M : a[i] = <<"vhost", own[i]>>
        /\ b \in Seq(Ranked) /\ Len(b) = N /\ \A i \in 1 .. N : b[i] = <<"main", kept[i]>>
    BY TaggedIn DEF ScopeNames
  <1> HIDE DEF a, b, M, N
  <1>3. /\ DOMAIN all = 1 .. M + N
        /\ \A i \in 1 .. M : all[i] = a[i]
        /\ \A i \in 1 .. N : all[M + i] = b[i]
    <2>1. Len(all) = M + N /\ \A i \in 1 .. Len(a) + Len(b) : all[i] = IF i <= Len(a) THEN a[i] ELSE b[i - Len(a)]
      BY <1>2, ConcatProperties
    <2>2. DOMAIN all = 1 .. M + N
      BY <1>2, <2>1
    <2>3. \A i \in 1 .. N : M + i \in 1 .. M + N /\ ~(M + i <= M) /\ (M + i) - M = i
      BY <1>1
    <2>4. \A i \in 1 .. M : i \in 1 .. M + N /\ i <= M
      BY <1>1
    <2> QED
      BY SMTT(30), <1>2, <2>1, <2>2, <2>3, <2>4
  <1> HIDE DEF all
  <1>4. \A i \in 1 .. M + N : i \in 1 .. M \/ \E j \in 1 .. N : i = M + j
    <2> SUFFICES ASSUME NEW i \in 1 .. M + N, i \notin 1 .. M PROVE i - M \in 1 .. N /\ i = M + (i - M)
      OBVIOUS
    <2> QED
      BY <1>1
  <1>5. \A i \in 1 .. M : i \in 1 .. M + N
    BY <1>1
  <1>6. \A i \in 1 .. N : M + i \in 1 .. M + N
    BY <1>1
  <1>7. ASSUME NEW i \in DOMAIN all, all[i][2] = x PROVE x \in ToSet(own) \/ x \in ToSet(kept)
    <2>1. CASE i \in 1 .. M
      BY <1>1, <1>2, <1>3, <1>7, <2>1 DEF ToSet
    <2>2. CASE i \notin 1 .. M
      <3>1. PICK j \in 1 .. N : i = M + j
        BY <1>3, <1>4, <2>2
      <3>2. all[i] = <<"main", kept[j]>>
        BY <1>2, <1>3, <3>1
      <3>3. kept[j] = x
        BY <1>7, <3>2
      <3> QED
        BY <1>1, <3>3 DEF ToSet
    <2> QED
      BY <2>1, <2>2
  <1>8. ASSUME x \in ToSet(own) PROVE \E i \in DOMAIN all : all[i][2] = x
    <2>1. PICK i \in 1 .. M : own[i] = x
      BY <1>1, <1>8 DEF ToSet
    <2> QED
      BY <1>2, <1>3, <1>5, <2>1
  <1>9. ASSUME x \in ToSet(kept) PROVE \E i \in DOMAIN all : all[i][2] = x
    <2>1. PICK i \in 1 .. N : kept[i] = x
      BY <1>1, <1>9 DEF ToSet
    <2>2. all[M + i][2] = x
      BY <1>2, <1>3, <2>1
    <2> QED
      BY <1>3, <1>6, <2>1, <2>2
  <1> QED
    BY <1>7, <1>8, <1>9 DEF all, a, b

LEMMA RankedAppend ==
    ASSUME NEW a \in Seq(Ranked), NEW b \in Seq(Ranked), NEW x \in Ranked
    PROVE  Append(a \o b, x) = a \o Append(b, x)
  <1>1. Append(a \o b, x) = (a \o b) \o <<x>> /\ Append(b, x) = b \o <<x>> /\ <<x>> \in Seq(Ranked)
    BY AppendIsConcat, ConcatProperties
  <1> QED
    BY <1>1, ConcatAssociative

LEMMA LadderMerged ==
    ASSUME NEW main \in Seq(Texts), NEW own \in Seq(Texts), IsInjective(main)
    PROVE  RulesMerged(Tagged("main", main), Tagged("vhost", own))
             = Tagged("vhost", own) \o Tagged("main", Unshadowed(main, own))
  <1> DEFINE base == Tagged("main", main)
             add == Tagged("vhost", own)
             N == Len(main)
  <1>1. N \in Nat /\ DOMAIN main = 1 .. N /\ \A i \in 1 .. N : main[i] \in Texts
    OBVIOUS
  <1>2. /\ base \in Seq(Ranked) /\ Len(base) = N /\ \A i \in 1 .. N : base[i] = <<"main", main[i]>>
        /\ add \in Seq(Ranked) /\ Len(add) = Len(own)
    BY TaggedIn DEF ScopeNames
  <1>3. PICK u : Keeping(u, main, own)
    BY KeepingRuns
  <1> HIDE DEF base, add, N
  <1>4. /\ u \in [0 .. N -> Seq(Texts)] /\ u[0] = <<>> /\ Unshadowed(main, own) = u[N]
        /\ \A n \in 1 .. N : u[n] = AfterName(u[n - 1], main[n], own)
    BY <1>3 DEF Keeping, N
  <1>5. Tagged("main", <<>>) = <<>> /\ Tagged("vhost", <<>>) = <<>> /\ ToSet(<<>>) = {}
    BY DEF Tagged, ToSet
  <1>6. CASE own = <<>>
    <2> DEFINE E == {n \in 0 .. N : u[n] = SubSeq(main, 1, n)}
    <2>1. 0 \in E
      BY <1>1, <1>4
    <2>2. ASSUME NEW n \in 0 .. N, n + 1 \in 0 .. N, n \in E PROVE n + 1 \in E
      <3>1. n + 1 \in 1 .. N /\ (n + 1) - 1 = n
        BY <1>1, <2>2
      <3>2. u[n + 1] = Append(SubSeq(main, 1, n), main[n + 1])
        BY <1>4, <1>5, <1>6, <2>2, <3>1 DEF AfterName
      <3>3. SubSeq(main, 1, n + 1) = Append(SubSeq(main, 1, n), main[n + 1])
        BY <1>1, <3>1 DEF N
      <3> QED
        BY <2>2, <3>2, <3>3
    <2>3. N \in E
      <3>1. 0 .. N \subseteq E
        <4> HIDE DEF E
        <4> QED
          BY <1>1, <2>1, <2>2, RangeInduction
      <3> QED
        BY <1>1, <3>1
    <2>4. Unshadowed(main, own) = main
      <3>1. SubSeq(main, 1, N) = main
        BY DEF N
      <3> QED
        BY <1>4, <2>3, <3>1
    <2>5. RulesMerged(base, add) = base
      BY <1>5, <1>6 DEF RulesMerged, add
    <2>6. add \o base = base
      BY <1>2, <1>5, <1>6, ConcatEmptySeq DEF add
    <2> QED
      BY <2>4, <2>5, <2>6 DEF add, base
  <1>7. CASE own # <<>>
    <2>1. add # <<>>
      BY <1>2, <1>7
    <2>2. PICK m : Merging(m, base, add)
      BY <1>2, <2>1, MergingRuns
    <2>3. /\ m \in [0 .. N -> Seq(Ranked)] /\ m[0] = add /\ RulesMerged(base, add) = m[N]
          /\ \A n \in 1 .. N : m[n] = AfterRule(m[n - 1], base[n])
      BY <1>2, <2>2 DEF Merging
    <2> DEFINE Sofar(n) == \A x \in ToSet(u[n]) : \E i \in 1 .. n : main[i] = x
               E == {n \in 0 .. N : m[n] = add \o Tagged("main", u[n]) /\ Sofar(n)}
    <2>4. 0 \in E
      <3>1. add \o <<>> = add
        BY <1>2, ConcatEmptySeq
      <3> QED
        BY SMTT(30), <1>1, <1>4, <1>5, <2>3, <3>1
    <2>5. ASSUME NEW n \in 0 .. N, n + 1 \in 0 .. N, n \in E PROVE n + 1 \in E
      <3> DEFINE x == main[n + 1]
                 t == Tagged("main", u[n])
      <3>1. n + 1 \in 1 .. N /\ (n + 1) - 1 = n /\ x \in Texts /\ u[n] \in Seq(Texts) /\ n \in Nat
        BY <1>1, <1>4, <2>5
      <3>2. u[n + 1] = AfterName(u[n], x, own) /\ m[n + 1] = AfterRule(m[n], <<"main", x>>)
        <4>1. base[n + 1] = <<"main", x>>
          BY <1>2, <3>1
        <4> QED
          BY <1>4, <2>3, <3>1, <4>1
      <3>3. x \notin ToSet(u[n])
        <4> SUFFICES ASSUME x \in ToSet(u[n]) PROVE FALSE
          OBVIOUS
        <4>1. PICK i \in 1 .. n : main[i] = x
          BY <2>5
        <4>2. i \in 1 .. N /\ i # n + 1
          BY <1>1, <3>1, <4>1
        <4> QED
          BY <1>1, <3>1, <4>1, <4>2 DEF IsInjective
      <3>4. m[n] = add \o t
        BY <2>5
      <3>5. (\E i \in DOMAIN m[n] : m[n][i][2] = x) <=> x \in ToSet(own)
        <4>1. (\E i \in DOMAIN (add \o t) : (add \o t)[i][2] = x) <=> x \in ToSet(own) \/ x \in ToSet(u[n])
          BY <3>1, NameHeld DEF add
        <4> QED
          BY <3>3, <3>4, <4>1
      <3>6. \A i \in 1 .. n : i \in 1 .. n + 1
        BY <3>1
      <3>7. CASE x \in ToSet(own)
        <4>1. u[n + 1] = u[n] /\ m[n + 1] = m[n]
          BY <3>2, <3>5, <3>7 DEF AfterName, AfterRule
        <4> QED
          BY <2>5, <3>6, <4>1
      <3>8. CASE x \notin ToSet(own)
        <4>1. u[n + 1] = Append(u[n], x) /\ m[n + 1] = Append(m[n], <<"main", x>>)
          BY <3>2, <3>5, <3>8 DEF AfterName, AfterRule
        <4>2. Tagged("main", u[n + 1]) = Append(t, <<"main", x>>)
          BY <3>1, <4>1, TaggedAppend
        <4>3. Append(add \o t, <<"main", x>>) = add \o Append(t, <<"main", x>>)
          <5> DEFINE r == <<"main", x>>
          <5>1. t \in Seq(Ranked) /\ r \in Ranked
            BY <3>1, TaggedIn DEF Ranked, ScopeNames
          <5> HIDE DEF t, r
          <5>3. add \in Seq(Ranked)
            BY <1>2
          <5>2. Append(add \o t, r) = add \o Append(t, r)
            BY <5>1, <5>3, RankedAppend
          <5> QED
            BY <5>2 DEF t, r
        <4>4. ToSet(u[n + 1]) = ToSet(u[n]) \cup {x}
          BY <3>1, <4>1, ToSetAppend
        <4>5. Sofar(n + 1)
          BY <2>5, <3>1, <3>6, <4>4
        <4>6. m[n + 1] = add \o Tagged("main", u[n + 1])
          BY <3>4, <4>1, <4>2, <4>3
        <4> QED
          BY <2>5, <4>5, <4>6
      <3> QED
        BY <3>7, <3>8
    <2>6. N \in E
      <3>1. 0 .. N \subseteq E
        <4> HIDE DEF E
        <4> QED
          BY <1>1, <2>4, <2>5, RangeInduction
      <3>2. N \in 0 .. N
        BY <1>1
      <3> HIDE DEF E
      <3> QED
        BY <3>1, <3>2
    <2> QED
      BY <1>4, <2>3, <2>6 DEF add, base
  <1> QED
    BY <1>6, <1>7
-----------------------------------------------------------------------------
(* The merges of startup and of a request.                                   *)

LEMMA MergedFields ==
    ASSUME NEW b, NEW a
    PROVE  /\ DirMerge(b, a).knob = OwnOr(a.knob, b.knob)
           /\ DirMerge(b, a).secret = OwnOr(a.secret, b.secret)
           /\ DirMerge(b, a).keys = (IF a.secret # Unset THEN a.keys ELSE b.keys)
           /\ DirMerge(b, a).rules = a.rules \o b.rules
           /\ DirMerge(b, a).captchas = (IF a.captchas # {} THEN a.captchas ELSE b.captchas)
           /\ DirMerge(b, a).rows = RowsMerged(b, a).rows
           /\ DirMerge(b, a).reset = RowsMerged(b, a).reset
  BY DEF DirMerge, OwnOr

LEMMA MergedRows ==
    ASSUME NEW b, NEW a, a.reset \in BOOLEAN
    PROVE  /\ DirMerge(b, a).reset <=> a.reset \/ (a.rows = {} /\ b.reset)
           /\ a.reset => DirMerge(b, a).rows = a.rows
           /\ ~a.reset /\ a.rows = {} => DirMerge(b, a).rows = b.rows
           /\ ~a.reset /\ a.rows # {} /\ b.reset => DirMerge(b, a).rows = a.rows
           /\ ~a.reset /\ a.rows # {} /\ ~b.reset => DirMerge(b, a).rows = b.rows \cup a.rows
  <1> DEFINE d == DirMerge(b, a)
             l == RowsMerged(b, a)
  <1>0. d.rows = l.rows /\ d.reset = l.reset
    BY DEF DirMerge
  <1> HIDE DEF d, l
  <1>1. CASE a.reset
    <2>1. l = [reset |-> TRUE, rows |-> a.rows]
      BY <1>1 DEF RowsMerged, l
    <2> QED
      BY <1>0, <1>1, <2>1 DEF d
  <1>2. CASE ~a.reset /\ a.rows # {}
    <2>1. l = [reset |-> FALSE, rows |-> IF b.reset THEN a.rows ELSE b.rows \cup a.rows]
      BY <1>2 DEF RowsMerged, l
    <2> QED
      BY <1>0, <1>2, <2>1 DEF d
  <1>3. CASE ~a.reset /\ a.rows = {}
    <2>1. l = [reset |-> b.reset, rows |-> b.rows]
      BY <1>3 DEF RowsMerged, l
    <2> QED
      BY <1>0, <1>3, <2>1 DEF d
  <1> QED
    BY <1>1, <1>2, <1>3

\* bs_populate_auto_secret on one directory configuration.
Filled(d, ok) == IF d.secret # Unset \/ ~ok THEN d
                 ELSE [d EXCEPT !.secret = "auto", !.keys = DerivedKeys("auto")]

LEMMA FilledFields ==
    ASSUME NEW b, NEW a, NEW ok \in BOOLEAN
    PROVE  LET d == DirMerge(b, a)
               f == Filled(d, ok)
           IN  /\ f.knob = d.knob /\ f.rules = d.rules /\ f.captchas = d.captchas /\ f.rows = d.rows /\ f.reset = d.reset
               /\ f.secret = (IF d.secret = Unset /\ ok THEN "auto" ELSE d.secret)
               /\ f.keys = (IF d.secret = Unset /\ ok THEN DerivedKeys("auto") ELSE d.keys)
  <1> DEFINE d == DirMerge(b, a)
             f == Filled(d, ok)
  <1>1. CASE d.secret # Unset \/ ~ok
    BY <1>1 DEF Filled
  <1>2. CASE d.secret = Unset /\ ok
    <2>1. PICK k, x, y, r, w0, t, c : d = [knob |-> k, secret |-> x, keys |-> y, rules |-> r, rows |-> w0, reset |-> t, captchas |-> c]
      BY DEF DirMerge
    <2>2. f = [d EXCEPT !.secret = "auto", !.keys = DerivedKeys("auto")]
      BY <1>2 DEF Filled
    <2> DEFINE v == "auto"
               w == DerivedKeys("auto")
    <2> HIDE DEF d, f, v, w
    <2>3. f = [knob |-> k, secret |-> v, keys |-> w, rules |-> r, rows |-> w0, reset |-> t, captchas |-> c]
      BY <2>1, <2>2 DEF v, w
    <2>4. f.knob = d.knob /\ f.rules = d.rules /\ f.captchas = d.captchas /\ f.rows = d.rows /\ f.reset = d.reset
      BY <2>1, <2>3
    <2>5. f.secret = v /\ f.keys = w
      BY <2>3
    <2> QED
      BY <1>2, <2>4, <2>5 DEF v, w, d, f
  <1> QED
    BY <1>1, <1>2

LEMMA ToSetEmpty ==
    ASSUME NEW q \in Seq(Texts)
    PROVE  ToSet(q) = {} <=> q = <<>>
  <1>1. DOMAIN q = 1 .. Len(q) /\ Len(q) \in Nat /\ (q # <<>> => Len(q) # 0)
    OBVIOUS
  <1>2. q # <<>> => q[1] \in ToSet(q)
    BY <1>1 DEF ToSet
  <1>3. q = <<>> => ToSet(q) = {}
    BY DEF ToSet
  <1> QED
    BY <1>2, <1>3

\* The fields of what was written in a scope.
LEMMA WrittenFields ==
    ASSUME NEW lines, NEW s
    PROVE  /\ DirOf(lines, s).knob = LastOf(In(lines, s, "knob"))
           /\ DirOf(lines, s).secret = LastOf(In(lines, s, "secret"))
           /\ DirOf(lines, s).keys = KeysOf(LastOf(In(lines, s, "secret")))
           /\ DirOf(lines, s).rules = RulesIn(lines, s)
           /\ DirOf(lines, s).rows = ToSet(In(lines, s, "row"))
           /\ DirOf(lines, s).reset = (In(lines, s, "none") # <<>>)
           /\ DirOf(lines, s).captchas = ToSet(In(lines, s, "captcha"))
  BY DEF DirOf, DirFrom

Row(i) == ToSet(ValuesIn(Chain[i], "row"))
None(i) == Says(Chain[i], "none")

LEMMA RowsSince ==
    RowsWritten = IF None(4) THEN {} ELSE IF None(3) THEN Row(4) ELSE IF None(2) THEN Row(3) \cup Row(4)
                  ELSE IF None(1) THEN Row(2) \cup Row(3) \cup Row(4)
                  ELSE Row(1) \cup Row(2) \cup Row(3) \cup Row(4)
  <1> DEFINE silent == {DepthOf(s) : s \in {t \in ToSet(Chain) : Says(t, "none")}}
             since == IF silent = {} THEN 0 ELSE CHOOSE d \in silent : \A e \in silent : e <= d
             four == 4
             Rows == UNION {Row(i) : i \in since + 1 .. four}
  <1>1. RowsWritten = Rows
    BY ChainFacts DEF RowsWritten, Row
  <1>2. \A d : d \in silent <=> (d = 1 /\ None(1)) \/ (d = 2 /\ None(2)) \/ (d = 3 /\ None(3)) \/ (d = 4 /\ None(4))
    BY ChainFacts DEF None, ScopeNames
  <1> HIDE DEF silent
  <1>3. since = IF None(4) THEN 4 ELSE IF None(3) THEN 3 ELSE IF None(2) THEN 2 ELSE IF None(1) THEN 1 ELSE 0
    <2>1. CASE None(4)
      <3>1. 4 \in silent /\ \A e \in silent : e <= 4
        BY <1>2, <2>1
      <3>2. \A d \in silent : (\A e \in silent : e <= d) => d = 4
        BY <1>2, <3>1
      <3> QED
        BY <2>1, <3>1, <3>2
    <2>2. CASE ~None(4) /\ None(3)
      <3>1. 3 \in silent /\ \A e \in silent : e <= 3
        BY <1>2, <2>2
      <3>2. \A d \in silent : (\A e \in silent : e <= d) => d = 3
        BY <1>2, <2>2, <3>1
      <3> QED
        BY <2>2, <3>1, <3>2
    <2>3. CASE ~None(4) /\ ~None(3) /\ None(2)
      <3>1. 2 \in silent /\ \A e \in silent : e <= 2
        BY <1>2, <2>3
      <3>2. \A d \in silent : (\A e \in silent : e <= d) => d = 2
        BY <1>2, <2>3, <3>1
      <3> QED
        BY <2>3, <3>1, <3>2
    <2>4. CASE ~None(4) /\ ~None(3) /\ ~None(2) /\ None(1)
      <3>1. 1 \in silent /\ \A e \in silent : e <= 1
        BY <1>2, <2>4
      <3>2. \A d \in silent : (\A e \in silent : e <= d) => d = 1
        BY <1>2, <2>4, <3>1
      <3> QED
        BY <2>4, <3>1, <3>2
    <2>5. CASE ~None(4) /\ ~None(3) /\ ~None(2) /\ ~None(1)
      BY <1>2, <2>5
    <2> QED
      BY <2>1, <2>2, <2>3, <2>4, <2>5
  <1> HIDE DEF since
  <1>4. \A x : x \in Rows <=> \E i \in since + 1 .. 4 : x \in Row(i)
    OBVIOUS
  <1> HIDE DEF Rows
  <1>5. \A i : i \in 4 + 1 .. 4 <=> FALSE
    OBVIOUS
  <1>6. \A i : i \in 3 + 1 .. 4 <=> i = 4
    OBVIOUS
  <1>7. \A i : i \in 2 + 1 .. 4 <=> i = 3 \/ i = 4
    OBVIOUS
  <1>8. \A i : i \in 1 + 1 .. 4 <=> i = 2 \/ i = 3 \/ i = 4
    OBVIOUS
  <1>9. \A i : i \in 0 + 1 .. 4 <=> i = 1 \/ i = 2 \/ i = 3 \/ i = 4
    OBVIOUS
  <1>10. Rows = IF None(4) THEN {} ELSE IF None(3) THEN Row(4) ELSE IF None(2) THEN Row(3) \cup Row(4)
                ELSE IF None(1) THEN Row(2) \cup Row(3) \cup Row(4)
                ELSE Row(1) \cup Row(2) \cup Row(3) \cup Row(4)
    <2>1. CASE None(4)
      <3>1. since = 4
        BY <1>3, <2>1
      <3>2. \A x : x \notin Rows
        BY <1>4, <1>5, <3>1
      <3> QED
        BY <2>1, <3>2
    <2>2. CASE ~None(4) /\ None(3)
      <3>1. since = 3
        BY <1>3, <2>2
      <3>2. \A x : x \in Rows <=> x \in Row(4)
        BY <1>4, <1>6, <3>1
      <3> QED
        BY <2>2, <3>2
    <2>3. CASE ~None(4) /\ ~None(3) /\ None(2)
      <3>1. since = 2
        BY <1>3, <2>3
      <3>2. \A x : x \in Rows <=> x \in Row(3) \/ x \in Row(4)
        BY <1>4, <1>7, <3>1
      <3> QED
        BY <2>3, <3>2
    <2>4. CASE ~None(4) /\ ~None(3) /\ ~None(2) /\ None(1)
      <3>1. since = 1
        BY <1>3, <2>4
      <3>2. \A x : x \in Rows <=> x \in Row(2) \/ x \in Row(3) \/ x \in Row(4)
        BY <1>4, <1>8, <3>1
      <3> QED
        BY <2>4, <3>2
    <2>5. CASE ~None(4) /\ ~None(3) /\ ~None(2) /\ ~None(1)
      <3>1. since = 0
        BY <1>3, <2>5
      <3>2. \A x : x \in Rows <=> x \in Row(1) \/ x \in Row(2) \/ x \in Row(3) \/ x \in Row(4)
        BY <1>4, <1>9, <3>1
      <3> QED
        BY <2>5, <3>2
    <2> QED
      BY <2>1, <2>2, <2>3, <2>4, <2>5
  <1> QED
    BY <1>1, <1>10
-----------------------------------------------------------------------------
(* Startup leaves what was written.                                          *)

\* The three merges, from what the four scopes hold.
RequestMerge(m, v, o, i, ok) == DirMerge(Filled(DirMerge(m, v), ok), DirMerge(o, i))

LEMMA ServedKnob ==
    ASSUME NEW m, NEW v, NEW o, NEW i, NEW ok \in BOOLEAN
    PROVE  RequestMerge(m, v, o, i, ok).knob = OwnOr(OwnOr(i.knob, o.knob), OwnOr(v.knob, m.knob))
  <1> DEFINE d == DirMerge(m, v)
             f == Filled(d, ok)
             oi == DirMerge(o, i)
             e == DirMerge(f, oi)
  <1>1. d.knob = OwnOr(v.knob, m.knob) /\ oi.knob = OwnOr(i.knob, o.knob)
    BY MergedFields
  <1>2. f.knob = d.knob
    BY FilledFields
  <1>3. e.knob = OwnOr(oi.knob, f.knob)
    BY MergedFields
  <1>4. RequestMerge(m, v, o, i, ok) = e
    BY DEF RequestMerge
  <1> HIDE DEF d, f, oi, e
  <1> QED
    BY <1>1, <1>2, <1>3, <1>4

LEMMA ServedRules ==
    ASSUME NEW m, NEW v, NEW o, NEW i, NEW ok \in BOOLEAN
    PROVE  RequestMerge(m, v, o, i, ok).rules = (i.rules \o o.rules) \o (v.rules \o m.rules)
  <1> DEFINE d == DirMerge(m, v)
             f == Filled(d, ok)
             oi == DirMerge(o, i)
             e == DirMerge(f, oi)
  <1>1. d.rules = v.rules \o m.rules /\ oi.rules = i.rules \o o.rules
    BY MergedFields
  <1>2. f.rules = d.rules
    BY FilledFields
  <1>3. e.rules = oi.rules \o f.rules
    BY MergedFields
  <1>4. RequestMerge(m, v, o, i, ok) = e
    BY DEF RequestMerge
  <1> HIDE DEF d, f, oi, e
  <1> QED
    BY <1>1, <1>2, <1>3, <1>4

LEMMA ServedCaptchas ==
    ASSUME NEW m, NEW v, NEW o, NEW i, NEW ok \in BOOLEAN
    PROVE  RequestMerge(m, v, o, i, ok).captchas =
             IF i.captchas # {} THEN i.captchas ELSE IF o.captchas # {} THEN o.captchas
             ELSE IF v.captchas # {} THEN v.captchas ELSE m.captchas
  <1> DEFINE d == DirMerge(m, v)
             f == Filled(d, ok)
             oi == DirMerge(o, i)
             e == DirMerge(f, oi)
  <1>1. d.captchas = (IF v.captchas # {} THEN v.captchas ELSE m.captchas) /\ oi.captchas = (IF i.captchas # {} THEN i.captchas ELSE o.captchas)
    BY ZenonT(30), MergedFields
  <1>2. f.captchas = d.captchas
    BY FilledFields
  <1>3. e.captchas = (IF oi.captchas # {} THEN oi.captchas ELSE f.captchas)
    BY MergedFields
  <1>4. RequestMerge(m, v, o, i, ok) = e
    BY DEF RequestMerge
  <1> HIDE DEF d, f, oi, e
  <1> QED
    BY <1>1, <1>2, <1>3, <1>4

LEMMA ServedSecret ==
    ASSUME NEW m, NEW v, NEW o, NEW i, NEW ok \in BOOLEAN,
           NEW secret, secret = OwnOr(OwnOr(i.secret, o.secret), OwnOr(v.secret, m.secret))
    PROVE  /\ secret # Unset => RequestMerge(m, v, o, i, ok).secret = secret
           /\ secret = Unset => RequestMerge(m, v, o, i, ok).secret = IF ok THEN "auto" ELSE Unset
  <1> DEFINE d == DirMerge(m, v)
             f == Filled(d, ok)
             oi == DirMerge(o, i)
             e == DirMerge(f, oi)
             auto == "auto"
  <1>1. d.secret = OwnOr(v.secret, m.secret) /\ oi.secret = OwnOr(i.secret, o.secret)
    BY MergedFields
  <1>2. f.secret = (IF d.secret = Unset /\ ok THEN auto ELSE d.secret)
    BY FilledFields
  <1>3. e.secret = OwnOr(oi.secret, f.secret)
    BY MergedFields
  <1>4. RequestMerge(m, v, o, i, ok) = e
    BY DEF RequestMerge
  <1> HIDE DEF d, f, oi, e, auto
  <1>5. /\ secret # Unset => e.secret = secret
        /\ secret = Unset => e.secret = IF ok THEN auto ELSE Unset
    BY <1>1, <1>2, <1>3 DEF OwnOr
  <1> QED
    BY <1>4, <1>5 DEF auto

LEMMA ServedKeys ==
    ASSUME NEW m, NEW v, NEW o, NEW i, NEW ok \in BOOLEAN,
           m.keys = KeysOf(m.secret), v.keys = KeysOf(v.secret), o.keys = KeysOf(o.secret), i.keys = KeysOf(i.secret)
    PROVE  RequestMerge(m, v, o, i, ok).keys = KeysOf(RequestMerge(m, v, o, i, ok).secret)
  <1> DEFINE d == DirMerge(m, v)
             f == Filled(d, ok)
             oi == DirMerge(o, i)
             e == DirMerge(f, oi)
             auto == "auto"
  <1>1. d.secret = OwnOr(v.secret, m.secret) /\ d.keys = (IF v.secret # Unset THEN v.keys ELSE m.keys)
    BY MergedFields
  <1>2. oi.secret = OwnOr(i.secret, o.secret) /\ oi.keys = (IF i.secret # Unset THEN i.keys ELSE o.keys)
    BY MergedFields
  <1>3. /\ f.secret = (IF d.secret = Unset /\ ok THEN auto ELSE d.secret)
        /\ f.keys = (IF d.secret = Unset /\ ok THEN DerivedKeys(auto) ELSE d.keys)
    BY FilledFields
  <1>4. e.secret = OwnOr(oi.secret, f.secret) /\ e.keys = (IF oi.secret # Unset THEN oi.keys ELSE f.keys)
    BY MergedFields
  <1>5. RequestMerge(m, v, o, i, ok) = e
    BY DEF RequestMerge
  <1>6. auto # Unset
    BY ConfigAssumption
  <1> HIDE DEF d, f, oi, e, auto
  <1>7. d.keys = KeysOf(d.secret) /\ oi.keys = KeysOf(oi.secret)
    BY <1>1, <1>2 DEF OwnOr, KeysOf
  <1>8. f.keys = KeysOf(f.secret)
    BY <1>3, <1>6, <1>7 DEF KeysOf
  <1>9. e.keys = KeysOf(e.secret)
    BY <1>4, <1>7, <1>8 DEF OwnOr
  <1> QED
    BY <1>5, <1>9

Shown(c) == IF c.reset THEN {} ELSE c.rows

LEMMA ServedRows ==
    ASSUME NEW m, NEW v, NEW o, NEW i, NEW ok \in BOOLEAN,
           m.reset \in BOOLEAN, v.reset \in BOOLEAN, o.reset \in BOOLEAN, i.reset \in BOOLEAN,
           (~o.reset /\ o.rows = {}) \/ (~i.reset /\ i.rows = {})
    PROVE  Shown(RequestMerge(m, v, o, i, ok)) =
                 IF i.reset THEN {} ELSE IF o.reset THEN i.rows ELSE IF v.reset THEN o.rows \cup i.rows
                 ELSE IF m.reset THEN v.rows \cup o.rows \cup i.rows
                 ELSE m.rows \cup v.rows \cup o.rows \cup i.rows
  <1> USE DEF Shown
  <1> DEFINE d == DirMerge(m, v)
             f == Filled(d, ok)
             oi == DirMerge(o, i)
             e == DirMerge(f, oi)
  <1>1. Shown(d) = (IF v.reset THEN {} ELSE IF m.reset THEN v.rows ELSE m.rows \cup v.rows)
    <2>1. /\ d.reset <=> v.reset \/ (v.rows = {} /\ m.reset)
          /\ v.reset => d.rows = v.rows
          /\ ~v.reset /\ v.rows = {} => d.rows = m.rows
          /\ ~v.reset /\ v.rows # {} /\ m.reset => d.rows = v.rows
          /\ ~v.reset /\ v.rows # {} /\ ~m.reset => d.rows = m.rows \cup v.rows
      BY MergedRows
    <2> HIDE DEF d
    <2> QED
      BY <2>1
  <1>2. /\ oi.reset <=> i.reset \/ (o.reset /\ i.rows = {})
        /\ ~oi.reset => oi.rows = o.rows \cup i.rows \/ (o.reset /\ oi.rows = i.rows)
    <2>1. /\ oi.reset <=> i.reset \/ (i.rows = {} /\ o.reset)
          /\ i.reset => oi.rows = i.rows
          /\ ~i.reset /\ i.rows = {} => oi.rows = o.rows
          /\ ~i.reset /\ i.rows # {} /\ o.reset => oi.rows = i.rows
          /\ ~i.reset /\ i.rows # {} /\ ~o.reset => oi.rows = o.rows \cup i.rows
      BY MergedRows
    <2> HIDE DEF oi
    <2> QED
      BY <2>1
  <1>3. f.reset = d.reset /\ f.rows = d.rows
    BY FilledFields
  <1>4. oi.reset \in BOOLEAN
    <2> HIDE DEF oi
    <2>1. oi.reset = oi.reset
      OBVIOUS
    <2> QED
      BY <2>1, MergedFields DEF oi, DirMerge, RowsMerged
  <1>5. Shown(e) = IF oi.reset THEN {} ELSE Shown(f) \cup oi.rows
    <2>1. /\ e.reset <=> oi.reset \/ (oi.rows = {} /\ f.reset)
          /\ oi.reset => e.rows = oi.rows
          /\ ~oi.reset /\ oi.rows = {} => e.rows = f.rows
          /\ ~oi.reset /\ oi.rows # {} /\ f.reset => e.rows = oi.rows
          /\ ~oi.reset /\ oi.rows # {} /\ ~f.reset => e.rows = f.rows \cup oi.rows
      BY <1>4, MergedRows
    <2> HIDE DEF e, f, oi
    <2> QED
      BY <2>1
  <1>6. RequestMerge(m, v, o, i, ok) = e
    BY DEF RequestMerge
  <1> HIDE DEF d, f, oi, e
  <1>7. Shown(f) = Shown(d)
    BY <1>3
  <1> HIDE DEF Shown
  <1>8. Shown(e) = IF i.reset THEN {} ELSE IF o.reset THEN i.rows ELSE IF v.reset THEN o.rows \cup i.rows
                 ELSE IF m.reset THEN v.rows \cup o.rows \cup i.rows
                 ELSE m.rows \cup v.rows \cup o.rows \cup i.rows
    BY <1>1, <1>2, <1>5, <1>7
  <1> QED
    BY <1>6, <1>8 DEF Shown

LEMMA StartupKeeps ==
    ASSUME ConfigInv, Startup
    PROVE  ConfigInv'
  <1> DEFINE m == DirOf(written, "main")
             v == DirOf(written, "vhost")
             o == DirOf(written, "outer")
             i == DirOf(written, "inner")
             V(s, k) == ValuesIn(s, k)
             Final(s, k) == LastOf(ValuesIn(s, k))
             auto == "auto"
  <1>1. ~started /\ started' /\ written' = written
    BY DEF Startup
  <1>2. ReadInv
    BY <1>1 DEF ConfigInv
  <1>3. PICK ok \in BOOLEAN : generated' = ok /\ dir' = [dir EXCEPT !["main"] = Filled(@, ok), !["vhost"] = Filled(DirMerge(dir["main"], dir["vhost"]), ok)]
    BY DEF Startup, Filled
  <1>27. ok \in BOOLEAN
    BY <1>3
  <1>4. dir["main"] = m /\ dir["vhost"] = v /\ dir["outer"] = o /\ dir["inner"] = i /\ DOMAIN dir = ScopeNames
    BY <1>2 DEF ReadInv, ScopeNames
  <1>5. dir'["vhost"] = Filled(DirMerge(m, v), ok) /\ dir'["outer"] = o /\ dir'["inner"] = i
    <2>1. \A s \in ScopeNames : dir'[s] = IF s = "main" THEN Filled(dir[s], ok)
                                          ELSE IF s = "vhost" THEN Filled(DirMerge(dir["main"], dir["vhost"]), ok) ELSE dir[s]
      BY <1>3, <1>4 DEF ScopeNames
    <2> HIDE DEF m, v, o, i
    <2> QED
      BY <1>4, <2>1 DEF ScopeNames
  <1>6. Effective' = RequestMerge(m, v, o, i, ok)
    BY <1>5 DEF Effective, RequestMerge
  <1>7. \A s, k : In(written, s, k) = V(s, k) /\ V(s, k) \in Seq(Texts)
    BY <1>2, ValuesTyped DEF In, ReadInv, ValuesIn
  <1>8. \A k : Values(k) \in Seq(Texts) /\ Values(k) = ValuesOf(written, ScopeNames, k)
    BY <1>2, WrittenValues, ValuesTyped DEF ReadInv
  <1>9. \A k \in LineKinds : LastWritten(k) = OwnOr(Final("inner", k), OwnOr(Final("outer", k), OwnOr(Final("vhost", k), Final("main", k))))
    BY <1>2, <1>8 DEF ReadInv, InSpec, InnerLast, LastWritten, LastOf, In, ValuesIn
  <1>10. \A s, k : Final(s, k) # Unset <=> V(s, k) # <<>>
    <2> SUFFICES ASSUME NEW s, NEW k PROVE Final(s, k) # Unset <=> V(s, k) # <<>>
      OBVIOUS
    <2>1. V(s, k) # <<>> => V(s, k)[Len(V(s, k))] \in Texts
      BY <1>7
    <2> QED
      BY <2>1, ConfigAssumption DEF LastOf, Texts
  <1>11. \A k : LastWritten(k) = Unset <=> Values(k) = <<>>
    <2> SUFFICES ASSUME NEW k PROVE LastWritten(k) = Unset <=> Values(k) = <<>>
      OBVIOUS
    <2>1. Values(k) # <<>> => Values(k)[Len(Values(k))] \in Texts
      BY <1>8
    <2> QED
      BY <2>1, ConfigAssumption DEF LastWritten, Texts
  <1>12. /\ \A s, k : ValuesIn(s, k)' = ValuesIn(s, k) /\ Says(s, k)' = Says(s, k)
         /\ \A k : Values(k)' = Values(k) /\ LastWritten(k)' = LastWritten(k)
    BY <1>1 DEF ValuesIn, Says, Values, LastWritten
  <1>13. RowsWritten' = RowsWritten /\ OneLocationOnRows' = OneLocationOnRows
    BY <1>1 DEF RowsWritten, OneLocationOnRows, Says, ValuesIn
  <1>14. InnermostOf({"captcha"})' = InnermostOf({"captcha"})
    BY <1>1 DEF InnermostOf, Says, ValuesIn
  <1> DEFINE e == RequestMerge(m, v, o, i, ok)
             F(s, c) == /\ c.knob = Final(s, "knob") /\ c.secret = Final(s, "secret") /\ c.keys = KeysOf(c.secret)
                        /\ c.rules = (IF s \in Servers THEN <<>> ELSE V(s, "rule"))
                        /\ c.rows = ToSet(V(s, "row")) /\ c.reset = (V(s, "none") # <<>>)
                        /\ c.captchas = ToSet(V(s, "captcha"))
  <1>15. F("main", m) /\ F("vhost", v) /\ F("outer", o) /\ F("inner", i)
    <2>1. ASSUME NEW s PROVE F(s, DirOf(written, s))
      <3> DEFINE c == DirOf(written, s)
      <3>1. /\ c.knob = LastOf(In(written, s, "knob")) /\ c.secret = LastOf(In(written, s, "secret"))
            /\ c.keys = KeysOf(LastOf(In(written, s, "secret"))) /\ c.rules = RulesIn(written, s)
            /\ c.rows = ToSet(In(written, s, "row")) /\ c.reset = (In(written, s, "none") # <<>>)
            /\ c.captchas = ToSet(In(written, s, "captcha"))
        BY WrittenFields
      <3>2. \A k : In(written, s, k) = ValuesIn(s, k)
        BY <1>7
      <3> HIDE DEF c
      <3>3. F(s, c)
        BY <3>1, <3>2 DEF RulesIn
      <3> QED
        BY <3>3 DEF c
    <2> HIDE DEF F
    <2> QED
      BY <2>1
  <1> HIDE DEF m, v, o, i, V, Final, e
  <1>16. e.knob = LastWritten("knob")
    <2>1. e.knob = OwnOr(OwnOr(i.knob, o.knob), OwnOr(v.knob, m.knob))
      BY <1>27, ServedKnob DEF e
    <2> QED
      BY <1>9, <1>15, <2>1 DEF LineKinds, OwnOr
  <1>17. e.secret = IF Values("secret") # <<>> THEN LastWritten("secret") ELSE IF ok THEN auto ELSE Unset
    <2> DEFINE secret == OwnOr(OwnOr(i.secret, o.secret), OwnOr(v.secret, m.secret))
    <2>1. /\ secret # Unset => e.secret = secret
          /\ secret = Unset => e.secret = IF ok THEN auto ELSE Unset
      BY <1>27, ServedSecret DEF e
    <2>2. secret = LastWritten("secret")
      BY <1>9, <1>15 DEF LineKinds, OwnOr
    <2> HIDE DEF secret
    <2> QED
      BY <1>11, <2>1, <2>2
  <1>18. e.keys = KeysOf(e.secret)
    BY <1>3, <1>15, ServedKeys DEF e
  <1>19. e.rules = V("inner", "rule") \o V("outer", "rule")
    <2>1. e.rules = (i.rules \o o.rules) \o (v.rules \o m.rules)
      BY <1>27, ServedRules DEF e
    <2>2. i.rules = V("inner", "rule") /\ o.rules = V("outer", "rule") /\ v.rules = <<>> /\ m.rules = <<>>
      BY <1>15 DEF Servers
    <2>3. <<>> \o <<>> = <<>>
      OBVIOUS
    <2>4. V("inner", "rule") \o V("outer", "rule") \in Seq(Texts)
      BY <1>7, ConcatProperties
    <2> QED
      BY <2>1, <2>2, <2>3, <2>4, ConcatEmptySeq
  <1>20. \A s \in InnermostOf({"captcha"}) : e.captchas = ToSet(V(s, "captcha"))
    <2> SUFFICES ASSUME NEW s \in InnermostOf({"captcha"}) PROVE e.captchas = ToSet(V(s, "captcha"))
      OBVIOUS
    <2>1. s \in ScopeNames /\ V(s, "captcha") # <<>> /\ \A t \in ScopeNames : DepthOf(t) > DepthOf(s) => V(t, "captcha") = <<>>
      BY ChainFacts DEF InnermostOf, Says, V
    <2>2. \A t : ToSet(V(t, "captcha")) = {} <=> V(t, "captcha") = <<>>
      BY <1>7, ToSetEmpty
    <2>3. e.captchas = (IF i.captchas # {} THEN i.captchas ELSE IF o.captchas # {} THEN o.captchas
                                ELSE IF v.captchas # {} THEN v.captchas ELSE m.captchas)
      BY <1>27, ServedCaptchas DEF e
    <2>4. CASE s = "main"
      BY <1>15, <2>1, <2>2, <2>3, <2>4, ChainFacts DEF ScopeNames
    <2>5. CASE s = "vhost"
      BY <1>15, <2>1, <2>2, <2>3, <2>5, ChainFacts DEF ScopeNames
    <2>6. CASE s = "outer"
      BY <1>15, <2>1, <2>2, <2>3, <2>6, ChainFacts DEF ScopeNames
    <2>7. CASE s = "inner"
      BY <1>15, <2>1, <2>2, <2>3, <2>7, ChainFacts DEF ScopeNames
    <2> QED
      BY <2>1, <2>4, <2>5, <2>6, <2>7 DEF ScopeNames
  <1>21. OneLocationOnRows => (IF e.reset THEN {} ELSE e.rows) = RowsWritten
    <2> SUFFICES ASSUME OneLocationOnRows PROVE (IF e.reset THEN {} ELSE e.rows) = RowsWritten
      OBVIOUS
    <2>1. /\ m.reset \in BOOLEAN /\ v.reset \in BOOLEAN /\ o.reset \in BOOLEAN /\ i.reset \in BOOLEAN
      BY <1>15
    <2>2. (~o.reset /\ o.rows = {}) \/ (~i.reset /\ i.rows = {})
      BY <1>7, <1>15, ToSetEmpty DEF OneLocationOnRows, Says, V
    <2>3. Shown(e) =
                 IF i.reset THEN {} ELSE IF o.reset THEN i.rows ELSE IF v.reset THEN o.rows \cup i.rows
                 ELSE IF m.reset THEN v.rows \cup o.rows \cup i.rows
                 ELSE m.rows \cup v.rows \cup o.rows \cup i.rows
      BY <1>27, <2>1, <2>2, ServedRows DEF e
    <2>4. /\ Row(1) = m.rows /\ Row(2) = v.rows /\ Row(3) = o.rows /\ Row(4) = i.rows
          /\ (None(1) <=> m.reset) /\ (None(2) <=> v.reset) /\ (None(3) <=> o.reset) /\ (None(4) <=> i.reset)
      <3>1. /\ Row(1) = ToSet(V("main", "row")) /\ Row(2) = ToSet(V("vhost", "row"))
            /\ Row(3) = ToSet(V("outer", "row")) /\ Row(4) = ToSet(V("inner", "row"))
        BY ChainFacts DEF Row, V
      <3>2. /\ (None(1) <=> V("main", "none") # <<>>) /\ (None(2) <=> V("vhost", "none") # <<>>)
            /\ (None(3) <=> V("outer", "none") # <<>>) /\ (None(4) <=> V("inner", "none") # <<>>)
        BY ChainFacts DEF None, Says, V
      <3> QED
        BY <1>15, <3>1, <3>2
    <2> QED
      BY <2>3, <2>4, RowsSince DEF Shown
  <1>22. server'["vhost"] = ServerMerge(ServerOf(written, "main"), ServerOf(written, "vhost"))
    <2>1. server["main"] = ServerOf(written, "main") /\ server["vhost"] = ServerOf(written, "vhost") /\ DOMAIN server = Servers
      BY <1>2 DEF ReadInv, Servers
    <2>2. server' = [server EXCEPT !["vhost"] = ServerMerge(server["main"], server["vhost"])]
      BY DEF Startup
    <2> QED
      BY <2>1, <2>2 DEF Servers
  <1>23. \A s : /\ ServerOf(written, s).rules = Tagged(s, V(s, "rule")) /\ ServerOf(written, s).knob = Final(s, "serverknob")
    BY <1>7 DEF ServerOf, ServerFrom, Final, V
  <1>24. server'["vhost"].knob = LastWritten("serverknob")
    <2>1. server'["vhost"].knob = OwnOr(Final("vhost", "serverknob"), Final("main", "serverknob"))
      BY <1>22, <1>23 DEF ServerMerge
    <2>2. V("inner", "serverknob") = <<>> /\ V("outer", "serverknob") = <<>>
      BY <1>2, <1>7 DEF ReadInv, InSpec, ScopeNames, Servers
    <2>3. Final("inner", "serverknob") = Unset /\ Final("outer", "serverknob") = Unset
      BY <1>10, <2>2
    <2>4. LastWritten("serverknob") = OwnOr(Final("inner", "serverknob"), OwnOr(Final("outer", "serverknob"),
                                       OwnOr(Final("vhost", "serverknob"), Final("main", "serverknob"))))
      BY <1>9 DEF LineKinds
    <2> QED
      BY <2>1, <2>3, <2>4 DEF OwnOr
  <1>25. IsInjective(V("main", "rule")) =>
           server'["vhost"].rules = Tagged("vhost", V("vhost", "rule")) \o Tagged("main", Unshadowed(V("main", "rule"), V("vhost", "rule")))
    <2>1. server'["vhost"].rules = RulesMerged(Tagged("main", V("main", "rule")), Tagged("vhost", V("vhost", "rule")))
      BY <1>22, <1>23 DEF ServerMerge
    <2> QED
      BY <1>7, <2>1, LadderMerged
  <1>26. AsWritten'
    <2>1. Effective' = e /\ generated' = ok
      BY <1>3, <1>6 DEF e
    <2>2. e.keys = IF e.secret = Unset THEN Unset ELSE DerivedKeys(e.secret)
      BY <1>18 DEF KeysOf
    <2> QED
      BY <1>12, <1>13, <1>14, <1>16, <1>17, <1>19, <1>20, <1>21, <1>24, <1>25, <2>1, <2>2 DEF AsWritten, RowsInForce, V
  <1> QED
    BY <1>1, <1>26 DEF ConfigInv

\* Whatever is written in the four scopes, and however often, the merges (the
\* virtual host over the main server at startup, the inner Location over the
\* outer one and both over the virtual host for a request) leave a request the
\* innermost knob, secret with its own keys and providers, and the Locations'
\* rules, inner before outer, none left out; the rows since the last silence
\* when at most one Location speaks of rows; and a server's ladder whose shadowed
\* rules are gone when the main server's names differ.
THEOREM ConfigIsAsWritten == ConfigSpec => []AsWritten
  <1>1. ConfigInit => ConfigInv
    BY ConfigStarts
  <1>2. ConfigInv /\ [ConfigNext]_configVars => ConfigInv'
    <2> SUFFICES ASSUME ConfigInv, [ConfigNext]_configVars PROVE ConfigInv'
      OBVIOUS
    <2>1. ASSUME NEW scope \in Scopes, NEW line \in Directives, Read(scope, line) PROVE ConfigInv'
      BY <2>1, ReadKeeps
    <2>2. CASE Startup
      BY <2>2, StartupKeeps
    <2>3. CASE UNCHANGED configVars
      <3>1. started' = started /\ written' = written /\ dir' = dir /\ server' = server /\ generated' = generated
        BY <2>3 DEF configVars
      <3>2. ReadInv' = ReadInv
        BY <3>1 DEF ReadInv
      <3>3. Effective' = Effective /\ (\A s, k : ValuesIn(s, k)' = ValuesIn(s, k)) /\ (\A k : Values(k)' = Values(k) /\ LastWritten(k)' = LastWritten(k))
        BY <3>1 DEF Effective, ValuesIn, Values, LastWritten
      <3>4. RowsWritten' = RowsWritten /\ OneLocationOnRows' = OneLocationOnRows /\ InnermostOf({"captcha"})' = InnermostOf({"captcha"})
        BY <3>1 DEF RowsWritten, OneLocationOnRows, InnermostOf, Says, ValuesIn
      <3>5. AsWritten' = AsWritten
        BY <3>1, <3>3, <3>4 DEF AsWritten, RowsInForce
      <3> QED
        BY <3>1, <3>2, <3>5 DEF ConfigInv
    <2> QED
      BY <2>1, <2>2, <2>3 DEF ConfigNext
  <1>3. ConfigInv => AsWritten
    BY DEF ConfigInv
  <1> QED
    BY <1>1, <1>2, <1>3, PTL DEF ConfigSpec
-----------------------------------------------------------------------------
(***************************************************************************)
(* Theorems of Robots, for any file, caps, tokens, patterns, crawlers and  *)
(* paths: the matcher, the query, the groups a crawler obeys, what lines   *)
(* say, and the parser.                                                    *)
(***************************************************************************)
-----------------------------------------------------------------------------
(* The matcher of bs_path_match. *)

\* A place in a path, or none.
Places(path) == 0 .. Len(path) \cup {Lost}

LEMMA FindFromFinds ==
    ASSUME NEW path \in Seq(Chars), NEW i \in 0 .. Len(path), NEW part \in Seq(Chars)
    PROVE  \/ /\ FindFrom(path, i, part) = Lost
              /\ \A j \in i .. Len(path) : ~At(path, j, part)
           \/ \E j \in i .. Len(path) :
                 /\ At(path, j, part) /\ FindFrom(path, i, part) = j + Len(part)
                 /\ \A k \in i .. Len(path) : At(path, k, part) => j <= k
  <1> DEFINE N == Len(path)
             at == {j \in i .. N : At(path, j, part)}
  <1>1. N \in Nat
    OBVIOUS
  <1>2. CASE at = {}
    <2>1. FindFrom(path, i, part) = Lost
      BY <1>2 DEF FindFrom
    <2> QED
      BY <1>2, <2>1
  <1>3. CASE at # {}
    <2>1. at \in SUBSET (0 .. N)
      BY <1>1
    <2>2. PICK j \in at : \A k \in at : j <= k
      <3> HIDE DEF at, N
      <3> QED
        BY <1>1, <1>3, <2>1, LeastExists
    <2>3. Min(at) = j
      <3>1. Min(at) \in at /\ \A k \in at : Min(at) <= k
        <4> HIDE DEF at
        <4> QED
          BY <2>2 DEF Min
      <3>2. Min(at) <= j /\ j <= Min(at) /\ Min(at) \in Nat /\ j \in Nat
        <4> HIDE DEF at, N
        <4>1. Min(at) \in 0 .. N /\ j \in 0 .. N
          BY <2>1, <2>2, <3>1
        <4> QED
          BY <1>1, <2>2, <3>1, <4>1
      <3> QED
        BY <3>2
    <2>4. FindFrom(path, i, part) = j + Len(part)
      <3>1. FindFrom(path, i, part) = Min(at) + Len(part)
        BY <1>3 DEF FindFrom
      <3> QED
        BY <2>3, <3>1
    <2> QED
      BY <2>2, <2>4
  <1> QED
    BY <1>2, <1>3

LEMMA AfterPartIn ==
    ASSUME NEW path \in Seq(Chars), NEW i \in Places(path), NEW part \in Seq(Chars), NEW first \in BOOLEAN
    PROVE  AfterPart(path, i, part, first) \in Places(path)
  <1>0. Len(path) \in Nat /\ Len(part) \in Nat
    OBVIOUS
  <1>1. CASE i = Lost \/ part = <<>>
    BY <1>1 DEF AfterPart
  <1>2. CASE ~(i = Lost \/ part = <<>>)
    <2>1. i \in 0 .. Len(path)
      BY <1>2 DEF Places
    <2>2. CASE first
      BY <1>0, <1>2, <2>1, <2>2 DEF AfterPart, At, Places
    <2>3. CASE ~first
      <3>1. AfterPart(path, i, part, first) = FindFrom(path, i, part)
        BY <1>2, <2>3 DEF AfterPart
      <3>2. CASE FindFrom(path, i, part) = Lost
        BY <3>1, <3>2 DEF Places
      <3>3. CASE FindFrom(path, i, part) # Lost
        <4>1. PICK j \in i .. Len(path) : At(path, j, part) /\ FindFrom(path, i, part) = j + Len(part)
          BY <2>1, <3>3, FindFromFinds
        <4> QED
          BY <1>0, <2>1, <3>1, <4>1 DEF At, Places
      <3> QED
        BY <3>2, <3>3
    <2> QED
      BY <2>2, <2>3
  <1> QED
    BY <1>1, <1>2

\* The ends of the parts, one after the other.
Ending(g, parts, path) ==
    /\ g \in [0 .. Len(parts) -> Places(path)] /\ g[0] = 0
    /\ \A n \in 1 .. Len(parts) : g[n] = AfterPart(path, g[n - 1], parts[n], n = 1)
    /\ EndOfParts(parts, path) = g[Len(parts)]

LEMMA PartsEnd ==
    ASSUME NEW parts \in Seq(Seq(Chars)), NEW path \in Seq(Chars)
    PROVE  \E g : Ending(g, parts, path)
  <1> DEFINE N == Len(parts)
             D == Places(path)
             base == 0
             After(x, n) == AfterPart(path, x, parts[n], n = 1)
             step == [n \in 1 .. N |-> [x \in D |-> After(x, n)]]
             Rec(s) == s = [n \in 0 .. N |-> IF n = 0 THEN base ELSE After(s[n - 1], n)]
             c == CHOOSE s : Rec(s)
  <1>1. N \in Nat
    OBVIOUS
  <1>2. \A n \in 1 .. N : \A x \in D : After(x, n) \in D
    <2> SUFFICES ASSUME NEW n \in 1 .. N, NEW x \in D PROVE After(x, n) \in D
      OBVIOUS
    <2>1. parts[n] \in Seq(Chars) /\ (n = 1) \in BOOLEAN
      OBVIOUS
    <2> QED
      BY <2>1, AfterPartIn
  <1>3. base \in D
    BY DEF Places
  <1>4. EndOfParts(parts, path) = c[N]
    BY DEF EndOfParts
  <1> HIDE DEF N, D, After, base
  <1>5. step \in [1 .. N -> [D -> D]]
    BY <1>2
  <1>6. PICK r : StepsThrough(r, N, D, base, step)
    <2> HIDE DEF step
    <2> QED
      BY <1>1, <1>3, <1>5, RangeRecursion, Zenon
  <1>7. r \in [0 .. N -> D] /\ r[0] = base /\ \A n \in 1 .. N : r[n] = step[n][r[n - 1]]
    BY <1>6 DEF StepsThrough
  <1>8. \A n \in 1 .. N : r[n] = After(r[n - 1], n)
    <2> SUFFICES ASSUME NEW n \in 1 .. N PROVE r[n] = After(r[n - 1], n)
      OBVIOUS
    <2>1. n - 1 \in 0 .. N
      BY <1>1
    <2>2. r[n - 1] \in D
      BY <1>7, <2>1
    <2> QED
      BY <1>7, <2>2
  <1>9. Rec(r)
    <2>1. ASSUME NEW n \in 0 .. N PROVE r[n] = IF n = 0 THEN base ELSE After(r[n - 1], n)
      BY <1>1, <1>7, <1>8, <2>1
    <2>2. r = [n \in 0 .. N |-> r[n]]
      BY <1>7
    <2> QED
      BY <2>1, <2>2
  <1>10. Rec(c)
    <2> HIDE DEF Rec
    <2> QED
      BY <1>9
  <1>11. c[0] = base /\ \A n \in 1 .. N : c[n] = After(c[n - 1], n)
    <2> HIDE DEF c
    <2> QED
      BY <1>1, <1>10
  <1>12. c[N] = r[N]
    <2> DEFINE E == {n \in 0 .. N : c[n] = r[n]}
    <2> HIDE DEF c
    <2>1. 0 \in E
      BY <1>1, <1>7, <1>11
    <2>2. ASSUME NEW n \in 0 .. N, n + 1 \in 0 .. N, n \in E PROVE n + 1 \in E
      <3>1. n + 1 \in 1 .. N /\ (n + 1) - 1 = n
        BY <1>1, <2>2
      <3> QED
        BY <1>8, <1>11, <2>2, <3>1
    <2>3. 0 .. N \subseteq E
      <3> HIDE DEF E
      <3> QED
        BY <1>1, <2>1, <2>2, RangeInduction
    <2> QED
      BY <1>1, <2>3
  <1> HIDE DEF step, Rec, c
  <1>13. EndOfParts(parts, path) = r[N]
    BY <1>4, <1>12
  <1>14. Ending(r, parts, path)
    BY <1>7, <1>8, <1>13 DEF Ending, N, D, After, base
  <1> QED
    BY <1>14

\* Where the parts stand: the first at the beginning, each after the one before.
Stands(at, parts, path) ==
    /\ at \in [1 .. Len(parts) -> 0 .. Len(path)] /\ at[1] = 0
    /\ \A k \in 1 .. Len(parts) : At(path, at[k], parts[k])
    /\ \A k \in 1 .. Len(parts) - 1 : at[k] + Len(parts[k]) <= at[k + 1]

\* The leftmost occurrences end no later than any others.
LEMMA GreedyIsFirst ==
    ASSUME NEW parts \in Seq(Seq(Chars)), parts # <<>>, NEW path \in Seq(Chars),
           NEW e, Ending(e, parts, path), NEW at, Stands(at, parts, path)
    PROVE  e[Len(parts)] # Lost
  <1> DEFINE N == Len(parts)
             E == {k \in 0 .. N : e[k] # Lost /\ (k >= 1 => e[k] <= at[k] + Len(parts[k]))}
  <1>1. /\ N \in Nat \ {0} /\ Len(path) \in Nat /\ e[0] = 0
        /\ \A k \in 0 .. N : e[k] \in 0 .. Len(path) \cup {Lost}
        /\ \A k \in 1 .. N : e[k] = AfterPart(path, e[k - 1], parts[k], k = 1)
    <2>1. N \in Nat /\ N # 0 /\ Len(path) \in Nat
      BY EmptySeq
    <2>2. e[0] = 0 /\ (\A k \in 0 .. N : e[k] \in Places(path))
          /\ \A k \in 1 .. N : e[k] = AfterPart(path, e[k - 1], parts[k], k = 1)
      BY DEF Ending
    <2> QED
      BY <2>1, <2>2 DEF Places
  <1>2. /\ \A k \in 1 .. N : at[k] \in 0 .. Len(path) /\ At(path, at[k], parts[k])
        /\ \A k \in 1 .. N - 1 : at[k] + Len(parts[k]) <= at[k + 1]
        /\ at[1] = 0
    BY DEF Stands
  <1>3. \A k \in 1 .. N : parts[k] \in Seq(Chars) /\ Len(parts[k]) \in Nat
    OBVIOUS
  <1>4. 0 \in E
    BY <1>1 DEF Lost
  <1>5. ASSUME NEW m \in 0 .. N, m + 1 \in 0 .. N, m \in E PROVE m + 1 \in E
    <2> DEFINE k == m + 1
    <2>1. k \in 1 .. N /\ k - 1 = m /\ e[k] = AfterPart(path, e[m], parts[k], k = 1) /\ e[m] \in 0 .. Len(path)
      BY <1>1, <1>5
    <2> HIDE DEF k
    <2>2. CASE m = 0
      <3>1. k = 1 /\ at[k] = 0 /\ e[m] = 0 /\ At(path, 0, parts[k])
        BY <1>1, <1>2, <2>2 DEF k
      <3>2. e[k] = Len(parts[k])
        <4>1. CASE parts[k] = <<>>
          BY <2>1, <3>1, <4>1 DEF AfterPart
        <4>2. CASE parts[k] # <<>>
          BY <1>3, <2>1, <3>1, <4>2 DEF AfterPart, Lost
        <4> QED
          BY <4>1, <4>2
      <3> QED
        BY <1>3, <2>1, <3>1, <3>2 DEF k, Lost
    <2>3. CASE m >= 1
      <3>1. m \in 1 .. N - 1 /\ k # 1 /\ e[m] <= at[m] + Len(parts[m]) /\ at[m] + Len(parts[m]) <= at[k]
        BY <1>2, <1>5, <2>1, <2>3 DEF k
      <3>2. e[m] <= at[k] /\ at[k] \in e[m] .. Len(path) /\ At(path, at[k], parts[k])
        <4>1. at[m] \in Nat /\ Len(parts[m]) \in Nat /\ at[k] \in 0 .. Len(path)
          BY <1>2, <1>3, <2>1, <3>1
        <4> QED
          BY <1>2, <2>1, <3>1, <4>1
      <3>3. e[k] # Lost /\ e[k] <= at[k] + Len(parts[k])
        <4>1. CASE parts[k] = <<>>
          BY <1>3, <2>1, <3>2, <4>1 DEF AfterPart, Lost
        <4>2. CASE parts[k] # <<>>
          <5>1. e[k] = FindFrom(path, e[m], parts[k])
            BY <2>1, <3>1, <4>2 DEF AfterPart, Lost
          <5>2. PICK j \in e[m] .. Len(path) : FindFrom(path, e[m], parts[k]) = j + Len(parts[k]) /\ j <= at[k]
            BY <1>3, <2>1, <3>2, FindFromFinds
          <5> QED
            BY <1>3, <2>1, <3>2, <5>1, <5>2 DEF Lost
        <4> QED
          BY <4>1, <4>2
      <3> QED
        BY <2>1, <3>3 DEF k
    <2> QED
      BY <2>2, <2>3
  <1>6. 0 .. N \subseteq E
    <2> HIDE DEF E
    <2> QED
      BY <1>1, <1>4, <1>5, RangeInduction
  <1> QED
    BY <1>1, <1>6

\* What the matcher found stands in the path.
LEMMA GreedyStands ==
    ASSUME NEW parts \in Seq(Seq(Chars)), parts # <<>>, NEW path \in Seq(Chars),
           NEW e, Ending(e, parts, path), e[Len(parts)] # Lost
    PROVE  \E at : Stands(at, parts, path)
  <1> DEFINE N == Len(parts)
             at == [k \in 1 .. N |-> e[k] - Len(parts[k])]
             Back == {k \in 0 .. N : e[N - k] # Lost}
  <1>1. /\ N \in Nat \ {0} /\ Len(path) \in Nat /\ e[0] = 0
        /\ \A k \in 0 .. N : e[k] \in 0 .. Len(path) \cup {Lost}
        /\ \A k \in 1 .. N : e[k] = AfterPart(path, e[k - 1], parts[k], k = 1)
    <2>1. N \in Nat /\ N # 0 /\ Len(path) \in Nat
      BY EmptySeq
    <2>2. e[0] = 0 /\ (\A k \in 0 .. N : e[k] \in Places(path))
          /\ \A k \in 1 .. N : e[k] = AfterPart(path, e[k - 1], parts[k], k = 1)
      BY DEF Ending
    <2> QED
      BY <2>1, <2>2 DEF Places
  <1>2. \A k \in 1 .. N : parts[k] \in Seq(Chars) /\ Len(parts[k]) \in Nat
    OBVIOUS
  <1>3. \A k \in 0 .. N : e[k] # Lost
    <2>1. 0 \in Back
      BY <1>1
    <2>2. ASSUME NEW k \in 0 .. N, k + 1 \in 0 .. N, k \in Back PROVE k + 1 \in Back
      <3>1. N - k \in 1 .. N /\ (N - k) - 1 = N - (k + 1)
        BY <1>1, <2>2
      <3>2. e[N - k] = AfterPart(path, e[N - (k + 1)], parts[N - k], N - k = 1)
        BY <1>1, <3>1
      <3> QED
        BY <2>2, <3>2 DEF AfterPart
    <2>3. 0 .. N \subseteq Back
      <3> HIDE DEF Back
      <3> QED
        BY <1>1, <2>1, <2>2, RangeInduction
    <2>4. ASSUME NEW k \in 0 .. N PROVE e[k] # Lost
      <3>1. N - k \in 0 .. N /\ N - (N - k) = k
        BY <1>1
      <3> QED
        BY <2>3, <3>1
    <2> QED
      BY <2>4
  <1>4. ASSUME NEW k \in 1 .. N
        PROVE  /\ at[k] \in 0 .. Len(path) /\ At(path, at[k], parts[k]) /\ at[k] >= e[k - 1]
               /\ at[k] + Len(parts[k]) = e[k] /\ (k = 1 => at[k] = 0)
    <2>1. k - 1 \in 0 .. N /\ e[k - 1] \in 0 .. Len(path) /\ e[k] \in 0 .. Len(path)
      <3>1. k - 1 \in 0 .. N /\ k \in 0 .. N
        BY <1>1
      <3> HIDE DEF at, Back
      <3> QED
        BY <1>1, <1>3, <3>1
    <2>2. e[k] = AfterPart(path, e[k - 1], parts[k], k = 1) /\ e[k] # Lost /\ e[k - 1] # Lost
      BY <1>1, <1>3, <2>1
    <2>3. at[k] = e[k] - Len(parts[k]) /\ Len(parts[k]) \in Nat /\ parts[k] \in Seq(Chars)
      BY <1>2
    <2> HIDE DEF at
    <2>4. CASE parts[k] = <<>>
      <3>1. e[k] = e[k - 1] /\ Len(parts[k]) = 0
        BY <2>2, <2>4 DEF AfterPart
      <3>2. at[k] = e[k] /\ at[k] >= e[k - 1] /\ at[k] + Len(parts[k]) = e[k] /\ (k = 1 => at[k] = 0)
        BY <1>1, <2>1, <2>3, <3>1
      <3>3. SubSeq(path, at[k] + 1, at[k]) = <<>>
        BY SMTT(30), <2>1, <3>2, SubSeqProperties
      <3>4. at[k] + Len(parts[k]) <= Len(path) /\ SubSeq(path, at[k] + 1, at[k] + Len(parts[k])) = parts[k]
        BY <2>1, <2>4, <3>1, <3>2, <3>3
      <3> QED
        BY <2>1, <3>2, <3>4 DEF At
    <2>5. CASE parts[k] # <<>> /\ k = 1
      <3>1. e[k - 1] = 0
        BY <1>1, <2>5
      <3>2. At(path, 0, parts[k]) /\ e[k] = 0 + Len(parts[k])
        BY <2>2, <2>5, <3>1 DEF AfterPart
      <3> QED
        BY <2>1, <2>3, <3>1, <3>2
    <2>6. CASE parts[k] # <<>> /\ k # 1
      <3>1. e[k] = FindFrom(path, e[k - 1], parts[k])
        BY <2>2, <2>6 DEF AfterPart
      <3>2. FindFrom(path, e[k - 1], parts[k]) # Lost
        BY <2>2, <3>1
      <3>3. \A i \in 0 .. Len(path) : FindFrom(path, i, parts[k]) # Lost =>
              \E j \in i .. Len(path) : At(path, j, parts[k]) /\ FindFrom(path, i, parts[k]) = j + Len(parts[k])
        <4> HIDE DEF at, Back, N
        <4>1. parts[k] \in Seq(Chars)
          BY <2>3
        <4> DEFINE part == parts[k]
        <4> HIDE DEF part
        <4>2. part \in Seq(Chars)
          BY <4>1 DEF part
        <4>3. \A i \in 0 .. Len(path) : FindFrom(path, i, part) # Lost =>
                \E j \in i .. Len(path) : At(path, j, part) /\ FindFrom(path, i, part) = j + Len(part)
          BY <4>2, FindFromFinds
        <4> QED
          BY <4>3 DEF part
      <3>4. PICK j \in e[k - 1] .. Len(path) :
               At(path, j, parts[k]) /\ FindFrom(path, e[k - 1], parts[k]) = j + Len(parts[k])
        <4> HIDE DEF at, Back, N
        <4> QED
          BY <2>1, <3>2, <3>3
      <3>5. e[k] = j + Len(parts[k])
        BY <3>1, <3>4
      <3>6. at[k] = j
        BY <2>1, <2>3, <3>4, <3>5
      <3> QED
        BY <2>1, <2>3, <2>6, <3>4, <3>5, <3>6
    <2> QED
      BY <2>4, <2>5, <2>6
  <1>5. ASSUME NEW k \in 1 .. N - 1 PROVE at[k] + Len(parts[k]) <= at[k + 1]
    <2>1. k \in 1 .. N /\ k + 1 \in 1 .. N /\ (k + 1) - 1 = k
      BY <1>1
    <2>2. at[k] + Len(parts[k]) = e[k] /\ at[k + 1] >= e[k]
      BY <1>4, <2>1
    <2>3. e[k] \in Int /\ at[k + 1] \in Int
      BY SMTT(30), <1>1, <1>4, <2>1 DEF Lost
    <2> QED
      BY <2>2, <2>3
  <1>6. at \in [1 .. N -> 0 .. Len(path)]
    BY <1>4
  <1>7. at[1] = 0
    BY <1>1, <1>4
  <1> HIDE DEF at
  <1>8. Stands(at, parts, path)
    BY <1>4, <1>5, <1>6, <1>7 DEF Stands
  <1> QED
    BY <1>8

\* Without "$" the matcher finds a path if and only if the pattern means it.
LEMMA MatchIsMeaning ==
    ASSUME NEW pattern \in Patterns, NEW path \in Paths
    PROVE  PathMatch(pattern, path) <=> RuleMatches(pattern, path)
  <1> DEFINE parts == pattern.parts
  <1>1. CASE pattern.anchored
    BY <1>1 DEF RuleMatches
  <1>2. CASE ~pattern.anchored
    <2>1. parts \in Seq(Seq(Chars)) /\ parts # <<>> /\ path \in Seq(Chars)
      BY RobotsAssumption DEF Patterns
    <2>2. PICK e : Ending(e, parts, path)
      <3> HIDE DEF parts
      <3> QED
        BY <2>1, PartsEnd
    <2>3. PathMatch(pattern, path) <=> e[Len(parts)] # Lost
      BY <1>2, <2>2 DEF PathMatch, Ending
    <2>4. Means(pattern, path) <=> \E at : Stands(at, parts, path)
      <3>1. ASSUME Means(pattern, path) PROVE \E at : Stands(at, parts, path)
        <4>1. PICK at \in [1 .. Len(parts) -> 0 .. Len(path)] :
                 /\ at[1] = 0
                 /\ \A k \in 1 .. Len(parts) : At(path, at[k], parts[k])
                 /\ \A k \in 1 .. Len(parts) - 1 : at[k] + Len(parts[k]) <= at[k + 1]
          BY <3>1 DEF Means
        <4>2. Stands(at, parts, path)
          BY <4>1 DEF Stands
        <4> QED
          BY <4>2
      <3>2. ASSUME NEW at, Stands(at, parts, path) PROVE Means(pattern, path)
        BY <1>2, <3>2 DEF Means, Stands
      <3> QED
        BY <3>1, <3>2
    <2> HIDE DEF parts
    <2>5. e[Len(parts)] # Lost <=> \E at : Stands(at, parts, path)
      BY <2>1, <2>2, GreedyIsFirst, GreedyStands
    <2>6. RuleMatches(pattern, path) <=> Means(pattern, path)
      BY <1>2 DEF RuleMatches
    <2> QED
      BY <2>3, <2>4, <2>5, <2>6
  <1> QED
    BY <1>1, <1>2
-----------------------------------------------------------------------------
(* The verdict of robots_query. *)

Summing(g, parts) ==
    /\ g \in [0 .. Len(parts) -> Nat] /\ g[0] = 0
    /\ \A n \in 1 .. Len(parts) : g[n] = g[n - 1] + Len(parts[n])
    /\ LenOfParts(parts) = g[Len(parts)]

LEMMA PartsSum ==
    ASSUME NEW parts \in Seq(Seq(Chars))
    PROVE  \E g : Summing(g, parts)
  <1> DEFINE N == Len(parts)
             D == Nat
             base == 0
             After(x, n) == x + Len(parts[n])
             step == [n \in 1 .. N |-> [x \in D |-> After(x, n)]]
             Rec(s) == s = [n \in 0 .. N |-> IF n = 0 THEN base ELSE After(s[n - 1], n)]
             c == CHOOSE s : Rec(s)
  <1>1. N \in Nat
    OBVIOUS
  <1>2. \A n \in 1 .. N : \A x \in D : After(x, n) \in D
    <2> SUFFICES ASSUME NEW n \in 1 .. N, NEW x \in D PROVE After(x, n) \in D
      OBVIOUS
    <2>1. parts[n] \in Seq(Chars)
      OBVIOUS
    <2> QED
      BY <2>1
  <1>3. base \in D
    OBVIOUS
  <1>4. LenOfParts(parts) = c[N]
    BY DEF LenOfParts
  <1> HIDE DEF N, D, After, base
  <1>5. step \in [1 .. N -> [D -> D]]
    BY <1>2
  <1>6. PICK r : StepsThrough(r, N, D, base, step)
    <2> HIDE DEF step
    <2> QED
      BY <1>1, <1>3, <1>5, RangeRecursion, Zenon
  <1>7. r \in [0 .. N -> D] /\ r[0] = base /\ \A n \in 1 .. N : r[n] = step[n][r[n - 1]]
    BY <1>6 DEF StepsThrough
  <1>8. \A n \in 1 .. N : r[n] = After(r[n - 1], n)
    <2> SUFFICES ASSUME NEW n \in 1 .. N PROVE r[n] = After(r[n - 1], n)
      OBVIOUS
    <2>1. n - 1 \in 0 .. N
      BY <1>1
    <2>2. r[n - 1] \in D
      BY <1>7, <2>1
    <2> QED
      BY <1>7, <2>2
  <1>9. Rec(r)
    <2>1. ASSUME NEW n \in 0 .. N PROVE r[n] = IF n = 0 THEN base ELSE After(r[n - 1], n)
      BY <1>1, <1>7, <1>8, <2>1
    <2>2. r = [n \in 0 .. N |-> r[n]]
      BY <1>7
    <2> QED
      BY <2>1, <2>2
  <1>10. Rec(c)
    <2> HIDE DEF Rec
    <2> QED
      BY <1>9
  <1>11. c[0] = base /\ \A n \in 1 .. N : c[n] = After(c[n - 1], n)
    <2> HIDE DEF c
    <2> QED
      BY <1>1, <1>10
  <1>12. c[N] = r[N]
    <2> DEFINE E == {n \in 0 .. N : c[n] = r[n]}
    <2> HIDE DEF c
    <2>1. 0 \in E
      BY <1>1, <1>7, <1>11
    <2>2. ASSUME NEW n \in 0 .. N, n + 1 \in 0 .. N, n \in E PROVE n + 1 \in E
      <3>1. n + 1 \in 1 .. N /\ (n + 1) - 1 = n
        BY <1>1, <2>2
      <3> QED
        BY <1>8, <1>11, <2>2, <3>1
    <2>3. 0 .. N \subseteq E
      <3> HIDE DEF E
      <3> QED
        BY <1>1, <2>1, <2>2, RangeInduction
    <2> QED
      BY <1>1, <2>3
  <1> HIDE DEF step, Rec, c
  <1>13. LenOfParts(parts) = r[N]
    BY <1>4, <1>12
  <1>14. Summing(r, parts)
    BY <1>7, <1>8, <1>13 DEF Summing, N, D, After, base
  <1> QED
    BY <1>14

LEMMA PatternLenIn == ASSUME NEW pattern \in Patterns PROVE PatternLen(pattern) \in Nat
  <1> DEFINE parts == pattern.parts
  <1>1. parts \in Seq(Seq(Chars)) /\ parts # <<>>
    BY DEF Patterns
  <1>2. PatternLen(pattern) = LenOfParts(parts) + Len(parts) - 1 + (IF pattern.anchored THEN 1 ELSE 0)
    BY DEF PatternLen
  <1> HIDE DEF parts
  <1>3. LenOfParts(parts) \in Nat
    <2>1. PICK g : Summing(g, parts)
      BY <1>1, PartsSum
    <2> QED
      BY SMTT(30), <1>1, <2>1 DEF Summing
  <1>4. Len(parts) \in Nat /\ Len(parts) # 0
    BY <1>1, EmptySeq
  <1> QED
    BY <1>2, <1>3, <1>4

Bests == [len : Nat \cup {Lost}, allow : BOOLEAN]
Hits(S, path) == {r \in S : PathMatch(r.pattern, path)}

\* The best of the rules in S that match: the longest, and among the longest an
\* Allow if there is one.
BestOf(b, S, path) ==
    /\ b \in Bests
    /\ b.len = Lost => b.allow /\ Hits(S, path) = {}
    /\ b.len # Lost =>
         /\ \E r \in Hits(S, path) : PatternLen(r.pattern) = b.len
         /\ \A r \in Hits(S, path) : PatternLen(r.pattern) <= b.len
         /\ (b.allow <=> \E r \in Hits(S, path) : r.allow /\ PatternLen(r.pattern) = b.len)

LEMMA BetterIn ==
    ASSUME NEW path, NEW r \in Rules, NEW b \in Bests
    PROVE  Better(b, r, path) \in Bests
  <1>1. r.pattern \in Patterns /\ r.allow \in BOOLEAN
    BY DEF Rules
  <1>2. PatternLen(r.pattern) \in Nat
    BY <1>1, PatternLenIn
  <1> QED
    BY <1>1, <1>2 DEF Better, Bests

LEMMA BetterBest ==
    ASSUME NEW path, NEW S \in SUBSET Rules, NEW r \in Rules, NEW b, BestOf(b, S, path)
    PROVE  BestOf(Better(b, r, path), S \cup {r}, path)
  <1> DEFINE x == Better(b, r, path)
             n == PatternLen(r.pattern)
             H == Hits(S, path)
             K == Hits(S \cup {r}, path)
  <1>1. /\ r.pattern \in Patterns /\ r.allow \in BOOLEAN /\ n \in Nat
        /\ b \in Bests /\ b.len \in Nat \cup {Lost} /\ b.allow \in BOOLEAN
    BY PatternLenIn DEF Rules, BestOf, Bests
  <1>2. \A q \in H : PatternLen(q.pattern) \in Nat /\ q.allow \in BOOLEAN
    BY PatternLenIn DEF Rules, Hits
  <1>3. /\ b.len = Lost => b.allow /\ H = {}
        /\ b.len # Lost => /\ \E q \in H : PatternLen(q.pattern) = b.len
                           /\ \A q \in H : PatternLen(q.pattern) <= b.len
                           /\ (b.allow <=> \E q \in H : q.allow /\ PatternLen(q.pattern) = b.len)
    BY DEF BestOf
  <1>4. x \in Bests
    BY <1>1, BetterIn
  <1>5. CASE ~PathMatch(r.pattern, path)
    <2>1. x = b /\ K = H
      BY <1>5 DEF Better, Hits
    <2> QED
      BY <2>1 DEF BestOf
  <1>6. CASE PathMatch(r.pattern, path)
    <2>1. K = H \cup {r}
      BY <1>6 DEF Hits
    <2>2. x = IF n > b.len THEN [len |-> n, allow |-> r.allow]
              ELSE IF n = b.len /\ r.allow THEN [len |-> n, allow |-> TRUE] ELSE b
      BY <1>6 DEF Better
    <2>3. /\ x.len = (IF n > b.len THEN n ELSE b.len)
          /\ x.allow = (IF n > b.len THEN r.allow ELSE IF n = b.len /\ r.allow THEN TRUE ELSE b.allow)
      <3>1. CASE n > b.len
        BY <2>2, <3>1
      <3>2. CASE ~(n > b.len) /\ n = b.len /\ r.allow
        BY <2>2, <3>2
      <3>3. CASE ~(n > b.len) /\ ~(n = b.len /\ r.allow)
        BY <2>2, <3>3
      <3> QED
        BY <3>1, <3>2, <3>3
    <2> HIDE DEF x, n, H, K
    <2>4. PatternLen(r.pattern) = n
      BY DEF n
    <2>5. x.len # Lost
      BY <1>1, <2>3 DEF Lost
    <2>6. \E q \in K : PatternLen(q.pattern) = x.len
      BY <1>1, <1>3, <2>1, <2>3, <2>4 DEF Lost
    <2>7. ASSUME NEW q \in K PROVE PatternLen(q.pattern) <= x.len
      <3>1. CASE q = r
        BY <1>1, <2>3, <2>4, <3>1 DEF Lost
      <3>2. CASE q \in H
        BY <1>1, <1>2, <1>3, <2>3, <3>2 DEF Lost
      <3> QED
        BY <2>1, <3>1, <3>2
    <2>8. x.allow <=> \E q \in K : q.allow /\ PatternLen(q.pattern) = x.len
      <3>1. CASE n > b.len
        <4>1. x.len = n /\ x.allow = r.allow
          BY <2>3, <3>1
        <4>2. ASSUME NEW q \in H PROVE PatternLen(q.pattern) # n
          <5>1. b.len # Lost /\ PatternLen(q.pattern) <= b.len /\ PatternLen(q.pattern) \in Nat
            BY <1>2, <1>3
          <5> QED
            BY <1>1, <3>1, <5>1
        <4> QED
          BY <2>1, <2>4, <4>1, <4>2
      <3>2. CASE ~(n > b.len)
        <4>0. b.len # Lost
          BY <1>1, <3>2 DEF Lost
        <4>1. x.len = b.len /\ x.allow = (IF n = b.len /\ r.allow THEN TRUE ELSE b.allow)
          BY <2>3, <3>2
        <4>2. (b.allow <=> \E q \in H : q.allow /\ PatternLen(q.pattern) = b.len)
          BY <1>3, <4>0
        <4> QED
          BY <1>1, <2>1, <2>4, <4>1, <4>2
      <3> QED
        BY <3>1, <3>2
    <2>9. BestOf(x, S \cup {r}, path)
      BY <1>4, <2>5, <2>6, <2>7, <2>8 DEF BestOf, K
    <2> QED
      BY <2>9 DEF x
  <1> QED
    BY <1>5, <1>6

Trying(g, best, rules, path) ==
    /\ g \in [0 .. Len(rules) -> Bests] /\ g[0] = best
    /\ \A n \in 1 .. Len(rules) : g[n] = Better(g[n - 1], rules[n], path)
    /\ AfterRules(best, rules, path) = g[Len(rules)]

LEMMA RulesTried ==
    ASSUME NEW rules \in Seq(Rules), NEW best \in Bests, NEW path
    PROVE  \E g : Trying(g, best, rules, path)
  <1> DEFINE N == Len(rules)
             D == Bests
             base == best
             After(x, n) == Better(x, rules[n], path)
             step == [n \in 1 .. N |-> [x \in D |-> After(x, n)]]
             Rec(s) == s = [n \in 0 .. N |-> IF n = 0 THEN base ELSE After(s[n - 1], n)]
             c == CHOOSE s : Rec(s)
  <1>1. N \in Nat
    OBVIOUS
  <1>2. \A n \in 1 .. N : \A x \in D : After(x, n) \in D
    <2> SUFFICES ASSUME NEW n \in 1 .. N, NEW x \in D PROVE After(x, n) \in D
      OBVIOUS
    <2>1. rules[n] \in Rules
      OBVIOUS
    <2> QED
      BY <2>1, BetterIn
  <1>3. base \in D
    OBVIOUS
  <1>4. AfterRules(best, rules, path) = c[N]
    BY DEF AfterRules
  <1> HIDE DEF N, D, After, base
  <1>5. step \in [1 .. N -> [D -> D]]
    BY <1>2
  <1>6. PICK r : StepsThrough(r, N, D, base, step)
    <2> HIDE DEF step
    <2> QED
      BY <1>1, <1>3, <1>5, RangeRecursion, Zenon
  <1>7. r \in [0 .. N -> D] /\ r[0] = base /\ \A n \in 1 .. N : r[n] = step[n][r[n - 1]]
    BY <1>6 DEF StepsThrough
  <1>8. \A n \in 1 .. N : r[n] = After(r[n - 1], n)
    <2> SUFFICES ASSUME NEW n \in 1 .. N PROVE r[n] = After(r[n - 1], n)
      OBVIOUS
    <2>1. n - 1 \in 0 .. N
      BY <1>1
    <2>2. r[n - 1] \in D
      BY <1>7, <2>1
    <2> QED
      BY <1>7, <2>2
  <1>9. Rec(r)
    <2>1. ASSUME NEW n \in 0 .. N PROVE r[n] = IF n = 0 THEN base ELSE After(r[n - 1], n)
      BY <1>1, <1>7, <1>8, <2>1
    <2>2. r = [n \in 0 .. N |-> r[n]]
      BY <1>7
    <2> QED
      BY <2>1, <2>2
  <1>10. Rec(c)
    <2> HIDE DEF Rec
    <2> QED
      BY <1>9
  <1>11. c[0] = base /\ \A n \in 1 .. N : c[n] = After(c[n - 1], n)
    <2> HIDE DEF c
    <2> QED
      BY <1>1, <1>10
  <1>12. c[N] = r[N]
    <2> DEFINE E == {n \in 0 .. N : c[n] = r[n]}
    <2> HIDE DEF c
    <2>1. 0 \in E
      BY <1>1, <1>7, <1>11
    <2>2. ASSUME NEW n \in 0 .. N, n + 1 \in 0 .. N, n \in E PROVE n + 1 \in E
      <3>1. n + 1 \in 1 .. N /\ (n + 1) - 1 = n
        BY <1>1, <2>2
      <3> QED
        BY <1>8, <1>11, <2>2, <3>1
    <2>3. 0 .. N \subseteq E
      <3> HIDE DEF E
      <3> QED
        BY <1>1, <2>1, <2>2, RangeInduction
    <2> QED
      BY <1>1, <2>3
  <1> HIDE DEF step, Rec, c
  <1>13. AfterRules(best, rules, path) = r[N]
    BY <1>4, <1>12
  <1>14. Trying(r, best, rules, path)
    BY <1>7, <1>8, <1>13 DEF Trying, N, D, After, base
  <1> QED
    BY <1>14

LEMMA AfterRulesBest ==
    ASSUME NEW path, NEW S \in SUBSET Rules, NEW rules \in Seq(Rules), NEW b, BestOf(b, S, path)
    PROVE  BestOf(AfterRules(b, rules, path), S \cup ToSet(rules), path)
  <1> DEFINE N == Len(rules)
             Said(n) == S \cup {rules[i] : i \in 1 .. n}
  <1>1. N \in Nat /\ (\A n \in 1 .. N : rules[n] \in Rules) /\ b \in Bests
    BY DEF BestOf
  <1>2. PICK g : Trying(g, b, rules, path)
    BY <1>1, RulesTried
  <1>3. /\ g[0] = b /\ AfterRules(b, rules, path) = g[N]
        /\ \A n \in 1 .. N : g[n] = Better(g[n - 1], rules[n], path)
    BY <1>2 DEF Trying
  <1> DEFINE E == {n \in 0 .. N : BestOf(g[n], Said(n), path)}
  <1>4. 0 \in E
    <2>1. Said(0) = S
      OBVIOUS
    <2> HIDE DEF Said
    <2> QED
      BY <1>1, <1>3, <2>1
  <1>5. ASSUME NEW n \in 0 .. N, n + 1 \in 0 .. N, n \in E PROVE n + 1 \in E
    <2>1. n + 1 \in 1 .. N /\ (n + 1) - 1 = n
      BY <1>1, <1>5
    <2>2. Said(n + 1) = Said(n) \cup {rules[n + 1]}
      <3>1. 1 .. n + 1 = (1 .. n) \cup {n + 1}
        BY <1>1
      <3> QED
        BY <3>1
    <2>3. Said(n) \in SUBSET Rules
      <3>1. \A i \in 1 .. n : i \in 1 .. N
        BY <1>1
      <3> QED
        BY <1>1, <3>1
    <2>4. g[n + 1] = Better(g[n], rules[n + 1], path) /\ rules[n + 1] \in Rules
      BY <1>1, <1>3, <2>1
    <2>5. BestOf(g[n], Said(n), path)
      BY <1>5
    <2> HIDE DEF Said
    <2>6. BestOf(g[n + 1], Said(n + 1), path)
      BY <2>2, <2>3, <2>4, <2>5, BetterBest
    <2> QED
      BY <1>5, <2>6
  <1>6. 0 .. N \subseteq E
    <2> HIDE DEF E
    <2> QED
      BY <1>1, <1>4, <1>5, RangeInduction
  <1>7. Said(N) = S \cup ToSet(rules)
    BY DEF ToSet
  <1> HIDE DEF Said
  <1>8. BestOf(g[N], Said(N), path)
    BY <1>1, <1>6
  <1> QED
    BY <1>3, <1>7, <1>8

GroupRecords == [agents : Seq(Agents), rules : Seq(Rules), delay : Nat,
                 observe : BOOLEAN, expectUa : BOOLEAN, open : BOOLEAN]

\* The groups whose rules count for a crawler.
Counted(doc, c, n) == doc[n] \in Relevant(doc, c) /\ ~doc[n].observe

Judging(g, doc, c, path) ==
    /\ g \in [0 .. Len(doc) -> Bests] /\ g[0] = [len |-> Lost, allow |-> TRUE]
    /\ \A n \in 1 .. Len(doc) : g[n] = IF Counted(doc, c, n) THEN AfterRules(g[n - 1], doc[n].rules, path) ELSE g[n - 1]
    /\ Verdict(doc, c, path) = g[Len(doc)]

LEMMA AfterRulesIn ==
    ASSUME NEW rules \in Seq(Rules), NEW best \in Bests, NEW path
    PROVE  AfterRules(best, rules, path) \in Bests
  <1>1. PICK g : Trying(g, best, rules, path)
    BY RulesTried
  <1>2. Len(rules) \in 0 .. Len(rules)
    OBVIOUS
  <1> QED
    BY <1>1, <1>2 DEF Trying

LEMMA GroupsJudged ==
    ASSUME NEW doc \in Seq(GroupRecords), NEW who, NEW path
    PROVE  \E g : Judging(g, doc, who, path)
  <1> DEFINE N == Len(doc)
             D == Bests
             base == [len |-> Lost, allow |-> TRUE]
             After(x, n) == IF Counted(doc, who, n) THEN AfterRules(x, doc[n].rules, path) ELSE x
             step == [n \in 1 .. N |-> [x \in D |-> After(x, n)]]
             Rec(s) == s = [n \in 0 .. N |-> IF n = 0 THEN base ELSE After(s[n - 1], n)]
             c == CHOOSE s : Rec(s)
  <1>1. N \in Nat
    OBVIOUS
  <1>2. \A n \in 1 .. N : \A x \in D : After(x, n) \in D
    <2> SUFFICES ASSUME NEW n \in 1 .. N, NEW x \in D PROVE After(x, n) \in D
      OBVIOUS
    <2>0. doc[n] \in GroupRecords
      OBVIOUS
    <2>1. doc[n].rules \in Seq(Rules)
      BY <2>0 DEF GroupRecords
    <2>2. AfterRules(x, doc[n].rules, path) \in Bests
      BY <2>1, AfterRulesIn
    <2> QED
      BY <2>2
  <1>3. base \in D
    BY DEF Bests
  <1>4. Verdict(doc, who, path) = c[N]
    <2>1. \A n : (doc[n] \notin Relevant(doc, who) \/ doc[n].observe) <=> ~Counted(doc, who, n)
      BY DEF Counted
    <2> QED
      BY <2>1, Zenon DEF Verdict
  <1> HIDE DEF N, D, After, base
  <1>5. step \in [1 .. N -> [D -> D]]
    BY <1>2
  <1>6. PICK r : StepsThrough(r, N, D, base, step)
    <2> HIDE DEF step
    <2> QED
      BY <1>1, <1>3, <1>5, RangeRecursion, Zenon
  <1>7. r \in [0 .. N -> D] /\ r[0] = base /\ \A n \in 1 .. N : r[n] = step[n][r[n - 1]]
    BY <1>6 DEF StepsThrough
  <1>8. \A n \in 1 .. N : r[n] = After(r[n - 1], n)
    <2> SUFFICES ASSUME NEW n \in 1 .. N PROVE r[n] = After(r[n - 1], n)
      OBVIOUS
    <2>1. n - 1 \in 0 .. N
      BY <1>1
    <2>2. r[n - 1] \in D
      BY <1>7, <2>1
    <2> QED
      BY <1>7, <2>2
  <1>9. Rec(r)
    <2>1. ASSUME NEW n \in 0 .. N PROVE r[n] = IF n = 0 THEN base ELSE After(r[n - 1], n)
      BY <1>1, <1>7, <1>8, <2>1
    <2>2. r = [n \in 0 .. N |-> r[n]]
      BY <1>7
    <2> QED
      BY <2>1, <2>2
  <1>10. Rec(c)
    <2> HIDE DEF Rec
    <2> QED
      BY <1>9
  <1>11. c[0] = base /\ \A n \in 1 .. N : c[n] = After(c[n - 1], n)
    <2> HIDE DEF c
    <2> QED
      BY <1>1, <1>10
  <1>12. c[N] = r[N]
    <2> DEFINE E == {n \in 0 .. N : c[n] = r[n]}
    <2> HIDE DEF c
    <2>1. 0 \in E
      BY <1>1, <1>7, <1>11
    <2>2. ASSUME NEW n \in 0 .. N, n + 1 \in 0 .. N, n \in E PROVE n + 1 \in E
      <3>1. n + 1 \in 1 .. N /\ (n + 1) - 1 = n
        BY <1>1, <2>2
      <3> QED
        BY <1>8, <1>11, <2>2, <3>1
    <2>3. 0 .. N \subseteq E
      <3> HIDE DEF E
      <3> QED
        BY <1>1, <2>1, <2>2, RangeInduction
    <2> QED
      BY <1>1, <2>3
  <1> HIDE DEF step, Rec, c
  <1>13. Verdict(doc, who, path) = r[N]
    BY <1>4, <1>12
  <1>14. Judging(r, doc, who, path)
    BY <1>7, <1>8, <1>13 DEF Judging, N, D, After, base
  <1> QED
    BY <1>14

\* The rules that count for a crawler.
RulesFor(doc, c) == UNION {ToSet(g.rules) : g \in {h \in Relevant(doc, c) : ~h.observe}}

LEMMA VerdictBest ==
    ASSUME NEW doc \in Seq(GroupRecords), NEW c, NEW path
    PROVE  BestOf(Verdict(doc, c, path), RulesFor(doc, c), path) /\ RulesFor(doc, c) \subseteq Rules
  <1> DEFINE N == Len(doc)
             Said(n) == UNION {ToSet(doc[i].rules) : i \in {k \in 1 .. n : Counted(doc, c, k)}}
  <1>1. N \in Nat /\ \A n \in 1 .. N : doc[n] \in GroupRecords
    OBVIOUS
  <1>2. \A n \in 1 .. N : doc[n].rules \in Seq(Rules) /\ ToSet(doc[n].rules) \subseteq Rules
    <2> SUFFICES ASSUME NEW n \in 1 .. N PROVE doc[n].rules \in Seq(Rules) /\ ToSet(doc[n].rules) \subseteq Rules
      OBVIOUS
    <2> DEFINE rules == doc[n].rules
    <2>1. rules \in Seq(Rules)
      BY <1>1 DEF GroupRecords
    <2> HIDE DEF rules
    <2>2. ToSet(rules) \subseteq Rules
      BY <2>1 DEF ToSet
    <2> QED
      BY <2>1, <2>2 DEF rules
  <1>3. PICK g : Judging(g, doc, c, path)
    BY GroupsJudged
  <1>4. /\ g[0] = [len |-> Lost, allow |-> TRUE] /\ Verdict(doc, c, path) = g[N]
        /\ \A n \in 1 .. N : g[n] = IF Counted(doc, c, n) THEN AfterRules(g[n - 1], doc[n].rules, path) ELSE g[n - 1]
    BY <1>3 DEF Judging
  <1>5. \A n \in 0 .. N : Said(n) \subseteq Rules
    <2> SUFFICES ASSUME NEW n \in 0 .. N PROVE Said(n) \subseteq Rules
      OBVIOUS
    <2>1. \A i \in 1 .. n : i \in 1 .. N
      BY <1>1
    <2> QED
      BY <1>2, <2>1
  <1> DEFINE E == {n \in 0 .. N : BestOf(g[n], Said(n), path)}
  <1>6. 0 \in E
    <2>1. Said(0) = {}
      OBVIOUS
    <2>2. BestOf([len |-> Lost, allow |-> TRUE], {}, path)
      BY DEF BestOf, Bests, Hits
    <2>3. BestOf(g[0], Said(0), path)
      BY <1>4, <2>1, <2>2
    <2> HIDE DEF Said
    <2> QED
      BY <1>1, <2>3
  <1>7. ASSUME NEW n \in 0 .. N, n + 1 \in 0 .. N, n \in E PROVE n + 1 \in E
    <2>1. n + 1 \in 1 .. N /\ (n + 1) - 1 = n
      BY <1>1, <1>7
    <2>2. g[n + 1] = IF Counted(doc, c, n + 1) THEN AfterRules(g[n], doc[n + 1].rules, path) ELSE g[n]
      BY <1>4, <2>1
    <2>3. Said(n + 1) = IF Counted(doc, c, n + 1) THEN Said(n) \cup ToSet(doc[n + 1].rules) ELSE Said(n)
      <3>1. 1 .. n + 1 = (1 .. n) \cup {n + 1}
        BY <1>1
      <3> QED
        BY <3>1
    <2>4. BestOf(g[n], Said(n), path) /\ Said(n) \in SUBSET Rules /\ doc[n + 1].rules \in Seq(Rules)
      BY <1>2, <1>5, <1>7, <2>1
    <2> HIDE DEF Said
    <2>5. BestOf(g[n + 1], Said(n + 1), path)
      BY <2>2, <2>3, <2>4, AfterRulesBest
    <2> QED
      BY <1>7, <2>5
  <1>8. 0 .. N \subseteq E
    <2> HIDE DEF E
    <2> QED
      BY <1>1, <1>6, <1>7, RangeInduction
  <1>9. Said(N) = RulesFor(doc, c)
    <2>1. Relevant(doc, c) \subseteq {doc[i] : i \in 1 .. N}
      BY DEF Relevant, ToSet
    <2> QED
      BY <2>1 DEF RulesFor, Counted
  <1>10. BestOf(g[N], Said(N), path) /\ Said(N) \subseteq Rules
    <2> HIDE DEF Said
    <2> QED
      BY <1>1, <1>5, <1>8
  <1> HIDE DEF Said
  <1> QED
    BY <1>4, <1>9, <1>10
-----------------------------------------------------------------------------
(* The groups a crawler obeys. *)

LEMMA ElementsFinite ==
    ASSUME NEW N \in Nat, NEW f, NEW S, DOMAIN f = 1 .. N, S = {f[i] : i \in 1 .. N}
    PROVE  IsFiniteSet(S)
  <1> DEFINE h == [i \in 1 .. N |-> f[i]]
  <1>2. h \in Surjection(1 .. N, S)
    BY DEF Surjection
  <1>3. IsFiniteSet(1 .. N)
    BY FS_Interval
  <1> HIDE DEF h
  <1> QED
    BY <1>2, <1>3, FS_Surjection

\* Some element of a finite set has the greatest measure.
LEMMA GreatestOf ==
    ASSUME NEW S, IsFiniteSet(S), S # {}, NEW f \in [S -> Nat]
    PROVE  \E x \in S : \A y \in S : f[y] <= f[x]
  <1> DEFINE Above(x) == {y \in S : f[y] >= f[x]}
             T == {Above(x) : x \in S}
  <1>1. T \subseteq SUBSET S /\ T # {}
    <2>1. PICK x \in S : TRUE
      OBVIOUS
    <2>2. Above(x) \in T
      OBVIOUS
    <2> QED
      BY <2>2
  <1>2. T \subseteq FiniteSubsetsOf(S)
    BY <1>1, FS_FiniteSubsetsOfFinite
  <1>3. PICK t \in T : \A u \in T : ~ (<<u, t>> \in StrictSubsetOrdering(S))
    <2> HIDE DEF T
    <2> QED
      BY <1>1, <1>2, FS_StrictSubsetOrderingWellFounded, WFMin
  <1>4. PICK x \in S : t = Above(x)
    BY <1>3
  <1>5. \A y \in S : f[y] <= f[x]
    <2> SUFFICES ASSUME NEW y \in S, f[y] > f[x] PROVE FALSE
      OBVIOUS
    <2>1. Above(y) \in T
      OBVIOUS
    <2>2. Above(y) \subseteq Above(x)
      OBVIOUS
    <2>3. x \in Above(x) /\ x \notin Above(y)
      OBVIOUS
    <2> QED
      BY <1>1, <1>3, <1>4, <2>1, <2>2, <2>3 DEF StrictSubsetOrdering
  <1> QED
    BY <1>5

View(g) == [agents |-> ToSet(g.agents), rules |-> ToSet(g.rules), delay |-> g.delay, observe |-> g.observe]
Views(doc) == {View(g) : g \in ToSet(doc)}

\* The tokens of a document that name a crawler.
NamesOf(doc, c) == Named(UNION {ToSet(g.agents) : g \in ToSet(doc)}, c)

LEMMA NamesFinite ==
    ASSUME NEW doc \in Seq(GroupRecords), NEW c
    PROVE  IsFiniteSet(NamesOf(doc, c)) /\ NamesOf(doc, c) \subseteq DOMAIN Tokens
  <1> DEFINE A == {ToSet(g.agents) : g \in ToSet(doc)}
  <1>1. \A g \in ToSet(doc) : g \in GroupRecords
    BY DEF ToSet
  <1>2. ASSUME NEW g \in ToSet(doc) PROVE IsFiniteSet(ToSet(g.agents)) /\ ToSet(g.agents) \subseteq Agents
    <2> DEFINE s == g.agents
    <2>1. s \in Seq(Agents)
      BY <1>1 DEF GroupRecords
    <2> HIDE DEF s
    <2>2. Len(s) \in Nat /\ DOMAIN s = 1 .. Len(s) /\ ToSet(s) = {s[i] : i \in 1 .. Len(s)} /\ ToSet(s) \subseteq Agents
      BY <2>1 DEF ToSet
    <2>3. IsFiniteSet(ToSet(s))
      BY <2>2, ElementsFinite
    <2> QED
      BY <2>2, <2>3 DEF s
  <1>3. IsFiniteSet(A)
    <2> DEFINE N == Len(doc)
               f == [i \in 1 .. N |-> ToSet(doc[i].agents)]
    <2>1. N \in Nat /\ DOMAIN f = 1 .. N
      OBVIOUS
    <2>2. A = {f[i] : i \in 1 .. N}
      BY DEF ToSet
    <2> HIDE DEF f, N, A
    <2> QED
      BY <2>1, <2>2, ElementsFinite
  <1>4. IsFiniteSet(UNION A)
    <2>1. \A T \in A : IsFiniteSet(T)
      BY <1>2
    <2> HIDE DEF A
    <2> QED
      BY <1>3, <2>1, FS_UNION
  <1>5. NamesOf(doc, c) \subseteq UNION A
    BY DEF NamesOf, Named
  <1>6. IsFiniteSet(NamesOf(doc, c))
    <2> HIDE DEF A
    <2> QED
      BY <1>4, <1>5, FS_Subset
  <1>7. NamesOf(doc, c) \subseteq DOMAIN Tokens
    BY <1>2 DEF NamesOf, Named, Agents
  <1> QED
    BY <1>6, <1>7

\* The length the groups are selected by.
LEMMA BestLenIs ==
    ASSUME NEW doc \in Seq(GroupRecords), NEW c
    PROVE  /\ NamesOf(doc, c) = {} => BestLen(doc, c) = 0
           /\ NamesOf(doc, c) # {} =>
                /\ BestLen(doc, c) \in Nat \ {0}
                /\ \E t \in NamesOf(doc, c) : Tokens[t].len = BestLen(doc, c)
                /\ \A t \in NamesOf(doc, c) : Tokens[t].len <= BestLen(doc, c)
  <1> DEFINE names == NamesOf(doc, c)
             lens == {Tokens[t].len : t \in names}
             f == [t \in names |-> Tokens[t].len]
  <1>1. BestLen(doc, c) = IF lens = {} THEN 0 ELSE Max(lens)
    BY DEF BestLen, NamesOf
  <1>2. IsFiniteSet(names) /\ \A t \in names : Tokens[t].len \in Nat \ {0}
    BY NamesFinite, RobotsAssumption
  <1> HIDE DEF names
  <1>3. CASE names = {}
    BY <1>1, <1>3 DEF names
  <1>4. CASE names # {}
    <2>1. f \in [names -> Nat]
      BY <1>2
    <2>2. PICK t \in names : \A u \in names : f[u] <= f[t]
      <3> HIDE DEF f
      <3> QED
        BY <1>2, <1>4, <2>1, GreatestOf
    <2>3. /\ lens \in SUBSET Nat /\ Tokens[t].len \in lens
          /\ (\A y \in lens : y <= Tokens[t].len) /\ lens # {}
      BY <1>2, <2>2
    <2>4. Max(lens) = Tokens[t].len
      <3> DEFINE n == Tokens[t].len
      <3> HIDE DEF lens, n
      <3>1. n \in lens /\ \A y \in lens : y <= n
        BY <2>3 DEF n
      <3>2. Max(lens) = n
        BY <2>3, <3>1, MaxIs
      <3> QED
        BY <3>2 DEF n
    <2>5. BestLen(doc, c) = Tokens[t].len
      BY <1>1, <2>3, <2>4
    <2>6. \A u \in names : Tokens[u].len <= Tokens[t].len
      BY <2>2
    <2> QED
      BY <1>2, <1>4, <2>5, <2>6 DEF names
  <1> QED
    BY <1>3, <1>4

\* The groups robots_query walks are the ones the crawler obeys.
LEMMA RelevantObeyed ==
    ASSUME NEW doc \in Seq(GroupRecords), NEW c
    PROVE  Obeyed(Views(doc), c) = {View(g) : g \in Relevant(doc, c)}
  <1> DEFINE names == NamesOf(doc, c)
             named == UNION {Named(v.agents, c) : v \in Views(doc)}
             best == {t \in named : \A u \in named : Tokens[u].len <= Tokens[t].len}
             len == BestLen(doc, c)
  <1>1. named = names
    <2>1. \A t : t \in named <=> \E g \in ToSet(doc) : t \in Named(ToSet(g.agents), c)
      <3>1. \A g : View(g).agents = ToSet(g.agents)
        BY DEF View
      <3> QED
        BY <3>1 DEF Views
    <2>2. \A t : t \in names <=> \E g \in ToSet(doc) : t \in ToSet(g.agents) /\ t # Star /\ c \in Tokens[t].crawlers
      BY DEF NamesOf, Named
    <2>3. \A t : t \in named <=> t \in names
      <3> HIDE DEF named, names
      <3> QED
        BY <2>1, <2>2 DEF Named
    <2> QED
      BY <2>3
  <1>2. Obeyed(Views(doc), c) =
          IF named = {} THEN {v \in Views(doc) : Star \in v.agents} ELSE {v \in Views(doc) : v.agents \cap best # {}}
    BY DEF Obeyed
  <1>3. Relevant(doc, c) = {g \in ToSet(doc) : Qualifies(g, c, len)}
    BY DEF Relevant
  <1>4. \A g : View(g).agents = ToSet(g.agents)
    BY DEF View
  <1>5. /\ names = {} => len = 0
        /\ names # {} => /\ len # 0
                         /\ \E t \in names : Tokens[t].len = len
                         /\ \A t \in names : Tokens[t].len <= len
    BY BestLenIs
  <1>6. \A t \in names : Tokens[t].len \in Nat
    BY NamesFinite, RobotsAssumption
  <1>7. CASE names = {}
    <2>1. \A g : Qualifies(g, c, len) <=> Star \in View(g).agents
      BY <1>4, <1>5, <1>7 DEF Qualifies
    <2>2. Obeyed(Views(doc), c) = {v \in Views(doc) : Star \in v.agents}
      BY <1>1, <1>2, <1>7
    <2> HIDE DEF len
    <2> QED
      BY <1>3, <2>1, <2>2 DEF Views
  <1>8. CASE names # {}
    <2>1. \A t : t \in best <=> t \in names /\ Tokens[t].len = len
      <3> HIDE DEF names, named, len
      <3>1. PICK s \in names : Tokens[s].len = len
        BY <1>5, <1>8
      <3> QED
        BY <1>1, <1>5, <1>6, <1>8, <3>1
    <2>2. ASSUME NEW g \in ToSet(doc) PROVE Qualifies(g, c, len) <=> View(g).agents \cap best # {}
      <3>1. Qualifies(g, c, len) <=> \E t \in Named(ToSet(g.agents), c) : Tokens[t].len = len
        BY <1>5, <1>8 DEF Qualifies
      <3>2. \A t : t \in Named(ToSet(g.agents), c) <=> t \in ToSet(g.agents) /\ t \in names
        BY DEF NamesOf, Named
      <3> HIDE DEF best, names, len
      <3> QED
        BY <1>4, <2>1, <3>1, <3>2
    <2>3. Obeyed(Views(doc), c) = {v \in Views(doc) : v.agents \cap best # {}}
      BY <1>1, <1>2, <1>8
    <2> HIDE DEF best, len
    <2> QED
      BY <1>3, <2>2, <2>3 DEF Views
  <1> QED
    BY <1>7, <1>8

\* What robots_query answers is what the written rules say.
LEMMA QueryRight ==
    ASSUME NEW doc \in Seq(GroupRecords), NEW c, NEW path \in Paths, NEW obeyed,
           obeyed = Obeyed(Views(doc), c)
    PROVE  /\ Query(doc, c, path).applies = (obeyed # {})
           /\ Query(doc, c, path).allowed = ~Disallowed(obeyed, path)
           /\ Query(doc, c, path).delay = Max({0} \cup {g.delay : g \in obeyed})
  <1> DEFINE gs == Relevant(doc, c)
             b == Verdict(doc, c, path)
             U == RulesFor(doc, c)
             H == Hits(U, path)
             M == {r \in UNION {g.rules : g \in {h \in obeyed : ~h.observe}} : RuleMatches(r.pattern, path)}
  <1>1. obeyed = {View(g) : g \in gs}
    BY RelevantObeyed
  <1>2. /\ Query(doc, c, path).applies = (gs # {}) /\ Query(doc, c, path).allowed = b.allow
        /\ Query(doc, c, path).delay = Max({0} \cup {g.delay : g \in gs})
    BY DEF Query
  <1>0. \A g : View(g).delay = g.delay /\ View(g).rules = ToSet(g.rules) /\ View(g).observe = g.observe
    BY DEF View
  <1>3. {g.delay : g \in obeyed} = {g.delay : g \in gs}
    <2> HIDE DEF gs
    <2>1. \A d : d \in {g.delay : g \in obeyed} <=> \E g \in gs : d = View(g).delay
      BY <1>1
    <2>2. \A d : d \in {g.delay : g \in gs} <=> \E g \in gs : d = g.delay
      OBVIOUS
    <2>3. \A d : d \in {g.delay : g \in obeyed} <=> d \in {g.delay : g \in gs}
      <3>1. ASSUME NEW d PROVE (\E g \in gs : d = View(g).delay) <=> (\E g \in gs : d = g.delay)
        BY <1>0
      <3> QED
        BY <2>1, <2>2, <3>1
    <2> HIDE DEF M, H, b, U
    <2> QED
      BY <2>3
  <1>4. UNION {g.rules : g \in {h \in obeyed : ~h.observe}} = U
    <2> HIDE DEF U
    <2>1. \A r : r \in UNION {g.rules : g \in {h \in obeyed : ~h.observe}} <=>
                  \E g \in gs : ~View(g).observe /\ r \in View(g).rules
      <3> HIDE DEF gs
      <3> QED
        BY <1>1
    <2>2. \A r : r \in U <=> \E g \in gs : ~g.observe /\ r \in ToSet(g.rules)
      BY DEF U, RulesFor
    <2>3. ASSUME NEW r
          PROVE  (\E g \in gs : ~View(g).observe /\ r \in View(g).rules) <=> (\E g \in gs : ~g.observe /\ r \in ToSet(g.rules))
      <3> HIDE DEF gs
      <3> QED
        BY <1>0
    <2> HIDE DEF gs
    <2> QED
      BY <2>1, <2>2, <2>3
  <1>5. BestOf(b, U, path) /\ U \subseteq Rules
    BY VerdictBest
  <1> HIDE DEF gs, b, U
  <1>6. M = H
    <2>1. \A r \in U : r.pattern \in Patterns
      BY <1>5 DEF Rules
    <2>2. \A r \in U : PathMatch(r.pattern, path) <=> RuleMatches(r.pattern, path)
      BY <2>1, MatchIsMeaning
    <2> QED
      BY <1>4, <2>2 DEF Hits
  <1>7. Disallowed(obeyed, path) <=>
          \E d \in H : ~d.allow /\ \A a \in H : a.allow => PatternLen(a.pattern) < PatternLen(d.pattern)
    <2>1. Disallowed(obeyed, path) <=>
            \E d \in M : ~d.allow /\ \A a \in M : a.allow => PatternLen(a.pattern) < PatternLen(d.pattern)
      BY DEF Disallowed
    <2> HIDE DEF M, H
    <2> QED
      BY <1>6, <2>1
  <1>8. \A r \in H : PatternLen(r.pattern) \in Nat /\ r.allow \in BOOLEAN
    BY <1>5, PatternLenIn DEF Hits, Rules
  <1>9. /\ b.len \in Nat \cup {Lost} /\ b.allow \in BOOLEAN
        /\ b.len = Lost => b.allow /\ H = {}
        /\ b.len # Lost => /\ \E r \in H : PatternLen(r.pattern) = b.len
                           /\ \A r \in H : PatternLen(r.pattern) <= b.len
                           /\ (b.allow <=> \E r \in H : r.allow /\ PatternLen(r.pattern) = b.len)
    BY <1>5 DEF BestOf, Bests
  <1> HIDE DEF M, H
  <1>10. b.allow <=> ~Disallowed(obeyed, path)
    <2>1. CASE b.len = Lost
      BY <1>7, <1>9, <2>1
    <2>2. CASE b.len # Lost /\ b.allow
      <3>1. PICK a \in H : a.allow /\ PatternLen(a.pattern) = b.len
        BY <1>9, <2>2
      <3>2. \A d \in H : PatternLen(d.pattern) <= PatternLen(a.pattern)
        BY <1>9, <2>2, <3>1
      <3>3. \A d \in H : ~(PatternLen(a.pattern) < PatternLen(d.pattern))
        BY <1>8, <3>2
      <3> QED
        BY <1>7, <2>2, <3>1, <3>3
    <2>3. CASE b.len # Lost /\ ~b.allow
      <3>1. PICK d \in H : PatternLen(d.pattern) = b.len
        BY <1>9, <2>3
      <3>2. ~d.allow
        BY <1>9, <2>3, <3>1
      <3>3. ASSUME NEW a \in H, a.allow PROVE PatternLen(a.pattern) < PatternLen(d.pattern)
        <4>1. PatternLen(a.pattern) # b.len /\ PatternLen(a.pattern) <= b.len
          BY <1>9, <2>3, <3>3
        <4> QED
          BY <1>8, <3>1, <4>1
      <3> QED
        BY <1>7, <2>3, <3>2, <3>3
    <2> QED
      BY <2>1, <2>2, <2>3
  <1>11. b.allow = ~Disallowed(obeyed, path)
    BY <1>9, <1>10 DEF Disallowed
  <1>12. (gs # {}) = (obeyed # {})
    BY <1>1
  <1> QED
    BY <1>2, <1>3, <1>11, <1>12
-----------------------------------------------------------------------------
(* What the lines of a file say, and what one more line adds. *)

HasAgent(t, i) == t[i].key = "agent"
BeginsIn(t, i) ==
    /\ HasAgent(t, i)
    /\ \/ \A j \in 1 .. i - 1 : ~HasAgent(t, j)
       \/ \E j \in 1 .. i - 1 : /\ Closes(t[j]) /\ (\A k \in j + 1 .. i - 1 : ~HasAgent(t, k))
                              /\ \E k \in 1 .. j - 1 : HasAgent(t, k)
Begun(t, i) == {j \in 1 .. i : BeginsIn(t, j)}
GroupIn(t, i) == Cardinality(Begun(t, i))
TopOf(t) == GroupIn(t, Len(t))
Likes(t, i, kind, n) == {j \in 1 .. i : t[j].key = kind /\ GroupIn(t, j) = n}
Tally(t, kind, n) == Cardinality(Likes(t, Len(t), kind, n))
Among(t, i, m) == Cardinality(Likes(t, i, t[i].key, GroupIn(t, i))) <= m
AgentLines(t, n) == {j \in 1 .. Len(t) : HasAgent(t, j) /\ GroupIn(t, j) = n /\ Among(t, j, MaxAgents)}
RuleLines(t, n) == {j \in 1 .. Len(t) : t[j].key = "rule" /\ GroupIn(t, j) = n /\ Among(t, j, MaxRules)}
DelayLines(t, n) == {j \in 1 .. Len(t) : t[j].key = "delay" /\ t[j].ms > 0 /\ GroupIn(t, j) = n}
AgentsSaid(t, n) == {t[i].token : i \in AgentLines(t, n)}
RulesSaid(t, n) == {t[i] : i \in RuleLines(t, n)}
DelaySaid(t, n) == IF DelayLines(t, n) = {} THEN 0 ELSE t[Max(DelayLines(t, n))].ms
GroupSaid(t, n) == [agents |-> AgentsSaid(t, n), rules |-> RulesSaid(t, n), delay |-> DelaySaid(t, n), observe |-> FALSE]

\* A line after the last User-agent has closed the list.
Shut(t) ==
    \E j \in 1 .. Len(t) : /\ Closes(t[j]) /\ (\A k \in j + 1 .. Len(t) : ~HasAgent(t, k))
                          /\ \E k \in 1 .. j - 1 : HasAgent(t, k)
NoAgent(t) == \A j \in 1 .. Len(t) : ~HasAgent(t, j)

LEMMA PartFinite ==
    ASSUME NEW N \in Nat, NEW S \in SUBSET (1 .. N)
    PROVE  IsFiniteSet(S) /\ Cardinality(S) \in Nat
  <1>1. IsFiniteSet(1 .. N)
    BY FS_Interval
  <1>2. IsFiniteSet(S)
    BY <1>1, FS_Subset
  <1> QED
    BY <1>2, FS_CardinalityType

LEMMA OneMore ==
    ASSUME NEW N \in Nat, NEW S \in SUBSET (1 .. N), NEW T, NEW c, T = IF c THEN S \cup {N + 1} ELSE S
    PROVE  Cardinality(T) = Cardinality(S) + IF c THEN 1 ELSE 0
  <1>1. IsFiniteSet(S) /\ Cardinality(S) \in Nat
    BY PartFinite
  <1>2. N + 1 \notin S
    OBVIOUS
  <1>3. CASE c
    <2>1. T = S \cup {N + 1}
      BY <1>3
    <2>2. Cardinality(S \cup {N + 1}) = Cardinality(S) + 1
      BY <1>1, <1>2, FS_AddElement
    <2> QED
      BY <1>3, <2>1, <2>2
  <1>4. CASE ~c
    BY <1>1, <1>4
  <1> QED
    BY <1>3, <1>4

\* The lines u are the lines t and one more.
Adds(t, line, u) == t \in Seq(RobotsLines) /\ line \in RobotsLines /\ u = Append(t, line)

LEMMA LineAdded ==
    ASSUME NEW t, NEW line, NEW u, Adds(t, line, u)
    PROVE  /\ Len(t) \in Nat /\ Len(u) = Len(t) + 1 /\ t \in Seq(RobotsLines) /\ u \in Seq(RobotsLines)
           /\ u[Len(t) + 1] = line /\ line \in RobotsLines
           /\ \A i \in 1 .. Len(t) : u[i] = t[i] /\ t[i] \in RobotsLines
  BY AppendProperties DEF Adds

LEMMA BeginsStays ==
    ASSUME NEW t, NEW line, NEW u, Adds(t, line, u),
           NEW i \in 1 .. Len(t)
    PROVE  BeginsIn(u, i) <=> BeginsIn(t, i)
  <1> DEFINE N == Len(t)
  <1>1. N \in Nat /\ \A j \in 1 .. N : u[j] = t[j]
    BY LineAdded
  <1>2. i \in 1 .. N /\ (\A j \in 1 .. i - 1 : j \in 1 .. N) /\ (\A j \in 1 .. i - 1 : \A k \in j + 1 .. i - 1 : k \in 1 .. N)
        /\ \A j \in 1 .. i - 1 : \A k \in 1 .. j - 1 : k \in 1 .. N
    BY <1>1
  <1>3. \A j \in 1 .. N : (HasAgent(u, j) <=> HasAgent(t, j)) /\ (Closes(u[j]) <=> Closes(t[j]))
    BY <1>1 DEF HasAgent
  <1> HIDE DEF HasAgent, Closes
  <1> QED
    BY <1>2, <1>3 DEF BeginsIn

\* The groups of the lines there were, and that of the new line.
LEMMA GroupsStay ==
    ASSUME NEW t, NEW line, NEW u, Adds(t, line, u)
    PROVE  /\ \A i \in 1 .. Len(t) : GroupIn(u, i) = GroupIn(t, i)
           /\ GroupIn(u, Len(t) + 1) = TopOf(u) /\ Begun(u, Len(t)) = Begun(t, Len(t))
  <1> DEFINE N == Len(t)
  <1>1. N \in Nat /\ Len(u) = N + 1
    BY LineAdded
  <1>2. \A i \in 1 .. N : BeginsIn(u, i) <=> BeginsIn(t, i)
    BY BeginsStays
  <1>3. \A i \in 0 .. N : Begun(u, i) = Begun(t, i)
    <2> SUFFICES ASSUME NEW i \in 0 .. N PROVE Begun(u, i) = Begun(t, i)
      OBVIOUS
    <2>1. \A j \in 1 .. i : j \in 1 .. N
      BY <1>1
    <2> QED
      BY <1>2, <2>1 DEF Begun
  <1>4. GroupIn(u, N + 1) = TopOf(u)
    BY <1>1 DEF TopOf
  <1>5. \A i \in 1 .. N : GroupIn(u, i) = GroupIn(t, i)
    BY <1>1, <1>3 DEF GroupIn
  <1>6. Begun(u, N) = Begun(t, N)
    BY <1>1, <1>3
  <1> QED
    BY <1>4, <1>5, <1>6

LEMMA TopMoves ==
    ASSUME NEW t, NEW line, NEW u, Adds(t, line, u)
    PROVE  TopOf(u) = TopOf(t) + IF BeginsIn(u, Len(t) + 1) THEN 1 ELSE 0
  <1> DEFINE N == Len(t)
             c == BeginsIn(u, N + 1)
  <1>1. N \in Nat /\ Len(u) = N + 1
    BY LineAdded
  <1>2. Begun(u, N + 1) = IF c THEN Begun(u, N) \cup {N + 1} ELSE Begun(u, N)
    <2>1. 1 .. N + 1 = (1 .. N) \cup {N + 1}
      BY <1>1
    <2> QED
      BY <2>1 DEF Begun
  <1>3. Begun(u, N) = Begun(t, N)
    BY GroupsStay
  <1>4. Begun(t, N) \in SUBSET (1 .. N)
    BY DEF Begun
  <1> HIDE DEF c
  <1>5. Cardinality(Begun(u, N + 1)) = Cardinality(Begun(t, N)) + IF c THEN 1 ELSE 0
    BY <1>1, <1>2, <1>3, <1>4, OneMore
  <1> QED
    BY <1>1, <1>5 DEF TopOf, GroupIn, c

LEMMA GroupNumbers ==
    ASSUME NEW t \in Seq(RobotsLines)
    PROVE  TopOf(t) \in Nat /\ \A i \in 1 .. Len(t) : GroupIn(t, i) \in 0 .. TopOf(t)
  <1>1. Len(t) \in Nat
    OBVIOUS
  <1>2. TopOf(t) \in Nat
    BY <1>1, PartFinite DEF TopOf, GroupIn, Begun
  <1>3. ASSUME NEW i \in 1 .. Len(t) PROVE GroupIn(t, i) \in 0 .. TopOf(t)
    <2> DEFINE S == Begun(t, i)
               T == Begun(t, Len(t))
    <2>1. S \subseteq T /\ T \in SUBSET (1 .. Len(t)) /\ S \in SUBSET (1 .. Len(t))
      <3>1. \A j \in 1 .. i : j \in 1 .. Len(t)
        BY <1>1
      <3> QED
        BY <3>1 DEF Begun
    <2> HIDE DEF S, T
    <2>2. IsFiniteSet(T) /\ Cardinality(T) \in Nat /\ Cardinality(S) \in Nat
      BY <1>1, <2>1, PartFinite
    <2>3. Cardinality(S) <= Cardinality(T)
      BY <2>1, <2>2, FS_Subset
    <2> QED
      BY <2>2, <2>3 DEF S, T, GroupIn, TopOf
  <1> QED
    BY <1>2, <1>3

\* How many lines of a kind a group has.
LEMMA TallyIn == ASSUME NEW t \in Seq(RobotsLines), NEW kind, NEW n PROVE Tally(t, kind, n) \in Nat
  <1>1. Len(t) \in Nat /\ Likes(t, Len(t), kind, n) \in SUBSET (1 .. Len(t))
    BY DEF Likes
  <1> QED
    BY <1>1, PartFinite DEF Tally

LEMMA TallyOneMore ==
    ASSUME NEW t, NEW line, NEW u, Adds(t, line, u),
           NEW kind, NEW n
    PROVE  Tally(u, kind, n) = Tally(t, kind, n) + IF line.key = kind /\ TopOf(u) = n THEN 1 ELSE 0
  <1> DEFINE N == Len(t)
             c == line.key = kind /\ TopOf(u) = n
             S == Likes(t, N, kind, n)
             T == Likes(u, N + 1, kind, n)
  <1>1. N \in Nat /\ Len(u) = N + 1 /\ u[N + 1] = line /\ \A j \in 1 .. N : u[j] = t[j]
    BY LineAdded
  <1>2. (\A i \in 1 .. N : GroupIn(u, i) = GroupIn(t, i)) /\ GroupIn(u, N + 1) = TopOf(u)
    BY GroupsStay
  <1>3. S \in SUBSET (1 .. N)
    BY DEF Likes
  <1>4. T = IF c THEN S \cup {N + 1} ELSE S
    <2>1. 1 .. N + 1 = (1 .. N) \cup {N + 1}
      BY <1>1
    <2> QED
      BY <1>1, <1>2, <2>1 DEF Likes
  <1>5. Tally(t, kind, n) = Cardinality(S) /\ Tally(u, kind, n) = Cardinality(T)
    BY <1>1 DEF Tally
  <1> HIDE DEF c, S, T
  <1>6. Cardinality(T) = Cardinality(S) + IF c THEN 1 ELSE 0
    BY <1>1, <1>3, <1>4, OneMore
  <1> QED
    BY <1>5, <1>6 DEF c

LEMMA AmongStays ==
    ASSUME NEW t, NEW line, NEW u, Adds(t, line, u),
           NEW m \in Nat
    PROVE  /\ \A i \in 1 .. Len(t) : Among(u, i, m) <=> Among(t, i, m)
           /\ Among(u, Len(t) + 1, m) <=> Tally(t, line.key, TopOf(u)) < m
  <1> DEFINE N == Len(t)
  <1>1. N \in Nat /\ Len(u) = N + 1 /\ u[N + 1] = line /\ \A j \in 1 .. N : u[j] = t[j]
    BY LineAdded
  <1>2. (\A i \in 1 .. N : GroupIn(u, i) = GroupIn(t, i)) /\ GroupIn(u, N + 1) = TopOf(u)
    BY GroupsStay
  <1>3. ASSUME NEW i \in 1 .. N PROVE Among(u, i, m) <=> Among(t, i, m)
    <2>1. \A j \in 1 .. i : j \in 1 .. N
      BY <1>1
    <2>2. \A kind, n : Likes(u, i, kind, n) = Likes(t, i, kind, n)
      BY <1>1, <1>2, <2>1 DEF Likes
    <2> QED
      BY <1>1, <1>2, <2>2 DEF Among
  <1>4. Among(u, N + 1, m) <=> Tally(u, line.key, TopOf(u)) <= m
    BY <1>1, <1>2 DEF Among, Tally
  <1>5. /\ Tally(u, line.key, TopOf(u)) = Tally(t, line.key, TopOf(u)) + 1
        /\ Tally(t, line.key, TopOf(u)) \in Nat
    <2> DEFINE n == TopOf(u)
               kind == line.key
    <2>1. line.key = kind /\ TopOf(u) = n
      OBVIOUS
    <2> HIDE DEF n, kind
    <2>2. Tally(u, kind, n) = Tally(t, kind, n) + IF line.key = kind /\ TopOf(u) = n THEN 1 ELSE 0
      BY TallyOneMore
    <2>3. Tally(t, kind, n) \in Nat
      <3>1. t \in Seq(RobotsLines)
        BY DEF Adds
      <3> QED
        BY <3>1, TallyIn
    <2> QED
      BY <2>1, <2>2, <2>3
  <1> QED
    BY <1>3, <1>4, <1>5

\* What the new line adds to the tokens, the rules and the delay of a group.
LEMMA AgentsGrow ==
    ASSUME NEW t, NEW line, NEW u, Adds(t, line, u), NEW n
    PROVE  AgentsSaid(u, n) =
             AgentsSaid(t, n) \cup (IF line.key = "agent" /\ TopOf(u) = n /\ Tally(t, "agent", n) < MaxAgents THEN {line.token} ELSE {})
  <1> DEFINE N == Len(t)
             new == line.key = "agent" /\ TopOf(u) = n /\ Tally(t, "agent", n) < MaxAgents
  <1>1. N \in Nat /\ Len(u) = N + 1 /\ u[N + 1] = line /\ \A j \in 1 .. N : u[j] = t[j]
    BY LineAdded
  <1>2. (\A i \in 1 .. N : GroupIn(u, i) = GroupIn(t, i)) /\ GroupIn(u, N + 1) = TopOf(u)
    BY GroupsStay
  <1>3. /\ \A i \in 1 .. N : Among(u, i, MaxAgents) <=> Among(t, i, MaxAgents)
        /\ Among(u, N + 1, MaxAgents) <=> Tally(t, line.key, TopOf(u)) < MaxAgents
    BY AmongStays, RobotsAssumption
  <1>4. 1 .. N + 1 = (1 .. N) \cup {N + 1}
    BY <1>1
  <1> HIDE DEF N
  <1>5. AgentLines(u, n) = AgentLines(t, n) \cup (IF new THEN {N + 1} ELSE {})
    BY <1>1, <1>2, <1>3, <1>4 DEF AgentLines, HasAgent, N
  <1>6. \A i \in AgentLines(t, n) : u[i] = t[i]
    BY <1>1 DEF AgentLines, N
  <1> HIDE DEF new
  <1>7. AgentsSaid(u, n) = AgentsSaid(t, n) \cup (IF new THEN {line.token} ELSE {})
    BY <1>1, <1>5, <1>6 DEF AgentsSaid
  <1> QED
    BY <1>7 DEF new

LEMMA RulesGrow ==
    ASSUME NEW t, NEW line, NEW u, Adds(t, line, u), NEW n
    PROVE  RulesSaid(u, n) =
             RulesSaid(t, n) \cup (IF line.key = "rule" /\ TopOf(u) = n /\ Tally(t, "rule", n) < MaxRules THEN {line} ELSE {})
  <1> DEFINE N == Len(t)
             new == line.key = "rule" /\ TopOf(u) = n /\ Tally(t, "rule", n) < MaxRules
  <1>1. N \in Nat /\ Len(u) = N + 1 /\ u[N + 1] = line /\ \A j \in 1 .. N : u[j] = t[j]
    BY LineAdded
  <1>2. (\A i \in 1 .. N : GroupIn(u, i) = GroupIn(t, i)) /\ GroupIn(u, N + 1) = TopOf(u)
    BY GroupsStay
  <1>3. /\ \A i \in 1 .. N : Among(u, i, MaxRules) <=> Among(t, i, MaxRules)
        /\ Among(u, N + 1, MaxRules) <=> Tally(t, line.key, TopOf(u)) < MaxRules
    BY AmongStays, RobotsAssumption
  <1>4. 1 .. N + 1 = (1 .. N) \cup {N + 1}
    BY <1>1
  <1> HIDE DEF N
  <1>5. RuleLines(u, n) = RuleLines(t, n) \cup (IF new THEN {N + 1} ELSE {})
    BY <1>1, <1>2, <1>3, <1>4 DEF RuleLines, N
  <1>6. \A i \in RuleLines(t, n) : u[i] = t[i]
    BY <1>1 DEF RuleLines, N
  <1> HIDE DEF new
  <1>7. RulesSaid(u, n) = RulesSaid(t, n) \cup (IF new THEN {line} ELSE {})
    <2>1. {u[i] : i \in RuleLines(t, n)} = {t[i] : i \in RuleLines(t, n)}
      BY <1>6
    <2>2. {u[i] : i \in RuleLines(u, n)} = {u[i] : i \in RuleLines(t, n)} \cup (IF new THEN {line} ELSE {})
      BY <1>1, <1>5
    <2> QED
      BY <2>1, <2>2 DEF RulesSaid
  <1> QED
    BY <1>7 DEF new

LEMMA DelayFollows ==
    ASSUME NEW t, NEW line, NEW u, Adds(t, line, u), NEW n
    PROVE  DelaySaid(u, n) = IF line.key = "delay" /\ line.ms > 0 /\ TopOf(u) = n THEN line.ms ELSE DelaySaid(t, n)
  <1> DEFINE N == Len(t)
             new == line.key = "delay" /\ line.ms > 0 /\ TopOf(u) = n
  <1>1. N \in Nat /\ Len(u) = N + 1 /\ u[N + 1] = line /\ \A j \in 1 .. N : u[j] = t[j]
    BY LineAdded
  <1>2. (\A i \in 1 .. N : GroupIn(u, i) = GroupIn(t, i)) /\ GroupIn(u, N + 1) = TopOf(u)
    BY GroupsStay
  <1>3. 1 .. N + 1 = (1 .. N) \cup {N + 1}
    BY <1>1
  <1> HIDE DEF N
  <1>4. DelayLines(u, n) = DelayLines(t, n) \cup (IF new THEN {N + 1} ELSE {})
    BY <1>1, <1>2, <1>3 DEF DelayLines, N
  <1>5. DelayLines(t, n) \in SUBSET (1 .. N)
    BY DEF DelayLines, N
  <1>6. CASE new
    <2> DEFINE S == DelayLines(u, n)
    <2>1. S \in SUBSET Nat /\ N + 1 \in S /\ \A i \in S : i <= N + 1
      <3>1. \A i \in 1 .. N : i \in Nat /\ i <= N + 1
        BY <1>1
      <3>2. N + 1 \in Nat /\ N + 1 <= N + 1
        BY <1>1
      <3> HIDE DEF new
      <3> QED
        BY <1>4, <1>5, <1>6, <3>1, <3>2
    <2>2. Max(S) = N + 1
      <3> HIDE DEF S
      <3> QED
        BY <2>1, MaxIs
    <2>3. DelaySaid(u, n) = u[Max(S)].ms
      <3> HIDE DEF new
      <3> QED
        BY <2>1 DEF DelaySaid
    <2> QED
      BY <1>1, <1>6, <2>2, <2>3
  <1>7. CASE ~new
    <2>1. DelayLines(u, n) = DelayLines(t, n)
      BY <1>4, <1>7
    <2>2. CASE DelayLines(t, n) = {}
      <3>1. DelaySaid(u, n) = 0 /\ DelaySaid(t, n) = 0
        BY <2>1, <2>2 DEF DelaySaid
      <3> QED
        BY <1>7, <3>1
    <2>3. CASE DelayLines(t, n) # {}
      <3> DEFINE S == DelayLines(t, n)
      <3>1. Max(S) \in S
        <4>1. PICK i \in S : \A j \in S : j <= i
          <5>1. S \in SUBSET (0 .. N)
            BY <1>1, <1>5
          <5> HIDE DEF S
          <5> QED
            BY <1>1, <2>3, <5>1, GreatestExists DEF S
        <4>2. S \in SUBSET Nat
          BY <1>1, <1>5
        <4> HIDE DEF S
        <4> QED
          BY <4>1, <4>2, MaxIs
      <3>2. u[Max(S)] = t[Max(S)]
        BY <1>1, <1>5, <3>1
      <3>3. DelaySaid(u, n) = u[Max(S)].ms /\ DelaySaid(t, n) = t[Max(S)].ms
        BY <2>1, <2>3 DEF DelaySaid
      <3> QED
        BY <1>7, <3>2, <3>3
    <2> QED
      BY <2>2, <2>3
  <1> QED
    BY <1>6, <1>7

\* A group that no line has begun says nothing.
LEMMA NothingSaid ==
    ASSUME NEW t \in Seq(RobotsLines), NEW n \in Nat, n > TopOf(t), NEW kind
    PROVE  Tally(t, kind, n) = 0 /\ AgentsSaid(t, n) = {} /\ RulesSaid(t, n) = {} /\ DelaySaid(t, n) = 0
  <1>1. \A i \in 1 .. Len(t) : GroupIn(t, i) # n
    <2>1. TopOf(t) \in Nat /\ \A i \in 1 .. Len(t) : GroupIn(t, i) \in 0 .. TopOf(t)
      BY GroupNumbers
    <2> QED
      BY <2>1
  <1>2. Likes(t, Len(t), kind, n) = {} /\ AgentLines(t, n) = {} /\ RuleLines(t, n) = {} /\ DelayLines(t, n) = {}
    BY <1>1 DEF Likes, AgentLines, RuleLines, DelayLines
  <1> QED
    BY <1>2, FS_EmptySet DEF Tally, AgentsSaid, RulesSaid, DelaySaid

\* When a User-agent line begins a group, and when the list is closed.
LEMMA NewBegins ==
    ASSUME NEW t, NEW line, NEW u, Adds(t, line, u)
    PROVE  BeginsIn(u, Len(t) + 1) <=> line.key = "agent" /\ (NoAgent(t) \/ Shut(t))
  <1> DEFINE N == Len(t)
  <1>1. N \in Nat /\ u[N + 1] = line /\ \A j \in 1 .. N : u[j] = t[j]
    BY LineAdded
  <1>2. /\ (N + 1) - 1 = N /\ (\A j \in 1 .. N : \A k \in j + 1 .. N : k \in 1 .. N)
        /\ \A j \in 1 .. N : \A k \in 1 .. j - 1 : k \in 1 .. N
    BY <1>1
  <1>3. /\ \A j \in 1 .. N : (HasAgent(u, j) <=> HasAgent(t, j)) /\ (Closes(u[j]) <=> Closes(t[j]))
        /\ HasAgent(u, N + 1) <=> line.key = "agent"
    BY <1>1 DEF HasAgent
  <1> QED
    BY <1>2, <1>3 DEF BeginsIn, NoAgent, Shut

LEMMA NewShut ==
    ASSUME NEW t, NEW line, NEW u, Adds(t, line, u)
    PROVE  /\ Shut(u) <=> line.key # "agent" /\ (Shut(t) \/ (Closes(line) /\ ~NoAgent(t)))
           /\ NoAgent(u) <=> NoAgent(t) /\ line.key # "agent"
  <1> DEFINE N == Len(t)
  <1>1. N \in Nat /\ u[N + 1] = line /\ Len(u) = N + 1 /\ \A j \in 1 .. N : u[j] = t[j]
    BY LineAdded
  <1>2. /\ 1 .. N + 1 = (1 .. N) \cup {N + 1} /\ (N + 1) - 1 = N /\ (N + 1) + 1 .. N + 1 = {}
        /\ \A j \in 1 .. N : j + 1 .. N + 1 = (j + 1 .. N) \cup {N + 1}
        /\ \A j \in 1 .. N : \A k \in j + 1 .. N : k \in 1 .. N
        /\ \A j \in 1 .. N : \A k \in 1 .. j - 1 : k \in 1 .. N
    BY <1>1
  <1>3. /\ \A j \in 1 .. N : (HasAgent(u, j) <=> HasAgent(t, j)) /\ (Closes(u[j]) <=> Closes(t[j]))
        /\ (HasAgent(u, N + 1) <=> line.key = "agent") /\ (Closes(u[N + 1]) <=> Closes(line))
    BY <1>1 DEF HasAgent
  <1>4. NoAgent(u) <=> NoAgent(t) /\ line.key # "agent"
    BY <1>1, <1>2, <1>3 DEF NoAgent
  <1> DEFINE P(j) == Closes(t[j]) /\ (\A k \in j + 1 .. N : ~HasAgent(t, k)) /\ \E k \in 1 .. j - 1 : HasAgent(t, k)
             Q(j) == Closes(u[j]) /\ (\A k \in j + 1 .. N + 1 : ~HasAgent(u, k)) /\ \E k \in 1 .. j - 1 : HasAgent(u, k)
  <1>5. (Shut(t) <=> \E j \in 1 .. N : P(j)) /\ (Shut(u) <=> Q(N + 1) \/ \E j \in 1 .. N : Q(j))
    BY <1>1, <1>2 DEF Shut
  <1>6. ASSUME NEW j \in 1 .. N PROVE Q(j) <=> P(j) /\ line.key # "agent"
    <2>1. (\A k \in j + 1 .. N + 1 : ~HasAgent(u, k)) <=> (\A k \in j + 1 .. N : ~HasAgent(t, k)) /\ line.key # "agent"
      <3>1. (\A k \in j + 1 .. N + 1 : ~HasAgent(u, k)) <=> (\A k \in j + 1 .. N : ~HasAgent(u, k)) /\ ~HasAgent(u, N + 1)
        BY <1>2
      <3>2. \A k \in j + 1 .. N : HasAgent(u, k) <=> HasAgent(t, k)
        BY <1>2, <1>3
      <3> QED
        BY <1>3, <3>1, <3>2
    <2>2. (\E k \in 1 .. j - 1 : HasAgent(u, k)) <=> (\E k \in 1 .. j - 1 : HasAgent(t, k))
      BY <1>2, <1>3
    <2>3. Closes(u[j]) <=> Closes(t[j])
      BY <1>3
    <2> QED
      BY <2>1, <2>2, <2>3
  <1>7. Q(N + 1) <=> Closes(line) /\ ~NoAgent(t)
    BY <1>2, <1>3 DEF NoAgent
  <1>8. Closes(line) => line.key # "agent"
    BY DEF Closes
  <1> HIDE DEF P, Q
  <1> QED
    BY <1>4, <1>5, <1>6, <1>7, <1>8
-----------------------------------------------------------------------------
(* The parser builds what the lines say. *)

Least(a, b) == IF a <= b THEN a ELSE b

LEMMA OneMoreElement ==
    ASSUME NEW D, NEW s \in Seq(D), NEW x \in D
    PROVE  /\ Append(s, x) \in Seq(D) /\ Len(Append(s, x)) = Len(s) + 1 /\ Append(s, x) # <<>>
           /\ ToSet(Append(s, x)) = ToSet(s) \cup {x}
  <1> DEFINE a == Append(s, x)
             N == Len(s)
  <1>1. /\ N \in Nat /\ a \in Seq(D) /\ Len(a) = N + 1 /\ a[N + 1] = x /\ (\A i \in 1 .. N : a[i] = s[i])
        /\ DOMAIN a = 1 .. N + 1 /\ DOMAIN s = 1 .. N
    BY AppendProperties
  <1>2. 1 .. N + 1 = (1 .. N) \cup {N + 1}
    BY <1>1
  <1> HIDE DEF a, N
  <1>3. ToSet(a) = ToSet(s) \cup {x}
    BY <1>1, <1>2 DEF ToSet
  <1>4. a # <<>>
    BY <1>1
  <1> QED
    BY <1>1, <1>3, <1>4 DEF a, N

\* What a group holds is what its lines say.
Matches(g, t, n) ==
    /\ ToSet(g.agents) = AgentsSaid(t, n) /\ ToSet(g.rules) = RulesSaid(t, n)
    /\ g.delay = DelaySaid(t, n) /\ g.observe = FALSE

\* While a group is built: the counts that the caps compare, whether the list of
\* tokens is still open, and the groups that are finished.
Building(t, gs, g) ==
    /\ ~NoAgent(t) /\ g.open = TRUE /\ (g.expectUa <=> ~Shut(t)) /\ g.agents # <<>>
    /\ Matches(g, t, TopOf(t))
    /\ Len(g.agents) = Least(Tally(t, "agent", TopOf(t)), MaxAgents)
    /\ Len(g.rules) = Least(Tally(t, "rule", TopOf(t)), MaxRules)
    /\ Len(gs) = Least(TopOf(t) - 1, MaxGroups)
    /\ \A n \in 1 .. Len(gs) : Matches(gs[n], t, n)

Parsing(t, gs, g) ==
    /\ t \in Seq(RobotsLines) /\ gs \in Seq(GroupRecords) /\ g \in GroupRecords
    /\ TopOf(t) = 0 => NoAgent(t) /\ g = NoGroup /\ gs = <<>>
    /\ TopOf(t) # 0 => Building(t, gs, g)

LEMMA LineKnown ==
    ASSUME NEW line \in RobotsLines
    PROVE  /\ line.key = "agent" => line.token \in Agents
           /\ line.key = "rule" => line \in Rules
           /\ line.key = "delay" => line.ms \in Nat
  BY RobotsAssumption

LEMMA ExtendOpen ==
    ASSUME NEW g \in GroupRecords, NEW token \in Agents, g.open, g.expectUa
    PROVE  LET x == Extend(g, token)
           IN /\ x \in GroupRecords
              /\ x.agents = (IF Len(g.agents) < MaxAgents THEN Append(g.agents, token) ELSE g.agents)
              /\ x.rules = g.rules /\ x.delay = g.delay /\ x.observe = g.observe /\ x.open = TRUE /\ x.expectUa = TRUE
  <1>1. g.agents \in Seq(Agents) /\ Append(g.agents, token) \in Seq(Agents)
    BY OneMoreElement DEF GroupRecords
  <1>2. CASE Len(g.agents) < MaxAgents
    <2>1. Extend(g, token) = [g EXCEPT !.agents = Append(g.agents, token)]
      BY <1>2 DEF Extend
    <2> QED
      BY <1>1, <1>2, <2>1 DEF GroupRecords
  <1>3. CASE ~(Len(g.agents) < MaxAgents)
    <2>1. Extend(g, token) = g
      BY <1>3 DEF Extend
    <2> QED
      BY <1>3, <2>1 DEF GroupRecords
  <1> QED
    BY <1>2, <1>3

LEMMA ExtendNew ==
    ASSUME NEW g, NEW token \in Agents, ~(g.open /\ g.expectUa)
    PROVE  LET x == Extend(g, token)
           IN /\ x \in GroupRecords /\ x.agents = <<token>> /\ x.rules = <<>> /\ x.delay = 0
              /\ x.observe = FALSE /\ x.open = TRUE /\ x.expectUa = TRUE
  <1> DEFINE b == [NoGroup EXCEPT !.open = TRUE, !.expectUa = TRUE]
  <1>1. /\ NoGroup \in GroupRecords /\ NoGroup.agents = <<>> /\ NoGroup.rules = <<>>
        /\ NoGroup.delay = 0 /\ NoGroup.observe = FALSE
    BY DEF NoGroup, GroupRecords
  <1>2. /\ b \in GroupRecords /\ b.agents = <<>> /\ b.rules = <<>> /\ b.delay = 0
        /\ b.observe = FALSE /\ b.open = TRUE /\ b.expectUa = TRUE
    BY <1>1 DEF GroupRecords
  <1>3. Extend(g, token) = IF Len(b.agents) < MaxAgents THEN [b EXCEPT !.agents = Append(b.agents, token)] ELSE b
    BY DEF Extend
  <1> HIDE DEF b
  <1>4. Len(b.agents) < MaxAgents
    BY <1>2, RobotsAssumption
  <1>5. Append(b.agents, token) = <<token>> /\ <<token>> \in Seq(Agents)
    BY <1>2
  <1>6. Extend(g, token) = [b EXCEPT !.agents = <<token>>]
    BY <1>3, <1>4, <1>5
  <1> QED
    BY <1>2, <1>5, <1>6 DEF GroupRecords

LEMMA WithRuleIs ==
    ASSUME NEW g \in GroupRecords, NEW line \in Rules
    PROVE  LET x == WithRule(g, line)
           IN /\ x \in GroupRecords
              /\ x.rules = (IF Len(g.rules) >= MaxRules THEN g.rules ELSE Append(g.rules, line))
              /\ x.agents = g.agents /\ x.delay = g.delay /\ x.observe = g.observe /\ x.open = g.open /\ x.expectUa = FALSE
  <1>1. g.rules \in Seq(Rules) /\ Append(g.rules, line) \in Seq(Rules)
    BY OneMoreElement DEF GroupRecords
  <1>2. CASE Len(g.rules) >= MaxRules
    <2>1. WithRule(g, line) = [g EXCEPT !.expectUa = FALSE]
      BY <1>2 DEF WithRule, Closed
    <2> QED
      BY <1>2, <2>1 DEF GroupRecords
  <1>3. CASE ~(Len(g.rules) >= MaxRules)
    <2> DEFINE h == [g EXCEPT !.rules = Append(g.rules, line)]
    <2>1. WithRule(g, line) = [h EXCEPT !.expectUa = FALSE]
      BY <1>3 DEF WithRule, Closed
    <2>2. h \in GroupRecords /\ h.rules = Append(g.rules, line) /\ h.agents = g.agents /\ h.delay = g.delay
          /\ h.observe = g.observe /\ h.open = g.open
      BY <1>1 DEF GroupRecords
    <2> HIDE DEF h
    <2> QED
      BY <1>3, <2>1, <2>2 DEF GroupRecords
  <1> QED
    BY <1>2, <1>3

LEMMA ClosedIs ==
    ASSUME NEW g \in GroupRecords
    PROVE  LET x == Closed(g)
           IN /\ x \in GroupRecords /\ x.rules = g.rules /\ x.agents = g.agents /\ x.delay = g.delay
              /\ x.observe = g.observe /\ x.open = g.open /\ x.expectUa = FALSE
  BY DEF Closed, GroupRecords

LEMMA DelayedIs ==
    ASSUME NEW g \in GroupRecords, NEW ms \in Nat
    PROVE  LET x == Closed([g EXCEPT !.delay = ms])
           IN /\ x \in GroupRecords /\ x.rules = g.rules /\ x.agents = g.agents /\ x.delay = ms
              /\ x.observe = g.observe /\ x.open = g.open /\ x.expectUa = FALSE
  <1> DEFINE h == [g EXCEPT !.delay = ms]
  <1>1. h \in GroupRecords /\ h.rules = g.rules /\ h.agents = g.agents /\ h.delay = ms
        /\ h.observe = g.observe /\ h.open = g.open
    BY DEF GroupRecords
  <1> HIDE DEF h
  <1>2. /\ Closed(h) \in GroupRecords /\ Closed(h).rules = h.rules /\ Closed(h).agents = h.agents /\ Closed(h).delay = h.delay
        /\ Closed(h).observe = h.observe /\ Closed(h).open = h.open /\ Closed(h).expectUa = FALSE
    BY <1>1, ClosedIs
  <1> QED
    BY <1>1, <1>2 DEF h

\* A line changes what one group says at most, the last.
LEMMA OthersStay ==
    ASSUME NEW t, NEW line, NEW u, Adds(t, line, u), NEW n, n # TopOf(u), NEW g, Matches(g, t, n)
    PROVE  Matches(g, u, n)
  <1>1. AgentsSaid(u, n) = AgentsSaid(t, n)
    BY AgentsGrow
  <1>2. RulesSaid(u, n) = RulesSaid(t, n)
    BY RulesGrow
  <1>3. DelaySaid(u, n) = DelaySaid(t, n)
    BY DelayFollows
  <1> QED
    BY <1>1, <1>2, <1>3 DEF Matches

LEMMA FinishedStay ==
    ASSUME NEW t, NEW line, NEW u, Adds(t, line, u), NEW gs, TopOf(u) \in Nat, Len(gs) \in Nat, Len(gs) < TopOf(u),
           \A n \in 1 .. Len(gs) : Matches(gs[n], t, n)
    PROVE  \A n \in 1 .. Len(gs) : Matches(gs[n], u, n)
  <1> SUFFICES ASSUME NEW n \in 1 .. Len(gs) PROVE Matches(gs[n], u, n)
    OBVIOUS
  <1>1. n # TopOf(u) /\ Matches(gs[n], t, n)
    OBVIOUS
  <1> QED
    BY <1>1, OthersStay

\* Numbers of a group that goes on, and of one that begins.
LEMMA LeastFacts ==
    ASSUME NEW a \in Nat, NEW m \in Nat
    PROVE  /\ (Least(a, m) < m <=> a < m) /\ (Least(a, m) >= m <=> ~(a < m))
           /\ (a < m => Least(a + 1, m) = Least(a, m) + 1) /\ (~(a < m) => Least(a + 1, m) = Least(a, m))
           /\ Least(a, m) <= a /\ Least(a, m) \in Nat /\ (a < m => Least(a, m) = a)
  BY DEF Least

\* bs_rb_flush_group: the groups of the lines so far.
LEMMA FlushedBuilds ==
    ASSUME NEW t, NEW gs, NEW g, Parsing(t, gs, g)
    PROVE  /\ Flushed(gs, g) \in Seq(GroupRecords) /\ Len(Flushed(gs, g)) = Least(TopOf(t), MaxGroups)
           /\ \A k \in 1 .. Len(Flushed(gs, g)) : Matches(Flushed(gs, g)[k], t, k)
  <1> DEFINE hs == Flushed(gs, g)
  <1>1. /\ t \in Seq(RobotsLines) /\ gs \in Seq(GroupRecords) /\ g \in GroupRecords /\ TopOf(t) \in Nat /\ MaxGroups \in Nat
    BY GroupNumbers, RobotsAssumption DEF Parsing
  <1>2. CASE TopOf(t) = 0
    <2>1. g = NoGroup /\ gs = <<>>
      BY <1>2 DEF Parsing
    <2>2. hs = <<>>
      BY <2>1 DEF Flushed, NoGroup
    <2>3. Least(0, MaxGroups) = 0
      BY <1>1 DEF Least
    <2> HIDE DEF hs
    <2>4. hs \in Seq(GroupRecords) /\ Len(hs) = 0 /\ \A k \in 1 .. Len(hs) : Matches(hs[k], t, k)
      BY <2>2
    <2> QED
      BY <1>2, <2>3, <2>4 DEF hs
  <1>3. CASE TopOf(t) # 0
    <2>1. /\ g.open = TRUE /\ g.agents # <<>> /\ Matches(g, t, TopOf(t))
          /\ Len(gs) = Least(TopOf(t) - 1, MaxGroups) /\ \A k \in 1 .. Len(gs) : Matches(gs[k], t, k)
      BY <1>3 DEF Parsing, Building
    <2>2. hs = IF Len(gs) < MaxGroups THEN Append(gs, g) ELSE gs
      BY <2>1 DEF Flushed
    <2> DEFINE p == TopOf(t) - 1
    <2>3. p \in Nat /\ TopOf(t) = p + 1
      BY <1>1, <1>3
    <2> HIDE DEF hs, p
    <2>4. Len(gs) = Least(p, MaxGroups)
      BY <2>1 DEF p
    <2>5. CASE Len(gs) < MaxGroups
      <3>1. p < MaxGroups /\ Len(gs) = p /\ Least(p + 1, MaxGroups) = p + 1
        BY <1>1, <2>3, <2>4, <2>5, LeastFacts
      <3>2. hs = Append(gs, g)
        BY <2>2, <2>5
      <3>3. /\ hs \in Seq(GroupRecords) /\ Len(hs) = p + 1 /\ hs[p + 1] = g /\ \A k \in 1 .. p : hs[k] = gs[k]
        BY <1>1, <3>1, <3>2, AppendProperties
      <3>4. \A k \in 1 .. p + 1 : k \in 1 .. p \/ k = p + 1
        BY <2>3
      <3>5. \A k \in 1 .. p + 1 : Matches(hs[k], t, k)
        BY <2>1, <2>3, <3>1, <3>3, <3>4
      <3> QED
        BY <2>3, <3>1, <3>3, <3>5 DEF hs
    <2>6. CASE ~(Len(gs) < MaxGroups)
      <3>1. ~(p < MaxGroups) /\ Least(p + 1, MaxGroups) = Len(gs)
        BY <1>1, <2>3, <2>4, <2>6, LeastFacts
      <3> QED
        BY <1>1, <2>1, <2>2, <2>3, <2>6, <3>1 DEF hs
    <2> QED
      BY <2>5, <2>6
  <1> QED
    BY <1>2, <1>3

\* A line that begins no group, when there is one.
LEMMA SameGroup ==
    ASSUME NEW t, NEW line, NEW u, Adds(t, line, u), NEW gs, NEW g, Parsing(t, gs, g), TopOf(t) # 0,
           ~BeginsIn(u, Len(t) + 1)
    PROVE  /\ TopOf(u) = TopOf(t) /\ TopOf(t) \in Nat \ {0} /\ ~NoAgent(u) /\ u \in Seq(RobotsLines)
           /\ \A n \in 1 .. Len(gs) : Matches(gs[n], u, n)
           /\ Len(gs) = Least(TopOf(u) - 1, MaxGroups)
  <1>1. Building(t, gs, g) /\ t \in Seq(RobotsLines) /\ gs \in Seq(GroupRecords) /\ MaxGroups \in Nat
    BY RobotsAssumption DEF Parsing
  <1>2. TopOf(t) \in Nat /\ TopOf(u) = TopOf(t)
    <2>1. TopOf(t) \in Nat
      BY <1>1, GroupNumbers
    <2>2. TopOf(u) = TopOf(t) + IF BeginsIn(u, Len(t) + 1) THEN 1 ELSE 0
      BY TopMoves
    <2> QED
      BY <2>1, <2>2
  <1>3. ~NoAgent(t) /\ Len(gs) = Least(TopOf(t) - 1, MaxGroups) /\ \A n \in 1 .. Len(gs) : Matches(gs[n], t, n)
    BY <1>1 DEF Building
  <1>4. ~NoAgent(u)
    BY <1>3, NewShut
  <1>5. Len(gs) \in Nat /\ Len(gs) < TopOf(u)
    <2>1. TopOf(t) - 1 \in Nat
      BY <1>2
    <2>2. Least(TopOf(t) - 1, MaxGroups) <= TopOf(t) - 1
      BY <1>1, <2>1, LeastFacts
    <2> QED
      BY <1>1, <1>2, <1>3, <2>2
  <1>6. \A n \in 1 .. Len(gs) : Matches(gs[n], u, n)
    BY <1>2, <1>3, <1>5, FinishedStay
  <1>7. u \in Seq(RobotsLines)
    BY LineAdded
  <1> QED
    BY <1>2, <1>3, <1>4, <1>6, <1>7

\* bs_rb_add_ua, when it extends the list of the group.
LEMMA AgentAdded ==
    ASSUME NEW t, NEW line, NEW u, Adds(t, line, u), NEW gs, NEW g, Parsing(t, gs, g), line.key = "agent", g.expectUa
    PROVE  Parsing(u, gs, Extend(g, line.token))
  <1> DEFINE n == TopOf(t)
             x == Extend(g, line.token)
             a == Tally(t, "agent", n)
  <1>1. n # 0
    BY DEF Parsing, NoGroup
  <1>2. /\ t \in Seq(RobotsLines) /\ gs \in Seq(GroupRecords) /\ g \in GroupRecords /\ Building(t, gs, g)
        /\ line.token \in Agents /\ MaxAgents \in Nat /\ MaxRules \in Nat
    BY <1>1, LineKnown, RobotsAssumption DEF Parsing, Adds
  <1>3. /\ ~NoAgent(t) /\ g.open = TRUE /\ ~Shut(t) /\ g.agents # <<>> /\ Matches(g, t, n)
        /\ Len(g.agents) = Least(a, MaxAgents) /\ Len(g.rules) = Least(Tally(t, "rule", n), MaxRules)
    BY <1>2 DEF Building
  <1>4. ~BeginsIn(u, Len(t) + 1)
    BY <1>3, NewBegins
  <1>5. /\ TopOf(u) = n /\ n \in Nat \ {0} /\ ~NoAgent(u) /\ u \in Seq(RobotsLines)
        /\ (\A k \in 1 .. Len(gs) : Matches(gs[k], u, k))
        /\ Len(gs) = Least(TopOf(u) - 1, MaxGroups)
    BY <1>1, <1>4, SameGroup
  <1>6. /\ x \in GroupRecords
        /\ x.agents = (IF Len(g.agents) < MaxAgents THEN Append(g.agents, line.token) ELSE g.agents)
        /\ x.rules = g.rules /\ x.delay = g.delay /\ x.observe = g.observe /\ x.open = TRUE /\ x.expectUa = TRUE
    BY <1>2, <1>3, ExtendOpen
  <1>7. ~Shut(u)
    BY NewShut
  <1>8. a \in Nat /\ Tally(u, "agent", n) = a + 1
    <2>1. a \in Nat
      BY <1>2, TallyIn
    <2>2. Tally(u, "agent", n) = a + IF line.key = "agent" /\ TopOf(u) = n THEN 1 ELSE 0
      BY TallyOneMore
    <2> QED
      BY <1>5, <2>1, <2>2
  <1>9. Tally(u, "rule", n) = Tally(t, "rule", n)
    <2>1. Tally(t, "rule", n) \in Nat
      BY <1>2, TallyIn
    <2>2. Tally(u, "rule", n) = Tally(t, "rule", n) + IF line.key = "rule" /\ TopOf(u) = n THEN 1 ELSE 0
      BY TallyOneMore
    <2> QED
      BY <2>1, <2>2
  <1>10. AgentsSaid(u, n) = AgentsSaid(t, n) \cup (IF a < MaxAgents THEN {line.token} ELSE {})
    BY <1>5, AgentsGrow
  <1>11. RulesSaid(u, n) = RulesSaid(t, n)
    <2> HIDE DEF n, x, a
    <2>1. RulesSaid(u, n) =
            RulesSaid(t, n) \cup (IF line.key = "rule" /\ TopOf(u) = n /\ Tally(t, "rule", n) < MaxRules THEN {line} ELSE {})
      BY RulesGrow
    <2>2. ~(line.key = "rule")
      OBVIOUS
    <2> QED
      BY <2>1, <2>2
  <1>12. DelaySaid(u, n) = DelaySaid(t, n)
    BY DelayFollows
  <1>13. g.agents \in Seq(Agents)
    BY <1>2 DEF GroupRecords
  <1> HIDE DEF n, x, a
  <1>14. /\ Len(g.agents) < MaxAgents <=> a < MaxAgents
         /\ a < MaxAgents => Least(a + 1, MaxAgents) = Len(g.agents) + 1
         /\ ~(a < MaxAgents) => Least(a + 1, MaxAgents) = Len(g.agents)
    <2> DEFINE l == Least(a, MaxAgents)
    <2>1. MaxAgents \in Nat /\ a \in Nat /\ Len(g.agents) = l
      BY <1>2, <1>3, <1>8
    <2>2. /\ (l < MaxAgents <=> a < MaxAgents)
          /\ (a < MaxAgents => Least(a + 1, MaxAgents) = l + 1) /\ (~(a < MaxAgents) => Least(a + 1, MaxAgents) = l)
      BY <2>1, LeastFacts
    <2> HIDE DEF l
    <2> QED
      BY <2>1, <2>2
  <1>15. /\ Len(x.agents) = Least(a + 1, MaxAgents) /\ x.agents # <<>>
         /\ ToSet(x.agents) = ToSet(g.agents) \cup (IF a < MaxAgents THEN {line.token} ELSE {})
    <2>1. CASE a < MaxAgents
      <3>1. x.agents = Append(g.agents, line.token)
        BY <1>6, <1>14, <2>1
      <3> QED
        BY <1>2, <1>13, <1>14, <2>1, <3>1, OneMoreElement
    <2>2. CASE ~(a < MaxAgents)
      BY <1>3, <1>6, <1>14, <2>2
    <2> QED
      BY <2>1, <2>2
  <1>16. Matches(x, u, n)
    BY <1>3, <1>6, <1>10, <1>11, <1>12, <1>15 DEF Matches
  <1>17. Building(u, gs, x)
    BY <1>3, <1>5, <1>6, <1>7, <1>8, <1>9, <1>15, <1>16 DEF Building
  <1>18. Parsing(u, gs, x)
    BY <1>2, <1>5, <1>6, <1>17 DEF Parsing
  <1> QED
    BY <1>18 DEF x

\* bs_rb_add_ua, when it flushes the group and begins another.
LEMMA AgentBegins ==
    ASSUME NEW t, NEW line, NEW u, Adds(t, line, u), NEW gs, NEW g, Parsing(t, gs, g), line.key = "agent", ~g.expectUa
    PROVE  Parsing(u, Flushed(gs, g), Extend(g, line.token))
  <1> DEFINE n == TopOf(t) + 1
             x == Extend(g, line.token)
             hs == Flushed(gs, g)
  <1>1. /\ t \in Seq(RobotsLines) /\ gs \in Seq(GroupRecords) /\ g \in GroupRecords /\ TopOf(t) \in Nat
        /\ line.token \in Agents /\ MaxAgents \in Nat \ {0} /\ MaxRules \in Nat /\ MaxGroups \in Nat
    BY LineKnown, GroupNumbers, RobotsAssumption DEF Parsing, Adds
  <1>2. NoAgent(t) \/ Shut(t)
    BY DEF Parsing, Building
  <1>3. TopOf(u) = n /\ n \in Nat \ {0}
    <2>1. BeginsIn(u, Len(t) + 1)
      BY <1>2, NewBegins
    <2>2. TopOf(u) = TopOf(t) + IF BeginsIn(u, Len(t) + 1) THEN 1 ELSE 0
      BY TopMoves
    <2> QED
      BY <1>1, <2>1, <2>2
  <1>4. /\ x \in GroupRecords /\ x.agents = <<line.token>> /\ x.rules = <<>> /\ x.delay = 0
        /\ x.observe = FALSE /\ x.open = TRUE /\ x.expectUa = TRUE
    BY <1>1, ExtendNew
  <1>5. ~NoAgent(u) /\ ~Shut(u) /\ u \in Seq(RobotsLines)
    BY NewShut, LineAdded
  <1>6. n > TopOf(t)
    BY <1>1
  <1>7. Tally(t, "agent", n) = 0 /\ Tally(t, "rule", n) = 0 /\ AgentsSaid(t, n) = {} /\ RulesSaid(t, n) = {} /\ DelaySaid(t, n) = 0
    <2> HIDE DEF n
    <2> QED
      BY <1>1, <1>3, <1>6, NothingSaid
  <1>8. Tally(u, "agent", n) = 1
    <2>1. Tally(u, "agent", n) = Tally(t, "agent", n) + IF line.key = "agent" /\ TopOf(u) = n THEN 1 ELSE 0
      BY TallyOneMore
    <2> QED
      BY <1>3, <1>7, <2>1
  <1>9. Tally(u, "rule", n) = 0
    <2>1. Tally(u, "rule", n) = Tally(t, "rule", n) + IF line.key = "rule" /\ TopOf(u) = n THEN 1 ELSE 0
      BY TallyOneMore
    <2> QED
      BY <1>7, <2>1
  <1>10. AgentsSaid(u, n) = {line.token}
    <2>1. AgentsSaid(u, n) =
            AgentsSaid(t, n) \cup (IF line.key = "agent" /\ TopOf(u) = n /\ Tally(t, "agent", n) < MaxAgents THEN {line.token} ELSE {})
      BY AgentsGrow
    <2>2. Tally(t, "agent", n) < MaxAgents
      BY <1>1, <1>7
    <2> QED
      BY <1>3, <1>7, <2>1, <2>2
  <1>11. RulesSaid(u, n) = {}
    BY <1>7, RulesGrow
  <1>12. DelaySaid(u, n) = 0
    BY <1>7, DelayFollows
  <1>13. Least(1, MaxAgents) = 1 /\ Least(0, MaxRules) = 0
    BY <1>1 DEF Least
  <1>14. ToSet(x.agents) = {line.token} /\ ToSet(x.rules) = {} /\ Len(x.agents) = 1 /\ Len(x.rules) = 0 /\ x.agents # <<>>
    BY <1>4 DEF ToSet
  <1> HIDE DEF x
  <1>15. Matches(x, u, n)
    BY <1>4, <1>10, <1>11, <1>12, <1>14 DEF Matches
  <1>16. /\ hs \in Seq(GroupRecords) /\ Len(hs) = Least(n - 1, MaxGroups)
         /\ \A k \in 1 .. Len(hs) : Matches(hs[k], t, k)
    <2>1. n - 1 = TopOf(t)
      BY <1>1
    <2>2. /\ Flushed(gs, g) \in Seq(GroupRecords) /\ Len(Flushed(gs, g)) = Least(TopOf(t), MaxGroups)
          /\ \A k \in 1 .. Len(Flushed(gs, g)) : Matches(Flushed(gs, g)[k], t, k)
      BY FlushedBuilds
    <2> HIDE DEF n
    <2> QED
      BY <2>1, <2>2
  <1> HIDE DEF hs
  <1>17. \A k \in 1 .. Len(hs) : Matches(hs[k], u, k)
    <2>1. n - 1 \in Nat /\ Least(n - 1, MaxGroups) <= n - 1 /\ Len(hs) \in Nat
      BY <1>1, <1>3, <1>16, LeastFacts
    <2>2. Len(hs) < TopOf(u) /\ TopOf(u) \in Nat
      BY <1>3, <1>16, <2>1
    <2> QED
      BY <1>16, <2>1, <2>2, FinishedStay
  <1> HIDE DEF n
  <1>18. Building(u, hs, x)
    BY <1>3, <1>4, <1>5, <1>8, <1>9, <1>13, <1>14, <1>15, <1>16, <1>17 DEF Building
  <1>19. Parsing(u, hs, x)
    BY <1>3, <1>4, <1>5, <1>16, <1>18 DEF Parsing
  <1> QED
    BY <1>19 DEF x, hs
\* A line that is no User-agent line, before there is a group, and in one.
LEMMA NoGroupYet ==
    ASSUME NEW t, NEW line, NEW u, Adds(t, line, u), NEW gs, NEW g, Parsing(t, gs, g), TopOf(t) = 0, line.key # "agent"
    PROVE  Parsing(u, gs, g)
  <1>1. g = NoGroup /\ gs = <<>> /\ NoAgent(t) /\ gs \in Seq(GroupRecords) /\ g \in GroupRecords
    BY DEF Parsing
  <1>2. TopOf(u) = 0
    <2>1. ~BeginsIn(u, Len(t) + 1)
      BY NewBegins
    <2>2. TopOf(u) = TopOf(t) + IF BeginsIn(u, Len(t) + 1) THEN 1 ELSE 0
      BY TopMoves
    <2> QED
      BY <2>1, <2>2
  <1>3. NoAgent(u)
    BY <1>1, NewShut
  <1>4. u \in Seq(RobotsLines)
    BY LineAdded
  <1> QED
    BY <1>1, <1>2, <1>3, <1>4 DEF Parsing

LEMMA LineInGroup ==
    ASSUME NEW t, NEW line, NEW u, Adds(t, line, u), NEW gs, NEW g, Parsing(t, gs, g), TopOf(t) # 0, line.key # "agent",
           NEW x \in GroupRecords, x.agents = g.agents, x.observe = g.observe, x.open = g.open, x.expectUa <=> ~Shut(u),
           ToSet(x.rules) = RulesSaid(u, TopOf(t)), x.delay = DelaySaid(u, TopOf(t)),
           Len(x.rules) = Least(Tally(u, "rule", TopOf(t)), MaxRules)
    PROVE  Parsing(u, gs, x)
  <1> DEFINE n == TopOf(t)
  <1>1. /\ Building(t, gs, g) /\ t \in Seq(RobotsLines) /\ gs \in Seq(GroupRecords)
    BY DEF Parsing
  <1>2. /\ g.open = TRUE /\ g.agents # <<>> /\ Matches(g, t, n) /\ Len(g.agents) = Least(Tally(t, "agent", n), MaxAgents)
    BY <1>1 DEF Building
  <1>3. ~BeginsIn(u, Len(t) + 1)
    BY NewBegins
  <1>4. /\ TopOf(u) = n /\ n \in Nat \ {0} /\ ~NoAgent(u) /\ u \in Seq(RobotsLines)
        /\ (\A k \in 1 .. Len(gs) : Matches(gs[k], u, k))
        /\ Len(gs) = Least(TopOf(u) - 1, MaxGroups)
    BY <1>3, SameGroup
  <1>5. ToSet(x.rules) = RulesSaid(u, n) /\ x.delay = DelaySaid(u, n) /\ Len(x.rules) = Least(Tally(u, "rule", n), MaxRules)
    OBVIOUS
  <1> HIDE DEF n
  <1>6. Tally(u, "agent", n) = Tally(t, "agent", n)
    <2>1. Tally(t, "agent", n) \in Nat
      BY <1>1, TallyIn
    <2>2. Tally(u, "agent", n) = Tally(t, "agent", n) + IF line.key = "agent" /\ TopOf(u) = n THEN 1 ELSE 0
      BY TallyOneMore
    <2> QED
      BY <2>1, <2>2
  <1>7. AgentsSaid(u, n) = AgentsSaid(t, n)
    <2>1. AgentsSaid(u, n) =
            AgentsSaid(t, n) \cup (IF line.key = "agent" /\ TopOf(u) = n /\ Tally(t, "agent", n) < MaxAgents THEN {line.token} ELSE {})
      BY AgentsGrow
    <2> QED
      BY <2>1
  <1>8. Matches(x, u, n)
    BY <1>2, <1>5, <1>7 DEF Matches
  <1>9. Building(u, gs, x)
    BY <1>2, <1>4, <1>5, <1>6, <1>8 DEF Building
  <1> QED
    BY <1>1, <1>4, <1>9 DEF Parsing

\* What a line leaves of its group when it is none of its kind.
LEMMA RulesKept ==
    ASSUME NEW t, NEW line, NEW u, Adds(t, line, u), NEW n, line.key # "rule"
    PROVE  RulesSaid(u, n) = RulesSaid(t, n) /\ Tally(u, "rule", n) = Tally(t, "rule", n)
  <1>1. RulesSaid(u, n) =
          RulesSaid(t, n) \cup (IF line.key = "rule" /\ TopOf(u) = n /\ Tally(t, "rule", n) < MaxRules THEN {line} ELSE {})
    BY RulesGrow
  <1>2. Tally(t, "rule", n) \in Nat
    BY TallyIn DEF Adds
  <1>3. Tally(u, "rule", n) = Tally(t, "rule", n) + IF line.key = "rule" /\ TopOf(u) = n THEN 1 ELSE 0
    BY TallyOneMore
  <1> QED
    BY <1>1, <1>2, <1>3

\* bs_rb_add_rule.
LEMMA RuleRead ==
    ASSUME NEW t, NEW line, NEW u, Adds(t, line, u), NEW gs, NEW g, Parsing(t, gs, g), line.key = "rule"
    PROVE  Parsing(u, gs, IF g.open THEN WithRule(g, line) ELSE g)
  <1>1. CASE TopOf(t) = 0
    <2>1. g.open = FALSE
      BY <1>1 DEF Parsing, NoGroup
    <2>2. Parsing(u, gs, g)
      BY <1>1, NoGroupYet
    <2> QED
      BY <2>1, <2>2
  <1>2. CASE TopOf(t) # 0
    <2> DEFINE n == TopOf(t)
               x == WithRule(g, line)
               b == Tally(t, "rule", n)
    <2>1. /\ Building(t, gs, g) /\ t \in Seq(RobotsLines) /\ g \in GroupRecords /\ line \in Rules /\ MaxRules \in Nat
      BY <1>2, LineKnown, RobotsAssumption DEF Parsing, Adds
    <2>2. /\ g.open = TRUE /\ ~NoAgent(t) /\ Matches(g, t, n) /\ Len(g.rules) = Least(b, MaxRules)
      BY <2>1 DEF Building
    <2>3. /\ x \in GroupRecords
          /\ x.rules = (IF Len(g.rules) >= MaxRules THEN g.rules ELSE Append(g.rules, line))
          /\ x.agents = g.agents /\ x.delay = g.delay /\ x.observe = g.observe /\ x.open = g.open /\ x.expectUa = FALSE
      BY <2>1, WithRuleIs
    <2>4. Shut(u)
      <3>1. Closes(line)
        BY DEF Closes
      <3> QED
        BY <2>2, <3>1, NewShut
    <2>5. TopOf(u) = n
      <3>1. ~BeginsIn(u, Len(t) + 1)
        BY NewBegins
      <3> QED
        BY <1>2, <3>1, SameGroup
    <2> HIDE DEF n, x
    <2>6. b \in Nat /\ Tally(u, "rule", n) = b + 1
      <3>1. b \in Nat
        BY <2>1, TallyIn
      <3>2. Tally(u, "rule", n) = Tally(t, "rule", n) + IF line.key = "rule" /\ TopOf(u) = n THEN 1 ELSE 0
        BY TallyOneMore
      <3> QED
        BY <2>5, <3>1, <3>2
    <2>7. RulesSaid(u, n) = RulesSaid(t, n) \cup (IF b < MaxRules THEN {line} ELSE {})
      <3>1. RulesSaid(u, n) =
              RulesSaid(t, n) \cup (IF line.key = "rule" /\ TopOf(u) = n /\ Tally(t, "rule", n) < MaxRules THEN {line} ELSE {})
        BY RulesGrow
      <3> QED
        BY <2>5, <3>1
    <2>8. DelaySaid(u, n) = DelaySaid(t, n)
      BY DelayFollows
    <2> HIDE DEF b
    <2>9. /\ (Len(g.rules) >= MaxRules <=> ~(b < MaxRules))
          /\ (b < MaxRules => Least(b + 1, MaxRules) = Len(g.rules) + 1) /\ (~(b < MaxRules) => Least(b + 1, MaxRules) = Len(g.rules))
      <3> DEFINE l == Least(b, MaxRules)
      <3>1. MaxRules \in Nat /\ b \in Nat /\ Len(g.rules) = l
        BY <2>1, <2>2, <2>6
      <3>2. /\ (l >= MaxRules <=> ~(b < MaxRules))
            /\ (b < MaxRules => Least(b + 1, MaxRules) = l + 1) /\ (~(b < MaxRules) => Least(b + 1, MaxRules) = l)
        BY <3>1, LeastFacts
      <3> HIDE DEF l
      <3> QED
        BY <3>1, <3>2
    <2>10. Len(x.rules) = Least(b + 1, MaxRules) /\ ToSet(x.rules) = RulesSaid(u, n)
      <3>1. g.rules \in Seq(Rules) /\ ToSet(g.rules) = RulesSaid(t, n)
        BY <2>1, <2>2 DEF GroupRecords, Matches
      <3>2. CASE b < MaxRules
        <4>1. x.rules = Append(g.rules, line)
          BY <2>3, <2>9, <3>2
        <4> QED
          BY <2>1, <2>7, <2>9, <3>1, <3>2, <4>1, OneMoreElement
      <3>3. CASE ~(b < MaxRules)
        BY <2>3, <2>7, <2>9, <3>1, <3>3
      <3> QED
        BY <3>2, <3>3
    <2>11. x.delay = DelaySaid(u, n)
      BY <2>2, <2>3, <2>8 DEF Matches
    <2>12. Len(x.rules) = Least(Tally(u, "rule", n), MaxRules)
      BY <2>6, <2>10
    <2>13. Parsing(u, gs, x)
      BY <1>2, <2>3, <2>4, <2>10, <2>11, <2>12, LineInGroup DEF n
    <2> QED
      BY <2>2, <2>13 DEF x
  <1> QED
    BY <1>1, <1>2

\* A line that leaves the rules as they are, and may close the list and set the delay.
LEMMA OtherRead ==
    ASSUME NEW t, NEW line, NEW u, Adds(t, line, u), NEW gs, NEW g, Parsing(t, gs, g), TopOf(t) # 0,
           line.key # "agent", line.key # "rule",
           NEW x \in GroupRecords, x.rules = g.rules, x.agents = g.agents, x.observe = g.observe, x.open = g.open,
           x.expectUa = (IF Closes(line) THEN FALSE ELSE g.expectUa),
           x.delay = IF line.key = "delay" /\ line.ms > 0 THEN line.ms ELSE g.delay
    PROVE  Parsing(u, gs, x)
  <1> DEFINE n == TopOf(t)
  <1>1. Building(t, gs, g)
    BY DEF Parsing
  <1>2. /\ ~NoAgent(t) /\ Matches(g, t, n) /\ Len(g.rules) = Least(Tally(t, "rule", n), MaxRules) /\ (g.expectUa <=> ~Shut(t))
    BY <1>1 DEF Building
  <1>3. TopOf(u) = n
    <2>1. ~BeginsIn(u, Len(t) + 1)
      BY NewBegins
    <2> QED
      BY <2>1, SameGroup
  <1>4. x.expectUa <=> ~Shut(u)
    <2>1. Shut(u) <=> Shut(t) \/ Closes(line)
      BY <1>2, NewShut
    <2> QED
      BY <1>2, <2>1
  <1> HIDE DEF n
  <1>5. RulesSaid(u, n) = RulesSaid(t, n) /\ Tally(u, "rule", n) = Tally(t, "rule", n)
    BY RulesKept
  <1>6. DelaySaid(u, n) = IF line.key = "delay" /\ line.ms > 0 /\ TopOf(u) = n THEN line.ms ELSE DelaySaid(t, n)
    BY DelayFollows
  <1>7. ToSet(x.rules) = RulesSaid(u, n) /\ Len(x.rules) = Least(Tally(u, "rule", n), MaxRules)
    BY <1>2, <1>5 DEF Matches
  <1>8. x.delay = DelaySaid(u, n)
    BY <1>2, <1>3, <1>6 DEF Matches
  <1> QED
    BY <1>4, <1>7, <1>8, LineInGroup DEF n

LEMMA NoRuleRead ==
    ASSUME NEW t, NEW line, NEW u, Adds(t, line, u), NEW gs, NEW g, Parsing(t, gs, g), line.key = "norule"
    PROVE  Parsing(u, gs, IF g.open THEN Closed(g) ELSE g)
  <1>0. line.key # "agent" /\ line.key # "rule" /\ line.key # "delay" /\ Closes(line)
    BY DEF Closes
  <1>1. CASE TopOf(t) = 0
    <2>1. g.open = FALSE
      BY <1>1 DEF Parsing, NoGroup
    <2>2. Parsing(u, gs, g)
      BY <1>0, <1>1, NoGroupYet
    <2> QED
      BY <2>1, <2>2
  <1>2. CASE TopOf(t) # 0
    <2> DEFINE x == Closed(g)
    <2>1. g \in GroupRecords /\ g.open = TRUE
      BY <1>2 DEF Parsing, Building
    <2>2. /\ x \in GroupRecords /\ x.rules = g.rules /\ x.agents = g.agents /\ x.delay = g.delay
          /\ x.observe = g.observe /\ x.open = g.open /\ x.expectUa = FALSE
      BY <2>1, ClosedIs
    <2> HIDE DEF x
    <2>3. /\ x.expectUa = (IF Closes(line) THEN FALSE ELSE g.expectUa)
          /\ x.delay = IF line.key = "delay" /\ line.ms > 0 THEN line.ms ELSE g.delay
      BY <1>0, <2>2
    <2>4. Parsing(u, gs, x)
      BY <1>0, <1>2, <2>2, <2>3, OtherRead
    <2> QED
      BY <2>1, <2>4 DEF x
  <1> QED
    BY <1>1, <1>2

LEMMA DelayRead ==
    ASSUME NEW t, NEW line, NEW u, Adds(t, line, u), NEW gs, NEW g, Parsing(t, gs, g), line.key = "delay"
    PROVE  Parsing(u, gs, IF g.open /\ line.ms > 0 THEN Closed([g EXCEPT !.delay = line.ms]) ELSE g)
  <1>0. /\ line.key # "agent" /\ line.key # "rule" /\ line.key # "norule" /\ line.ms \in Nat
        /\ (Closes(line) <=> line.ms > 0)
    BY LineKnown DEF Closes, Adds
  <1>1. CASE TopOf(t) = 0
    <2>1. g.open = FALSE
      BY <1>1 DEF Parsing, NoGroup
    <2>2. Parsing(u, gs, g)
      BY <1>0, <1>1, NoGroupYet
    <2> QED
      BY <2>1, <2>2
  <1>2. CASE TopOf(t) # 0
    <2> DEFINE x == Closed([g EXCEPT !.delay = line.ms])
    <2>1. g \in GroupRecords /\ g.open = TRUE
      BY <1>2 DEF Parsing, Building
    <2>2. CASE line.ms > 0
      <3>1. /\ x \in GroupRecords /\ x.rules = g.rules /\ x.agents = g.agents /\ x.delay = line.ms
            /\ x.observe = g.observe /\ x.open = g.open /\ x.expectUa = FALSE
        BY <1>0, <2>1, DelayedIs
      <3> HIDE DEF x
      <3>2. /\ x.expectUa = (IF Closes(line) THEN FALSE ELSE g.expectUa)
            /\ x.delay = IF line.key = "delay" /\ line.ms > 0 THEN line.ms ELSE g.delay
        BY <1>0, <2>2, <3>1
      <3>3. Parsing(u, gs, x)
        BY <1>0, <1>2, <3>1, <3>2, OtherRead
      <3> QED
        BY <2>1, <2>2, <3>3 DEF x
    <2>3. CASE ~(line.ms > 0)
      <3>1. /\ g.expectUa = (IF Closes(line) THEN FALSE ELSE g.expectUa)
            /\ g.delay = IF line.key = "delay" /\ line.ms > 0 THEN line.ms ELSE g.delay
        BY <1>0, <2>3
      <3>2. Parsing(u, gs, g)
        BY <1>0, <1>2, <2>1, <3>1, OtherRead
      <3> QED
        BY <2>3, <3>2
    <2> QED
      BY <2>2, <2>3
  <1> QED
    BY <1>1, <1>2

-----------------------------------------------------------------------------
(* The parser reads a file as it was written. *)

\* What was written, in terms of the lines and of the groups.
WrittenIn(t, gs) ==
    {GroupSaid(t, n) : n \in 1 .. Min({MaxGroups, TopOf(t)})} \cup {View(g) : g \in ToSet(gs) \cap Inlines}

LEMMA WrittenIs == ASSUME text \in Seq(RobotsLines) PROVE Written = WrittenIn(text, groups)
  <1>1. DOMAIN text = 1 .. Len(text)
    OBVIOUS
  <1>2. \A i : Begins(i) <=> BeginsIn(text, i)
    BY DEF Begins, BeginsIn, HasAgent
  <1>3. \A i : GroupOf(i) = GroupIn(text, i)
    <2> SUFFICES ASSUME NEW i PROVE GroupOf(i) = GroupIn(text, i)
      OBVIOUS
    <2>1. {j \in 1 .. i : Begins(j)} = Begun(text, i)
      BY <1>2 DEF Begun
    <2> QED
      BY <2>1 DEF GroupOf, GroupIn
  <1>4. \A i, m : AmongFirst(i, m) <=> Among(text, i, m)
    <2> SUFFICES ASSUME NEW i, NEW m PROVE AmongFirst(i, m) <=> Among(text, i, m)
      OBVIOUS
    <2>1. {j \in 1 .. i : text[j].key = text[i].key /\ GroupOf(j) = GroupOf(i)} = Likes(text, i, text[i].key, GroupIn(text, i))
      BY <1>3 DEF Likes
    <2> QED
      BY <2>1 DEF AmongFirst, Among
  <1>5. Cardinality({i \in DOMAIN text : Begins(i)}) = TopOf(text)
    <2>1. {i \in DOMAIN text : Begins(i)} = Begun(text, Len(text))
      BY <1>1, <1>2 DEF Begun
    <2> QED
      BY <2>1 DEF TopOf, GroupIn
  <1>6. \A n : AgentsOf(n) = AgentsSaid(text, n)
    <2> SUFFICES ASSUME NEW n PROVE AgentsOf(n) = AgentsSaid(text, n)
      OBVIOUS
    <2>1. {j \in DOMAIN text : text[j].key = "agent" /\ GroupOf(j) = n /\ AmongFirst(j, MaxAgents)} = AgentLines(text, n)
      BY <1>1, <1>3, <1>4 DEF AgentLines, HasAgent
    <2> QED
      BY <2>1 DEF AgentsOf, AgentsSaid
  <1>7. \A n : RulesOf(n) = RulesSaid(text, n)
    <2> SUFFICES ASSUME NEW n PROVE RulesOf(n) = RulesSaid(text, n)
      OBVIOUS
    <2>1. {j \in DOMAIN text : text[j].key = "rule" /\ GroupOf(j) = n /\ AmongFirst(j, MaxRules)} = RuleLines(text, n)
      BY <1>1, <1>3, <1>4 DEF RuleLines
    <2> QED
      BY <2>1 DEF RulesOf, RulesSaid
  <1>8. \A n : DelayOf(n) = DelaySaid(text, n)
    <2> SUFFICES ASSUME NEW n PROVE DelayOf(n) = DelaySaid(text, n)
      OBVIOUS
    <2>1. {j \in DOMAIN text : text[j].key = "delay" /\ text[j].ms > 0 /\ GroupOf(j) = n} = DelayLines(text, n)
      BY <1>1, <1>3 DEF DelayLines
    <2> QED
      BY <2>1 DEF DelayOf, DelaySaid
  <1>9. FileGroups = 1 .. Min({MaxGroups, TopOf(text)})
    BY <1>5 DEF FileGroups
  <1> QED
    BY <1>6, <1>7, <1>8, <1>9 DEF Written, WrittenIn, GroupSaid, View

LEMMA LeastIsMin == ASSUME NEW a \in Nat, NEW b \in Nat PROVE Min({b, a}) = Least(a, b)
  BY DEF Min, Least

\* At the end of the file the groups are those of its lines.
LEMMA FileRead ==
    ASSUME NEW t, NEW gs, NEW g, Parsing(t, gs, g)
    PROVE  Flushed(gs, g) \in Seq(GroupRecords) /\ WrittenIn(t, Flushed(gs, g)) = Views(Flushed(gs, g))
  <1> DEFINE hs == Flushed(gs, g)
             said == {GroupSaid(t, n) : n \in 1 .. Min({MaxGroups, TopOf(t)})}
             inline == {View(h) : h \in ToSet(hs) \cap Inlines}
  <1>1. hs \in Seq(GroupRecords) /\ Len(hs) = Least(TopOf(t), MaxGroups) /\ \A k \in 1 .. Len(hs) : Matches(hs[k], t, k)
    BY FlushedBuilds
  <1>2. Min({MaxGroups, TopOf(t)}) = Len(hs)
    <2>1. TopOf(t) \in Nat /\ MaxGroups \in Nat
      BY GroupNumbers, RobotsAssumption DEF Parsing
    <2> HIDE DEF hs
    <2> QED
      BY <1>1, <2>1, LeastIsMin
  <1> HIDE DEF hs
  <1>3. \A k \in 1 .. Len(hs) : View(hs[k]) = GroupSaid(t, k)
    BY <1>1 DEF Matches, View, GroupSaid
  <1>4. ToSet(hs) = {hs[k] : k \in 1 .. Len(hs)}
    BY <1>1 DEF ToSet
  <1>5. said = {View(hs[k]) : k \in 1 .. Len(hs)}
    BY <1>2, <1>3
  <1>6. Views(hs) = {View(hs[k]) : k \in 1 .. Len(hs)}
    BY <1>4 DEF Views
  <1>7. inline \subseteq Views(hs)
    BY DEF Views
  <1>8. WrittenIn(t, hs) = said \cup inline
    BY DEF WrittenIn
  <1> HIDE DEF said, inline
  <1>9. WrittenIn(t, hs) = Views(hs)
    BY <1>5, <1>6, <1>7, <1>8
  <1> QED
    BY <1>1, <1>9 DEF hs

\* robots_doc_add_inline: the group is one of what was written.
LEMMA InlineAdded ==
    ASSUME NEW t, NEW gs \in Seq(GroupRecords), NEW g \in Inlines, WrittenIn(t, gs) = Views(gs)
    PROVE  Append(gs, g) \in Seq(GroupRecords) /\ WrittenIn(t, Append(gs, g)) = Views(Append(gs, g))
  <1> DEFINE hs == Append(gs, g)
  <1>1. g \in GroupRecords
    BY RobotsAssumption DEF GroupRecords
  <1>2. hs \in Seq(GroupRecords) /\ ToSet(hs) = ToSet(gs) \cup {g}
    BY <1>1, OneMoreElement
  <1> HIDE DEF hs
  <1>3. Views(hs) = Views(gs) \cup {View(g)}
    BY <1>2 DEF Views
  <1>4. WrittenIn(t, hs) = WrittenIn(t, gs) \cup {View(g)}
    <2>1. ToSet(hs) \cap Inlines = (ToSet(gs) \cap Inlines) \cup {g}
      BY <1>2
    <2>2. {View(h) : h \in ToSet(hs) \cap Inlines} = {View(h) : h \in ToSet(gs) \cap Inlines} \cup {View(g)}
      BY <2>1
    <2> QED
      BY <2>2 DEF WrittenIn
  <1> QED
    BY <1>2, <1>3, <1>4 DEF hs

\* While the file is read the group in hand and the finished ones are what the lines
\* say; from its end on, the groups are what was written.
RobotsInv ==
    /\ text \in Seq(RobotsLines)
    /\ ~parsed => Parsing(text, groups, cur)
    /\ parsed => groups \in Seq(GroupRecords) /\ WrittenIn(text, groups) = Views(groups)

LEMMA RobotsInitially == RobotsInit => RobotsInv
  <1> SUFFICES ASSUME RobotsInit PROVE RobotsInv
    OBVIOUS
  <1>1. text = <<>> /\ groups = <<>> /\ cur = NoGroup /\ ~parsed
    BY DEF RobotsInit
  <1>2. TopOf(<<>>) = 0
    <2>1. Begun(<<>>, 0) = {} /\ Len(<<>>) = 0
      BY DEF Begun
    <2> QED
      BY <2>1, FS_EmptySet DEF TopOf, GroupIn
  <1>3. NoAgent(<<>>)
    BY DEF NoAgent
  <1>4. NoGroup \in GroupRecords
    BY DEF NoGroup, GroupRecords
  <1> QED
    BY <1>1, <1>2, <1>3, <1>4 DEF RobotsInv, Parsing

LEMMA RobotsStep == RobotsInv /\ [RobotsNext]_robotsVars => RobotsInv'
  <1> SUFFICES ASSUME RobotsInv, [RobotsNext]_robotsVars PROVE RobotsInv'
    OBVIOUS
  <1>1. CASE ReadLine
    <2>1. ~parsed /\ ~parsed' /\ text \in Seq(RobotsLines) /\ Parsing(text, groups, cur)
      BY <1>1 DEF ReadLine, RobotsInv
    <2>2. PICK line \in RobotsLines :
            text' = Append(text, line) /\ (ReadAgent(line) \/ ReadRule(line) \/ ReadNoRule(line) \/ ReadDelay(line))
      BY <1>1 DEF ReadLine
    <2>3. Adds(text, line, text')
      BY <2>1, <2>2 DEF Adds
    <2>4. CASE ReadAgent(line)
      <3>3. Parsing(text', groups', cur')
        <4>1. CASE cur.expectUa
          <5>1. line.key = "agent" /\ groups' = groups /\ cur' = Extend(cur, line.token)
            BY <2>4, <4>1 DEF ReadAgent
          <5>2. Parsing(text', groups, Extend(cur, line.token))
            BY <2>1, <2>3, <4>1, <5>1, AgentAdded
          <5> QED
            BY <5>1, <5>2
        <4>2. CASE ~cur.expectUa
          <5>1. line.key = "agent" /\ groups' = Flushed(groups, cur) /\ cur' = Extend(cur, line.token)
            BY <2>4, <4>2 DEF ReadAgent
          <5>2. Parsing(text', Flushed(groups, cur), Extend(cur, line.token))
            BY <2>1, <2>3, <4>2, <5>1, AgentBegins
          <5> QED
            BY <5>1, <5>2
        <4> QED
          BY <4>1, <4>2
      <3> QED
        BY <2>1, <2>3, <3>3, LineAdded DEF RobotsInv
    <2>5. CASE ReadRule(line)
      <3>1. line.key = "rule" /\ groups' = groups /\ cur' = IF cur.open THEN WithRule(cur, line) ELSE cur
        BY <2>5 DEF ReadRule
      <3>2. Parsing(text', groups, IF cur.open THEN WithRule(cur, line) ELSE cur)
        BY <2>1, <2>3, <3>1, RuleRead
      <3>3. Parsing(text', groups', cur')
        BY <3>1, <3>2
      <3> QED
        BY <2>1, <2>3, <3>3, LineAdded DEF RobotsInv
    <2>6. CASE ReadNoRule(line)
      <3>1. line.key = "norule" /\ groups' = groups /\ cur' = IF cur.open THEN Closed(cur) ELSE cur
        BY <2>6 DEF ReadNoRule
      <3>2. Parsing(text', groups, IF cur.open THEN Closed(cur) ELSE cur)
        BY <2>1, <2>3, <3>1, NoRuleRead
      <3>3. Parsing(text', groups', cur')
        BY <3>1, <3>2
      <3> QED
        BY <2>1, <2>3, <3>3, LineAdded DEF RobotsInv
    <2>7. CASE ReadDelay(line)
      <3>1. /\ line.key = "delay" /\ groups' = groups
            /\ cur' = IF cur.open /\ line.ms > 0 THEN Closed([cur EXCEPT !.delay = line.ms]) ELSE cur
        BY <2>7 DEF ReadDelay
      <3>2. Parsing(text', groups, IF cur.open /\ line.ms > 0 THEN Closed([cur EXCEPT !.delay = line.ms]) ELSE cur)
        BY <2>1, <2>3, <3>1, DelayRead
      <3>3. Parsing(text', groups', cur')
        BY <3>1, <3>2
      <3> QED
        BY <2>1, <2>3, <3>3, LineAdded DEF RobotsInv
    <2> QED
      BY <2>2, <2>4, <2>5, <2>6, <2>7
  <1>2. CASE EndFile
    <2>1. /\ ~parsed /\ parsed' /\ groups' = Flushed(groups, cur) /\ text' = text /\ text \in Seq(RobotsLines)
          /\ Parsing(text, groups, cur)
      BY <1>2 DEF EndFile, RobotsInv
    <2>2. Flushed(groups, cur) \in Seq(GroupRecords) /\ WrittenIn(text, Flushed(groups, cur)) = Views(Flushed(groups, cur))
      BY <2>1, FileRead
    <2>3. groups' \in Seq(GroupRecords) /\ WrittenIn(text', groups') = Views(groups')
      BY <2>1, <2>2
    <2> QED
      BY <2>1, <2>3 DEF RobotsInv
  <1>3. CASE AddInline
    <2>1. /\ parsed /\ parsed' /\ text' = text /\ text \in Seq(RobotsLines)
          /\ groups \in Seq(GroupRecords) /\ WrittenIn(text, groups) = Views(groups)
      BY <1>3 DEF AddInline, RobotsInv
    <2>2. PICK g \in Inlines : groups' = Append(groups, g)
      BY <1>3 DEF AddInline
    <2>3. Append(groups, g) \in Seq(GroupRecords) /\ WrittenIn(text, Append(groups, g)) = Views(Append(groups, g))
      BY <2>1, InlineAdded
    <2>4. groups' \in Seq(GroupRecords) /\ WrittenIn(text', groups') = Views(groups')
      BY <2>1, <2>2, <2>3
    <2> QED
      BY <2>1, <2>4 DEF RobotsInv
  <1>4. CASE UNCHANGED robotsVars
    <2>1. text' = text /\ groups' = groups /\ cur' = cur /\ parsed' = parsed
      BY <1>4 DEF robotsVars
    <2> QED
      BY <2>1 DEF RobotsInv
  <1> QED
    BY <1>1, <1>2, <1>3, <1>4 DEF RobotsNext

LEMMA RobotsSays == RobotsInv => ReadsAsWritten
  <1> SUFFICES ASSUME RobotsInv, parsed, NEW c \in Crawlers, NEW path \in Paths
               PROVE  LET obeyed == Obeyed(Written, c)
                          q == Query(groups, c, path)
                      IN /\ q.applies = (obeyed # {}) /\ q.allowed = ~Disallowed(obeyed, path)
                         /\ q.delay = Max({0} \cup {g.delay : g \in obeyed})
    BY DEF ReadsAsWritten
  <1>1. groups \in Seq(GroupRecords) /\ Written = Views(groups)
    BY WrittenIs DEF RobotsInv
  <1> DEFINE obeyed == Obeyed(Written, c)
  <1>2. obeyed = Obeyed(Views(groups), c)
    BY <1>1
  <1> HIDE DEF obeyed
  <1>3. /\ Query(groups, c, path).applies = (obeyed # {}) /\ Query(groups, c, path).allowed = ~Disallowed(obeyed, path)
        /\ Query(groups, c, path).delay = Max({0} \cup {g.delay : g \in obeyed})
    BY <1>1, <1>2, QueryRight
  <1> QED
    BY <1>3 DEF obeyed

\* bs_rb_add_ua, bs_rb_add_rule, bs_rb_flush_group and robots_query hold every
\* crawler to what its own groups say, for every file, every set of groups the
\* configuration adds, every cap, crawler and path.
THEOREM RobotsReadAsWritten == RobotsSpec => []ReadsAsWritten
  <1>1. RobotsInv /\ [RobotsNext]_robotsVars => RobotsInv'
    BY RobotsStep
  <1> QED
    BY <1>1, RobotsInitially, RobotsSays, PTL DEF RobotsSpec
=============================================================================
