-------------------------- MODULE NonceTableProofs --------------------------
(***************************************************************************)
(* Theorems of NonceTable, for every table size, probe limit, set of       *)
(* nonces and number of concurrent requests and crashes.                   *)
(***************************************************************************)
EXTENDS NonceTable, LeastIndex

\* A set of probe indices that is not empty has a first one.
LEMMA FirstExists ==
    ASSUME NEW S \in SUBSET ProbeIndices, S # {}
    PROVE  \E i \in S : IsFirst(S, i)
  <1>1. ProbeLimit - 1 \in Nat /\ S \subseteq 0 .. ProbeLimit - 1
    BY NonceAssumption DEF ProbeIndices
  <1>2. \E i \in S : \A j \in S : i <= j
    BY <1>1, LeastExists
  <1> QED
    BY <1>2 DEF IsFirst

\* A probe stays inside the table.
LEMMA ProbeInTable ==
    ASSUME NEW n \in Nonce, NEW i \in ProbeIndices
    PROVE  ProbeAt(n, i) \in Slots
  <1>1. Bucket[n] \in Nat /\ i \in Nat /\ Capacity \in Nat \ {0}
    BY NonceAssumption DEF Slots, ProbeIndices
  <1>2. (Bucket[n] + i) % Capacity \in 0 .. Capacity - 1
    BY <1>1
  <1> QED
    BY <1>2 DEF ProbeAt, Slots

\* What the request's claim leads to: the slot it picks is free, or holds
\* nothing that could still be presented, and its nonce is not spent.
LEMMA ScanClaims ==
    ASSUME NonceTypeOK, EntryInv, NEW p \in Procs, pnonce[p] \in Nonce,
           pnow[p] <= now, ~Duplicate(p),
           NEW i \in ProbeIndices, Target(p, i)
    PROVE  /\ pnonce[p] \notin Spent
           /\ Live(ProbeAt(pnonce[p], i)) =>
                table[ProbeAt(pnonce[p], i)].expires <= now
  <1> DEFINE n == pnonce[p]
             at(j) == ProbeAt(n, j)
  <1>0. \A j \in ProbeIndices : at(j) \in Slots /\ table[at(j)].expires \in Nat
    BY ProbeInTable DEF NonceTypeOK, Entry
  <1>1. now \in Nat /\ pnow[p] \in Nat
    BY DEF NonceTypeOK
  <1>2. \A j \in Matches(p) : table[at(j)].expires <= pnow[p]
    <2> SUFFICES ASSUME NEW j \in Matches(p)
                 PROVE  table[at(j)].expires <= pnow[p]
      OBVIOUS
    <2>1. PICK k \in Matches(p) : IsFirst(Matches(p), k)
      BY FirstExists DEF Matches
    <2>2. table[at(k)].expires <= pnow[p]
      <3>1. k \in ProbeIndices
        BY DEF Matches
      <3>2. ~ (table[at(k)].expires > pnow[p])
        BY <2>1 DEF Duplicate
      <3> QED
        BY <1>0, <1>1, <3>1, <3>2
    <2>3. table[at(k)].expires = exp[n] /\ table[at(j)].expires = exp[n]
      BY <1>0 DEF Matches, EntryInv
    <2> QED
      BY <2>2, <2>3
  <1>3. n \notin Spent
    <2> SUFFICES ASSUME NEW j \in ProbeIndices, Live(at(j)),
                        table[at(j)].nonce = n, table[at(j)].expires > now
                 PROVE  FALSE
      BY DEF Spent
    <2>1. j \in Matches(p)
      BY DEF Matches
    <2> QED
      BY <1>0, <1>1, <1>2, <2>1
  <1>4. ASSUME Live(at(i)) PROVE table[at(i)].expires <= now
    <2>1. i \notin Vacant(p)
      BY <1>4 DEF Vacant
    <2>2. i \in Dead(p)
      BY <2>1 DEF Target, IsFirst
    <2>3. i \in Matches(p) \/ table[at(i)].expires < pnow[p]
      BY <2>2 DEF Dead
    <2> QED
      BY <1>0, <1>1, <1>2, <2>3
  <1> QED
    BY <1>3, <1>4

(***************************************************************************)
(* Type correctness.                                                       *)
(***************************************************************************)

\* The first state is well typed.
LEMMA TypeInit == NonceInit => NonceTypeOK
  BY NonceAssumption DEF NonceInit, NonceTypeOK, Slots, Entry, Unused, Critical

\* Every step keeps the types, and the mutex with the one that holds it.
LEMMA TypeStep == NonceTypeOK /\ [NonceNext]_nonceVars => NonceTypeOK'
  <1> SUFFICES ASSUME NonceTypeOK, [NonceNext]_nonceVars PROVE NonceTypeOK'
    OBVIOUS
  <1>1. ASSUME NEW n \in Nonce, NEW ttl \in TTLs, Issue(n, ttl) PROVE NonceTypeOK'
    BY <1>1, NonceAssumption DEF Issue, NonceTypeOK
  <1>2. ASSUME NEW p \in Procs, NEW n \in Nonce, Present(p, n) PROVE NonceTypeOK'
    BY <1>2 DEF Present, NonceTypeOK, Critical
  <1>3. ASSUME NEW p \in Procs, ReadClock(p) PROVE NonceTypeOK'
    BY <1>3 DEF ReadClock, NonceTypeOK, Critical
  <1>4. ASSUME NEW p \in Procs, Busy(p) PROVE NonceTypeOK'
    BY <1>4 DEF Busy, Refuse, NonceTypeOK, Critical
  <1>5. ASSUME NEW p \in Procs, Scan(p) PROVE NonceTypeOK'
    <2>1. CASE Duplicate(p) /\ Refuse(p, "duplicate")
      BY <1>5, <2>1 DEF Scan, Refuse, NonceTypeOK, Critical
    <2>2. CASE ~Duplicate(p) /\ Refuse(p, "saturated")
      BY <1>5, <2>2 DEF Scan, Refuse, NonceTypeOK, Critical
    <2>3. CASE pc' = [pc EXCEPT ![p] = "announce"]
      <3>1. pnonce[p] \in Nonce
        BY <1>5 DEF Scan, NonceTypeOK
      <3>2. ptarget' \in [Procs -> Slots]
        BY <1>5, <2>3, <3>1, ProbeInTable DEF Scan, Refuse, NonceTypeOK
      <3>3. mutex = NoProc /\ mutex' = p
        BY <1>5, <2>3 DEF Scan, Refuse, NonceTypeOK
      <3> QED
        BY <1>5, <2>3, <3>2, <3>3, NonceAssumption DEF Scan, Refuse, NonceTypeOK, Critical
    <2> QED
      BY <1>5, <2>1, <2>2, <2>3 DEF Scan
  <1>6. ASSUME NEW p \in Procs, Announce(p) PROVE NonceTypeOK'
    BY <1>6 DEF Announce, NonceTypeOK, Critical
  <1>7. ASSUME NEW p \in Procs, Commit(p) PROVE NonceTypeOK'
    <2>1. pnonce[p] \in Nonce
      BY <1>7 DEF Commit, NonceTypeOK
    <2>2. table' \in [Slots -> Entry]
      BY <1>7, <2>1 DEF Commit, NonceTypeOK, Entry
    <2> QED
      BY <1>7, <2>1, <2>2 DEF Commit, NonceTypeOK, Critical
  <1>8. ASSUME NEW p \in Procs, Answer(p) PROVE NonceTypeOK'
    BY SMTT(30), <1>8, NonceAssumption DEF Answer, Forget, NonceTypeOK, Critical, Slots
  <1>9. ASSUME NEW p \in Procs, ClaimantDies(p) PROVE NonceTypeOK'
    BY SMTT(30), <1>9, NonceAssumption DEF ClaimantDies, Forget, NonceTypeOK, Critical, Slots
  <1>10. CASE SecondPasses
    BY <1>10 DEF SecondPasses, NonceTypeOK
  <1>11. CASE UNCHANGED nonceVars
    BY <1>11 DEF nonceVars, NonceTypeOK
  <1> QED
    BY <1>1, <1>2, <1>3, <1>4, <1>5, <1>6, <1>7, <1>8, <1>9, <1>10, <1>11
       DEF NonceNext, Step

\* Every reachable state of the nonce table is well typed, and the mutex is
\* held by exactly the request that is changing it.
THEOREM NonceTypeCorrect == NonceSpec => []NonceTypeOK
  BY TypeInit, TypeStep, PTL DEF NonceSpec

(***************************************************************************)
(* The invariant.  It joins the entries, the claims that are under way and *)
(* the history of redemptions through the set Spent.                       *)
(***************************************************************************)

\* Steps that leave the table and the clock alone, and the expiry of every
\* nonce that has one, leave the spent nonces alone.
LEMMA SpentSame ==
    ASSUME UNCHANGED <<now, odd, table>>
    PROVE  Spent' = Spent
  BY DEF Spent, Live

\* The first state.
LEMMA InvInit == NonceInit => NonceInv
  <1> SUFFICES ASSUME NonceInit PROVE NonceInv
    OBVIOUS
  <1>1. \A s \in Slots : ~Live(s)
    BY DEF NonceInit, Live, Unused
  <1> QED
    BY <1>1 DEF NonceInit, NonceInv, EntryInv, ClaimInv, FreshInv

\* What the invariant needs of a step that changes neither the table, nor the
\* history, nor the expiries, nor the clock: that its claims are sound.
LEMMA QuietStep ==
    ASSUME NonceInv, UNCHANGED <<now, exp, odd, table, fresh>>, ClaimInv'
    PROVE  NonceInv'
  <1>1. Spent' = Spent
    BY SpentSame
  <1>2. EntryInv'
    BY DEF NonceInv, EntryInv, Live
  <1>3. FreshInv'
    BY <1>1 DEF NonceInv, FreshInv
  <1> QED
    BY <1>2, <1>3 DEF NonceInv

\* Issuing a nonce.
LEMMA IssueStep ==
    ASSUME NonceTypeOK, NonceInv, NEW n \in Nonce, NEW ttl \in TTLs, Issue(n, ttl)
    PROVE  NonceInv' /\ Spent' = Spent
  <1>1. Spent' = Spent
    BY SpentSame DEF Issue
  <1>2. exp' = [exp EXCEPT ![n] = now + ttl] /\ exp[n] = 0 /\ now + ttl # 0
    BY NonceAssumption DEF Issue, NonceTypeOK, NonceInv
  <1>3. EntryInv'
    <2> SUFFICES ASSUME NEW s \in Slots, Live(s)
                 PROVE  /\ table[s].expires = exp'[table[s].nonce]
                        /\ exp'[table[s].nonce] # 0
      BY DEF Issue, EntryInv, Live
    <2>1. table[s].expires = exp[table[s].nonce] /\ exp[table[s].nonce] # 0
      BY DEF NonceInv, EntryInv
    <2>2. table[s].nonce \in Nonce /\ table[s].nonce # n
      BY <1>2, <2>1 DEF Live, NonceTypeOK, Entry
    <2> QED
      BY <1>2, <2>1, <2>2 DEF NonceTypeOK
  <1>4. ClaimInv'
    <2>1. \A p \in Procs : pc[p] # "idle" => exp'[pnonce[p]] # 0
      BY <1>2 DEF NonceInv, ClaimInv, NonceTypeOK
    <2> QED
      BY <1>1, <2>1 DEF NonceInv, ClaimInv, Issue, Live
  <1>5. FreshInv'
    BY <1>1, <1>2 DEF NonceInv, FreshInv, Issue, NonceTypeOK
  <1> QED
    BY <1>1, <1>3, <1>4, <1>5 DEF NonceInv, Issue

\* A claim announced: the slot it takes remembers nothing that is spent.
LEMMA AnnounceStep ==
    ASSUME NonceTypeOK, NonceInv, NEW p \in Procs, Announce(p)
    PROVE  NonceInv' /\ Spent' = Spent
  <1> DEFINE s0 == ptarget[p]
  <1>0. /\ UNCHANGED <<now, exp, table, pnonce, pnow, ptarget, fresh>>
        /\ odd' = odd \cup {s0}
        /\ pc' = [pc EXCEPT ![p] = "commit"]
        /\ pc[p] = "announce"
    BY DEF Announce
  <1>1. Spent' = Spent
    <2>1. \A n \in Nonce, i \in ProbeIndices :
            table[ProbeAt(n, i)].expires > now /\ Live(ProbeAt(n, i))
              => ProbeAt(n, i) # s0
      <3>1. Live(s0) => table[s0].expires <= now
        BY <1>0 DEF NonceInv, ClaimInv
      <3>2. s0 \in Slots /\ table[s0].expires \in Nat /\ now \in Nat
        BY DEF NonceTypeOK, Entry
      <3> QED
        BY <3>1, <3>2
    <2> QED
      BY <1>0, <2>1 DEF Spent, Live
  <1>2. EntryInv'
    BY <1>0 DEF NonceInv, EntryInv, Live
  <1>3. ClaimInv'
    <2> SUFFICES ASSUME NEW q \in Procs
                 PROVE  /\ pnow[q] <= now
                        /\ pc'[q] # "idle" => exp[pnonce[q]] # 0
                        /\ pc'[q] \in {"announce", "commit"} =>
                            /\ \E i \in ProbeIndices : ptarget[q] = ProbeAt(pnonce[q], i)
                            /\ pnonce[q] \notin Spent
                        /\ pc'[q] = "announce" /\ Live(ptarget[q])' =>
                            table[ptarget[q]].expires <= now
                        /\ pc'[q] = "commit" => ptarget[q] \in odd'
      BY <1>0, <1>1 DEF ClaimInv
    <2>1. CASE q = p
      BY <1>0, <2>1 DEF NonceInv, ClaimInv, NonceTypeOK
    <2>2. CASE q # p
      BY <1>0, <2>2 DEF NonceInv, ClaimInv, NonceTypeOK, Live
    <2> QED
      BY <2>1, <2>2
  <1>4. FreshInv'
    BY <1>0, <1>1 DEF NonceInv, FreshInv
  <1> QED
    BY <1>0, <1>1, <1>2, <1>3, <1>4 DEF NonceInv

\* A redemption: its nonce becomes spent if it has not expired by then, and
\* no other nonce changes.
LEMMA CommitStep ==
    ASSUME NonceTypeOK, NonceInv, NEW p \in Procs, Commit(p)
    PROVE  /\ NonceInv'
           /\ pnonce[p] \in Nonce /\ pnonce[p] \notin Spent
           /\ Spent' = IF now < exp[pnonce[p]] THEN Spent \cup {pnonce[p]}
                       ELSE Spent
  <1>a. PICK m \in Nonce : m = pnonce[p]
    BY DEF Commit, NonceTypeOK
  <1>b. PICK s0 \in Slots : s0 = ptarget[p]
    BY DEF NonceTypeOK
  <1>c. PICK new : new = [nonce |-> m, expires |-> exp[m]]
    OBVIOUS
  <1>0. /\ UNCHANGED <<now, exp, pnonce, pnow, ptarget>>
        /\ odd' = odd \ {s0}
        /\ table' = [table EXCEPT ![s0] = new]
        /\ fresh' = [fresh EXCEPT ![m] = IF now < exp[m] THEN @ + 1 ELSE @]
        /\ pc' = [pc EXCEPT ![p] = "unlock"]
        /\ pc[p] = "commit"
    BY <1>a, <1>b, <1>c DEF Commit
  <1>1. /\ s0 \in Slots /\ s0 \in odd /\ m \in Nonce /\ m # NoNonce
        /\ exp[m] \in Nat /\ exp[m] # 0 /\ now \in Nat
    BY <1>0, <1>a, <1>b, NonceAssumption DEF NonceTypeOK, NonceInv, ClaimInv
  <1>2. /\ m \notin Spent
        /\ \E i \in ProbeIndices : s0 = ProbeAt(m, i)
    BY <1>0, <1>a, <1>b DEF NonceInv, ClaimInv
  <1>3. /\ table'[s0] = new
        /\ \A s \in Slots : s # s0 => table'[s] = table[s]
    BY <1>0, <1>1 DEF NonceTypeOK
  <1>4. /\ Live(s0)' /\ ~Live(s0)
        /\ \A s \in Slots : s # s0 => (Live(s)' <=> Live(s))
    BY <1>0, <1>1, <1>3, <1>c DEF Live
  <1>5. Spent' = IF now < exp[m] THEN Spent \cup {m} ELSE Spent
    <2> DEFINE On(n) == \E i \in ProbeIndices :
                            /\ Live(ProbeAt(n, i))
                            /\ table[ProbeAt(n, i)].nonce = n
                            /\ table[ProbeAt(n, i)].expires > now
    <2>1. \A n \in Nonce : n \in Spent' <=> On(n)'
      BY DEF Spent
    <2>2. \A n \in Nonce : n \in Spent <=> On(n)
      BY DEF Spent
    <2>3. ASSUME NEW n \in Nonce, n # m PROVE On(n)' <=> On(n)
      <3>1. ASSUME NEW i \in ProbeIndices
            PROVE  (/\ Live(ProbeAt(n, i))
                    /\ table[ProbeAt(n, i)].nonce = n
                    /\ table[ProbeAt(n, i)].expires > now)'
                   <=> /\ Live(ProbeAt(n, i))
                       /\ table[ProbeAt(n, i)].nonce = n
                       /\ table[ProbeAt(n, i)].expires > now
        <4>1. PICK s \in Slots : s = ProbeAt(n, i)
          BY ProbeInTable
        <4>2. CASE s = s0
          BY <1>0, <1>3, <1>4, <1>c, <2>3, <4>1, <4>2
        <4>3. CASE s # s0
          BY <1>0, <1>3, <1>4, <4>1, <4>3
        <4> QED
          BY <4>2, <4>3
      <3> QED
        BY <3>1
    <2>4. On(m)' <=> now < exp[m]
      <3>1. ASSUME now < exp[m] PROVE On(m)'
        BY <1>0, <1>1, <1>2, <1>3, <1>4, <1>c, <3>1
      <3>2. ASSUME On(m)' PROVE now < exp[m]
        <4>1. PICK i \in ProbeIndices :
                /\ Live(ProbeAt(m, i))'
                /\ table'[ProbeAt(m, i)].nonce = m
                /\ table'[ProbeAt(m, i)].expires > now
          BY <1>0, <3>2
        <4>2. CASE ProbeAt(m, i) = s0
          BY <1>1, <1>3, <1>c, <4>1, <4>2
        <4>3. CASE ProbeAt(m, i) # s0
          <5>1. /\ Live(ProbeAt(m, i))
                /\ table[ProbeAt(m, i)].nonce = m
                /\ table[ProbeAt(m, i)].expires > now
            BY <1>1, <1>3, <1>4, <4>1, <4>3, ProbeInTable
          <5> QED
            BY <1>1, <1>2, <5>1 DEF Spent
        <4> QED
          BY <4>2, <4>3
      <3> QED
        BY <3>1, <3>2
    <2>5. Spent \subseteq Nonce /\ Spent' \subseteq Nonce
      BY DEF Spent
    <2>6. \A n \in Nonce : n # m => (n \in Spent' <=> n \in Spent)
      BY <2>1, <2>2, <2>3
    <2>7. m \in Spent' <=> now < exp[m]
      BY <1>1, <2>1, <2>4
    <2> HIDE DEF On
    <2>8. CASE now < exp[m]
      BY <1>1, <2>5, <2>6, <2>7, <2>8
    <2>9. CASE ~(now < exp[m])
      BY <1>2, <2>5, <2>6, <2>7, <2>9
    <2> QED
      BY <2>8, <2>9
  <1>6. EntryInv'
    BY <1>0, <1>1, <1>3, <1>4, <1>c DEF NonceInv, EntryInv
  <1>7. ClaimInv'
    <2> SUFFICES ASSUME NEW q \in Procs
                 PROVE  /\ pnow[q] <= now
                        /\ pc'[q] # "idle" => exp[pnonce[q]] # 0
                        /\ pc'[q] \notin {"announce", "commit"}
      BY <1>0 DEF ClaimInv
    <2>1. pc[q] \in {"announce", "commit"} => q = p
      BY <1>0 DEF NonceTypeOK, Critical
    <2> QED
      BY <1>0, <2>1 DEF NonceInv, ClaimInv, NonceTypeOK
  <1>8. FreshInv'
    <2>1. fresh[m] \in Nat /\ (now < exp[m] => fresh[m] = 0)
      BY <1>1, <1>2 DEF NonceInv, FreshInv, NonceTypeOK
    <2>2. \A n \in Nonce : n # m => fresh'[n] = fresh[n] /\ (n \in Spent' <=> n \in Spent)
      BY <1>0, <1>1, <1>5 DEF NonceTypeOK
    <2>3. fresh'[m] = IF now < exp[m] THEN fresh[m] + 1 ELSE fresh[m]
      BY <1>0, <1>1 DEF NonceTypeOK
    <2>4. /\ fresh'[m] <= 1
          /\ (m \notin Spent' /\ now < exp[m]) \/ exp[m] = 0 => fresh'[m] = 0
      BY <1>1, <1>5, <2>1, <2>3 DEF NonceInv, FreshInv
    <2> QED
      BY <1>0, <2>2, <2>4 DEF NonceInv, FreshInv
  <1> QED
    BY <1>0, <1>1, <1>2, <1>5, <1>6, <1>7, <1>8, <1>a DEF NonceInv

\* The clock: a nonce is forgotten when it expires and not before.
LEMMA TickStep ==
    ASSUME NonceTypeOK, NonceInv, SecondPasses
    PROVE  NonceInv' /\ Spent' = {n \in Spent : now' < exp[n]}
  <1>0. /\ now' = now + 1 /\ now \in Nat /\ now' \in Nat
        /\ UNCHANGED <<exp, odd, table, pc, pnonce, pnow, ptarget, fresh>>
    BY DEF SecondPasses, NonceTypeOK
  <1>1. Spent' = {n \in Spent : now' < exp[n]}
    <2>1. \A n \in Nonce, i \in ProbeIndices :
            LET s == ProbeAt(n, i)
            IN  /\ table[s].expires \in Nat
                /\ Live(s) /\ table[s].nonce = n => table[s].expires = exp[n]
                /\ Live(s)' <=> Live(s)
      BY <1>0, ProbeInTable DEF NonceInv, EntryInv, NonceTypeOK, Entry, Live
    <2>2. exp \in [Nonce -> Nat]
      BY DEF NonceTypeOK
    <2> QED
      BY <1>0, <2>1, <2>2 DEF Spent
  <1>2. EntryInv'
    BY <1>0 DEF NonceInv, EntryInv, Live
  <1>3. ClaimInv'
    <2> SUFFICES ASSUME NEW p \in Procs
                 PROVE  /\ pnow[p] <= now'
                        /\ pc[p] # "idle" => exp[pnonce[p]] # 0
                        /\ pc[p] \in {"announce", "commit"} =>
                            /\ \E i \in ProbeIndices : ptarget[p] = ProbeAt(pnonce[p], i)
                            /\ pnonce[p] \notin Spent'
                        /\ pc[p] = "announce" /\ Live(ptarget[p]) =>
                            table[ptarget[p]].expires <= now'
                        /\ pc[p] = "commit" => ptarget[p] \in odd
      BY <1>0 DEF ClaimInv, Live
    <2>1. pnow[p] \in Nat /\ table[ptarget[p]].expires \in Nat
      BY DEF NonceTypeOK, Entry
    <2> QED
      BY <1>0, <1>1, <2>1 DEF NonceInv, ClaimInv
  <1>4. FreshInv'
    <2>1. \A n \in Nonce : exp[n] \in Nat
      BY DEF NonceTypeOK
    <2> QED
      BY <1>0, <1>1, <2>1 DEF NonceInv, FreshInv
  <1> QED
    BY <1>0, <1>1, <1>2, <1>3, <1>4 DEF NonceInv

\* A request goes away, or moves on without touching the table.
LEMMA ForgetStep ==
    ASSUME NonceTypeOK, NonceInv, NEW p \in Procs, Forget(p),
           UNCHANGED <<now, exp, odd, table, fresh>>
    PROVE  NonceInv'
  <1>1. Spent' = Spent
    BY SpentSame
  <1>2. ClaimInv'
    BY <1>1 DEF NonceInv, ClaimInv, Forget, NonceTypeOK, Live
  <1> QED
    BY <1>2, QuietStep

\* A scan: a claim is made only on behalf of an unspent nonce.
LEMMA ScanStep ==
    ASSUME NonceTypeOK, NonceInv, NEW p \in Procs, Scan(p)
    PROVE  NonceInv'
  <1>0. /\ UNCHANGED <<now, exp, odd, table, pnonce, pnow, fresh>>
        /\ pc[p] = "timed"
        /\ pnonce[p] \in Nonce
        /\ pnow[p] <= now
    BY DEF Scan, NonceTypeOK, NonceInv, ClaimInv
  <1>1. Spent' = Spent
    BY <1>0, SpentSame
  <1>2. CASE Refuse(p, "duplicate") \/ Refuse(p, "saturated")
    <2>1. /\ ptarget' = ptarget
          /\ \A q \in Procs : pc'[q] = pc[q] \/ (q = p /\ pc'[q] = "refused")
      BY <1>2 DEF Refuse, NonceTypeOK
    <2>2. ClaimInv'
      BY <1>0, <1>1, <2>1 DEF NonceInv, ClaimInv, Live
    <2> QED
      BY <1>0, <2>2, QuietStep
  <1>3. ASSUME ~Duplicate(p), NEW i \in ProbeIndices, Target(p, i),
               ptarget' = [ptarget EXCEPT ![p] = ProbeAt(pnonce[p], i)],
               pc' = [pc EXCEPT ![p] = "announce"]
        PROVE  NonceInv'
    <2>1. /\ pnonce[p] \notin Spent
          /\ Live(ProbeAt(pnonce[p], i)) =>
                table[ProbeAt(pnonce[p], i)].expires <= now
      BY <1>0, <1>3, ScanClaims DEF NonceInv
    <2>2. ClaimInv'
      <3> SUFFICES ASSUME NEW q \in Procs
                   PROVE  /\ pnow[q] <= now
                          /\ pc'[q] # "idle" => exp[pnonce[q]] # 0
                          /\ pc'[q] \in {"announce", "commit"} =>
                              /\ \E j \in ProbeIndices : ptarget'[q] = ProbeAt(pnonce[q], j)
                              /\ pnonce[q] \notin Spent
                          /\ pc'[q] = "announce" /\ Live(ptarget'[q]) =>
                              table[ptarget'[q]].expires <= now
                          /\ pc'[q] = "commit" => ptarget'[q] \in odd
        BY <1>0, <1>1 DEF ClaimInv, Live
      <3>1. CASE q = p
        BY <1>0, <1>3, <2>1, <3>1 DEF NonceInv, ClaimInv, NonceTypeOK
      <3>2. CASE q # p
        BY <1>3, <3>2 DEF NonceInv, ClaimInv, NonceTypeOK
      <3> QED
        BY <3>1, <3>2
    <2> QED
      BY <1>0, <2>2, QuietStep
  <1> QED
    BY <1>2, <1>3 DEF Scan

\* The other steps of a request.
LEMMA PresentStep ==
    ASSUME NonceTypeOK, NonceInv, NEW p \in Procs, NEW n \in Nonce, Present(p, n)
    PROVE  NonceInv'
  <1>1. Spent' = Spent
    BY SpentSame DEF Present
  <1>2. ClaimInv'
    BY <1>1 DEF NonceInv, ClaimInv, Present, NonceTypeOK, Live
  <1> QED
    BY <1>2, QuietStep DEF Present

\* Reading the clock and finding the mutex busy.
LEMMA WaitStep ==
    ASSUME NonceTypeOK, NonceInv, NEW p \in Procs, ReadClock(p) \/ Busy(p)
    PROVE  NonceInv'
  <1>1. UNCHANGED <<now, exp, odd, table, fresh>>
    BY DEF ReadClock, Busy
  <1>2. Spent' = Spent
    BY <1>1, SpentSame
  <1>3. ClaimInv'
    <2>1. CASE ReadClock(p)
      BY <1>2, <2>1 DEF NonceInv, ClaimInv, ReadClock, NonceTypeOK, Live
    <2>2. CASE Busy(p)
      BY <1>2, <2>2 DEF NonceInv, ClaimInv, Busy, Refuse, NonceTypeOK, Live
    <2> QED
      BY <2>1, <2>2
  <1> QED
    BY <1>1, <1>3, QuietStep

(***************************************************************************)
(* The abstract register.                                                  *)
(***************************************************************************)

\* Every step keeps the invariant and is a step of the register or leaves it
\* alone.
LEMMA NonceStep ==
    ASSUME NonceTypeOK, NonceInv, [NonceNext]_nonceVars
    PROVE  NonceInv' /\ [Register!Next]_<<now, exp, Spent>>
  <1>1. ASSUME NEW n \in Nonce, NEW ttl \in TTLs, Issue(n, ttl)
        PROVE  NonceInv' /\ Register!Issue(n, ttl)
    BY <1>1, IssueStep DEF Issue, Register!Issue
  <1>2. ASSUME NEW p \in Procs, Commit(p)
        PROVE  /\ NonceInv'
               /\ Register!Redeem(pnonce[p]) \/ UNCHANGED <<now, exp, Spent>>
               /\ pnonce[p] \in Nonce
    BY <1>2, CommitStep DEF Commit, Register!Redeem
  <1>3. CASE SecondPasses
    BY <1>3, TickStep DEF SecondPasses, Register!Tick, Register!Next
  <1>4. ASSUME NEW p \in Procs, Announce(p)
        PROVE  NonceInv' /\ UNCHANGED <<now, exp, Spent>>
    BY <1>4, AnnounceStep DEF Announce
  <1>5. ASSUME NEW p \in Procs, NEW n \in Nonce, Present(p, n)
        PROVE  NonceInv' /\ UNCHANGED <<now, exp, Spent>>
    BY <1>5, PresentStep, SpentSame DEF Present
  <1>6. ASSUME NEW p \in Procs, ReadClock(p) \/ Busy(p)
        PROVE  NonceInv' /\ UNCHANGED <<now, exp, Spent>>
    BY <1>6, WaitStep, SpentSame DEF ReadClock, Busy
  <1>7. ASSUME NEW p \in Procs, Scan(p)
        PROVE  NonceInv' /\ UNCHANGED <<now, exp, Spent>>
    BY <1>7, ScanStep, SpentSame DEF Scan
  <1>8. ASSUME NEW p \in Procs, Answer(p) \/ ClaimantDies(p)
        PROVE  NonceInv' /\ UNCHANGED <<now, exp, Spent>>
    BY <1>8, ForgetStep, SpentSame DEF Answer, ClaimantDies
  <1>9. CASE UNCHANGED nonceVars
    <2>1. UNCHANGED <<now, exp, odd, table, fresh>> /\ Spent' = Spent
      BY <1>9, SpentSame DEF nonceVars
    <2>2. ClaimInv'
      BY <1>9, <2>1 DEF NonceInv, ClaimInv, nonceVars, Live
    <2> QED
      BY <2>1, <2>2, QuietStep
  <1> QED
    BY <1>1, <1>2, <1>3, <1>4, <1>5, <1>6, <1>7, <1>8, <1>9
       DEF NonceNext, Step, Register!Next

\* The invariant of the nonce table holds throughout: entries carry the signed
\* expiry, a claim is made only for an unspent nonce, and a nonce redeemed in
\* time is remembered until it expires.
THEOREM NonceInvariant == NonceSpec => [](NonceTypeOK /\ NonceInv)
  <1>1. NonceInit => NonceTypeOK /\ NonceInv
    BY TypeInit, InvInit
  <1>2. NonceTypeOK /\ NonceInv /\ [NonceNext]_nonceVars => (NonceTypeOK /\ NonceInv)'
    BY TypeStep, NonceStep
  <1> QED
    BY <1>1, <1>2, PTL DEF NonceSpec

\* bs_embedded_nonce_consume redeems a challenge at most once before its
\* expiry, whatever collides, is evicted or dies around it.
THEOREM RedeemedOnceInTime == NonceSpec => []RedeemedOnceWhileFresh
  <1>1. NonceInv => RedeemedOnceWhileFresh
    BY DEF NonceInv, FreshInv, RedeemedOnceWhileFresh
  <1> QED
    BY <1>1, NonceInvariant, PTL

\* The nonce table implements the register of redeemed nonces, which forgets
\* none of them before it expires.
THEOREM TableImplementsRegister == NonceSpec => ImplementsNonceRegister
  <1>1. NonceInit => Register!Init
    <2> SUFFICES ASSUME NonceInit PROVE Register!Init
      OBVIOUS
    <2>1. Spent = {}
      BY ProbeInTable DEF NonceInit, Spent, Live, Unused
    <2> QED
      BY <2>1 DEF NonceInit, Register!Init
  <1>2. NonceTypeOK /\ NonceInv /\ [NonceNext]_nonceVars => [Register!Next]_<<now, exp, Spent>>
    BY NonceStep
  <1> QED
    BY <1>1, <1>2, NonceInvariant, PTL DEF NonceSpec, ImplementsNonceRegister, Register!Spec

(***************************************************************************)
(* Refusals.  What the table holds was redeemed, and so was what a request *)
(* is refused for.                                                         *)
(***************************************************************************)

Remembered == \A s \in Slots : Live(s) => redeemed[table[s].nonce] > 0
Replayed ==
    \A p \in Procs : why[p] = "duplicate" => pc[p] = "refused" /\ redeemed[pnonce[p]] > 0

\* A refusal as a duplicate is for a nonce the table holds.
LEMMA DuplicateHeld ==
    ASSUME NonceTypeOK, Remembered, NEW p \in Procs, pnonce[p] \in Nonce, Duplicate(p)
    PROVE  redeemed[pnonce[p]] > 0
  <1>1. PICK i \in Matches(p) : TRUE
    BY DEF Duplicate
  <1>2. i \in ProbeIndices /\ Live(ProbeAt(pnonce[p], i))
        /\ table[ProbeAt(pnonce[p], i)].nonce = pnonce[p]
    BY <1>1 DEF Matches
  <1> QED
    BY <1>2, ProbeInTable DEF Remembered

\* Every step keeps both.
LEMMA RefusalStep ==
    NonceTypeOK /\ Remembered /\ Replayed /\ [NonceNext]_nonceVars
        => (Remembered /\ Replayed)'
  <1> SUFFICES ASSUME NonceTypeOK, Remembered, Replayed, [NonceNext]_nonceVars
               PROVE  Remembered' /\ Replayed'
    OBVIOUS
  <1> USE DEF NonceTypeOK, Critical
  <1>1. ASSUME NEW n \in Nonce, NEW ttl \in TTLs, Issue(n, ttl)
        PROVE  Remembered' /\ Replayed'
    BY <1>1 DEF Issue, Remembered, Replayed, Live
  <1>2. ASSUME NEW p \in Procs, NEW n \in Nonce, Present(p, n)
        PROVE  Remembered' /\ Replayed'
    BY <1>2 DEF Present, Remembered, Replayed, Live
  <1>3. ASSUME NEW p \in Procs, ReadClock(p) \/ Busy(p) \/ Announce(p)
        PROVE  Remembered' /\ Replayed'
    BY <1>3 DEF ReadClock, Busy, Announce, Refuse, Remembered, Replayed, Live
  <1>4. ASSUME NEW p \in Procs, Scan(p) PROVE Remembered' /\ Replayed'
    <2>1. Remembered'
      BY <1>4 DEF Scan, Remembered, Live
    <2>2. Duplicate(p) => redeemed[pnonce[p]] > 0
      BY <1>4, DuplicateHeld DEF Scan
    <2> QED
      BY <1>4, <2>1, <2>2 DEF Scan, Refuse, Replayed
  <1>5. ASSUME NEW p \in Procs, Commit(p) PROVE Remembered' /\ Replayed'
    <2>1. pnonce[p] \in Nonce /\ ptarget[p] \in Slots
      BY <1>5 DEF Commit
    <2>2. redeemed' \in [Nonce -> Nat] /\ redeemed'[pnonce[p]] > 0
      BY <1>5, <2>1 DEF Commit
    <2>3. \A n \in Nonce : redeemed'[n] >= redeemed[n]
      BY <1>5, <2>1 DEF Commit
    <2>4. ASSUME NEW s \in Slots, Live(s)' PROVE redeemed'[table'[s].nonce] > 0
      <3>1. CASE s = ptarget[p]
        BY <1>5, <2>1, <2>2, <3>1 DEF Commit
      <3>2. CASE s # ptarget[p]
        <4>1. table'[s] = table[s] /\ Live(s)
          BY <1>5, <2>4, <3>2 DEF Commit, Live
        <4>2. table[s].nonce \in Nonce
          BY <4>1 DEF Live, Entry
        <4> QED
          BY <2>2, <2>3, <4>1, <4>2 DEF Remembered
      <3> QED
        BY <3>1, <3>2
    <2>5. Replayed'
      BY <1>5, <2>2, <2>3 DEF Commit, Replayed
    <2> QED
      BY <2>4, <2>5 DEF Remembered
  <1>6. ASSUME NEW p \in Procs, Answer(p) \/ ClaimantDies(p) PROVE Remembered' /\ Replayed'
    BY <1>6 DEF Answer, ClaimantDies, Forget, Remembered, Replayed, Live
  <1>7. CASE SecondPasses \/ UNCHANGED nonceVars
    BY <1>7 DEF SecondPasses, nonceVars, Remembered, Replayed, Live
  <1> QED
    BY <1>1, <1>2, <1>3, <1>4, <1>5, <1>6, <1>7 DEF NonceNext, Step

\* Only a challenge that was redeemed is refused as a duplicate, whatever
\* shares its probe window and whoever dies (bs_embedded_nonce_consume).
THEOREM RefusalsAreReplays == NonceSpec => []DuplicateJustified
  <1>1. NonceInit => Remembered /\ Replayed
    BY DEF NonceInit, Remembered, Replayed, Live, Unused
  <1>2. Replayed => DuplicateJustified
    BY DEF Replayed, DuplicateJustified
  <1> QED
    BY <1>1, <1>2, RefusalStep, NonceTypeCorrect, PTL DEF NonceSpec
=============================================================================
