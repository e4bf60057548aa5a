------------------------- MODULE FlaggedTableProofs -------------------------
(***************************************************************************)
(* Theorems of FlaggedTable, for every table size, probe limit, set of     *)
(* keys and flags, and number of readers and writers.                      *)
(***************************************************************************)
EXTENDS FlaggedTable, TLAPS

(***************************************************************************)
(* Facts about slots and words.                                            *)
(***************************************************************************)

\* A probe stays inside the table.
LEMMA ProbeInTable ==
    ASSUME NEW k \in Key, NEW i \in Nat
    PROVE  ProbeAt(k, i) \in Slots
  BY TableAssumption, SMTT(30) DEF ProbeAt, Slots

\* Every version step flips the parity that marks a slot being written.
LEMMA OddSuccessor == \A n \in Nat : Odd(n + 1) <=> ~Odd(n)
  BY DEF Odd

\* A zeroed slot is a word.
LEMMA EmptyWordType == EmptyWord \in Words
  BY DEF EmptyWord, Words

\* Two words that agree on every field are the same.
LEMMA WordsAgree ==
    ASSUME NEW u \in Words, NEW w \in Words, \A f \in Fields : u[f] = w[f]
    PROVE  u = w
  BY DEF Words, Fields

\* What an addition writes is a word, merged with an entry or fresh.
LEMMA MergedType ==
    ASSUME word \in [Slots -> Words], NEW s \in Slots, NEW k \in Key,
           NEW F \in SUBSET Flags, NEW exp \in Nat
    PROVE  Merged(s, k, F, exp) \in Words
  <1>1. word[s] \in Words
    OBVIOUS
  <1>2. CASE Stores(s, k)
    BY <1>1, <1>2 DEF Merged, Words
  <1>3. CASE ~Stores(s, k)
    BY <1>3 DEF Merged, Words
  <1> QED
    BY <1>2, <1>3

\* What a clear writes is a word.
LEMMA ReducedType ==
    ASSUME NEW w \in Words, NEW F \in SUBSET Flags
    PROVE  Reduced(w, F) \in Words
  BY DEF Reduced, Words

\* A clear changes the flags and the expiry of an entry, never its key.
LEMMA ReducedWord ==
    ASSUME NEW w \in Words, NEW F \in SUBSET Flags
    PROVE  /\ Reduced(w, F).flags = F
           /\ Reduced(w, F).key = w.key
           /\ Reduced(w, F).used = w.used
           /\ F = {} => Reduced(w, F).expires = 0
  BY DEF Reduced, Words

\* A released slot holds a word.
LEMMA UnuseType ==
    ASSUME NEW w \in Words
    PROVE  [w EXCEPT !.used = FALSE] \in Words
  BY DEF Words

\* One store turns a word into a word.
LEMMA StoreType ==
    ASSUME NEW W \in [Slots -> Words], NEW s \in Slots, NEW n \in Words,
           NEW f \in Fields
    PROVE  [W EXCEPT ![s] = [@ EXCEPT ![f] = n[f]]] \in [Slots -> Words]
  BY DEF Words, Fields

(***************************************************************************)
(* Type correctness.                                                       *)
(***************************************************************************)
WriterPlanOK ==
    /\ wslot \in [Writers -> Slots]
    /\ wnew \in [Writers -> Words]
    /\ wtodo \in [Writers -> SUBSET (Fields \cup {"odd"})]
    /\ wpc \in [Writers -> {"idle", "store", "unuse", "range", "unlock"}]

ReaderOK ==
    /\ rpc \in [Readers -> {"idle", "version", "copy", "hit", "miss"}]
    /\ ri \in [Readers -> ProbeIndices]
    /\ rv1 \in [Readers -> Nat]
    /\ rspins \in [Readers -> 0 .. MaxSpins - 1]
    /\ rgot \in [Readers -> SUBSET Fields]
    /\ rloc \in [Readers -> Words]

\* Every step of the table keeps the variables in their ranges.
LEMMA TypeStep == TypeOK /\ [Next]_vars => TypeOK'
  <1> SUFFICES ASSUME TypeOK, [Next]_vars PROVE TypeOK'
    OBVIOUS
  <1> USE DEF TypeOK, WriterPlanOK, ReaderOK
  <1>p. ProbeIndices \subseteq Nat /\ 0 \in ProbeIndices
    BY TableAssumption DEF ProbeIndices
  <1>0. 0 \in Slots /\ NoRange \in RangeArgs
    BY TableAssumption DEF Slots, NoRange, RangeArgs
  <1>plan. ASSUME NEW w \in Writers, NEW s \in Slots, NEW new \in Words,
                  Plan(w, s, new)
           PROVE  WriterPlanOK'
    BY <1>plan DEF Plan
  <1>1. ASSUME NEW w \in Writers, NEW k \in Key, NEW F \in SUBSET Flags,
               NEW ttl \in TTLs, Add(w, k, F, ttl)
        PROVE  TypeOK'
    <2>1. PICK i \in ProbeIndices :
            Plan(w, ProbeAt(k, i), Merged(ProbeAt(k, i), k, F, now + ttl))
      BY <1>1 DEF Add
    <2>2. ProbeAt(k, i) \in Slots
      BY <1>p, ProbeInTable
    <2>3. now + ttl \in Nat
      BY TableAssumption
    <2>4. Merged(ProbeAt(k, i), k, F, now + ttl) \in Words
      BY <2>2, <2>3, MergedType
    <2>5. WriterPlanOK'
      BY <1>plan, <2>1, <2>2, <2>4
    <2>6. raised' \in [Key -> SUBSET Flags]
      BY <1>1 DEF Add
    <2> QED
      BY <1>1, <2>5, <2>6 DEF Add, Lock, tableVars, readerVars
  <1>2. ASSUME NEW w \in Writers, NEW k \in Key, NEW del \in SUBSET Flags,
               NEW set \in SUBSET Flags, NEW replace \in BOOLEAN,
               Clear(w, k, del, set, replace)
        PROVE  TypeOK'
    <2>1. raised' \in [Key -> SUBSET Flags]
      BY <1>2 DEF Clear
    <2>2. WriterPlanOK'
      <3>1. CASE \E i \in ProbeIndices :
                   Plan(w, ProbeAt(k, i),
                        Reduced(word[ProbeAt(k, i)],
                                IF replace THEN set
                                ELSE word[ProbeAt(k, i)].flags \ del))
        <4>1. PICK i \in ProbeIndices :
                Plan(w, ProbeAt(k, i),
                     Reduced(word[ProbeAt(k, i)],
                             IF replace THEN set
                             ELSE word[ProbeAt(k, i)].flags \ del))
          BY <3>1
        <4>2. ProbeAt(k, i) \in Slots
          BY <1>p, ProbeInTable
        <4>3. word[ProbeAt(k, i)].flags \in SUBSET Flags
          BY <4>2 DEF Words
        <4>4. Reduced(word[ProbeAt(k, i)],
                      IF replace THEN set
                      ELSE word[ProbeAt(k, i)].flags \ del) \in Words
          BY <4>2, <4>3, ReducedType
        <4> QED
          BY <1>plan, <4>1, <4>2, <4>4
      <3>2. CASE /\ wpc' = [wpc EXCEPT ![w] = "unlock"]
                 /\ UNCHANGED <<wslot, wnew, wtodo>>
        BY <3>2
      <3> QED
        BY <1>2, <3>1, <3>2 DEF Clear
    <2> QED
      BY <1>2, <2>1, <2>2 DEF Clear, Lock, tableVars, readerVars
  <1>3. ASSUME NEW w \in Writers, NEW net \in Nets, NEW del \in SUBSET Flags,
               ClearRange(w, net, del)
        PROVE  TypeOK'
    <2>1. [range |-> TRUE, net |-> net, del |-> del] \in RangeArgs
      BY TableAssumption DEF RangeArgs
    <2> QED
      BY <1>3, <2>1 DEF ClearRange, Lock, tableVars, readerVars
  <1>4. ASSUME NEW w \in Writers, RangeStep(w)
        PROVE  TypeOK'
    <2>1. WriterPlanOK' /\ wargs' \in [Writers -> RangeArgs]
      <3>1. ASSUME NEW s \in Slots,
                   Plan(w, s, Reduced(word[s], IF wargs[w].del = {} THEN {}
                                        ELSE word[s].flags \ wargs[w].del)),
                   UNCHANGED wargs
            PROVE  WriterPlanOK' /\ wargs' \in [Writers -> RangeArgs]
        <4>1. word[s] \in Words /\ word[s].flags \in SUBSET Flags
          BY DEF Words
        <4>2. Reduced(word[s], IF wargs[w].del = {} THEN {}
                               ELSE word[s].flags \ wargs[w].del) \in Words
          BY <4>1, ReducedType
        <4> QED
          BY <1>plan, <3>1, <4>2
      <3>2. CASE /\ wpc' = [wpc EXCEPT ![w] = "unlock"]
                 /\ wargs' = [wargs EXCEPT ![w] = NoRange]
                 /\ UNCHANGED <<wslot, wnew, wtodo>>
        BY <1>0, <3>2
      <3> QED
        BY <1>4, <3>1, <3>2 DEF RangeStep
    <2> QED
      BY <1>4, <2>1 DEF RangeStep, tableVars, readerVars
  <1>5. ASSUME NEW w \in Writers, Announce(w)
        PROVE  TypeOK'
    <2>1. steady' \in [Readers -> BOOLEAN]
      BY <1>5, Zenon DEF Announce, StillSteady, Stores, Holds
    <2>2. ver' \in [Slots -> Nat]
      BY <1>5 DEF Announce
    <2> QED
      BY <1>5, <2>1, <2>2 DEF Announce, readerVars
  <1>6. ASSUME NEW w \in Writers, NEW f \in Fields, Store(w, f)
        PROVE  TypeOK'
    <2>1. word' \in [Slots -> Words]
      BY <1>6, StoreType DEF Store
    <2> QED
      BY <1>6, <2>1 DEF Store, readerVars
  <1>7. ASSUME NEW w \in Writers, Commit(w)
        PROVE  TypeOK'
    BY <1>7 DEF Commit, AfterSlot, readerVars
  <1>8. ASSUME NEW w \in Writers, Unuse(w)
        PROVE  TypeOK'
    <2>1. word' \in [Slots -> Words]
      BY <1>8, UnuseType DEF Unuse
    <2> QED
      BY <1>8, <2>1 DEF Unuse, AfterSlot, readerVars
  <1>9. ASSUME NEW w \in Writers, Unlock(w) \/ Crash(w)
        PROVE  TypeOK'
    BY <1>0, <1>9, EmptyWordType DEF Unlock, Crash, Forget, tableVars, readerVars
  <1>10. ASSUME NEW r \in Readers, NEW k \in Asked, LookupStart(r, k)
         PROVE  TypeOK'
    <2>1. steady' \in [Readers -> BOOLEAN]
      BY <1>10 DEF LookupStart
    <2> QED
      BY <1>10, <2>1, TableAssumption DEF LookupStart, tableVars, writerVars
  <1>slot. ASSUME NEW r \in Readers, rpc[r] # "idle"
           PROVE  rSlot(r) \in Slots
    BY ZenonT(30), <1>slot, <1>p, ProbeInTable, TableAssumption DEF rSlot
  <1>spin. ASSUME NEW r \in Readers, NextSlot(r) \/ Spin(r)
           PROVE  /\ ReaderOK'
                  /\ \A q \in Readers : q # r => rpc'[q] = rpc[q]
    <2>1. CASE NextSlot(r)
      BY <2>1, EmptyWordType, TableAssumption DEF NextSlot, ProbeIndices
    <2>2. CASE Retry(r) /\ rspins[r] + 1 < MaxSpins
      BY <2>2, EmptyWordType, TableAssumption DEF Retry
    <2> QED
      BY <1>spin, <2>1, <2>2, TableAssumption DEF Spin
  <1>11. ASSUME NEW r \in Readers, ReadVersion(r)
         PROVE  TypeOK'
    <2>1. CASE Odd(ver[rSlot(r)]) /\ Spin(r)
      BY <1>11, <1>spin, <2>1 DEF ReadVersion, tableVars, writerVars
    <2>2. CASE ~Odd(ver[rSlot(r)])
      <3>1. ver[rSlot(r)] \in Nat
        BY <1>11, <1>slot DEF ReadVersion
      <3> QED
        BY <1>11, <2>2, <3>1 DEF ReadVersion, tableVars, writerVars
    <2> QED
      BY <1>11, <2>1, <2>2 DEF ReadVersion
  <1>12. ASSUME NEW r \in Readers, NEW f \in Fields, CopyWord(r, f)
         PROVE  TypeOK'
    <2>1. word[rSlot(r)] \in Words
      BY <1>12, <1>slot DEF CopyWord
    <2>2. rloc' \in [Readers -> Words]
      BY ZenonT(60), <1>12, <2>1 DEF CopyWord, Words, Fields
    <2> QED
      BY <1>12, <2>2 DEF CopyWord, tableVars, writerVars
  <1>13. ASSUME NEW r \in Readers, CheckVersion(r)
         PROVE  TypeOK'
    <2>1. CASE Spin(r) \/ NextSlot(r)
      BY <1>13, <1>spin, <2>1 DEF CheckVersion, tableVars, writerVars
    <2>2. CASE /\ rpc' = [rpc EXCEPT ![r] = "hit"]
               /\ UNCHANGED <<ri, rv1, rspins, rgot, rloc>>
      BY <1>13, <2>2 DEF CheckVersion, tableVars, writerVars
    <2> QED
      BY <1>13, <2>1, <2>2 DEF CheckVersion
  <1>14. ASSUME NEW r \in Readers, Return(r)
         PROVE  TypeOK'
    BY <1>14, EmptyWordType, TableAssumption
       DEF Return, tableVars, writerVars, ProbeIndices
  <1>15. CASE Tick
    BY <1>15 DEF Tick, tableVars, writerVars, readerVars
  <1>16. CASE UNCHANGED vars
    BY <1>16 DEF vars, tableVars, writerVars, readerVars
  <1> HIDE DEF TypeOK, WriterPlanOK, ReaderOK
  <1>17. ASSUME NEW w \in Writers, WriterStart(w)
         PROVE  TypeOK'
    BY <1>1, <1>2, <1>3, <1>17 DEF WriterStart
  <1>18. ASSUME NEW w \in Writers, WriterStep(w)
         PROVE  TypeOK'
    BY <1>4, <1>5, <1>6, <1>7, <1>8, <1>9, <1>18 DEF WriterStep
  <1>19. ASSUME NEW r \in Readers, ReaderStep(r)
         PROVE  TypeOK'
    BY <1>11, <1>12, <1>13, <1>14, <1>19 DEF ReaderStep
  <1> QED
    BY <1>9, <1>10, <1>15, <1>16, <1>17, <1>18, <1>19 DEF Next

\* The zeroed segment is well typed.
LEMMA TypeInit == Init => TypeOK
  BY TableAssumption, EmptyWordType
     DEF Init, TypeOK, Slots, ProbeIndices, NoRange, RangeArgs

\* Every reachable state is well typed, torn slots and crashes included.
THEOREM TypeCorrect == Spec => []TypeOK
  BY TypeInit, TypeStep, PTL DEF Spec

(***************************************************************************)
(* The seqlock.                                                            *)
(***************************************************************************)

\* What a writer plans when it has the mutex leaves slots and readers alone.
LEMMA SeqlockPlan ==
    ASSUME TypeOK, SeqlockInv, NEW w \in Writers, NEW s \in Slots,
           NEW new \in Words, new.flags = {} => new.expires = 0,
           mutex \in {w, NoWriter}, mutex' = w, Plan(w, s, new),
           UNCHANGED <<now, tableVars, readerVars>>
    PROVE  SeqlockInv'
  <1> USE DEF TypeOK
  <1>1. MutexInv'
    BY TableAssumption DEF SeqlockInv, MutexInv, Plan
  <1>2. WriteInv'
    BY DEF SeqlockInv, WriteInv, Plan, tableVars
  <1>3. CopyInv'
    BY DEF SeqlockInv, CopyInv, tableVars, readerVars, rSlot, ProbeAt
  <1> QED
    BY <1>1, <1>2, <1>3 DEF SeqlockInv

\* Every step of writers and readers keeps the seqlock invariant.
LEMMA SeqlockStep ==
    ASSUME ~Hoist, TypeOK, SeqlockInv, [Next]_vars
    PROVE  SeqlockInv'
  <1> USE DEF TypeOK
  <1>p. ProbeIndices \subseteq Nat
    BY TableAssumption DEF ProbeIndices
  <1>slot. ASSUME NEW r \in Readers, rpc[r] # "idle"
           PROVE  rSlot(r) \in Slots
    BY <1>slot, <1>p, ProbeInTable, TableAssumption DEF rSlot
  <1>1. ASSUME NEW w \in Writers, NEW k \in Key, NEW F \in SUBSET Flags,
               NEW ttl \in TTLs, Add(w, k, F, ttl)
        PROVE  SeqlockInv'
    <2>1. PICK i \in ProbeIndices :
            Plan(w, ProbeAt(k, i), Merged(ProbeAt(k, i), k, F, now + ttl))
      BY <1>1 DEF Add
    <2>2. ProbeAt(k, i) \in Slots
      BY <1>p, ProbeInTable
    <2>3. Merged(ProbeAt(k, i), k, F, now + ttl) \in Words
      BY <2>2, MergedType, TableAssumption
    <2>4. Merged(ProbeAt(k, i), k, F, now + ttl).flags # {}
      <3>1. F # {} /\ word[ProbeAt(k, i)] \in Words
        BY <1>1, <2>2 DEF Add
      <3> QED
        BY <3>1 DEF Merged, Words
    <2> QED
      BY <1>1, <2>1, <2>2, <2>3, <2>4, SeqlockPlan DEF Add, Lock
  <1>2. ASSUME NEW w \in Writers, NEW k \in Key, NEW del \in SUBSET Flags,
               NEW set \in SUBSET Flags, NEW replace \in BOOLEAN,
               Clear(w, k, del, set, replace)
        PROVE  SeqlockInv'
    <2>1. CASE \E i \in ProbeIndices :
                 Plan(w, ProbeAt(k, i),
                      Reduced(word[ProbeAt(k, i)],
                              IF replace THEN set
                              ELSE word[ProbeAt(k, i)].flags \ del))
      <3>1. PICK i \in ProbeIndices :
                 Plan(w, ProbeAt(k, i),
                      Reduced(word[ProbeAt(k, i)],
                              IF replace THEN set
                              ELSE word[ProbeAt(k, i)].flags \ del))
        BY <2>1
      <3> DEFINE s == ProbeAt(k, i)
                 F == IF replace THEN set ELSE word[s].flags \ del
                 new == Reduced(word[s], F)
      <3>2. s \in Slots
        BY <1>p, ProbeInTable
      <3>3. word[s] \in Words /\ F \in SUBSET Flags
        BY <3>2 DEF Words
      <3>4. new \in Words
        BY <3>3, ReducedType
      <3>5. new.flags = {} => new.expires = 0
        <4> HIDE DEF s, F
        <4> QED
          BY <3>3, ReducedWord
      <3> QED
        BY <1>2, <3>1, <3>2, <3>4, <3>5, SeqlockPlan DEF Clear, Lock
    <2>2. CASE /\ wpc' = [wpc EXCEPT ![w] = "unlock"]
               /\ UNCHANGED <<wslot, wnew, wtodo>>
      BY SMTT(60), <1>2, <2>2, TableAssumption
         DEF Clear, Lock, SeqlockInv, MutexInv, WriteInv, CopyInv, tableVars,
             readerVars, rSlot, ProbeAt
    <2> QED
      BY <1>2, <2>1, <2>2 DEF Clear
  <1>3. ASSUME NEW w \in Writers, NEW net \in Nets, NEW del \in SUBSET Flags,
               ClearRange(w, net, del)
        PROVE  SeqlockInv'
    BY <1>3, TableAssumption
       DEF ClearRange, Lock, SeqlockInv, MutexInv, WriteInv, CopyInv, tableVars,
           readerVars, rSlot, ProbeAt
  <1>4. ASSUME NEW w \in Writers, RangeStep(w)
        PROVE  SeqlockInv'
    <2>0. mutex = w /\ mutex' = w
      BY <1>4 DEF RangeStep, SeqlockInv, MutexInv
    <2>1. ASSUME NEW s \in Slots,
                 Plan(w, s, Reduced(word[s], IF wargs[w].del = {} THEN {}
                                      ELSE word[s].flags \ wargs[w].del))
          PROVE  SeqlockInv'
      <3> DEFINE F == IF wargs[w].del = {} THEN {} ELSE word[s].flags \ wargs[w].del
      <3>1. word[s] \in Words /\ F \in SUBSET Flags
        BY DEF Words
      <3>2. Reduced(word[s], F) \in Words
        BY <3>1, ReducedType
      <3>3. Reduced(word[s], F).flags = {} => Reduced(word[s], F).expires = 0
        <4> HIDE DEF F
        <4> QED
          BY <3>1, ReducedWord
      <3> QED
        BY <1>4, <2>0, <2>1, <3>2, <3>3, SeqlockPlan DEF RangeStep
    <2>2. CASE /\ wpc' = [wpc EXCEPT ![w] = "unlock"]
               /\ UNCHANGED <<wslot, wnew, wtodo>>
      BY <1>4, <2>2
         DEF RangeStep, SeqlockInv, MutexInv, WriteInv, CopyInv, tableVars,
             readerVars, rSlot, ProbeAt
    <2> QED
      BY <1>4, <2>1, <2>2 DEF RangeStep
  <1>5. ASSUME NEW w \in Writers, Announce(w)
        PROVE  SeqlockInv'
    <2>1. MutexInv'
      BY <1>5 DEF Announce, SeqlockInv, MutexInv
    <2>2. WriteInv'
      <3>1. \A v \in Writers : wpc[v] # "idle" => v = w
        BY <1>5 DEF Announce, SeqlockInv, MutexInv
      <3>2. ver'[wslot[w]] = IF Odd(ver[wslot[w]]) THEN ver[wslot[w]]
                             ELSE ver[wslot[w]] + 1
        BY <1>5 DEF Announce
      <3>3. Odd(ver'[wslot[w]])
        BY <3>2, OddSuccessor
      <3> QED
        <4> SUFFICES ASSUME NEW v \in Writers, wpc'[v] # "idle"
                     PROVE  /\ wpc'[v] = "store" =>
                                /\ "odd" \notin wtodo'[v] => Odd(ver'[wslot'[v]])
                                /\ \A f \in Fields \ wtodo'[v] :
                                        word'[wslot'[v]][f] = wnew'[v][f]
                                /\ wnew'[v].flags = {} => wnew'[v].expires = 0
                            /\ wpc'[v] = "unuse" => word'[wslot'[v]].expires = 0
          BY DEF WriteInv
        <4>1. v = w /\ wpc'[w] = "store" /\ wpc[w] = "store"
          BY <1>5, <3>1 DEF Announce
        <4>2. Fields \ wtodo'[w] = Fields \ wtodo[w]
          BY <1>5 DEF Announce, Fields
        <4> QED
          BY <1>5, <3>3, <4>1, <4>2 DEF Announce, SeqlockInv, WriteInv
    <2>3. CopyInv'
      <3> SUFFICES ASSUME NEW r \in Readers, rpc[r] = "copy"
                   PROVE  /\ ~Odd(rv1[r])
                          /\ rv1[r] <= ver'[rSlot(r)]
                          /\ rv1[r] = ver'[rSlot(r)] =>
                              \A f \in rgot[r] :
                                 \/ rloc[r][f] = word[rSlot(r)][f]
                                 \/ f = "used" /\ word[rSlot(r)].expires = 0
        BY SMTT(30), <1>5 DEF Announce, readerVars, SeqlockInv, CopyInv, rSlot, ProbeAt
      <3>1. rSlot(r) \in Slots
        BY <1>slot
      <3>2. rSlot(r) = wslot[w] => ver'[rSlot(r)] # rv1[r] /\ rv1[r] <= ver'[rSlot(r)]
        BY <1>5, <3>1 DEF Announce, SeqlockInv, CopyInv, Odd
      <3>3. rSlot(r) # wslot[w] => ver'[rSlot(r)] = ver[rSlot(r)]
        BY <1>5, <3>1 DEF Announce
      <3> QED
        BY <3>2, <3>3 DEF SeqlockInv, CopyInv
    <2> QED
      BY <1>5, <2>1, <2>2, <2>3 DEF Announce, SeqlockInv
  <1>6. ASSUME NEW w \in Writers, NEW f \in Fields, Store(w, f)
        PROVE  SeqlockInv'
    <2>0. "odd" \notin wtodo[w] /\ f # "odd" /\ f \in wtodo[w] /\ wpc[w] = "store"
      BY <1>6 DEF Store, StoreOrder, Fields
    <2>s. wslot[w] \in Slots /\ word[wslot[w]] \in Words /\ wnew[w] \in Words
      OBVIOUS
    <2>1. MutexInv'
      BY <1>6 DEF Store, SeqlockInv, MutexInv
    <2>2. WriteInv'
      <3>1. \A v \in Writers : wpc[v] # "idle" => v = w
        BY <2>0 DEF SeqlockInv, MutexInv
      <3>2. \A g \in Fields : word'[wslot[w]][g] =
                IF g = f THEN wnew[w][f] ELSE word[wslot[w]][g]
        BY <1>6, <2>s DEF Store, Words, Fields
      <3>3. \A g \in Fields \ wtodo'[w] : word'[wslot[w]][g] = wnew[w][g]
        BY <1>6, <2>0, <3>2 DEF Store, SeqlockInv, WriteInv
      <3>4. wtodo'[w] = wtodo[w] \ {f}
        BY <1>6 DEF Store
      <3> QED
        BY <1>6, <2>0, <3>1, <3>3, <3>4 DEF Store, SeqlockInv, WriteInv
    <2>3. CopyInv'
      <3> SUFFICES ASSUME NEW r \in Readers, rpc[r] = "copy", rv1[r] = ver[rSlot(r)]
                   PROVE  rSlot(r) # wslot[w]
        BY <1>6, <1>slot DEF Store, readerVars, SeqlockInv, CopyInv, rSlot, ProbeAt
      <3>1. Odd(ver[wslot[w]])
        BY <2>0 DEF SeqlockInv, WriteInv
      <3> QED
        BY <3>1 DEF SeqlockInv, CopyInv
    <2> QED
      BY <1>6, <2>1, <2>2, <2>3 DEF Store, SeqlockInv
  <1>7. ASSUME NEW w \in Writers, Commit(w)
        PROVE  SeqlockInv'
    <2>0. wpc[w] = "store" /\ wtodo[w] = {} /\ Odd(ver[wslot[w]])
      BY <1>7 DEF Commit, SeqlockInv, WriteInv
    <2>1. MutexInv'
      BY <1>7 DEF Commit, SeqlockInv, MutexInv, AfterSlot
    <2>2. WriteInv'
      <3>1. \A v \in Writers : wpc[v] # "idle" => v = w
        BY <2>0 DEF SeqlockInv, MutexInv
      <3>2. wnew[w].flags = {} => word[wslot[w]].expires = 0
        BY <2>0 DEF SeqlockInv, WriteInv, Fields
      <3> QED
        BY <1>7, <3>1, <3>2 DEF Commit, SeqlockInv, WriteInv, AfterSlot
    <2>3. CopyInv'
      <3> SUFFICES ASSUME NEW r \in Readers, rpc[r] = "copy"
                   PROVE  /\ rv1[r] <= ver'[rSlot(r)]
                          /\ ver'[rSlot(r)] # ver[rSlot(r)] => rv1[r] # ver'[rSlot(r)]
        BY <1>7 DEF Commit, readerVars, SeqlockInv, CopyInv, rSlot, ProbeAt
      <3>1. rSlot(r) \in Slots
        BY <1>slot
      <3> QED
        BY <1>7, <3>1 DEF Commit, SeqlockInv, CopyInv
    <2> QED
      BY <1>7, <2>1, <2>2, <2>3 DEF Commit, SeqlockInv
  <1>8. ASSUME NEW w \in Writers, Unuse(w)
        PROVE  SeqlockInv'
    <2>0. wpc[w] = "unuse" /\ word[wslot[w]].expires = 0
      BY <1>8 DEF Unuse, SeqlockInv, WriteInv
    <2>s. wslot[w] \in Slots /\ word[wslot[w]] \in Words
      OBVIOUS
    <2>f. /\ \A g \in Fields \ {"used"} : word'[wslot[w]][g] = word[wslot[w]][g]
          /\ word'[wslot[w]].expires = 0
      BY <1>8, <2>0, <2>s DEF Unuse, Words, Fields
    <2>1. MutexInv'
      BY <1>8 DEF Unuse, SeqlockInv, MutexInv, AfterSlot
    <2>2. WriteInv'
      <3>1. \A v \in Writers : wpc[v] # "idle" => v = w
        BY <2>0 DEF SeqlockInv, MutexInv
      <3> QED
        BY <1>8, <3>1 DEF Unuse, SeqlockInv, WriteInv, AfterSlot
    <2>3. CopyInv'
      <3> SUFFICES ASSUME NEW r \in Readers, rpc[r] = "copy",
                          rv1[r] = ver[rSlot(r)], NEW f \in rgot[r]
                   PROVE  \/ rloc[r][f] = word'[rSlot(r)][f]
                          \/ f = "used" /\ word'[rSlot(r)].expires = 0
        <4>1. \A r \in Readers : rSlot(r)' = rSlot(r)
          BY <1>8 DEF Unuse, readerVars, rSlot, ProbeAt
        <4>2. SUFFICES ASSUME NEW r \in Readers
                       PROVE  /\ rpc'[r] # "idle" => rnow'[r] >= 1
                              /\ rpc'[r] \in {"idle", "version"} => rgot'[r] = {}
                              /\ rpc'[r] = "copy" =>
                                  /\ ~Odd(rv1'[r])
                                  /\ rv1'[r] <= ver'[rSlot(r)']
                                  /\ rv1'[r] = ver'[rSlot(r)'] =>
                                      \A f \in rgot'[r] :
                                         \/ rloc'[r][f] = word'[rSlot(r)'][f]
                                         \/ f = "used" /\ word'[rSlot(r)'].expires = 0
          BY DEF CopyInv
        <4> QED
          BY <1>8, <4>1 DEF Unuse, readerVars, SeqlockInv, CopyInv
      <3>1. rSlot(r) \in Slots /\ f \in Fields
        BY <1>slot
      <3>2. \/ rloc[r][f] = word[rSlot(r)][f]
            \/ f = "used" /\ word[rSlot(r)].expires = 0
        BY DEF SeqlockInv, CopyInv
      <3>3. CASE rSlot(r) = wslot[w]
        BY <2>f, <3>1, <3>2, <3>3
      <3>4. CASE rSlot(r) # wslot[w]
        BY <1>8, <3>1, <3>2, <3>4 DEF Unuse
      <3> QED
        BY <3>3, <3>4
    <2> QED
      BY <1>8, <2>1, <2>2, <2>3 DEF Unuse, SeqlockInv
  <1>9. ASSUME NEW w \in Writers, Unlock(w) \/ Crash(w)
        PROVE  SeqlockInv'
    <2>1. \A v \in Writers : wpc[v] # "idle" => v = w
      BY <1>9 DEF Unlock, Crash, SeqlockInv, MutexInv
    <2>2. \A v \in Writers : wpc'[v] = "idle"
      BY <1>9, <2>1 DEF Unlock, Crash, Forget
    <2>3. CopyInv'
      BY <1>9 DEF Unlock, Crash, tableVars, readerVars, SeqlockInv, CopyInv, rSlot, ProbeAt
    <2> QED
      BY <1>9, <2>2, <2>3 DEF Unlock, Crash, SeqlockInv, MutexInv, WriteInv
  <1>10. ASSUME NEW r \in Readers, NEW k \in Asked, LookupStart(r, k)
         PROVE  SeqlockInv'
    <2>1. MutexInv' /\ WriteInv'
      BY <1>10 DEF LookupStart, tableVars, writerVars, SeqlockInv, MutexInv, WriteInv
    <2>2. CopyInv'
      BY <1>10, <1>slot DEF LookupStart, tableVars, SeqlockInv, CopyInv, rSlot, ProbeAt
    <2> QED
      BY <1>10, <2>1, <2>2 DEF LookupStart, SeqlockInv
  <1>reader. ASSUME NEW r \in Readers,
                    \A q \in Readers \ {r} :
                        /\ rpc'[q] = rpc[q] /\ ri'[q] = ri[q] /\ rv1'[q] = rv1[q]
                        /\ rgot'[q] = rgot[q] /\ rloc'[q] = rloc[q]
                        /\ rkey'[q] = rkey[q] /\ rnow'[q] = rnow[q],
                    rpc'[r] # "copy", rpc[r] # "idle", rgot'[r] = {} \/ rpc'[r] = "hit",
                    rpc'[r] = "idle" \/ rnow'[r] = rnow[r],
                    UNCHANGED <<now, tableVars, mutex, writerVars>>
             PROVE  SeqlockInv'
    <2>1. MutexInv' /\ WriteInv'
      BY <1>reader DEF tableVars, writerVars, SeqlockInv, MutexInv, WriteInv
    <2>2. CopyInv'
      <3> SUFFICES ASSUME NEW q \in Readers
                   PROVE  /\ rpc'[q] # "idle" => rnow'[q] >= 1
                          /\ rpc'[q] \in {"idle", "version"} => rgot'[q] = {}
                          /\ rpc'[q] = "copy" =>
                              /\ ~Odd(rv1'[q])
                              /\ rv1'[q] <= ver'[rSlot(q)']
                              /\ rv1'[q] = ver'[rSlot(q)'] =>
                                  \A f \in rgot'[q] :
                                     \/ rloc'[q][f] = word'[rSlot(q)'][f]
                                     \/ f = "used" /\ word'[rSlot(q)'].expires = 0
        BY DEF CopyInv
      <3>1. CASE q = r
        BY <1>reader, <3>1 DEF SeqlockInv, CopyInv
      <3>2. CASE q # r
        <4>1. rSlot(q)' = rSlot(q)
          BY <1>reader, <3>2 DEF rSlot, ProbeAt
        <4> QED
          BY <1>reader, <3>2, <4>1 DEF SeqlockInv, CopyInv, tableVars
      <3> QED
        BY <3>1, <3>2
    <2> QED
      BY <1>reader, <2>1, <2>2 DEF SeqlockInv
  <1>spin. ASSUME NEW r \in Readers, NextSlot(r) \/ Spin(r), rpc[r] # "idle",
                  UNCHANGED <<now, tableVars, mutex, writerVars, rkey, rnow>>
           PROVE  SeqlockInv'
    <2>1. CASE NextSlot(r)
      BY <1>spin, <1>reader, <2>1 DEF NextSlot
    <2>2. CASE Retry(r)
      BY <1>spin, <1>reader, <2>2 DEF Retry
    <2> QED
      BY <1>spin, <2>1, <2>2 DEF Spin
  <1>11. ASSUME NEW r \in Readers, ReadVersion(r)
         PROVE  SeqlockInv'
    <2>1. CASE Spin(r)
      BY <1>11, <1>spin, <2>1 DEF ReadVersion
    <2>2. CASE /\ ~Odd(ver[rSlot(r)])
               /\ rv1' = [rv1 EXCEPT ![r] = ver[rSlot(r)]]
               /\ rpc' = [rpc EXCEPT ![r] = "copy"]
               /\ UNCHANGED <<ri, rspins, rgot, rloc>>
      <3> SUFFICES CopyInv'
        BY <1>11, <2>2 DEF ReadVersion, tableVars, writerVars, SeqlockInv, MutexInv, WriteInv
      <3>1. rgot[r] = {} /\ rpc[r] = "version"
        BY <1>11 DEF ReadVersion, SeqlockInv, CopyInv
      <3>2. \A q \in Readers : rSlot(q)' = rSlot(q)
        BY <1>11, <2>2 DEF ReadVersion, rSlot, ProbeAt
      <3>3. rSlot(r) \in Slots
        BY <1>slot, <3>1
      <3> QED
        BY <1>11, <2>2, <3>1, <3>2, <3>3 DEF ReadVersion, tableVars, SeqlockInv, CopyInv
    <2> QED
      BY <1>11, <2>1, <2>2 DEF ReadVersion
  <1>12. ASSUME NEW r \in Readers, NEW f \in Fields, CopyWord(r, f)
         PROVE  SeqlockInv'
    <2>1. MutexInv' /\ WriteInv'
      BY <1>12 DEF CopyWord, tableVars, writerVars, SeqlockInv, MutexInv, WriteInv
    <2>2. \A q \in Readers : rSlot(q)' = rSlot(q)
      BY <1>12 DEF CopyWord, rSlot, ProbeAt
    <2>3. /\ rloc'[r][f] = word[rSlot(r)][f]
          /\ \A g \in Fields \ {f} : rloc'[r][g] = rloc[r][g]
      BY <1>12 DEF CopyWord, Words, Fields
    <2>4. \A q \in Readers \ {r} : rloc'[q] = rloc[q] /\ rgot'[q] = rgot[q]
      BY <1>12 DEF CopyWord
    <2>5. rgot'[r] = rgot[r] \cup {f} /\ rpc[r] = "copy"
      BY <1>12 DEF CopyWord
    <2>6. CopyInv'
      BY <1>12, <2>2, <2>3, <2>4, <2>5 DEF CopyWord, tableVars, SeqlockInv, CopyInv
    <2> QED
      BY <1>12, <2>1, <2>6 DEF CopyWord, SeqlockInv
  <1>13. ASSUME NEW r \in Readers, CheckVersion(r)
         PROVE  SeqlockInv'
    <2>1. CASE Spin(r) \/ NextSlot(r)
      BY <1>13, <1>spin, <2>1 DEF CheckVersion
    <2>2. CASE /\ rpc' = [rpc EXCEPT ![r] = "hit"]
               /\ UNCHANGED <<ri, rv1, rspins, rgot, rloc>>
      BY <1>13, <1>reader, <2>2 DEF CheckVersion
    <2> QED
      BY <1>13, <2>1, <2>2 DEF CheckVersion
  <1>14. ASSUME NEW r \in Readers, Return(r)
         PROVE  SeqlockInv'
    BY <1>14, <1>reader DEF Return
  <1>15. CASE Tick
    BY <1>15 DEF Tick, tableVars, writerVars, readerVars, SeqlockInv, MutexInv,
                 WriteInv, CopyInv, rSlot, ProbeAt
  <1>16. CASE UNCHANGED vars
    BY <1>16 DEF vars, tableVars, writerVars, readerVars, SeqlockInv, MutexInv,
                 WriteInv, CopyInv, rSlot, ProbeAt
  <1> HIDE DEF TypeOK
  <1>17. ASSUME NEW w \in Writers, WriterStart(w)
         PROVE  SeqlockInv'
    BY <1>1, <1>2, <1>3, <1>17 DEF WriterStart
  <1>18. ASSUME NEW w \in Writers, WriterStep(w)
         PROVE  SeqlockInv'
    BY <1>4, <1>5, <1>6, <1>7, <1>8, <1>9, <1>18 DEF WriterStep
  <1>19. ASSUME NEW r \in Readers, ReaderStep(r)
         PROVE  SeqlockInv'
    BY <1>11, <1>12, <1>13, <1>14, <1>19 DEF ReaderStep
  <1> QED
    BY <1>9, <1>10, <1>15, <1>16, <1>17, <1>18, <1>19 DEF Next

\* The seqlock invariant holds of the zeroed segment.
LEMMA SeqlockInit == Init => SeqlockInv
  BY DEF Init, SeqlockInv, MutexInv, WriteInv, CopyInv

\* With the stores in program order the seqlock invariant always holds: slots
\* are odd while they are written, and a copy whose version still stands is
\* what the slot holds.
THEOREM SeqlockCorrect ==
    ASSUME ~Hoist
    PROVE  Spec => [](TypeOK /\ SeqlockInv)
  <1>1. Init => TypeOK /\ SeqlockInv
    BY SeqlockInit, TypeInit
  <1>2. TypeOK /\ SeqlockInv /\ [Next]_vars => (TypeOK /\ SeqlockInv)'
    BY TypeStep, SeqlockStep
  <1> QED
    BY <1>1, <1>2, PTL DEF Spec

(***************************************************************************)
(* Lookups.                                                                *)
(***************************************************************************)

\* Only the second version check turns a lookup into a hit.
LEMMA HitIsCheck ==
    ASSUME TypeOK, [Next]_vars, NEW r \in Readers, rpc[r] # "hit", rpc'[r] = "hit"
    PROVE  CheckVersion(r)
  <1> USE DEF TypeOK
  <1>1. CASE UNCHANGED vars
    BY <1>1 DEF vars, readerVars
  <1>2. ASSUME NEW w \in Writers, WriterStart(w) \/ WriterStep(w) \/ Crash(w)
        PROVE  FALSE
    BY <1>2 DEF WriterStart, WriterStep, Add, Clear, ClearRange, Lock, RangeStep,
                Announce, Store, Commit, Unuse, Unlock, Crash, readerVars
  <1>3. CASE Tick
    BY <1>3 DEF Tick, readerVars
  <1>4. ASSUME NEW q \in Readers,
               \/ \E k \in Asked : LookupStart(q, k)
               \/ ReadVersion(q)
               \/ \E f \in Fields : CopyWord(q, f)
               \/ Return(q)
        PROVE  FALSE
    BY <1>4 DEF LookupStart, ReadVersion, CopyWord, Return, Spin, NextSlot, Retry
  <1>5. ASSUME NEW q \in Readers, CheckVersion(q)
        PROVE  q = r
    BY <1>5 DEF CheckVersion, Spin, NextSlot, Retry
  <1> QED
    BY <1>1, <1>2, <1>3, <1>4, <1>5 DEF Next, ReaderStep

\* The copy a reader accepts is the slot's committed entry at that moment.
LEMMA HitStepHolds ==
    ASSUME TypeOK, SeqlockInv, [Next]_vars
    PROVE  HitStep
  <1> SUFFICES ASSUME NEW r \in Readers, rpc[r] # "hit", rpc'[r] = "hit"
               PROVE  /\ Stores(rSlot(r), rkey[r])
                      /\ rloc[r] = word[rSlot(r)]
    BY DEF HitStep
  <1> USE DEF TypeOK
  <1>1. CheckVersion(r)
    BY HitIsCheck
  <1>2. ver[rSlot(r)] = rv1[r] /\ Answers(r) /\ rgot[r] = Fields /\ rpc[r] = "copy"
    BY <1>1 DEF CheckVersion, Spin, NextSlot, Retry
  <1>3. rSlot(r) \in Slots
    <2>1. ri[r] \in Nat /\ rkey[r] \in Key
      BY <1>2, TableAssumption DEF ProbeIndices
    <2> QED
      BY <2>1, ProbeInTable DEF rSlot
  <1>c. \A f \in Fields : \/ rloc[r][f] = word[rSlot(r)][f]
                          \/ f = "used" /\ word[rSlot(r)].expires = 0
    BY <1>2 DEF SeqlockInv, CopyInv
  <1>4. rloc[r].expires = word[rSlot(r)].expires
    BY <1>c DEF Fields
  <1>5. word[rSlot(r)].expires # 0
    <2>1. rnow[r] >= 1 /\ ~(rloc[r].expires < rnow[r])
      BY <1>2 DEF Answers, Stale, SeqlockInv, CopyInv
    <2>2. word[rSlot(r)].expires \in Nat
      BY <1>3 DEF Words
    <2> QED
      BY <1>4, <2>1, <2>2
  <1>6. \A f \in Fields : rloc[r][f] = word[rSlot(r)][f]
    BY <1>5, <1>c
  <1>7. rloc[r] = word[rSlot(r)]
    <2>1. rloc[r] \in Words /\ word[rSlot(r)] \in Words
      BY <1>3
    <2> QED
      BY <1>6, <2>1, WordsAgree
  <1> QED
    <2>1. ~Odd(rv1[r])
      BY <1>2 DEF SeqlockInv, CopyInv
    <2>2. Holds(rloc[r], rkey[r])
      BY <1>2 DEF Answers
    <2> QED
      BY <1>2, <1>7, <2>1, <2>2 DEF Stores

\* Every hit is linearizable at the second load of the version.
THEOREM HitsLinearize ==
    ASSUME ~Hoist
    PROVE  Spec => HitLinearizes
  <1>1. TypeOK /\ SeqlockInv /\ [Next]_vars => [HitStep]_vars
    BY HitStepHolds
  <1> QED
    BY <1>1, SeqlockCorrect, PTL DEF Spec, HitLinearizes

(***************************************************************************)
(* Flags stay with the key they were raised for.                           *)
(***************************************************************************)

\* Every step keeps entries, and plans, within the flags raised for their key.
LEMMA FlagStep ==
    ASSUME ~Hoist, TypeOK, SeqlockInv, FlagInv, [Next]_vars
    PROVE  FlagInv'
  <1> USE DEF TypeOK
  <1>p. ProbeIndices \subseteq Nat
    BY TableAssumption DEF ProbeIndices
  <1>plan. ASSUME NEW w \in Writers, NEW s \in Slots, NEW new \in Words,
                  Plan(w, s, new), UNCHANGED tableVars,
                  \A k \in Key : raised[k] \subseteq raised'[k],
                  new.key \in Key, new.flags \subseteq raised'[new.key]
           PROVE  FlagInv'
    BY <1>plan DEF Plan, tableVars, FlagInv, OwnFlags
  <1>keep. ASSUME UNCHANGED tableVars, \A k \in Key : raised[k] \subseteq raised'[k],
                  \A w \in Writers : wpc'[w] = "store" =>
                      wpc[w] = "store" /\ wnew'[w] = wnew[w]
           PROVE  FlagInv'
    BY <1>keep DEF tableVars, FlagInv, OwnFlags
  <1>1. ASSUME NEW w \in Writers, NEW k \in Key, NEW F \in SUBSET Flags,
               NEW ttl \in TTLs, Add(w, k, F, ttl)
        PROVE  FlagInv'
    <2>1. PICK i \in ProbeIndices :
            Plan(w, ProbeAt(k, i), Merged(ProbeAt(k, i), k, F, now + ttl))
      BY <1>1 DEF Add
    <2> DEFINE s == ProbeAt(k, i)
               new == Merged(s, k, F, now + ttl)
    <2>2. s \in Slots
      BY <1>p, ProbeInTable
    <2>3. new \in Words
      BY <2>2, MergedType, TableAssumption
    <2>4. raised' = [raised EXCEPT ![k] = raised[k] \cup F]
      BY <1>1 DEF Add
    <2>5. new.key = k /\ new.flags \subseteq raised[k] \cup F
      <3>1. CASE Stores(s, k)
        <4>1. word[s] \in Words /\ word[s].key = k /\ word[s].flags \subseteq raised[k]
          BY <2>2, <3>1 DEF Stores, Holds, FlagInv, OwnFlags
        <4> QED
          BY <3>1, <4>1 DEF Merged, Words
      <3>2. CASE ~Stores(s, k)
        BY <3>2 DEF Merged
      <3> QED
        BY <3>1, <3>2
    <2>6. /\ raised'[k] = raised[k] \cup F
          /\ \A j \in Key : raised[j] \subseteq raised'[j]
      BY <2>4
    <2>7. UNCHANGED tableVars /\ Plan(w, s, new)
      BY <1>1, <2>1 DEF Add, Lock
    <2> HIDE DEF s, new
    <2> QED
      BY <1>plan, <2>2, <2>3, <2>5, <2>6, <2>7
  <1>2. ASSUME NEW w \in Writers, NEW k \in Key, NEW del \in SUBSET Flags,
               NEW set \in SUBSET Flags, NEW replace \in BOOLEAN,
               Clear(w, k, del, set, replace)
        PROVE  FlagInv'
    <2>0. /\ raised'[k] = IF replace THEN raised[k] \cup set ELSE raised[k]
          /\ \A j \in Key : raised[j] \subseteq raised'[j]
          /\ UNCHANGED tableVars
      BY <1>2 DEF Clear, Lock
    <2>1. ASSUME NEW i \in ProbeIndices, IsFirst(Matches(k), i),
                 Plan(w, ProbeAt(k, i),
                      Reduced(word[ProbeAt(k, i)],
                              IF replace THEN set
                              ELSE word[ProbeAt(k, i)].flags \ del))
          PROVE  FlagInv'
      <3> DEFINE s == ProbeAt(k, i)
                 F == IF replace THEN set ELSE word[s].flags \ del
                 new == Reduced(word[s], F)
      <3>1. s \in Slots /\ Stores(s, k)
        BY <1>p, <2>1, ProbeInTable DEF IsFirst, Matches
      <3>2. word[s] \in Words /\ word[s].key = k /\ word[s].flags \subseteq raised[k]
        BY <3>1 DEF Stores, Holds, FlagInv, OwnFlags
      <3>3. F \in SUBSET Flags /\ F \subseteq raised'[k]
        BY <2>0, <3>2 DEF Words
      <3>4. Plan(w, s, new)
        BY <2>1
      <3> HIDE DEF s, F
      <3>5. new \in Words /\ new.key = k /\ new.flags = F
        BY <3>2, <3>3, ReducedType, ReducedWord
      <3> HIDE DEF new
      <3> QED
        BY <1>plan, <2>0, <3>1, <3>3, <3>4, <3>5
    <2>2. CASE /\ wpc' = [wpc EXCEPT ![w] = "unlock"]
               /\ UNCHANGED <<wslot, wnew, wtodo>>
      BY <1>keep, <2>0, <2>2
    <2> QED
      BY <1>2, <2>1, <2>2 DEF Clear
  <1>3. ASSUME NEW w \in Writers, NEW net \in Nets, NEW del \in SUBSET Flags,
               ClearRange(w, net, del)
        PROVE  FlagInv'
    BY <1>3, <1>keep DEF ClearRange, Lock
  <1>4. ASSUME NEW w \in Writers, RangeStep(w)
        PROVE  FlagInv'
    <2>1. ASSUME NEW s \in Slots, IsFirst(Remaining(wargs[w]), s),
                 Plan(w, s, Reduced(word[s], IF wargs[w].del = {} THEN {}
                                      ELSE word[s].flags \ wargs[w].del))
          PROVE  FlagInv'
      <3> DEFINE F == IF wargs[w].del = {} THEN {} ELSE word[s].flags \ wargs[w].del
                 new == Reduced(word[s], F)
      <3>1. word[s].used /\ ~Odd(ver[s])
        BY <2>1 DEF IsFirst, Remaining
      <3>2. /\ word[s] \in Words /\ word[s].key \in Key
            /\ word[s].flags \subseteq raised[word[s].key]
        BY <3>1 DEF FlagInv, OwnFlags
      <3>3. F \in SUBSET Flags /\ F \subseteq word[s].flags
        BY <3>2 DEF Words
      <3>4. Plan(w, s, new)
        BY <2>1
      <3> HIDE DEF F
      <3>5. new \in Words /\ new.key = word[s].key /\ new.flags = F
        BY <3>2, <3>3, ReducedType, ReducedWord
      <3> HIDE DEF new
      <3>6. UNCHANGED <<tableVars, raised>>
        BY <1>4 DEF RangeStep
      <3> QED
        BY <1>plan, <3>2, <3>3, <3>4, <3>5, <3>6
    <2>2. CASE /\ wpc' = [wpc EXCEPT ![w] = "unlock"]
               /\ UNCHANGED <<wslot, wnew, wtodo>>
      BY <1>4, <1>keep, <2>2 DEF RangeStep
    <2> QED
      BY <1>4, <2>1, <2>2 DEF RangeStep
  <1>5. ASSUME NEW w \in Writers, Announce(w)
        PROVE  FlagInv'
    BY <1>5 DEF Announce, FlagInv, OwnFlags, Odd
  <1>6. ASSUME NEW w \in Writers, NEW f \in Fields, Store(w, f)
        PROVE  FlagInv'
    <2>1. Odd(ver[wslot[w]])
      BY <1>6 DEF Store, StoreOrder, Fields, SeqlockInv, WriteInv
    <2>2. \A s \in Slots : s # wslot[w] => word'[s] = word[s]
      BY <1>6 DEF Store
    <2> QED
      BY <1>6, <2>1, <2>2 DEF Store, FlagInv, OwnFlags
  <1>7. ASSUME NEW w \in Writers, Commit(w)
        PROVE  FlagInv'
    <2>1. /\ word[wslot[w]].key = wnew[w].key
          /\ word[wslot[w]].flags = wnew[w].flags
          /\ OwnFlags(wnew[w])
      <3>1. wpc[w] = "store" /\ wtodo[w] = {}
        BY <1>7 DEF Commit
      <3>2. \A f \in Fields : word[wslot[w]][f] = wnew[w][f]
        BY <3>1 DEF SeqlockInv, WriteInv
      <3> QED
        BY <3>1, <3>2 DEF FlagInv, Fields
    <2>2. \A s \in Slots : s # wslot[w] => ver'[s] = ver[s]
      BY <1>7 DEF Commit
    <2>3. \A v \in Writers : wpc'[v] = "store" => wpc[v] = "store"
      BY <1>7 DEF Commit, AfterSlot
    <2> QED
      BY <1>7, <2>1, <2>2, <2>3 DEF Commit, FlagInv, OwnFlags
  <1>8. ASSUME NEW w \in Writers, Unuse(w)
        PROVE  FlagInv'
    <2>1. \A s \in Slots : /\ word'[s].key = word[s].key
                            /\ word'[s].flags = word[s].flags
                            /\ word'[s].used => word[s].used
      <3> SUFFICES ASSUME NEW s \in Slots
                   PROVE  /\ word'[s].key = word[s].key
                          /\ word'[s].flags = word[s].flags
                          /\ word'[s].used => word[s].used
        OBVIOUS
      <3>1. word[s] \in Words
        OBVIOUS
      <3>2. CASE s = wslot[w]
        <4>1. word'[s] = [word[s] EXCEPT !.used = FALSE]
          BY <1>8, <3>2 DEF Unuse
        <4> QED
          BY <3>1, <4>1 DEF Words
      <3>3. CASE s # wslot[w]
        BY <1>8, <3>3 DEF Unuse
      <3> QED
        BY <3>2, <3>3
    <2>2. \A v \in Writers : wpc'[v] = "store" => wpc[v] = "store"
      BY <1>8 DEF Unuse, AfterSlot
    <2> QED
      BY <1>8, <2>1, <2>2 DEF Unuse, FlagInv, OwnFlags
  <1>9. ASSUME NEW w \in Writers, Unlock(w) \/ Crash(w)
        PROVE  FlagInv'
    BY <1>9, <1>keep DEF Unlock, Crash, Forget
  <1>10. ASSUME UNCHANGED <<tableVars, writerVars, raised>>
         PROVE  FlagInv'
    BY <1>10, <1>keep DEF writerVars
  <1>11. ASSUME NEW w \in Writers, WriterStart(w) \/ WriterStep(w) \/ Crash(w)
         PROVE  FlagInv'
    BY <1>1, <1>2, <1>3, <1>4, <1>5, <1>6, <1>7, <1>8, <1>9, <1>11
       DEF WriterStart, WriterStep
  <1>12. ASSUME NEW r \in Readers, (\E k \in Asked : LookupStart(r, k)) \/ ReaderStep(r)
         PROVE  FlagInv'
    BY <1>10, <1>12 DEF LookupStart, ReaderStep, ReadVersion, CopyWord, CheckVersion,
                        Return
  <1>13. CASE Tick
    BY <1>10, <1>13 DEF Tick
  <1>14. CASE UNCHANGED vars
    BY <1>10, <1>14 DEF vars
  <1> QED
    BY <1>11, <1>12, <1>13, <1>14 DEF Next

\* A zeroed table holds no flag.
LEMMA FlagInit == Init => FlagInv
  BY DEF Init, FlagInv, EmptyWord

\* The flags raised for a key never shrink, and the answer of a reader stays
\* put until it is returned.
LEMMA AnswerStep ==
    ASSUME TypeOK, SeqlockInv, FlagInv, NoFalseFlag, [Next]_vars
    PROVE  NoFalseFlag'
  <1> USE DEF TypeOK
  <1> SUFFICES ASSUME NEW r \in Readers, rpc'[r] = "hit"
               PROVE  rloc'[r].flags \subseteq raised'[rkey'[r]]
    BY DEF NoFalseFlag
  <1>1. \A k \in Key : raised[k] \subseteq raised'[k]
    <2>1. CASE UNCHANGED raised
      BY <2>1
    <2>2. ASSUME NEW w \in Writers, WriterStart(w)
          PROVE  \A k \in Key : raised[k] \subseteq raised'[k]
      BY <2>2 DEF WriterStart, Add, Clear, ClearRange
    <2>3. ASSUME NEW w \in Writers, WriterStep(w) \/ Crash(w)
          PROVE  UNCHANGED raised
      BY <2>3 DEF WriterStep, RangeStep, Announce, Store, Commit, Unuse, Unlock, Crash
    <2>4. ASSUME NEW q \in Readers, (\E k \in Asked : LookupStart(q, k)) \/ ReaderStep(q)
          PROVE  UNCHANGED raised
      BY <2>4 DEF LookupStart, ReaderStep, ReadVersion, CopyWord, CheckVersion, Return
    <2>5. Tick \/ UNCHANGED vars => UNCHANGED raised
      BY DEF Tick, vars
    <2> HIDE DEF TypeOK
    <2> QED
      BY <2>1, <2>2, <2>3, <2>4, <2>5 DEF Next
  <1>2. CASE rpc[r] = "hit"
    <2>1. rloc'[r] = rloc[r] /\ rkey'[r] = rkey[r]
      <3>1. CASE UNCHANGED readerVars
        BY <3>1 DEF readerVars
      <3>2. ASSUME NEW w \in Writers, WriterStart(w) \/ WriterStep(w) \/ Crash(w)
            PROVE  UNCHANGED readerVars
        BY <3>2 DEF WriterStart, Add, Clear, ClearRange, Lock, WriterStep, RangeStep,
                    Announce, Store, Commit, Unuse, Unlock, Crash
      <3>3. ASSUME NEW q \in Readers, (\E k \in Asked : LookupStart(q, k)) \/ ReaderStep(q)
            PROVE  rloc'[r] = rloc[r] /\ rkey'[r] = rkey[r]
        <4>1. CASE \E k \in Asked : LookupStart(q, k)
          BY <1>2, <4>1 DEF LookupStart
        <4>2. CASE ReadVersion(q)
          BY <1>2, <4>2 DEF ReadVersion, Spin, NextSlot, Retry
        <4>3. CASE \E f \in Fields : CopyWord(q, f)
          BY <1>2, <4>3 DEF CopyWord
        <4>4. CASE CheckVersion(q)
          BY <1>2, <4>4 DEF CheckVersion, Spin, NextSlot, Retry
        <4>5. CASE Return(q)
          BY <4>5 DEF Return
        <4> QED
          BY <3>3, <4>1, <4>2, <4>3, <4>4, <4>5 DEF ReaderStep
      <3>4. Tick \/ UNCHANGED vars => UNCHANGED readerVars
        BY DEF Tick, vars
      <3> HIDE DEF TypeOK
      <3> QED
        BY <3>1, <3>2, <3>3, <3>4 DEF Next
    <2>2. rkey[r] \in Key
      BY <1>2, TableAssumption
    <2> QED
      BY <1>1, <1>2, <2>1, <2>2 DEF NoFalseFlag
  <1>3. CASE rpc[r] # "hit"
    <2>1. Stores(rSlot(r), rkey[r]) /\ rloc[r] = word[rSlot(r)]
      BY <1>3, HitStepHolds DEF HitStep
    <2>2. CheckVersion(r)
      BY <1>3, HitIsCheck
    <2>3. rkey' = rkey /\ rloc'[r] = rloc[r]
      BY <1>3, <2>2 DEF CheckVersion, Spin, NextSlot, Retry
    <2>4. rkey[r] \in Key /\ rSlot(r) \in Slots
      <3>1. rpc[r] = "copy"
        BY <2>2 DEF CheckVersion
      <3>2. rkey[r] \in Key /\ ri[r] \in Nat
        BY <3>1, TableAssumption DEF ProbeIndices
      <3> QED
        BY <3>2, ProbeInTable DEF rSlot
    <2>5. rloc[r].flags \subseteq raised[rkey[r]]
      BY <2>1, <2>4 DEF Stores, Holds, FlagInv, OwnFlags
    <2> QED
      BY <1>1, <2>3, <2>4, <2>5
  <1> QED
    BY <1>2, <1>3

\* No lookup ever reports a flag that was not raised for that very address
\* and namespace, whatever writes, evictions and crashes it overlaps with.
THEOREM NoFalseFlags ==
    ASSUME ~Hoist
    PROVE  Spec => []NoFalseFlag
  <1>1. Init => FlagInv /\ NoFalseFlag
    BY FlagInit DEF Init, NoFalseFlag
  <1>2. /\ TypeOK /\ SeqlockInv /\ FlagInv /\ NoFalseFlag /\ [Next]_vars
        => (FlagInv /\ NoFalseFlag)'
    BY FlagStep, AnswerStep
  <1> QED
    BY <1>1, <1>2, SeqlockCorrect, PTL DEF Spec

(***************************************************************************)
(* One entry per key.                                                      *)
(***************************************************************************)

\* A slot that is not being written stays as it is until a writer announces a
\* change of it, or releases it: a dead entry.
LEMMA Untouched ==
    ASSUME ~Hoist, TypeOK, SeqlockInv, [Next]_vars, NEW s \in Slots, ~Odd(ver[s])
    PROVE  \/ ver'[s] = ver[s] /\ word'[s] = word[s]
           \/ \E w \in Writers : Announce(w) /\ s = wslot[w]
           \/ ver'[s] = ver[s] /\ word[s].expires = 0
  <1> USE DEF TypeOK
  <1>1. ASSUME NEW w \in Writers, Announce(w) \/ Commit(w) \/ Unuse(w)
                                  \/ (\E f \in Fields : Store(w, f))
        PROVE  \/ ver'[s] = ver[s] /\ word'[s] = word[s]
               \/ Announce(w) /\ s = wslot[w]
               \/ ver'[s] = ver[s] /\ word[s].expires = 0
    <2>1. CASE Announce(w)
      BY <2>1 DEF Announce
    <2>2. CASE Commit(w)
      <3>1. Odd(ver[wslot[w]])
        BY <2>2 DEF Commit, SeqlockInv, WriteInv
      <3> QED
        BY <2>2, <3>1 DEF Commit
    <2>3. CASE Unuse(w)
      <3>1. word[wslot[w]].expires = 0
        BY <2>3 DEF Unuse, SeqlockInv, WriteInv
      <3> QED
        BY <2>3, <3>1 DEF Unuse
    <2>4. ASSUME NEW f \in Fields, Store(w, f)
          PROVE  ver'[s] = ver[s] /\ word'[s] = word[s]
      <3>1. Odd(ver[wslot[w]])
        BY <2>4 DEF Store, StoreOrder, Fields, SeqlockInv, WriteInv
      <3> QED
        BY <2>4, <3>1 DEF Store
    <2> QED
      BY <1>1, <2>1, <2>2, <2>3, <2>4
  <1>2. ASSUME NEW w \in Writers, WriterStart(w) \/ RangeStep(w) \/ Unlock(w) \/ Crash(w)
        PROVE  UNCHANGED <<ver, word>>
    BY <1>2 DEF WriterStart, Add, Clear, ClearRange, Lock, RangeStep, Unlock, Crash,
                tableVars
  <1>3. ASSUME NEW r \in Readers, (\E k \in Asked : LookupStart(r, k)) \/ ReaderStep(r)
        PROVE  UNCHANGED <<ver, word>>
    BY <1>3 DEF LookupStart, ReaderStep, ReadVersion, CopyWord, CheckVersion, Return,
                tableVars
  <1>4. CASE Tick \/ UNCHANGED vars
    BY <1>4 DEF Tick, vars, tableVars
  <1> QED
    BY <1>1, <1>2, <1>3, <1>4 DEF Next, WriterStep

\* A slot that is not being written after a step was so before it, or is the one
\* a writer commits or releases.
LEMMA Appears ==
    ASSUME ~Hoist, TypeOK, SeqlockInv, [Next]_vars, NEW s \in Slots, ~Odd(ver'[s])
    PROVE  \/ ver'[s] = ver[s] /\ word'[s] = word[s]
           \/ \E w \in Writers : Commit(w) /\ s = wslot[w]
           \/ ver'[s] = ver[s] /\ ~word'[s].used
  <1> USE DEF TypeOK
  <1>1. ASSUME NEW w \in Writers, Announce(w) \/ Commit(w) \/ Unuse(w)
                                  \/ (\E f \in Fields : Store(w, f))
        PROVE  \/ ver'[s] = ver[s] /\ word'[s] = word[s]
               \/ Commit(w) /\ s = wslot[w]
               \/ ver'[s] = ver[s] /\ ~word'[s].used
    <2>1. CASE Announce(w)
      <3>1. Odd(ver'[wslot[w]])
        BY <2>1, OddSuccessor DEF Announce
      <3> QED
        BY <2>1, <3>1 DEF Announce
    <2>2. CASE Commit(w)
      BY <2>2 DEF Commit
    <2>3. CASE Unuse(w)
      <3>1. word' = [word EXCEPT ![wslot[w]] = [word[wslot[w]] EXCEPT !.used = FALSE]]
        BY <2>3 DEF Unuse
      <3>2. PICK u \in Words : u = word[wslot[w]]
        OBVIOUS
      <3>3. [u EXCEPT !.used = FALSE].used = FALSE
        BY DEF Words
      <3> QED
        BY <2>3, <3>1, <3>2, <3>3 DEF Unuse
    <2>4. ASSUME NEW f \in Fields, Store(w, f)
          PROVE  ver'[s] = ver[s] /\ word'[s] = word[s]
      <3>1. Odd(ver[wslot[w]])
        BY <2>4 DEF Store, StoreOrder, Fields, SeqlockInv, WriteInv
      <3> QED
        BY <2>4, <3>1 DEF Store
    <2> QED
      BY <1>1, <2>1, <2>2, <2>3, <2>4
  <1>2. ASSUME NEW w \in Writers, WriterStart(w) \/ RangeStep(w) \/ Unlock(w) \/ Crash(w)
        PROVE  UNCHANGED <<ver, word>>
    BY <1>2 DEF WriterStart, Add, Clear, ClearRange, Lock, RangeStep, Unlock, Crash,
                tableVars
  <1>3. ASSUME NEW r \in Readers, (\E k \in Asked : LookupStart(r, k)) \/ ReaderStep(r)
        PROVE  UNCHANGED <<ver, word>>
    BY <1>3 DEF LookupStart, ReaderStep, ReadVersion, CopyWord, CheckVersion, Return,
                tableVars
  <1>4. CASE Tick \/ UNCHANGED vars
    BY <1>4 DEF Tick, vars, tableVars
  <1> QED
    BY <1>1, <1>2, <1>3, <1>4 DEF Next, WriterStep

\* Slot s is one of those that key k is looked for in.
InWindow(k, s) == \E i \in ProbeIndices : s = ProbeAt(k, i)

\* Slot s is where an entry of key k belongs: in its window, and no other slot
\* has one.
Place(k, s) == InWindow(k, s) /\ \A t \in Slots : Stores(t, k) => t = s

\* What a writer may begin to write: an entry of key k at its place.
Planned(k, s) ==
    \/ \E i \in ProbeIndices : Target(k, i) /\ s = ProbeAt(k, i)
    \/ Stores(s, k)

\* A writer goes on with its slot, or has just chosen it.
LEMMA Plans ==
    ASSUME TypeOK, FlagInv, [Next]_vars, NEW w \in Writers, wpc'[w] = "store"
    PROVE  \/ wpc[w] = "store" /\ wslot'[w] = wslot[w] /\ wnew'[w] = wnew[w]
           \/ /\ UNCHANGED tableVars
              /\ wnew'[w].key \in Key
              /\ Planned(wnew'[w].key, wslot'[w])
  <1> USE DEF TypeOK
  <1> DEFINE Same == wpc[w] = "store" /\ wslot'[w] = wslot[w] /\ wnew'[w] = wnew[w]
             New == /\ UNCHANGED tableVars
                    /\ wnew'[w].key \in Key
                    /\ Planned(wnew'[w].key, wslot'[w])
  <1>p. ProbeIndices \subseteq Nat
    BY TableAssumption DEF ProbeIndices
  <1>1. ASSUME NEW v \in Writers, NEW k \in Key, NEW F \in SUBSET Flags,
               NEW ttl \in TTLs, Add(v, k, F, ttl)
        PROVE  Same \/ New
    <2>1. PICK i \in ProbeIndices :
             Target(k, i)
             /\ Plan(v, ProbeAt(k, i), Merged(ProbeAt(k, i), k, F, now + ttl))
      BY <1>1 DEF Add
    <2>2. ProbeAt(k, i) \in Slots /\ now + ttl \in Nat
      BY <1>p, ProbeInTable, TableAssumption
    <2>3. PICK new \in Words : new = Merged(ProbeAt(k, i), k, F, now + ttl)
      BY <2>2, MergedType
    <2>4. new.key = k
      <3>1. CASE Stores(ProbeAt(k, i), k)
        <4>1. PICK u \in Words : u = word[ProbeAt(k, i)] /\ u.key = k
          BY <2>2, <3>1 DEF Stores, Holds
        <4> QED
          BY <2>3, <3>1, <4>1 DEF Merged, Words
      <3>2. CASE ~Stores(ProbeAt(k, i), k)
        BY <2>3, <3>2 DEF Merged
      <3> QED
        BY <3>1, <3>2
    <2>5. UNCHANGED tableVars
      BY <1>1 DEF Add, Lock
    <2> QED
      BY <2>1, <2>3, <2>4, <2>5 DEF Plan, Planned
  <1>2. ASSUME NEW v \in Writers, NEW k \in Key, NEW del \in SUBSET Flags,
               NEW set \in SUBSET Flags, NEW replace \in BOOLEAN,
               Clear(v, k, del, set, replace)
        PROVE  Same \/ New
    <2>1. ASSUME NEW i \in ProbeIndices, IsFirst(Matches(k), i),
                 NEW F \in SUBSET Flags,
                 Plan(v, ProbeAt(k, i), Reduced(word[ProbeAt(k, i)], F))
          PROVE  Same \/ New
      <3>1. ProbeAt(k, i) \in Slots /\ Stores(ProbeAt(k, i), k)
        BY <1>p, <2>1, ProbeInTable DEF IsFirst, Matches
      <3>2. PICK u \in Words : u = word[ProbeAt(k, i)] /\ u.key = k
        BY <3>1 DEF Stores, Holds
      <3>3. PICK new : new = Reduced(u, F) /\ new.key = k
        BY <3>2, ReducedWord
      <3>4. UNCHANGED tableVars
        BY <1>2 DEF Clear, Lock
      <3> QED
        BY <2>1, <3>1, <3>2, <3>3, <3>4 DEF Plan, Planned
    <2>2. CASE /\ wpc' = [wpc EXCEPT ![v] = "unlock"]
               /\ UNCHANGED <<wslot, wnew, wtodo>>
      BY <2>2
    <2>3. \A i \in ProbeIndices :
             (IF replace THEN set ELSE word[ProbeAt(k, i)].flags \ del) \in SUBSET Flags
      BY <1>p, ProbeInTable DEF Words
    <2> QED
      BY <1>2, <2>1, <2>2, <2>3 DEF Clear
  <1>3. ASSUME NEW v \in Writers, RangeStep(v)
        PROVE  Same \/ New
    <2>1. ASSUME NEW s \in Slots, IsFirst(Remaining(wargs[v]), s),
                 NEW F \in SUBSET Flags, Plan(v, s, Reduced(word[s], F))
          PROVE  Same \/ New
      <3>1. ~Odd(ver[s]) /\ word[s].used
        BY <2>1 DEF IsFirst, Remaining
      <3>2. PICK u \in Words : u = word[s] /\ u.key \in Key /\ Stores(s, u.key)
        BY <3>1 DEF FlagInv, OwnFlags, Stores, Holds
      <3>3. PICK new : new = Reduced(u, F) /\ new.key = u.key
        BY <3>2, ReducedWord
      <3>4. UNCHANGED tableVars
        BY <1>3 DEF RangeStep
      <3> QED
        BY <2>1, <3>2, <3>3, <3>4 DEF Plan, Planned
    <2>2. CASE /\ wpc' = [wpc EXCEPT ![v] = "unlock"]
               /\ UNCHANGED <<wslot, wnew, wtodo>>
      BY <2>2
    <2>3. \A s \in Slots :
             (IF wargs[v].del = {} THEN {} ELSE word[s].flags \ wargs[v].del)
             \in SUBSET Flags
      BY DEF Words
    <2> QED
      BY <1>3, <2>1, <2>2, <2>3 DEF RangeStep
  <1>4. ASSUME NEW v \in Writers,
               \/ \E net \in Nets, del \in SUBSET Flags : ClearRange(v, net, del)
               \/ Announce(v) \/ Commit(v) \/ Unuse(v) \/ Unlock(v) \/ Crash(v)
               \/ \E f \in Fields : Store(v, f)
        PROVE  Same
    BY <1>4 DEF ClearRange, Announce, Commit, Unuse, Unlock, Crash, Store, Forget,
                AfterSlot
  <1>5. ASSUME NEW r \in Readers, (\E k \in Asked : LookupStart(r, k)) \/ ReaderStep(r)
        PROVE  Same
    BY <1>5 DEF LookupStart, ReaderStep, ReadVersion, CopyWord, CheckVersion, Return,
                writerVars
  <1>6. CASE Tick \/ UNCHANGED vars
    BY <1>6 DEF Tick, vars, writerVars
  <1> QED
    BY <1>1, <1>2, <1>3, <1>4, <1>5, <1>6 DEF Next, WriterStart, WriterStep

\* Every entry, committed or about to be, is at the place of its key.
PlaceInv ==
    /\ \A s \in Slots, k \in Key : Stores(s, k) => Place(k, s)
    /\ \A w \in Writers : wpc[w] = "store" => Place(wnew[w].key, wslot[w])

\* The slot an insertion chooses is the place of the key.
LEMMA PlannedPlace ==
    ASSUME PlaceInv, NEW k \in Key, NEW s \in Slots, Planned(k, s)
    PROVE  Place(k, s)
  <1>1. CASE Stores(s, k)
    BY <1>1 DEF PlaceInv
  <1>p. \A i \in ProbeIndices : ProbeAt(k, i) \in Slots
    BY ProbeInTable, TableAssumption DEF ProbeIndices
  <1>2. ASSUME NEW i \in ProbeIndices, Target(k, i), s = ProbeAt(k, i)
        PROVE  Place(k, s)
    <2>1. CASE i \in Matches(k)
      BY <1>2, <1>p, <2>1 DEF Matches, PlaceInv
    <2>2. CASE Matches(k) = {}
      BY <1>2, <2>2 DEF Matches, PlaceInv, Place, InWindow
    <2> QED
      BY <1>2, <2>1, <2>2 DEF Target, IsFirst
  <1> QED
    BY <1>1, <1>2 DEF Planned

\* Every step keeps entries at the places of their keys.
LEMMA PlaceStep ==
    ASSUME ~Hoist, TypeOK, SeqlockInv, FlagInv, PlaceInv, [Next]_vars
    PROVE  PlaceInv'
  <1> USE DEF TypeOK
  <1>0. TypeOK'
    BY TypeStep
  <1>1. ASSUME NEW s \in Slots, NEW k \in Key, Stores(s, k)'
        PROVE  \/ Stores(s, k)
               \/ \E w \in Writers : /\ Commit(w) /\ s = wslot[w] /\ wnew[w].key = k
                                     /\ wpc[w] = "store"
    <2>1. CASE ver'[s] = ver[s] /\ word'[s] = word[s]
      BY <1>1, <2>1 DEF Stores, Holds, Odd
    <2>2. ASSUME NEW w \in Writers, Commit(w), s = wslot[w]
          PROVE  wnew[w].key = k /\ wpc[w] = "store"
      <3>1. wpc[w] = "store" /\ wtodo[w] = {} /\ word'[s] = word[s]
        BY <2>2 DEF Commit
      <3>2. word[s].key = wnew[w].key
        BY <2>2, <3>1 DEF SeqlockInv, WriteInv, Fields
      <3> QED
        BY <1>1, <3>1, <3>2 DEF Stores, Holds
    <2> QED
      BY <1>1, <2>1, <2>2, Appears DEF Stores, Holds
  <1>2. ASSUME NEW w \in Writers, Commit(w)
        PROVE  PlaceInv'
    <2>1. /\ wpc[w] = "store" /\ Place(wnew[w].key, wslot[w])
          /\ \A v \in Writers : wpc'[v] # "store"
      BY <1>2 DEF Commit, PlaceInv, SeqlockInv, MutexInv, AfterSlot
    <2>2. ASSUME NEW s \in Slots, NEW k \in Key, Stores(s, k)', ~Stores(s, k)
          PROVE  s = wslot[w] /\ k = wnew[w].key
      <3>1. PICK v \in Writers : Commit(v) /\ s = wslot[v] /\ wnew[v].key = k
        BY <1>1, <2>2
      <3>2. v = w
        BY <2>1, <3>1 DEF Commit, SeqlockInv, MutexInv
      <3> QED
        BY <3>1, <3>2
    <2>3. ASSUME NEW s \in Slots, NEW t \in Slots, NEW k \in Key,
                 Stores(s, k)', Stores(t, k)'
          PROVE  s = t /\ InWindow(k, s)
      BY <2>1, <2>2, <2>3 DEF PlaceInv, Place
    <2> QED
      BY <2>1, <2>3 DEF PlaceInv, Place, InWindow, ProbeAt
  <1>3. CASE \A w \in Writers : ~Commit(w)
    <2>1. \A s \in Slots, k \in Key : Stores(s, k)' => Stores(s, k)
      BY <1>1, <1>3
    <2>2. \A s \in Slots, k \in Key : Place(k, s) => Place(k, s)'
      BY <2>1 DEF Place, InWindow, ProbeAt
    <2>3. ASSUME NEW w \in Writers, wpc'[w] = "store"
          PROVE  Place(wnew'[w].key, wslot'[w]) /\ wnew'[w].key \in Key
      <3>1. CASE wpc[w] = "store" /\ wslot'[w] = wslot[w] /\ wnew'[w] = wnew[w]
        BY <3>1 DEF PlaceInv, FlagInv, OwnFlags
      <3>2. CASE wnew'[w].key \in Key /\ Planned(wnew'[w].key, wslot'[w])
        BY <1>0, <3>2, PlannedPlace
      <3> QED
        BY <2>3, <3>1, <3>2, Plans
    <2>4. \A w \in Writers : wslot'[w] \in Slots
      BY <1>0
    <2>5. \A w \in Writers : wpc'[w] = "store" => Place(wnew[w].key, wslot[w])'
      BY <2>2, <2>3, <2>4
    <2>6. \A s \in Slots, k \in Key : Stores(s, k)' => Place(k, s)'
      BY <2>1, <2>2 DEF PlaceInv
    <2> QED
      BY <2>5, <2>6 DEF PlaceInv
  <1> QED
    BY <1>2, <1>3

\* A zeroed table has no entry.
LEMMA PlaceInit == Init => PlaceInv
  BY DEF Init, PlaceInv, Stores, Holds, EmptyWord

\* What holds of a table whose stores are in program order.
TableInv == TypeOK /\ SeqlockInv /\ FlagInv /\ PlaceInv

\* It holds in every reachable state.
LEMMA TableInvariant ==
    ASSUME ~Hoist
    PROVE  Spec => []TableInv
  <1>1. Init => TableInv
    BY TypeInit, SeqlockInit, FlagInit, PlaceInit DEF TableInv
  <1>2. TableInv /\ [Next]_vars => TableInv'
    BY TypeStep, SeqlockStep, FlagStep, PlaceStep DEF TableInv
  <1> QED
    BY <1>1, <1>2, PTL DEF Spec

\* A key never has two committed entries (OneEntryPerKey, the scan of
\* bs_flagged_ip_add).
THEOREM OneEntry ==
    ASSUME ~Hoist
    PROVE  Spec => []OneEntryPerKey
  <1>1. TableInv => OneEntryPerKey
    BY DEF TableInv, PlaceInv, Place, OneEntryPerKey
  <1> QED
    BY <1>1, TableInvariant, PTL

(***************************************************************************)
(* Lookups that miss.                                                      *)
(***************************************************************************)

\* The i-th slot of the window of k holds a live entry of k at time t.
LiveAt(k, t, i) == Stores(ProbeAt(k, i), k) /\ ~Stale(word[ProbeAt(k, i)], t)

\* A lookup whose key has had a live entry all along still has it before it, and
\* if it is copying it, the version it started from is still there.
Ahead(r) ==
    \E i \in ProbeIndices :
        /\ ri[r] <= i
        /\ LiveAt(rkey[r], rnow[r], i)
        /\ rpc[r] = "copy" /\ i = ri[r] => rv1[r] = ver[rSlot(r)]

SteadyInv ==
    \A r \in Readers :
        /\ rpc[r] = "idle" => ri[r] = 0
        /\ steady[r] => rpc[r] # "miss"
        /\ steady[r] /\ rpc[r] \in {"version", "copy"} => Ahead(r)

\* A live entry stays as it is until a writer announces a change of its slot.
LEMMA LiveStays ==
    ASSUME ~Hoist, TypeOK, SeqlockInv, [Next]_vars, NEW k \in Key, NEW t \in Nat,
           t >= 1, NEW i \in ProbeIndices, LiveAt(k, t, i),
           ~ \E w \in Writers : Announce(w) /\ ProbeAt(k, i) = wslot[w]
    PROVE  LiveAt(k, t, i)' /\ ver'[ProbeAt(k, i)] = ver[ProbeAt(k, i)]
  <1>1. PICK s \in Slots : s = ProbeAt(k, i)
    BY ProbeInTable, TableAssumption DEF ProbeIndices
  <1>2. ~Odd(ver[s]) /\ word[s].expires # 0
    <2>1. word[s].expires \in Nat
      BY DEF TypeOK, Words
    <2> QED
      BY <1>1, <2>1 DEF LiveAt, Stores, Stale
  <1>3. ver'[s] = ver[s] /\ word'[s] = word[s]
    BY <1>1, <1>2, Untouched
  <1> QED
    BY <1>1, <1>3 DEF LiveAt, Stores, Stale, Holds, ProbeAt, Odd

\* A step of another process leaves a reader alone and makes no lookup steady.
LEMMA OtherSteps ==
    ASSUME TypeOK, [Next]_vars, NEW r \in Readers,
           ~ReaderStep(r), \A k \in Asked : ~LookupStart(r, k)
    PROVE  /\ rpc'[r] = rpc[r] /\ rkey'[r] = rkey[r] /\ rnow'[r] = rnow[r]
           /\ ri'[r] = ri[r] /\ rv1'[r] = rv1[r]
           /\ steady'[r] => steady[r]
           /\ \A w \in Writers :
                 Announce(w) => steady'[r] = (steady[r] /\ ~Stores(wslot[w], rkey[r]))
  <1> USE DEF TypeOK
  <1> DEFINE Kept == /\ rpc'[r] = rpc[r] /\ rkey'[r] = rkey[r] /\ rnow'[r] = rnow[r]
                     /\ ri'[r] = ri[r] /\ rv1'[r] = rv1[r]
                     /\ steady'[r] => steady[r]
  <1>0. \A w \in Writers :
           Announce(w) => steady'[r] = (steady[r] /\ ~Stores(wslot[w], rkey[r]))
    BY DEF Announce, StillSteady
  <1>1. ASSUME NEW w \in Writers, WriterStart(w)
        PROVE  Kept
    BY <1>1 DEF WriterStart, Add, Clear, ClearRange, Lock, readerVars
  <1>2. ASSUME NEW w \in Writers, Announce(w)
        PROVE  Kept
    BY <1>0, <1>2 DEF Announce, readerVars
  <1>3. ASSUME NEW w \in Writers,
               \/ RangeStep(w) \/ Commit(w) \/ Unuse(w) \/ Unlock(w) \/ Crash(w)
               \/ \E f \in Fields : Store(w, f)
        PROVE  Kept
    BY <1>3 DEF RangeStep, Commit, Unuse, Unlock, Crash, Store, readerVars
  <1>4. ASSUME NEW q \in Readers, q # r,
               \/ \E k \in Asked : LookupStart(q, k)
               \/ ReadVersion(q)
        PROVE  Kept
    BY <1>4 DEF LookupStart, ReadVersion, Spin, NextSlot, Retry
  <1>5. ASSUME NEW q \in Readers, q # r,
               \/ \E f \in Fields : CopyWord(q, f)
               \/ CheckVersion(q)
               \/ Return(q)
        PROVE  Kept
    BY <1>5 DEF CopyWord, CheckVersion, Return, Spin, NextSlot, Retry
  <1>6. ASSUME UNCHANGED <<readerVars, steady>>
        PROVE  Kept
    BY <1>6 DEF readerVars
  <1> HIDE DEF Kept, TypeOK
  <1>7. ASSUME NEW q \in Readers, (\E k \in Asked : LookupStart(q, k)) \/ ReaderStep(q)
        PROVE  Kept
    <2>1. q # r
      BY <1>7
    <2> QED
      BY <1>4, <1>5, <1>7, <2>1 DEF ReaderStep
  <1>8. ASSUME NEW w \in Writers, WriterStep(w)
        PROVE  Kept
    BY <1>2, <1>3, <1>8 DEF WriterStep
  <1>9. ASSUME Tick \/ UNCHANGED vars
        PROVE  Kept
    BY <1>6, <1>9 DEF Tick, vars
  <1>10. Kept
    <2>1. ASSUME NEW w \in Writers, Crash(w)
          PROVE  Kept
      BY <1>3, <2>1
    <2> QED
      BY <1>1, <1>7, <1>8, <1>9, <2>1 DEF Next
  <1> QED
    BY <1>0, <1>10 DEF Kept

\* A step of the reader itself leaves the table alone.
LEMMA ReaderLeavesTable ==
    ASSUME NEW r \in Readers, ReaderStep(r) \/ \E k \in Asked : LookupStart(r, k)
    PROVE  UNCHANGED <<ver, word>>
  BY DEF LookupStart, ReaderStep, ReadVersion, CopyWord, CheckVersion, Return, tableVars

\* A reader goes past a slot only if it does not hold the live entry.
LEMMA PastSlot ==
    ASSUME TypeOK, SteadyInv, NEW r \in Readers, NextSlot(r),
           rpc[r] \in {"version", "copy"}, steady[r],
           UNCHANGED <<ver, word, rkey, rnow, steady>>,
           LiveAt(rkey[r], rnow[r], ri[r])
           => rpc[r] = "copy" /\ rv1[r] # ver[rSlot(r)]
    PROVE  rpc'[r] = "version" /\ Ahead(r)'
  <1> USE DEF TypeOK
  <1>0. ProbeIndices \subseteq 0 .. ProbeLimit - 1 /\ ProbeLimit \in Nat
    BY TableAssumption DEF ProbeIndices
  <1>1. PICK i \in ProbeIndices :
           /\ ri[r] <= i
           /\ LiveAt(rkey[r], rnow[r], i)
           /\ rpc[r] = "copy" /\ i = ri[r] => rv1[r] = ver[rSlot(r)]
    BY DEF SteadyInv, Ahead
  <1>2. i # ri[r]
    BY <1>1
  <1>3. ri[r] \in 0 .. ProbeLimit - 1 /\ i \in 0 .. ProbeLimit - 1
    BY <1>0
  <1>4. ri[r] + 1 <= i /\ ri[r] + 1 < ProbeLimit
    BY <1>0, <1>1, <1>2, <1>3
  <1>5. rpc'[r] = "version" /\ ri'[r] = ri[r] + 1
    <2>1. ri[r] + 1 # ProbeLimit
      BY <1>0, <1>3, <1>4
    <2> QED
      BY <2>1 DEF NextSlot
  <1>6. LiveAt(rkey[r], rnow[r], i)'
    BY <1>1 DEF LiveAt, Stores, Stale, Holds, ProbeAt, Odd
  <1> QED
    BY <1>4, <1>5, <1>6 DEF Ahead

\* Every step keeps a steady entry ahead of its lookup.
LEMMA SteadyStep ==
    ASSUME ~Hoist, TypeOK, SeqlockInv, SteadyInv, [Next]_vars, NEW r \in Readers
    PROVE  /\ rpc'[r] = "idle" => ri'[r] = 0
           /\ steady'[r] => rpc'[r] # "miss"
           /\ steady'[r] /\ rpc'[r] \in {"version", "copy"} => Ahead(r)'
  <1> USE DEF TypeOK
  <1> DEFINE Good == /\ rpc'[r] = "idle" => ri'[r] = 0
                     /\ steady'[r] => rpc'[r] # "miss"
                     /\ steady'[r] /\ rpc'[r] \in {"version", "copy"} => Ahead(r)'
  <1>0. /\ rpc[r] = "idle" => ri[r] = 0
        /\ steady[r] => rpc[r] # "miss"
        /\ steady[r] /\ rpc[r] \in {"version", "copy"} => Ahead(r)
    BY DEF SteadyInv
  <1>k. rpc[r] # "idle" => rkey[r] \in Key /\ rnow[r] >= 1
    BY TableAssumption DEF SeqlockInv, CopyInv
  <1>1. CASE ~ReaderStep(r) /\ \A k \in Asked : ~LookupStart(r, k)
    <2>1. /\ rpc'[r] = rpc[r] /\ rkey'[r] = rkey[r] /\ rnow'[r] = rnow[r]
          /\ ri'[r] = ri[r] /\ rv1'[r] = rv1[r]
          /\ steady'[r] => steady[r]
          /\ \A w \in Writers :
                Announce(w) => steady'[r] = (steady[r] /\ ~Stores(wslot[w], rkey[r]))
      BY <1>1, OtherSteps
    <2>2. ASSUME steady'[r], rpc'[r] \in {"version", "copy"}
          PROVE  Ahead(r)'
      <3>1. PICK i \in ProbeIndices :
               /\ ri[r] <= i
               /\ LiveAt(rkey[r], rnow[r], i)
               /\ rpc[r] = "copy" /\ i = ri[r] => rv1[r] = ver[rSlot(r)]
        BY <1>0, <2>1, <2>2 DEF Ahead
      <3>2. ~ \E w \in Writers : Announce(w) /\ ProbeAt(rkey[r], i) = wslot[w]
        BY <2>1, <2>2, <3>1 DEF LiveAt
      <3>3. PICK k \in Key, t \in Nat : k = rkey[r] /\ t = rnow[r] /\ t >= 1
        BY <1>k, <2>1, <2>2
      <3>4. LiveAt(k, t, i)' /\ ver'[ProbeAt(k, i)] = ver[ProbeAt(k, i)]
        BY <3>1, <3>2, <3>3, LiveStays
      <3>5. LiveAt(rkey[r], rnow[r], i)'
        BY <2>1, <3>3, <3>4 DEF LiveAt, Stores, Stale, Holds, ProbeAt, Odd
      <3>6. rpc'[r] = "copy" /\ i = ri'[r] => rv1'[r] = ver'[rSlot(r)']
        BY <2>1, <3>1, <3>3, <3>4 DEF rSlot, ProbeAt
      <3> QED
        BY <2>1, <3>1, <3>5, <3>6 DEF Ahead
    <2> QED
      BY <1>0, <2>1, <2>2
  <1>2. ASSUME NEW k \in Asked, LookupStart(r, k)
        PROVE  Good
    <2>1. /\ rpc'[r] = "version" /\ rkey'[r] = k /\ rnow'[r] = now /\ ri'[r] = 0
          /\ UNCHANGED <<ver, word>>
          /\ steady'[r] = \E i \in ProbeIndices : LiveAt(k, now, i)
      BY <1>0, <1>2 DEF LookupStart, LiveAt, tableVars
    <2>2. ASSUME NEW i \in ProbeIndices, LiveAt(k, now, i)
          PROVE  0 <= i /\ LiveAt(rkey[r], rnow[r], i)'
      BY <2>1, <2>2, TableAssumption
         DEF LiveAt, Stores, Stale, Holds, ProbeAt, Odd, ProbeIndices
    <2> QED
      BY <2>1, <2>2 DEF Ahead
  <1>t. ASSUME ReaderStep(r)
        PROVE  UNCHANGED <<ver, word>>
    BY <1>t, ReaderLeavesTable
  <1>3. ASSUME ReadVersion(r)
        PROVE  Good
    <2>0. /\ rpc[r] = "version" /\ UNCHANGED <<ver, word, rkey, rnow, steady>>
      BY <1>3 DEF ReadVersion, tableVars
    <2>1. CASE Odd(ver[rSlot(r)]) /\ NextSlot(r)
      <3>1. ~LiveAt(rkey[r], rnow[r], ri[r])
        BY <2>1 DEF LiveAt, Stores, rSlot
      <3>2. steady[r] => rpc'[r] = "version" /\ Ahead(r)'
        BY <2>0, <2>1, <3>1, PastSlot
      <3>3. rpc'[r] # "idle" /\ steady'[r] = steady[r]
        BY <2>0, <2>1 DEF NextSlot
      <3> QED
        BY <3>2, <3>3
    <2>2. CASE Retry(r)
      <3>1. rpc'[r] = "version" /\ UNCHANGED <<ri, rkey, rnow, steady>>
        BY <2>0, <2>2 DEF Retry
      <3>2. steady[r] => Ahead(r)'
        BY <1>0, <2>0, <3>1 DEF Ahead, LiveAt, Stores, Stale, Holds, ProbeAt, Odd
      <3> QED
        BY <3>1, <3>2
    <2>3. CASE /\ rv1' = [rv1 EXCEPT ![r] = ver[rSlot(r)]]
               /\ rpc' = [rpc EXCEPT ![r] = "copy"]
               /\ UNCHANGED <<ri, rspins, rgot, rloc>>
      <3>1. steady[r] => Ahead(r)'
        BY <1>0, <2>0, <2>3 DEF Ahead, LiveAt, Stores, Stale, Holds, ProbeAt, Odd, rSlot
      <3> QED
        BY <2>0, <2>3, <3>1
    <2> QED
      BY <1>3, <2>1, <2>2, <2>3 DEF ReadVersion, Spin
  <1>4. ASSUME NEW f \in Fields, CopyWord(r, f)
        PROVE  Good
    <2>1. UNCHANGED <<ver, word, rpc, rkey, rnow, ri, rv1, steady>>
      BY <1>4 DEF CopyWord, tableVars
    <2>2. Ahead(r) => Ahead(r)'
      BY <2>1 DEF Ahead, LiveAt, Stores, Stale, Holds, ProbeAt, Odd, rSlot
    <2> QED
      BY <1>0, <2>1, <2>2
  <1>5. ASSUME CheckVersion(r)
        PROVE  Good
    <2>0. /\ rpc[r] = "copy" /\ rgot[r] = Fields
          /\ UNCHANGED <<ver, word, rkey, rnow, steady>>
      BY <1>5 DEF CheckVersion, tableVars
    <2>1. CASE ver[rSlot(r)] # rv1[r] /\ NextSlot(r)
      <3>1. steady[r] => rpc'[r] = "version" /\ Ahead(r)'
        BY <2>0, <2>1, PastSlot
      <3>2. rpc'[r] # "idle" /\ steady'[r] = steady[r]
        BY <2>0, <2>1 DEF NextSlot
      <3> QED
        BY <3>1, <3>2
    <2>2. CASE Retry(r)
      <3>1. rpc'[r] = "version" /\ UNCHANGED <<ri, rkey, rnow, steady>>
        BY <2>0, <2>2 DEF Retry
      <3>2. steady[r] => Ahead(r)'
        BY <1>0, <2>0, <3>1 DEF Ahead, LiveAt, Stores, Stale, Holds, ProbeAt, Odd
      <3> QED
        BY <3>1, <3>2
    <2>3. CASE ver[rSlot(r)] = rv1[r] /\ ~Answers(r) /\ NextSlot(r)
      <3>1. ~LiveAt(rkey[r], rnow[r], ri[r])
        <4> SUFFICES ASSUME LiveAt(rkey[r], rnow[r], ri[r])
                     PROVE  FALSE
          OBVIOUS
        <4>1. /\ Stores(rSlot(r), rkey[r]) /\ ~Stale(word[rSlot(r)], rnow[r])
              /\ rSlot(r) \in Slots
          BY <1>k, <2>0, ProbeInTable, TableAssumption
             DEF LiveAt, rSlot, ProbeIndices
        <4>2. word[rSlot(r)] \in Words /\ rloc[r] \in Words /\ rnow[r] \in Nat
          BY <4>1
        <4>3. word[rSlot(r)].expires # 0
          BY <1>k, <2>0, <4>1, <4>2 DEF Stale, Words
        <4>4. \A f \in Fields : rloc[r][f] = word[rSlot(r)][f]
          BY <2>0, <2>3, <4>3 DEF SeqlockInv, CopyInv
        <4>5. rloc[r] = word[rSlot(r)]
          BY <4>2, <4>4, WordsAgree
        <4> QED
          BY <2>3, <4>1, <4>5 DEF Answers, Stores
      <3>2. steady[r] => rpc'[r] = "version" /\ Ahead(r)'
        BY <2>0, <2>3, <3>1, PastSlot
      <3>3. rpc'[r] # "idle" /\ steady'[r] = steady[r]
        BY <2>0, <2>3 DEF NextSlot
      <3> QED
        BY <3>2, <3>3
    <2>4. CASE rpc' = [rpc EXCEPT ![r] = "hit"]
      BY <2>4
    <2> QED
      BY <1>5, <2>1, <2>2, <2>3, <2>4 DEF CheckVersion, Spin
  <1>6. ASSUME Return(r)
        PROVE  Good
    BY <1>6 DEF Return
  <1> HIDE DEF Good, TypeOK
  <1>7. ASSUME ReaderStep(r) \/ \E k \in Asked : LookupStart(r, k)
        PROVE  Good
    <2>1. ASSUME NEW k \in Asked, LookupStart(r, k)
          PROVE  Good
      BY <1>2, <2>1
    <2>2. ASSUME NEW f \in Fields, CopyWord(r, f)
          PROVE  Good
      BY <1>4, <2>2
    <2> QED
      BY <1>3, <1>5, <1>6, <1>7, <2>1, <2>2 DEF ReaderStep
  <1> QED
    BY <1>1, <1>7 DEF Good

\* A lookup misses only if its key had no live entry, or a writer was changing
\* it, at some moment of the lookup (MissJustified, bs_flagged_ip_lookup).
THEOREM MissesJustified ==
    ASSUME ~Hoist
    PROVE  Spec => []MissJustified
  <1>1. Init => SteadyInv
    BY DEF Init, SteadyInv
  <1>2. TypeOK /\ SeqlockInv /\ SteadyInv /\ [Next]_vars => SteadyInv'
    BY SteadyStep DEF SteadyInv
  <1>3. SteadyInv => MissJustified
    BY DEF SteadyInv, MissJustified
  <1> QED
    BY <1>1, <1>2, <1>3, SeqlockCorrect, PTL DEF Spec

(***************************************************************************)
(* The table is a flag store.                                              *)
(***************************************************************************)

\* The flags of the entries of a key.
LEMMA InEntry ==
    ASSUME NEW k \in Key
    PROVE  \A f : f \in entry[k] <=> \E s \in Slots : Stores(s, k) /\ f \in word[s].flags
  BY DEF entry

\* The same after a step.
LEMMA InNextEntry ==
    ASSUME NEW k \in Key
    PROVE  \A f : f \in entry'[k]
                  <=> \E s \in Slots : Stores(s, k)' /\ f \in word'[s].flags
  BY DEF entry

\* Nothing changes for a key when none of its entries does.
LEMMA EntryKept ==
    ASSUME NEW k \in Key,
           \A s \in Slots : Stores(s, k) <=> Stores(s, k)',
           \A s \in Slots : Stores(s, k) => word'[s] = word[s]
    PROVE  entry'[k] = entry[k]
  <1>1. \A f : f \in entry'[k] <=> f \in entry[k]
    BY InEntry, InNextEntry
  <1> QED
    BY <1>1 DEF entry

\* A key whose only entry goes has no flags.
LEMMA EntryGone ==
    ASSUME NEW k \in Key, \A s \in Slots : ~Stores(s, k)'
    PROVE  entry'[k] = {}
  <1>1. \A f : f \notin entry'[k]
    BY InNextEntry
  <1> QED
    BY <1>1 DEF entry

\* A key has the flags of its entry.
LEMMA EntryShown ==
    ASSUME NEW k \in Key, NEW s \in Slots, Stores(s, k)',
           \A t \in Slots : Stores(t, k)' => t = s
    PROVE  entry'[k] = word'[s].flags
  <1>1. \A f : f \in entry'[k] <=> f \in word'[s].flags
    BY InNextEntry
  <1> QED
    BY <1>1 DEF entry

\* A function that changes at one argument.
LEMMA ChangedAt ==
    ASSUME NEW k \in Key, \A j \in Key \ {k} : entry'[j] = entry[j]
    PROVE  entry' = [entry EXCEPT ![k] = entry'[k]]
  <1>1. entry = [j \in Key |-> entry[j]]
    BY Zenon DEF entry
  <1>2. entry' = [j \in Key |-> entry'[j]]
    BY Zenon DEF entry
  <1> QED
    BY <1>1, <1>2

\* Nothing changes when no key's entry does.
LEMMA AllKept ==
    ASSUME \A k \in Key : entry'[k] = entry[k]
    PROVE  entry' = entry
  BY DEF entry

AbstractStep == [Abstract!Next]_<<raised, entry>>

\* A slot that loses its entry takes the flags of one key away.
LEMMA LosesEntry ==
    ASSUME TypeOK, FlagInv, PlaceInv, NEW s \in Slots,
           \A k \in Key : ~Stores(s, k)',
           \A t \in Slots : t # s => ver'[t] = ver[t] /\ word'[t] = word[t],
           UNCHANGED raised
    PROVE  AbstractStep
  <1>1. \A t \in Slots, k \in Key : t # s => (Stores(t, k) <=> Stores(t, k)')
    BY DEF Stores, Holds, Odd
  <1>2. CASE \A k \in Key : ~Stores(s, k)
    <2>1. \A k \in Key : entry'[k] = entry[k]
      BY <1>1, <1>2, EntryKept
    <2> QED
      BY <2>1, AllKept DEF AbstractStep
  <1>3. ASSUME NEW k \in Key, Stores(s, k)
        PROVE  AbstractStep
    <2>1. \A j \in Key \ {k} : entry'[j] = entry[j]
      <3> SUFFICES ASSUME NEW j \in Key \ {k}
                   PROVE  entry'[j] = entry[j]
        OBVIOUS
      <3>1. ~Stores(s, j)
        BY <1>3 DEF Stores, Holds
      <3> QED
        BY <1>1, <3>1, EntryKept
    <2>2. entry'[k] = {}
      BY <1>1, <1>3, EntryGone DEF PlaceInv, Place
    <2>3. entry' = [entry EXCEPT ![k] = {}]
      BY <2>1, <2>2, ChangedAt
    <2>4. {} \in SUBSET Flags /\ {} \subseteq raised[k]
      OBVIOUS
    <2> QED
      BY <2>3, <2>4 DEF AbstractStep, Abstract!Next, Abstract!Publish
  <1> QED
    BY <1>2, <1>3

\* A slot that gains an entry shows flags that were raised for its key.
LEMMA GainsEntry ==
    ASSUME TypeOK, TypeOK', PlaceInv', NEW s \in Slots, NEW k \in Key,
           \A j \in Key : ~Stores(s, j), Stores(s, k)',
           \A t \in Slots : t # s => ver'[t] = ver[t] /\ word'[t] = word[t],
           UNCHANGED raised, word'[s].flags \subseteq raised[k]
    PROVE  AbstractStep
  <1>1. \A t \in Slots, j \in Key : t # s => (Stores(t, j) <=> Stores(t, j)')
    BY DEF Stores, Holds, Odd
  <1>2. \A j \in Key \ {k} : entry'[j] = entry[j]
    <2> SUFFICES ASSUME NEW j \in Key \ {k}
                 PROVE  entry'[j] = entry[j]
      OBVIOUS
    <2>1. ~Stores(s, j)'
      BY DEF Stores, Holds
    <2> QED
      BY <1>1, <2>1, EntryKept
  <1>3. \A t \in Slots : Stores(t, k)' => t = s
    BY DEF PlaceInv, Place
  <1>4. entry'[k] = word'[s].flags
    BY <1>3, EntryShown
  <1>5. PICK F \in SUBSET Flags : F = word'[s].flags
    BY DEF TypeOK, Words
  <1>6. entry' = [entry EXCEPT ![k] = F]
    BY <1>2, <1>4, <1>5, ChangedAt
  <1> QED
    BY <1>5, <1>6 DEF AbstractStep, Abstract!Next, Abstract!Publish

\* Every step of the table is one of the store, or none.
LEMMA StoreStep ==
    ASSUME ~Hoist, TableInv, TableInv', [Next]_vars
    PROVE  AbstractStep
  <1> USE DEF TableInv
  <1>same. ASSUME UNCHANGED <<ver, word>>
           PROVE  entry' = entry
    BY <1>same DEF entry, Stores, Holds, Odd
  <1>1. ASSUME NEW w \in Writers, NEW k \in Key, NEW F \in SUBSET Flags,
               NEW ttl \in TTLs, Add(w, k, F, ttl)
        PROVE  AbstractStep
    <2>1. raised' = [raised EXCEPT ![k] = @ \cup F] /\ UNCHANGED <<ver, word>>
      BY <1>1 DEF Add, Lock, tableVars
    <2> QED
      BY <1>same, <2>1 DEF AbstractStep, Abstract!Next, Abstract!Raise
  <1>2. ASSUME NEW w \in Writers, NEW k \in Key, NEW del \in SUBSET Flags,
               NEW set \in SUBSET Flags, NEW replace \in BOOLEAN,
               Clear(w, k, del, set, replace)
        PROVE  AbstractStep
    <2>1. UNCHANGED <<ver, word>>
          /\ raised' = [raised EXCEPT ![k] = IF replace THEN @ \cup set ELSE @]
      BY <1>2 DEF Clear, Lock, tableVars
    <2>2. CASE replace
      BY <1>same, <2>1, <2>2 DEF AbstractStep, Abstract!Next, Abstract!Raise
    <2>3. CASE ~replace
      BY <1>same, <2>1, <2>3 DEF AbstractStep, TypeOK
    <2> QED
      BY <2>2, <2>3
  <1>3. ASSUME NEW w \in Writers,
               \/ \E net \in Nets, del \in SUBSET Flags : ClearRange(w, net, del)
               \/ RangeStep(w) \/ Unlock(w) \/ Crash(w)
        PROVE  UNCHANGED <<ver, word, raised>>
    BY <1>3 DEF ClearRange, Lock, RangeStep, Unlock, Crash, tableVars
  <1>4. ASSUME NEW r \in Readers, (\E k \in Asked : LookupStart(r, k)) \/ ReaderStep(r)
        PROVE  UNCHANGED <<ver, word, raised>>
    BY <1>4 DEF LookupStart, ReaderStep, ReadVersion, CopyWord, CheckVersion, Return,
                tableVars
  <1>5. ASSUME Tick \/ UNCHANGED vars
        PROVE  UNCHANGED <<ver, word, raised>>
    BY <1>5 DEF Tick, vars, tableVars
  <1>6. ASSUME NEW w \in Writers, Announce(w)
        PROVE  AbstractStep
    <2>1. PICK s \in Slots : s = wslot[w]
      BY DEF TypeOK
    <2>2. Odd(ver'[s]) /\ UNCHANGED <<word, raised>>
          /\ \A t \in Slots : t # s => ver'[t] = ver[t]
      BY <1>6, <2>1, OddSuccessor DEF Announce, TypeOK
    <2>3. \A k \in Key : ~Stores(s, k)'
      BY <2>2 DEF Stores, Odd
    <2> QED
      BY <2>2, <2>3, LosesEntry
  <1>7. ASSUME NEW w \in Writers, Unuse(w)
        PROVE  AbstractStep
    <2>1. PICK s \in Slots : s = wslot[w]
      BY DEF TypeOK
    <2>2. /\ word'[s] = [word[s] EXCEPT !.used = FALSE]
          /\ UNCHANGED <<ver, raised>>
          /\ \A t \in Slots : t # s => word'[t] = word[t]
      BY <1>7, <2>1 DEF Unuse, TypeOK
    <2>3. ~word'[s].used
      BY <2>2 DEF TypeOK, Words
    <2>4. \A k \in Key : ~Stores(s, k)'
      BY <2>3 DEF Stores, Holds
    <2> QED
      BY <2>2, <2>4, LosesEntry
  <1>8. ASSUME NEW w \in Writers, NEW f \in Fields, Store(w, f)
        PROVE  AbstractStep
    <2>1. PICK s \in Slots : s = wslot[w]
      BY DEF TypeOK
    <2>2. Odd(ver[s])
      BY <1>8, <2>1 DEF Store, StoreOrder, Fields, SeqlockInv, WriteInv
    <2>3. UNCHANGED <<ver, raised>> /\ \A t \in Slots : t # s => word'[t] = word[t]
      BY <1>8, <2>1 DEF Store
    <2>4. \A k \in Key : ~Stores(s, k)'
      BY <2>2, <2>3 DEF Stores, Odd
    <2> QED
      BY <2>3, <2>4, LosesEntry
  <1>9. ASSUME NEW w \in Writers, Commit(w)
        PROVE  AbstractStep
    <2>1. PICK s \in Slots : s = wslot[w]
      BY DEF TypeOK
    <2>2. /\ wpc[w] = "store" /\ Odd(ver[s]) /\ ver'[s] = ver[s] + 1
          /\ UNCHANGED <<word, raised>>
          /\ \A t \in Slots : t # s => ver'[t] = ver[t]
      BY SMTT(30), <1>9, <2>1 DEF Commit, SeqlockInv, WriteInv, TypeOK
    <2>3. /\ word[s].key = wnew[w].key /\ word[s].flags = wnew[w].flags
          /\ OwnFlags(wnew[w])
      <3>1. wtodo[w] = {}
        BY <1>9 DEF Commit
      <3> QED
        BY <2>1, <2>2, <3>1 DEF SeqlockInv, WriteInv, FlagInv, Fields
    <2>4. PICK k \in Key : k = word[s].key /\ word[s].flags \subseteq raised[k]
      BY <2>3 DEF OwnFlags
    <2>5. \A j \in Key : ~Stores(s, j)
      BY <2>2 DEF Stores
    <2>6. CASE word[s].used
      <3>1. ver[s] \in Nat
        BY DEF TypeOK
      <3>2. ~Odd(ver'[s])
        BY <2>2, <3>1, OddSuccessor
      <3>3. Stores(s, k)'
        BY <2>2, <2>4, <2>6, <3>2 DEF Stores, Holds, Odd
      <3> QED
        BY <2>2, <2>4, <2>5, <3>3, GainsEntry
    <2>7. CASE ~word[s].used
      <3>1. \A j \in Key : ~Stores(s, j)'
        BY <2>2, <2>7 DEF Stores, Holds
      <3> QED
        BY <2>2, <3>1, LosesEntry
    <2> QED
      BY <2>6, <2>7
  <1>10. ASSUME UNCHANGED <<ver, word, raised>>
         PROVE  AbstractStep
    BY <1>same, <1>10 DEF AbstractStep
  <1> HIDE DEF AbstractStep
  <1>11. ASSUME NEW w \in Writers, WriterStart(w)
         PROVE  AbstractStep
    BY <1>1, <1>2, <1>3, <1>10, <1>11 DEF WriterStart
  <1>12. ASSUME NEW w \in Writers, WriterStep(w) \/ Crash(w)
         PROVE  AbstractStep
    BY <1>3, <1>6, <1>7, <1>8, <1>9, <1>10, <1>12 DEF WriterStep
  <1> QED
    BY <1>4, <1>5, <1>10, <1>11, <1>12 DEF Next

\* The table keeps, of what was raised for a key, some flags under that key, and
\* never changes the flags of two keys at once (ImplementsFlagStore, all of the
\* flagged-IP table of shm.c).
THEOREM TableIsFlagStore ==
    ASSUME ~Hoist
    PROVE  Spec => ImplementsFlagStore
  <1>1. Init => Abstract!Init
    BY DEF Init, Abstract!Init, entry, Stores, Holds, EmptyWord
  <1>2. TableInv /\ TableInv' /\ [Next]_vars => [Abstract!Next]_<<raised, entry>>
    BY StoreStep DEF AbstractStep
  <1> QED
    BY <1>1, <1>2, TableInvariant, PTL DEF Spec, ImplementsFlagStore, Abstract!Spec
=============================================================================
