---------------------------- MODULE FlaggedTable ----------------------------
(***************************************************************************)
(* The flagged-IP table of shm.c: open addressing over a shared-memory     *)
(* array, one seqlock per slot, one global mutex for all writers.          *)
(*                                                                         *)
(* Writers (bs_flagged_ip_add, bs_flagged_ip_clear and                     *)
(* bs_flagged_ip_clear_range) run in request processes.  The first two try *)
(* the mutex and drop the operation when it is busy, the third waits.      *)
(* Every slot store is a step of its own, so a reader (bs_flagged_ip_lookup)*)
(* can see a slot half written, and a writer can crash at any store: the   *)
(* kernel then releases its mutex and the slot keeps an odd version.       *)
(*                                                                         *)
(* A mutex holder is the only process that changes slots, so what it reads *)
(* while it probes is read in one step with the locking of the mutex.  The *)
(* clock that an add reads just before is read in that step too.           *)
(***************************************************************************)
EXTENDS Integers, FiniteSets

CONSTANTS
    Capacity,    \* number of slots, bs_shm.flagged_capacity
    ProbeLimit,  \* BS_FLAGGED_PROBE_LIMIT
    MaxSpins,    \* BS_FLAGGED_MAX_READ_SPINS
    Key,         \* pairs of a 16-byte address and an ns_id, one word here
    NoKey,       \* what a zeroed slot holds: the null address
    Asked,       \* the keys that readers look up
    Flags,       \* bits of the flag word
    Bucket,      \* what SipHash modulo the capacity yields for a key
    Nets,        \* prefixes an operator may clear, each the set of the keys
                 \* of one namespace that match it
    TTLs,        \* lifetimes in seconds
    Writers,     \* processes that change the table
    Readers,     \* processes that look addresses up
    NoWriter,    \* the mutex is free
    Hoist,       \* TRUE: payload stores may become visible before the odd
                 \* version that announces them
    MaxTime,     \* bound on the clock
    MaxOps,      \* bound on the write operations that get the mutex
    MaxCrashes   \* bound on the writers that die holding the mutex

Slots == 0 .. Capacity - 1

ASSUME TableAssumption ==
    /\ Capacity \in Nat \ {0}
    /\ ProbeLimit \in Nat \ {0}
    /\ MaxSpins \in Nat \ {0}
    /\ Bucket \in [Key -> Slots]
    /\ NoKey \notin Key /\ Asked \subseteq Key
    /\ Nets \subseteq SUBSET Key
    /\ TTLs \subseteq Nat \ {0}
    /\ NoWriter \notin Writers
    /\ Hoist \in BOOLEAN
    /\ MaxTime \in Nat /\ MaxOps \in Nat /\ MaxCrashes \in Nat

(***************************************************************************)
(* bs_flagged_ip_slot without its version: words that are stored and       *)
(* loaded one by one.                                                      *)
(***************************************************************************)
Fields == {"used", "key", "flags", "expires"}

Words == [used : BOOLEAN, key : Key \cup {NoKey}, flags : SUBSET Flags,
          expires : Nat]

\* Program order of the stores of bs_flagged_write_slot and of the loads of
\* bs_flagged_ip_lookup.
StoreOrder == [odd |-> 0, used |-> 1, key |-> 2, flags |-> 3, expires |-> 4]
LoadOrder  == [used |-> 1, key |-> 2, flags |-> 3, expires |-> 4]

EmptyWord == [used |-> FALSE, key |-> NoKey, flags |-> {}, expires |-> 0]

VARIABLES
    now,      \* apr_time_sec(apr_time_now())
    ver,      \* the version of each slot
    word,     \* the payload of each slot
    mutex,    \* the writer that holds bs_shm.mutex
    wpc,      \* where each writer is
    wslot,    \* the slot it writes
    wnew,     \* the payload it writes
    wtodo,    \* the stores of bs_flagged_write_slot it has still to make
    wargs,    \* the arguments of a range clear
    rpc,      \* where each reader is
    rkey,     \* the key it looks up
    rnow,     \* the time it read when it started
    ri,       \* its place in the probe sequence
    rv1,      \* the version it saw before it copied the slot
    rspins,   \* its failed attempts on this slot
    rgot,     \* the words it has copied
    rloc,     \* its copy
    raised,   \* history: the flags ever added or set for each key
    steady,   \* history: the key a reader looks up has had one live entry,
              \* committed and left alone, since the lookup began
    ops,      \* write operations so far
    crashes   \* crashes so far

tableVars  == <<ver, word>>
writerVars == <<wpc, wslot, wnew, wtodo, wargs>>
readerVars == <<rpc, rkey, rnow, ri, rv1, rspins, rgot, rloc>>
vars == <<now, tableVars, mutex, writerVars, readerVars, raised, steady, ops,
          crashes>>

Odd(v) == v % 2 = 1

\* (base + i) % capacity
ProbeAt(k, i) == (Bucket[k] + i) % Capacity

ProbeIndices == 0 .. ProbeLimit - 1

Holds(w, k) == w.used /\ w.key = k

\* the slot is quiescent and its entry is that of k
Stores(s, k) == ~Odd(ver[s]) /\ Holds(word[s], k)

\* An entry is stale once its expiry is past.
Stale(w, t) == w.expires < t

----------------------------------------------------------------------------
(* Choosing the slot to write *)

IsFirst(S, i) == i \in S /\ \A j \in S : i <= j

Matches(k) == {i \in ProbeIndices : Stores(ProbeAt(k, i), k)}

\* Slots an insertion may take: one whose writer died, an empty one, a
\* stale one.
Victims(k) ==
    {i \in ProbeIndices :
        LET s == ProbeAt(k, i)
        IN  Odd(ver[s]) \/ ~word[s].used \/ Stale(word[s], now)}

\* Mutant of Target: the first slot that can be written ends the scan.
TargetFirstFit(k, i) ==
    \/ IsFirst(Matches(k) \cup Victims(k), i)
    \/ Matches(k) \cup Victims(k) = {} /\ i = 0

\* The whole probe window is scanned for the key before a victim is taken;
\* a window of live strangers is overwritten at its first slot.
Target(k, i) ==
    \/ IsFirst(Matches(k), i)
    \/ Matches(k) = {} /\ IsFirst(Victims(k), i)
    \/ Matches(k) = {} /\ Victims(k) = {} /\ i = 0

\* Merge the flags, keep the later expiry.
Merged(s, k, F, exp) ==
    IF Stores(s, k)
      THEN [word[s] EXCEPT !.flags   = @ \cup F,
                           !.expires = IF @ > exp THEN @ ELSE exp]
      ELSE [used |-> TRUE, key |-> k, flags |-> F, expires |-> exp]

\* A word without flags is written with a zero expiry before it is released.
Reduced(w, F) ==
    IF F = {} THEN [w EXCEPT !.flags = {}, !.expires = 0]
              ELSE [w EXCEPT !.flags = F]

\* The slots a range clear still has to rewrite.
Remaining(a) ==
    {s \in Slots :
        /\ ~Odd(ver[s])
        /\ word[s].used /\ word[s].key \in a.net
        /\ word[s].flags # IF a.del = {} THEN {} ELSE word[s].flags \ a.del}
----------------------------------------------------------------------------

RangeArgs == [range : BOOLEAN, net : SUBSET Key, del : SUBSET Flags]

NoRange == [range |-> FALSE, net |-> {}, del |-> {}]

Init ==
    /\ now = 1
    /\ ver = [s \in Slots |-> 0]
    /\ word = [s \in Slots |-> EmptyWord]
    /\ mutex = NoWriter
    /\ wpc = [w \in Writers |-> "idle"]
    /\ wslot = [w \in Writers |-> 0]
    /\ wnew = [w \in Writers |-> EmptyWord]
    /\ wtodo = [w \in Writers |-> {}]
    /\ wargs = [w \in Writers |-> NoRange]
    /\ rpc = [r \in Readers |-> "idle"]
    /\ rkey = [r \in Readers |-> NoKey]
    /\ rnow = [r \in Readers |-> 0]
    /\ ri = [r \in Readers |-> 0]
    /\ rv1 = [r \in Readers |-> 0]
    /\ rspins = [r \in Readers |-> 0]
    /\ rgot = [r \in Readers |-> {}]
    /\ rloc = [r \in Readers |-> EmptyWord]
    /\ raised = [k \in Key |-> {}]
    /\ steady = [r \in Readers |-> FALSE]
    /\ ops = 0
    /\ crashes = 0

----------------------------------------------------------------------------
(* Writers.  A busy mutex drops an add or a clear: nothing changes. *)

\* The mutex is taken for one more operation.
Lock(w) ==
    /\ wpc[w] = "idle"
    /\ mutex = NoWriter
    /\ ops < MaxOps
    /\ mutex' = w
    /\ ops' = ops + 1
    /\ UNCHANGED <<now, tableVars, readerVars, steady, crashes>>

\* Slot s is to be rewritten with the payload new.
Plan(w, s, new) ==
    /\ wslot' = [wslot EXCEPT ![w] = s]
    /\ wnew' = [wnew EXCEPT ![w] = new]
    /\ wtodo' = [wtodo EXCEPT ![w] = Fields \cup {"odd"}]
    /\ wpc' = [wpc EXCEPT ![w] = "store"]

\* bs_flagged_ip_add
Add(w, k, F, ttl) ==
    /\ F # {}
    /\ Lock(w)
    /\ \E i \in ProbeIndices :
        /\ Target(k, i)
        /\ Plan(w, ProbeAt(k, i), Merged(ProbeAt(k, i), k, F, now + ttl))
    /\ raised' = [raised EXCEPT ![k] = @ \cup F]
    /\ UNCHANGED wargs

\* bs_flagged_ip_clear: the first match is rewritten without the flags del,
\* or with the flags set in their place.  The argument the code does not look
\* at is {} here.
Clear(w, k, del, set, replace) ==
    /\ IF replace THEN del = {} ELSE del # {} /\ set = {}
    /\ Lock(w)
    /\ \/ \E i \in ProbeIndices :
            LET s == ProbeAt(k, i)
            IN  /\ IsFirst(Matches(k), i)
                /\ Plan(w, s, Reduced(word[s], IF replace THEN set
                                               ELSE word[s].flags \ del))
       \/ /\ Matches(k) = {}
          /\ wpc' = [wpc EXCEPT ![w] = "unlock"]
          /\ UNCHANGED <<wslot, wnew, wtodo>>
    /\ raised' = [raised EXCEPT ![k] = IF replace THEN @ \cup set ELSE @]
    /\ UNCHANGED wargs

\* bs_flagged_ip_clear_range takes the mutex ...
ClearRange(w, net, del) ==
    /\ Lock(w)
    /\ wargs' = [wargs EXCEPT ![w] = [range |-> TRUE, net |-> net,
                                      del |-> del]]
    /\ wpc' = [wpc EXCEPT ![w] = "range"]
    /\ UNCHANGED <<wslot, wnew, wtodo, raised>>

\* ... and rewrites every slot of the range in order.
RangeStep(w) ==
    /\ wpc[w] = "range"
    /\ LET args == wargs[w]
       IN  \/ \E s \in Slots :
                /\ IsFirst(Remaining(args), s)
                /\ Plan(w, s, Reduced(word[s], IF args.del = {} THEN {}
                                               ELSE word[s].flags \ args.del))
                /\ UNCHANGED wargs
           \/ /\ Remaining(args) = {}
              /\ wpc' = [wpc EXCEPT ![w] = "unlock"]
              /\ wargs' = [wargs EXCEPT ![w] = NoRange]
              /\ UNCHANGED <<wslot, wnew, wtodo>>
    /\ UNCHANGED <<now, tableVars, mutex, readerVars, raised, steady, ops,
                   crashes>>

\* A reader's entry is steady until a writer announces a change of its slot.
StillSteady(s) ==
    [r \in Readers |-> steady[r] /\ ~Stores(s, rkey[r])]

\* Mutant of Announce: a version that is already even is left even.
AnnounceEven(w) ==
    /\ wpc[w] = "store"
    /\ "odd" \in wtodo[w]
    /\ steady' = StillSteady(wslot[w])
    /\ wtodo' = [wtodo EXCEPT ![w] = @ \ {"odd"}]
    /\ UNCHANGED <<now, ver, word, mutex, wpc, wslot, wnew, wargs, readerVars,
                   raised, ops, crashes>>

\* bs_flagged_write_slot, first store: version | 1
Announce(w) ==
    /\ wpc[w] = "store"
    /\ "odd" \in wtodo[w]
    /\ LET s == wslot[w]
       IN  /\ ver' = [ver EXCEPT ![s] = IF Odd(@) THEN @ ELSE @ + 1]
           /\ steady' = StillSteady(s)
    /\ wtodo' = [wtodo EXCEPT ![w] = @ \ {"odd"}]
    /\ UNCHANGED <<now, word, mutex, wpc, wslot, wnew, wargs, readerVars,
                   raised, ops, crashes>>

\* One payload store, in program order; with Hoist in any order and ahead of
\* the announcement, for a release store does not hold back what follows it.
Store(w, f) ==
    /\ wpc[w] = "store"
    /\ f \in wtodo[w] \cap Fields
    /\ Hoist \/ \A g \in wtodo[w] : StoreOrder[f] <= StoreOrder[g]
    /\ word' = [word EXCEPT ![wslot[w]] = [@ EXCEPT ![f] = wnew[w][f]]]
    /\ wtodo' = [wtodo EXCEPT ![w] = @ \ {f}]
    /\ UNCHANGED <<now, ver, mutex, wpc, wslot, wnew, wargs, readerVars,
                   raised, steady, ops, crashes>>

\* Where a writer goes when it is done with a slot.
AfterSlot(w) == IF wargs[w].range THEN "range" ELSE "unlock"

\* bs_flagged_write_slot, last store: (version | 1) + 1
Commit(w) ==
    /\ wpc[w] = "store"
    /\ wtodo[w] = {}
    /\ ver' = [ver EXCEPT ![wslot[w]] = @ + 1]
    /\ wpc' = [wpc EXCEPT ![w] = IF wnew[w].flags = {} THEN "unuse"
                                 ELSE AfterSlot(w)]
    /\ UNCHANGED <<now, word, mutex, wslot, wnew, wtodo, wargs, readerVars,
                   raised, steady, ops, crashes>>

\* slot->used = 0, a plain store after the slot was committed
Unuse(w) ==
    /\ wpc[w] = "unuse"
    /\ word' = [word EXCEPT ![wslot[w]] = [@ EXCEPT !.used = FALSE]]
    /\ wpc' = [wpc EXCEPT ![w] = AfterSlot(w)]
    /\ UNCHANGED <<now, ver, mutex, wslot, wnew, wtodo, wargs, readerVars,
                   raised, steady, ops, crashes>>

\* What a writer keeps between operations: nothing.
Forget(w) ==
    /\ wpc' = [wpc EXCEPT ![w] = "idle"]
    /\ wslot' = [wslot EXCEPT ![w] = 0]
    /\ wnew' = [wnew EXCEPT ![w] = EmptyWord]
    /\ wtodo' = [wtodo EXCEPT ![w] = {}]
    /\ wargs' = [wargs EXCEPT ![w] = NoRange]
    /\ mutex' = NoWriter

Unlock(w) ==
    /\ wpc[w] = "unlock"
    /\ Forget(w)
    /\ UNCHANGED <<now, tableVars, readerVars, raised, steady, ops, crashes>>

\* The process dies; its mutex is released, its slot stays as it is.
Crash(w) ==
    /\ wpc[w] # "idle"
    /\ crashes < MaxCrashes
    /\ crashes' = crashes + 1
    /\ Forget(w)
    /\ UNCHANGED <<now, tableVars, readerVars, raised, steady, ops>>

----------------------------------------------------------------------------
(* Readers: bs_flagged_ip_lookup *)

rSlot(r) == ProbeAt(rkey[r], ri[r])

LookupStart(r, k) ==
    /\ rpc[r] = "idle"
    /\ rpc' = [rpc EXCEPT ![r] = "version"]
    /\ rkey' = [rkey EXCEPT ![r] = k]
    /\ rnow' = [rnow EXCEPT ![r] = now]
    /\ steady' = [steady EXCEPT ![r] =
                    \E i \in ProbeIndices :
                        /\ Stores(ProbeAt(k, i), k)
                        /\ ~Stale(word[ProbeAt(k, i)], now)]
    /\ UNCHANGED <<now, tableVars, mutex, writerVars, ri, rv1, rspins, rgot,
                   rloc, raised, ops, crashes>>

\* Mutant of NextSlot: a slot found empty ends the probe, as it could if
\* entries were never released.
NextSlotUnlessEmpty(r) ==
    /\ rspins' = [rspins EXCEPT ![r] = 0]
    /\ rgot' = [rgot EXCEPT ![r] = {}]
    /\ rloc' = [rloc EXCEPT ![r] = EmptyWord]
    /\ rv1' = [rv1 EXCEPT ![r] = 0]
    /\ LET last == \/ ri[r] + 1 = ProbeLimit
                   \/ (rgot[r] = Fields /\ ~rloc[r].used)
       IN  \/ /\ last
              /\ rpc' = [rpc EXCEPT ![r] = "miss"]
              /\ UNCHANGED ri
           \/ /\ ~last
              /\ rpc' = [rpc EXCEPT ![r] = "version"]
              /\ ri' = [ri EXCEPT ![r] = @ + 1]

\* On to the next slot of the probe sequence, or out with a miss.
NextSlot(r) ==
    /\ rspins' = [rspins EXCEPT ![r] = 0]
    /\ rgot' = [rgot EXCEPT ![r] = {}]
    /\ rloc' = [rloc EXCEPT ![r] = EmptyWord]
    /\ rv1' = [rv1 EXCEPT ![r] = 0]
    /\ \/ /\ ri[r] + 1 = ProbeLimit
          /\ rpc' = [rpc EXCEPT ![r] = "miss"]
          /\ UNCHANGED ri
       \/ /\ ri[r] + 1 < ProbeLimit
          /\ rpc' = [rpc EXCEPT ![r] = "version"]
          /\ ri' = [ri EXCEPT ![r] = @ + 1]

\* Another attempt at the same slot.
Retry(r) ==
    /\ rspins' = [rspins EXCEPT ![r] = @ + 1]
    /\ rgot' = [rgot EXCEPT ![r] = {}]
    /\ rloc' = [rloc EXCEPT ![r] = EmptyWord]
    /\ rv1' = [rv1 EXCEPT ![r] = 0]
    /\ rpc' = [rpc EXCEPT ![r] = "version"]
    /\ UNCHANGED ri

\* Mutant of Spin: attempts that are not counted.
SpinUncounted(r) ==
    /\ rgot' = [rgot EXCEPT ![r] = {}]
    /\ rloc' = [rloc EXCEPT ![r] = EmptyWord]
    /\ rv1' = [rv1 EXCEPT ![r] = 0]
    /\ rpc' = [rpc EXCEPT ![r] = "version"]
    /\ UNCHANGED <<ri, rspins>>

\* A failed attempt: the slot is skipped once its spins are used up.
Spin(r) == IF rspins[r] + 1 >= MaxSpins THEN NextSlot(r) ELSE Retry(r)

ReadVersion(r) ==
    /\ rpc[r] = "version"
    /\ \/ /\ Odd(ver[rSlot(r)])
          /\ Spin(r)
       \/ /\ ~Odd(ver[rSlot(r)])
          /\ rv1' = [rv1 EXCEPT ![r] = ver[rSlot(r)]]
          /\ rpc' = [rpc EXCEPT ![r] = "copy"]
          /\ UNCHANGED <<ri, rspins, rgot, rloc>>
    /\ UNCHANGED <<now, tableVars, mutex, writerVars, rkey, rnow, raised,
                   steady, ops, crashes>>

CopyWord(r, f) ==
    /\ rpc[r] = "copy"
    /\ f \in Fields \ rgot[r]
    /\ \A g \in Fields \ rgot[r] : LoadOrder[f] <= LoadOrder[g]
    /\ rloc' = [rloc EXCEPT ![r] = [@ EXCEPT ![f] = word[rSlot(r)][f]]]
    /\ rgot' = [rgot EXCEPT ![r] = @ \cup {f}]
    /\ UNCHANGED <<now, tableVars, mutex, writerVars, rpc, rkey, rnow, ri,
                   rv1, rspins, raised, steady, ops, crashes>>

\* Mutant of Answers: the address is not compared.
AnswersAnyKey(r) == rloc[r].used /\ ~Stale(rloc[r], rnow[r])

\* The copy is an answer when it is the key's and not stale.
Answers(r) == Holds(rloc[r], rkey[r]) /\ ~Stale(rloc[r], rnow[r])

\* Mutant of CheckVersion: the version is not loaded again.
CheckVersionOnce(r) ==
    /\ rpc[r] = "copy"
    /\ rgot[r] = Fields
    /\ \/ /\ ~Answers(r)
          /\ NextSlot(r)
       \/ /\ Answers(r)
          /\ rpc' = [rpc EXCEPT ![r] = "hit"]
          /\ UNCHANGED <<ri, rv1, rspins, rgot, rloc>>
    /\ UNCHANGED <<now, tableVars, mutex, writerVars, rkey, rnow, raised,
                   steady, ops, crashes>>

\* The second load of the version decides whether the copy counts.
CheckVersion(r) ==
    /\ rpc[r] = "copy"
    /\ rgot[r] = Fields
    /\ \/ /\ ver[rSlot(r)] # rv1[r]
          /\ Spin(r)
       \/ /\ ver[rSlot(r)] = rv1[r]
          /\ ~Answers(r)
          /\ NextSlot(r)
       \/ /\ ver[rSlot(r)] = rv1[r]
          /\ Answers(r)
          /\ rpc' = [rpc EXCEPT ![r] = "hit"]
          /\ UNCHANGED <<ri, rv1, rspins, rgot, rloc>>
    /\ UNCHANGED <<now, tableVars, mutex, writerVars, rkey, rnow, raised,
                   steady, ops, crashes>>

\* The caller takes the answer.
Return(r) ==
    /\ rpc[r] \in {"hit", "miss"}
    /\ rpc' = [rpc EXCEPT ![r] = "idle"]
    /\ rkey' = [rkey EXCEPT ![r] = NoKey]
    /\ rnow' = [rnow EXCEPT ![r] = 0]
    /\ ri' = [ri EXCEPT ![r] = 0]
    /\ rv1' = [rv1 EXCEPT ![r] = 0]
    /\ rspins' = [rspins EXCEPT ![r] = 0]
    /\ rgot' = [rgot EXCEPT ![r] = {}]
    /\ rloc' = [rloc EXCEPT ![r] = EmptyWord]
    /\ steady' = [steady EXCEPT ![r] = FALSE]
    /\ UNCHANGED <<now, tableVars, mutex, writerVars, raised, ops, crashes>>

----------------------------------------------------------------------------
Tick ==
    /\ now < MaxTime
    /\ now' = now + 1
    /\ UNCHANGED <<tableVars, mutex, writerVars, readerVars, raised, steady,
                   ops, crashes>>

\* A request asks for a write.
WriterStart(w) ==
    \/ \E k \in Key, F \in SUBSET Flags, ttl \in TTLs : Add(w, k, F, ttl)
    \/ \E k \in Key, del, set \in SUBSET Flags, replace \in BOOLEAN :
        Clear(w, k, del, set, replace)
    \/ \E net \in Nets, del \in SUBSET Flags : ClearRange(w, net, del)

WriterStep(w) ==
    \/ RangeStep(w)
    \/ Announce(w)
    \/ \E f \in Fields : Store(w, f)
    \/ Commit(w)
    \/ Unuse(w)
    \/ Unlock(w)

ReaderStep(r) ==
    \/ ReadVersion(r)
    \/ \E f \in Fields : CopyWord(r, f)
    \/ CheckVersion(r)
    \/ Return(r)

Next ==
    \/ \E w \in Writers : WriterStart(w) \/ WriterStep(w) \/ Crash(w)
    \/ \E r \in Readers : (\E k \in Asked : LookupStart(r, k)) \/ ReaderStep(r)
    \/ Tick

Spec == Init /\ [][Next]_vars

\* A process that is in the middle of an operation is eventually scheduled.
Fairness ==
    /\ \A w \in Writers : WF_vars(WriterStep(w))
    /\ \A r \in Readers : WF_vars(ReaderStep(r))

FairSpec == Spec /\ Fairness

----------------------------------------------------------------------------
(* Properties *)

\* Every variable stays in its range: what the tables, the writers and the
\* readers of shm.c keep.
TypeOK ==
    /\ now \in Nat
    /\ ver \in [Slots -> Nat]
    /\ word \in [Slots -> Words]
    /\ mutex \in Writers \cup {NoWriter}
    /\ wpc \in [Writers -> {"idle", "store", "unuse", "range", "unlock"}]
    /\ wslot \in [Writers -> Slots]
    /\ wnew \in [Writers -> Words]
    /\ wtodo \in [Writers -> SUBSET (Fields \cup {"odd"})]
    /\ wargs \in [Writers -> RangeArgs]
    /\ rpc \in [Readers -> {"idle", "version", "copy", "hit", "miss"}]
    /\ rkey \in [Readers -> Key \cup {NoKey}]
    /\ \A r \in Readers : rpc[r] # "idle" => rkey[r] \in Asked
    /\ rnow \in [Readers -> Nat]
    /\ ri \in [Readers -> ProbeIndices]
    /\ rv1 \in [Readers -> Nat]
    /\ rspins \in [Readers -> 0 .. MaxSpins - 1]
    /\ rgot \in [Readers -> SUBSET Fields]
    /\ rloc \in [Readers -> Words]
    /\ raised \in [Key -> SUBSET Flags]
    /\ steady \in [Readers -> BOOLEAN]
    /\ ops \in Nat
    /\ crashes \in Nat

\* A key never has two committed entries, whatever was evicted, cleared or
\* left torn by a crash in between: an insertion scans its whole window.
OneEntryPerKey ==
    \A s, t \in Slots, k \in Key : Stores(s, k) /\ Stores(t, k) => s = t

\* A lookup answers with what the table holds at the moment it answers: the
\* copy that passes the second version check is one committed entry of the
\* key, never a mixture of two writes.
HitStep ==
    \A r \in Readers :
        rpc[r] # "hit" /\ rpc'[r] = "hit" =>
            /\ Stores(rSlot(r), rkey[r])
            /\ rloc[r] = word[rSlot(r)]

HitLinearizes == [][HitStep]_vars

\* Only the process that holds the mutex is in a critical section.
MutexInv == \A w \in Writers : wpc[w] # "idle" => mutex = w

\* A slot is odd from the announcement of a write to its commit; what was
\* stored is what was planned; a slot about to be released holds no live
\* entry.
WriteInv ==
    \A w \in Writers :
        /\ wpc[w] = "store" =>
            /\ "odd" \notin wtodo[w] => Odd(ver[wslot[w]])
            /\ \A f \in Fields \ wtodo[w] : word[wslot[w]][f] = wnew[w][f]
            /\ wnew[w].flags = {} => wnew[w].expires = 0
        /\ wpc[w] = "unuse" => word[wslot[w]].expires = 0

\* While the version a reader started from is still the slot's, what it has
\* copied is what the slot holds, except that a dead entry may just have
\* been released.
CopyInv ==
    \A r \in Readers :
        /\ rpc[r] # "idle" => rnow[r] >= 1
        /\ rpc[r] \in {"idle", "version"} => rgot[r] = {}
        /\ rpc[r] = "copy" =>
            /\ ~Odd(rv1[r])
            /\ rv1[r] <= ver[rSlot(r)]
            /\ rv1[r] = ver[rSlot(r)] =>
                \A f \in rgot[r] :
                    \/ rloc[r][f] = word[rSlot(r)][f]
                    \/ f = "used" /\ word[rSlot(r)].expires = 0

SeqlockInv == now >= 1 /\ MutexInv /\ WriteInv /\ CopyInv

\* A committed entry, and one about to be written, carries only flags that
\* were raised for its key.
OwnFlags(w) == w.key \in Key /\ w.flags \subseteq raised[w.key]

FlagInv ==
    /\ \A s \in Slots : ~Odd(ver[s]) /\ word[s].used => OwnFlags(word[s])
    /\ \A w \in Writers : wpc[w] = "store" => OwnFlags(wnew[w])

\* The word a hit reports was raised for that very address and namespace.
NoFalseFlag ==
    \A r \in Readers : rpc[r] = "hit" => rloc[r].flags \subseteq raised[rkey[r]]

\* A lookup misses only if at some moment since it began the key had no live
\* entry or its entry was being rewritten: an empty or a foreign slot before
\* it in the probe sequence does not hide it.
MissJustified == \A r \in Readers : rpc[r] = "miss" => ~steady[r]

\* A lookup always ends, even on a slot left odd for good by a crash and
\* under writers that never pause.
LookupEnds == \A r \in Readers : rpc[r] # "idle" ~> rpc[r] = "idle"

\* What the table holds for a key.
entry == [k \in Key |-> UNION {word[s].flags : s \in {t \in Slots : Stores(t, k)}}]

Abstract == INSTANCE FlagStore

\* The table is a flag store.
ImplementsFlagStore == Abstract!Spec
=============================================================================
