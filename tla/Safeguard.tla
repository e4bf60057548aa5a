------------------------------ MODULE Safeguard ------------------------------
(***************************************************************************)
(* The valve against challenge loops: a table of the shared segment counts *)
(* the challenges shown to an address (shm.c), and a client that has been  *)
(* shown too many in a window without solving one is redirected to an      *)
(* explanation once, instead of being challenged again (botshield.c).      *)
(*                                                                         *)
(* A request takes the clock once, reads the table without the lock, and   *)
(* then writes under a lock that it does not wait for: a record or a clear *)
(* that finds it taken is dropped.  Between the reading and the writing    *)
(* other requests, and the clock, go on.  The table is open addressed with *)
(* a short probe; an address is seen with its namespace, as one key.  The  *)
(* seqlock of a slot is that of FlaggedTable, so a slot is read whole.     *)
(***************************************************************************)
EXTENDS Integers, FiniteSetsExt

CONSTANTS
    Keys,         \* addresses with their namespace
    Home,         \* the bucket of a key
    Capacity,     \* slots of the table
    ProbeLimit,   \* slots a probe looks at: 8
    Threshold,    \* BotShieldSafeguard threshold
    Window,       \* its window, in seconds
    Grant,        \* its ttl, in seconds
    FallbackSpan, \* the default window, by which the fallback and the sweep judge
    Guards,       \* requests under way at a time
    LastSecond,   \* bound on the clock
    MaxVisits,    \* bound on the requests
    NoKey

ASSUME SafeguardAssumption ==
    /\ IsFiniteSet(Keys) /\ IsFiniteSet(Guards)
    /\ Capacity \in Nat \ {0} /\ ProbeLimit \in 1 .. Capacity
    /\ Home \in [Keys -> 0 .. Capacity - 1]
    /\ Threshold \in Nat \ {0} /\ Window \in Nat \ {0} /\ Grant \in Nat \ {0}
    /\ FallbackSpan \in Nat
    /\ LastSecond \in Nat \ {0} /\ MaxVisits \in Nat

VARIABLES
    second,    \* the clock
    valve,     \* safeguard_table
    guard,     \* the request of a worker
    visits,    \* requests so far
    recorded,  \* history: per key and second, presentations recorded since its clear
    shown,     \* history: per key and second, challenges shown since its clear
    excused    \* history: keys whose count the table may have lost since their clear

safeguardHistory == <<recorded, shown, excused>>
safeguardVars == <<second, valve, guard, visits, safeguardHistory>>

Seconds == 1 .. LastSecond
NoTimes == [t \in Seconds |-> 0]
Indexes == 0 .. Capacity - 1
Probe(k) == [i \in 1 .. ProbeLimit |-> (Home[k] + i - 1) % Capacity]

\* A slot: whose it is, the start of its window, its count, the end of its grant.
Fresh(k, now) == [key |-> k, start |-> now, count |-> 1, until |-> 0]
SlotRecords == [key : Keys, start : Nat, count : Nat, until : Nat]

ASSUME NoKeyAssumption == NoKey \notin Keys \cup Indexes \cup SlotRecords

NoVisit == [at |-> "idle"]
Visit(at, k, now) == [at |-> at, key |-> k, now |-> now]
VisitSteps == {"record", "clear"}

SafeguardTypeOK ==
    /\ second \in Seconds
    /\ valve \in [Indexes -> SlotRecords \cup {NoKey}]
    /\ guard \in [Guards -> {NoVisit} \cup [at : VisitSteps, key : Keys, now : Seconds]]
    /\ visits \in 0 .. MaxVisits
    /\ recorded \in [Keys -> [Seconds -> Nat]]
    /\ shown \in [Keys -> [Seconds -> Nat]]
    /\ excused \subseteq Keys

SafeguardInit ==
    /\ second = 1
    /\ valve = [i \in Indexes |-> NoKey]
    /\ guard = [w \in Guards |-> NoVisit]
    /\ visits = 0
    /\ recorded = [k \in Keys |-> NoTimes] /\ shown = [k \in Keys |-> NoTimes]
    /\ excused = {}
-----------------------------------------------------------------------------
(* Lookups. *)

\* The first of the slots of a probe with some property; NoKey if there is none.
FirstSlot(k, Is(_)) ==
    LET found == {d \in 1 .. ProbeLimit : Is(Probe(k)[d])}
    IN  IF found = {} THEN NoKey ELSE Probe(k)[Min(found)]

Owned(i, k) == valve[i] # NoKey /\ valve[i].key = k
SlotOf(k) == FirstSlot(k, LAMBDA i : Owned(i, k))

\* bs_safeguard_check.
Granted(k, now) == SlotOf(k) # NoKey /\ valve[SlotOf(k)].until > now

\* Seconds are subtracted in 32 bits: a reading older than the start of the
\* window is further from it than any window is long.
Rolled(start, now, span) == now < start \/ now - start >= span

\* bs_safeguard_present_count, with the default window, not the configured one.
PresentCount(k, now) ==
    IF SlotOf(k) = NoKey \/ Rolled(valve[SlotOf(k)].start, now, FallbackSpan)
    THEN 0 ELSE valve[SlotOf(k)].count

\* bs_safeguard_slot_dead: nothing a slot holds can change a decision.
Dead(slot, now, span) ==
    Rolled(slot.start, now, span) /\ (slot.until = 0 \/ slot.until < now)

\* The slot a record writes: that of the key, else the first that is free or
\* dead, else the first of the probe, whoever owns it.
Target(k, now) ==
    LET free == FirstSlot(k, LAMBDA i : valve[i] = NoKey \/ Dead(valve[i], now, Window))
    IN  CASE SlotOf(k) # NoKey -> SlotOf(k)
          [] SlotOf(k) = NoKey /\ free # NoKey -> free
          [] OTHER -> Home[k]
-----------------------------------------------------------------------------
(* bs_safeguard_record_presentation and bs_safeguard_clear, with the lock. *)

\* A slot that changes hands starts anew; a window that has rolled starts
\* anew but keeps the grant; the grant starts at the threshold.
\* Mutants: a grant that starts one presentation late; a slot that changes
\* hands with the count and the grant of its former owner.
TurnedLate(slot, now) == IF slot.count > Threshold THEN [slot EXCEPT !.until = now + Grant] ELSE slot
Turned(slot, now) == IF slot.count >= Threshold THEN [slot EXCEPT !.until = now + Grant] ELSE slot

TakenAsIs(slot, k, now) ==
    IF slot = NoKey THEN Fresh(k, now) ELSE [slot EXCEPT !.key = k, !.count = @ + 1]
Taken(slot, k, now) == Fresh(k, now)

Presented(slot, k, now) ==
    Turned(IF slot = NoKey \/ slot.key # k THEN Taken(slot, k, now)
           ELSE IF Rolled(slot.start, now, Window)
           THEN [slot EXCEPT !.start = now, !.count = 1]
           ELSE [slot EXCEPT !.count = @ + 1], now)

\* The keys that lose a count: the owner of a slot that changes hands while
\* a request as of now, or the key itself when its window rolls back.
Losers(i, k, now) ==
    IF valve[i] = NoKey THEN {}
    ELSE IF valve[i].key # k THEN {valve[i].key}
    ELSE IF now < valve[i].start THEN {k} ELSE {}

Record(w) ==
    LET k == guard[w].key  now == guard[w].now  i == Target(k, now) IN
    /\ guard[w].at = "record"
    /\ valve' = [valve EXCEPT ![i] = Presented(@, k, now)]
    /\ recorded' = [recorded EXCEPT ![k][now] = @ + 1]
    /\ shown' = [shown EXCEPT ![k][now] = @ + 1]
    /\ excused' = excused \cup Losers(i, k, now)
    /\ guard' = [guard EXCEPT ![w] = NoVisit]
    /\ UNCHANGED <<second, visits>>

\* The lock is taken: the challenge is shown all the same.
RecordDropped(w) ==
    LET k == guard[w].key IN
    /\ guard[w].at = "record" /\ Cardinality(Guards) > 1
    /\ shown' = [shown EXCEPT ![k][guard[w].now] = @ + 1]
    /\ excused' = excused \cup {k}
    /\ guard' = [guard EXCEPT ![w] = NoVisit]
    /\ UNCHANGED <<second, valve, visits, recorded>>

\* A client that has solved a challenge, or is redirected, starts again.
Clear(w) ==
    LET k == guard[w].key IN
    /\ guard[w].at = "clear"
    /\ valve' = [i \in Indexes |-> IF i = SlotOf(k) THEN NoKey ELSE valve[i]]
    /\ recorded' = [recorded EXCEPT ![k] = NoTimes]
    /\ shown' = [shown EXCEPT ![k] = NoTimes]
    /\ excused' = excused \ {k}
    /\ guard' = [guard EXCEPT ![w] = NoVisit]
    /\ UNCHANGED <<second, visits>>

ClearDropped(w) ==
    /\ guard[w].at = "clear" /\ Cardinality(Guards) > 1
    /\ shown' = [shown EXCEPT ![guard[w].key] = NoTimes]
    /\ guard' = [guard EXCEPT ![w] = NoVisit]
    /\ UNCHANGED <<second, valve, visits, recorded, excused>>
-----------------------------------------------------------------------------
(* The request handler's use of it. *)

\* bs_apply_safeguard, on a request about to be challenged: the clock and
\* the grant are read; a granted client is redirected and cleared.
ChallengeSent(w) ==
    /\ guard[w] = NoVisit /\ visits < MaxVisits /\ visits' = visits + 1
    /\ \E k \in Keys :
           guard' = [guard EXCEPT ![w] =
               Visit(IF Granted(k, second) THEN "clear" ELSE "record", k, second)]
    /\ UNCHANGED <<second, valve, safeguardHistory>>

\* A request whose cookie proves a solve.
Solved(w) ==
    /\ guard[w] = NoVisit /\ visits < MaxVisits /\ visits' = visits + 1
    /\ \E k \in Keys : guard' = [guard EXCEPT ![w] = Visit("clear", k, second)]
    /\ UNCHANGED <<second, valve, safeguardHistory>>

\* bs_safeguard_reclaim, from the headroom watchdog: what is dead by the
\* default window is freed.  A run of it covers a table of up to 2048 slots.
\* A key loses its count if a request of it that took the clock before is
\* still to record: the slot it makes anew starts in the old window.
Sweep ==
    LET swept(i) == valve[i] # NoKey /\ Dead(valve[i], second, FallbackSpan)
        recording(k) == \E w \in Guards : guard[w].at = "record" /\ guard[w].key = k
    IN
    /\ \E i \in Indexes : swept(i)
    /\ valve' = [i \in Indexes |-> IF swept(i) THEN NoKey ELSE valve[i]]
    /\ excused' = excused \cup
           {k \in Keys : recording(k) /\ \E i \in Indexes : swept(i) /\ valve[i].key = k}
    /\ UNCHANGED <<second, guard, visits, recorded, shown>>

SecondPasses ==
    /\ second < LastSecond /\ second' = second + 1
    /\ UNCHANGED <<valve, guard, visits, safeguardHistory>>

SafeguardNext ==
    \/ \E w \in Guards :
           \/ ChallengeSent(w) \/ Solved(w)
           \/ Record(w) \/ RecordDropped(w) \/ Clear(w) \/ ClearDropped(w)
    \/ Sweep
    \/ SecondPasses

SafeguardSpec == SafeguardInit /\ [][SafeguardNext]_safeguardVars
-----------------------------------------------------------------------------
(* Properties. *)

Total(times, from, to) ==
    LET sum[t \in 0 .. LastSecond] ==
            IF t = 0 THEN 0 ELSE sum[t - 1] + IF t \in from .. to THEN times[t] ELSE 0
    IN  sum[LastSecond]

\* A key is redirected only if the table recorded as many challenges for it
\* as the threshold asks, in one window, the last of them no longer ago than
\* a grant lasts and since its last clear: never on the account of another
\* key whose slot it took over.  Likewise embedded mode is given up on
\* presentations of the key's own in the default window
\* (bs_safeguard_check, bs_safeguard_present_count).
ValveEarned ==
    \A k \in Keys :
        /\ Granted(k, second) =>
               \E last \in Seconds :
                   /\ recorded[k][last] > 0 /\ last + Grant > second
                   /\ Total(recorded[k], last - Window + 1, last) >= Threshold
        /\ PresentCount(k, second) <=
               Total(recorded[k], second - FallbackSpan + 1, second)

\* Since the clear, a window holds no more challenges of a key than the
\* threshold and the requests that were past the check when it was reached,
\* unless a record or a clear was dropped, the slot went to another key, an
\* older clock reading rolled the window back or a sweep freed the slot under
\* a request that was still to record.  (A sweep by a default window shorter
\* than the configured one would forget counts that run.)
LoopBroken ==
    Grant >= Window /\ FallbackSpan >= Window =>
        \A k \in Keys \ excused :
            SlotOf(k) # NoKey =>
                Total(shown[k], valve[SlotOf(k)].start, LastSecond)
                    <= Threshold + Cardinality(Guards) - 1
=============================================================================
