----------------------------- MODULE MetricsRing -----------------------------
(***************************************************************************)
(* The time-bucketed counters of metrics.c.  A block of counters in shared *)
(* memory has two rings of slots, one by the minute and one by the hour; a *)
(* slot holds the epoch it counts and its counters.  Writers of two kinds, *)
(* the decision path and the per-request traffic path, claim the slot of   *)
(* the current epoch with a compare-and-swap, the winner zeroes it field   *)
(* by field, and everyone adds, with no lock.                              *)
(*                                                                         *)
(* One block stands for the global one and a virtual host's, which are     *)
(* written alike; a field stands for the counters a path adds to.  The     *)
(* cumulative counters beside the rings are single additions.              *)
(***************************************************************************)
EXTENDS Naturals, Sequences

CONSTANTS
    Writers,        \* requests being counted
    RingSize,       \* BS_M_MIN_SLOTS and BS_M_HOUR_SLOTS
    HourMinutes,    \* minutes to the hour
    LastRingMinute, \* how far the clock runs
    MaxEvents,      \* events counted
    MaxWriterDeaths \* children that die while they count

ASSUME RingAssumption ==
    /\ RingSize \in Nat \ {0} /\ HourMinutes \in Nat \ {0} /\ LastRingMinute \in Nat \ {0}
    /\ MaxEvents \in Nat /\ MaxWriterDeaths \in Nat

Rings   == {"min", "hour"}
Fields  == <<"tier", "req">>    \* in the order bs_m_slot_claim zeroes them
Counters == {"tier", "req"}

Epoch(ring, m) == IF ring = "min" THEN m ELSE (m \div HourMinutes) + 1

VARIABLES
    clock,          \* the minute
    places,         \* the rings: epoch and counters of every slot
    writer,         \* what each writer is about to do
    events,         \* number of events so far
    dead,           \* number of children that died
    added,          \* per ring, epoch and field: additions made (history)
    early,          \* those made while the slot was being zeroed (history)
    unswept         \* slots whose claimer died before it had zeroed them

ringVars == <<clock, places, writer, events, dead, added, early, unswept>>

Resting == [pc |-> "rest", field |-> "tier", minute |-> 1, ring |-> "min",
            seen |-> 0, zeroed |-> 0]

PlaceOf(ring, e) == e % RingSize
Epochs == 0 .. LastRingMinute + 1

Held(w)  == writer[w]
MyEpoch(w) == Epoch(Held(w).ring, Held(w).minute)
MySlot(w)  == PlaceOf(Held(w).ring, MyEpoch(w))

RingInit ==
    /\ clock = 1
    /\ places = [r \in Rings |-> [i \in 0 .. RingSize - 1 |->
                    [epoch |-> 0, count |-> [f \in Counters |-> 0]]]]
    /\ writer = [w \in Writers |-> Resting]
    /\ events = 0
    /\ dead = 0
    /\ added = [r \in Rings |-> [e \in Epochs |-> [f \in Counters |-> 0]]]
    /\ early = added
    /\ unswept = {}

-----------------------------------------------------------------------------

\* The clock is read once, and the minute ring comes first.  Writers at rest
\* are alike.
Count(w) ==
    /\ Held(w).pc = "rest"
    /\ w = CHOOSE v \in Writers : Held(v).pc = "rest"
    /\ events < MaxEvents
    /\ \E f \in Counters :
          writer' = [writer EXCEPT ![w] =
                        [Resting EXCEPT !.pc = "look", !.field = f,
                                        !.minute = clock]]
    /\ events' = events + 1
    /\ UNCHANGED <<clock, places, dead, added, early, unswept>>

\* The load of the epoch: the slot is ours, or holds an older wrap.
Look(w) ==
    LET seen == places[Held(w).ring][MySlot(w)].epoch
    IN /\ Held(w).pc = "look"
       /\ writer' = [writer EXCEPT
             ![w].seen = seen,
             ![w].pc = IF seen = MyEpoch(w) THEN "add" ELSE "claim"]
       /\ UNCHANGED <<clock, places, events, dead, added, early, unswept>>

\* The compare-and-swap: one writer zeroes the slot, the others go on.
Claim(w) ==
    LET r == Held(w).ring
        i == MySlot(w)
        won == places[r][i].epoch = Held(w).seen
    IN /\ Held(w).pc = "claim"
       /\ places' = IF won THEN [places EXCEPT ![r][i].epoch = MyEpoch(w)]
                    ELSE places
       /\ writer' = [writer EXCEPT ![w].pc = IF won THEN "zero" ELSE "add",
                                   ![w].zeroed = 0]
       /\ UNCHANGED <<clock, events, dead, added, early, unswept>>

ZeroesFirst == 1 .. 1
Zeroes == 1 .. Len(Fields)

Zero(w) ==
    LET r == Held(w).ring
        i == MySlot(w)
        n == Held(w).zeroed + 1
    IN /\ Held(w).pc = "zero"
       /\ places' = IF n \in Zeroes
                    THEN [places EXCEPT ![r][i].count[Fields[n]] = 0] ELSE places
       /\ writer' = [writer EXCEPT
             ![w].zeroed = n,
             ![w].pc = IF n = Len(Fields) THEN "add" ELSE "zero"]
       /\ unswept' = IF n = Len(Fields) THEN unswept \ {<<r, i>>} ELSE unswept
       /\ UNCHANGED <<clock, events, dead, added, early>>

\* Someone is between the claim of a slot and the last of its zeroes.
Zeroing(r, i) ==
    \E v \in Writers : /\ Held(v).pc = "zero"
                       /\ Held(v).ring = r
                       /\ MySlot(v) = i

Add(w) ==
    LET r == Held(w).ring
        i == MySlot(w)
        e == MyEpoch(w)
        f == Held(w).field
    IN /\ Held(w).pc = "add"
       /\ places' = [places EXCEPT ![r][i].count[f] = @ + 1]
       /\ added' = [added EXCEPT ![r][e][f] = @ + 1]
       /\ early' = IF Zeroing(r, i) THEN [early EXCEPT ![r][e][f] = @ + 1]
                   ELSE early
       /\ writer' = [writer EXCEPT
             ![w] = IF r = "min" THEN [@ EXCEPT !.ring = "hour", !.pc = "look"]
                    ELSE Resting]
       /\ UNCHANGED <<clock, events, dead, unswept>>

\* The child of a writer is killed; the next request runs in another.  Before
\* it claims a slot or when it has zeroed it, its additions are just not made.
Die(w) ==
    /\ Held(w).pc = "zero"
    /\ dead < MaxWriterDeaths
    /\ dead' = dead + 1
    /\ writer' = [writer EXCEPT ![w] = Resting]
    /\ unswept' = unswept \cup {<<Held(w).ring, MySlot(w)>>}
    /\ UNCHANGED <<clock, places, events, added, early>>

\* A writer is done with a slot before its ring comes round to it again.
PassMinute ==
    /\ clock < LastRingMinute
    /\ \A w \in Writers : Held(w).pc # "rest"
                          => clock + 1 < Held(w).minute + RingSize
    /\ clock' = clock + 1
    /\ UNCHANGED <<places, writer, events, dead, added, early, unswept>>

RingNext ==
    \/ \E w \in Writers :
          \/ Count(w)
          \/ Look(w)
          \/ Claim(w)
          \/ Zero(w)
          \/ Add(w)
          \/ Die(w)
    \/ PassMinute

RingSpec == RingInit /\ [][RingNext]_ringVars

-----------------------------------------------------------------------------
(* The reader: bs_m_sum_ring over the slots of the last `span' epochs.     *)

InSpan(r, i, span) ==
    LET e   == places[r][i].epoch
        now == Epoch(r, clock)
    IN e # 0 /\ e <= now /\ e + span > now

\* The sum of the terms 1 .. n.
SumTo(n, term) ==
    LET sum[i \in 0 .. n] == IF i = 0 THEN 0 ELSE sum[i - 1] + term[i] IN sum[n]

WindowSum(r, f, span) ==
    SumTo(RingSize, [i \in 1 .. RingSize |->
        IF InSpan(r, i - 1, span) THEN places[r][i - 1].count[f] ELSE 0])

-----------------------------------------------------------------------------
(* Properties.                                                             *)

MadeIn(h, r, f, span) ==
    LET now == Epoch(r, clock)
    IN  SumTo(now, [e \in 1 .. now |-> IF e + span > now THEN h[r][e][f] ELSE 0])

\* A ring in use, none of whose slots is half zeroed.
SettledRing(r) ==
    /\ \E i \in 0 .. RingSize - 1 : places[r][i].epoch # 0
    /\ \A i \in 0 .. RingSize - 1 : ~Zeroing(r, i) /\ <<r, i>> \notin unswept

(* A window shows its own time and nothing else: when no slot is being     *)
(* zeroed, the sum bs_m_sum_ring takes over a span is at most what was     *)
(* counted in that span, so no count of an earlier turn of the ring is     *)
(* carried into it, and at least what was counted in it outside a claim,   *)
(* so only additions that raced the zeroing of a slot are lost.            *)
WindowCounts ==
    \A r \in Rings : SettledRing(r) =>
        \A f \in Counters, span \in 1 .. RingSize :
            /\ WindowSum(r, f, span) <= MadeIn(added, r, f, span)
            /\ MadeIn(added, r, f, span)
                  <= WindowSum(r, f, span) + MadeIn(early, r, f, span)
=============================================================================
