----------------------------- MODULE StrikeTable -----------------------------
(***************************************************************************)
(* The strike table of shm.c: one entry for each address and rate rule,    *)
(* with the strikes of a window and the time an escalation lasts to.       *)
(*                                                                         *)
(* Operators on a table, used by RateRule.  The version of a slot is kept  *)
(* as one bit: a slot is odd while it is written, or for good if its       *)
(* writer died.  That a copy made under an even version is one committed   *)
(* entry is what FlaggedTable establishes of the same protocol; here such  *)
(* a copy is one step.  32-bit readings of the clock wrap at Wrap.         *)
(***************************************************************************)
EXTENDS Integers

CONSTANTS
    Ip,                \* client addresses, masked and within one namespace
    Rule,              \* rate rules, by their slot
    NoOne,             \* the key of an unused slot
    StrikeCapacity,    \* slots
    StrikeProbeLimit,  \* BS_STRIKE_PROBE_LIMIT
    StrikeBucket,      \* the hash of an address and a rule
    Per,               \* per_sec of a rule: its strike window
    Strikes,           \* strikes of a rule
    Ttl,               \* ttl_sec of a rule
    Wrap               \* 2^32

ASSUME StrikeAssumption ==
    /\ NoOne \notin Ip \X Rule
    /\ StrikeCapacity \in Nat \ {0} /\ StrikeProbeLimit \in Nat \ {0}
    /\ StrikeBucket \in [Ip \X Rule -> 0 .. StrikeCapacity - 1]
    /\ Wrap \in Nat \ {0}
    /\ \A r \in Rule :
        /\ Per[r] \in 1 .. Wrap - 1
        /\ Strikes[r] \in Nat \ {0}
        /\ Ttl[r] \in Nat \ {0}

StrikeSlots == 0 .. StrikeCapacity - 1
Keys == Ip \X Rule
StrikeEntry == [odd : BOOLEAN, key : Keys \cup {NoOne}, start : 0 .. Wrap - 1,
                count : Nat, until : Nat]
NoStrikes == [odd |-> FALSE, key |-> NoOne, start |-> 0, count |-> 0, until |-> 0]

Since(a, b) == (b - a) % Wrap
StrikeProbeAt(k, i) == (StrikeBucket[k] + i) % StrikeCapacity
Probes == 0 .. StrikeProbeLimit - 1

Readable(e) == ~ e.odd /\ e.key # NoOne

\* Mutant of RolledOver: an entry is reset a second late.
RolledOverLate(e, r, now) == e.start = 0 \/ Since(e.start, now % Wrap) > Per[r]

\* The window of strikes, as the rule r counts it, is over.
RolledOver(e, r, now) == e.start = 0 \/ Since(e.start, now % Wrap) >= Per[r]

\* Mutant of Reclaimable: an escalation does not keep an entry.
ReclaimableEscalated(e, r, now) == e.key # NoOne /\ RolledOver(e, r, now)

\* What an insertion for rule r at time now takes for a dead entry.
Reclaimable(e, r, now) ==
    /\ e.key # NoOne
    /\ RolledOver(e, r, now)
    /\ e.until = 0 \/ e.until < now

\* A lookup stops at the first entry of the key that is not being written.
Found(t, k) ==
    {i \in Probes :
        /\ Readable(t[StrikeProbeAt(k, i)]) /\ t[StrikeProbeAt(k, i)].key = k
        /\ \A j \in 0 .. i - 1 :
               ~ (Readable(t[StrikeProbeAt(k, j)]) /\ t[StrikeProbeAt(k, j)].key = k)}

\* bs_strike_check_escalated
Escalated(t, k, now) == \E i \in Found(t, k) : t[StrikeProbeAt(k, i)].until > now

\* The slot an insertion may take: odd, unused or dead.
FreeForStrike(t, k, now, i) ==
    LET e == t[StrikeProbeAt(k, i)]
    IN  e.odd \/ e.key = NoOne \/ Reclaimable(e, k[2], now)

Saturated(t, k, now) ==
    Found(t, k) = {} /\ \A i \in Probes : ~ FreeForStrike(t, k, now, i)

\* The slot that bs_strike_record_429 writes: the entry of the key, else the
\* first slot it may take, else the first of the window.
StrikeSlot(t, k, now) ==
    IF Found(t, k) # {} THEN StrikeProbeAt(k, CHOOSE i \in Found(t, k) : TRUE)
    ELSE IF Saturated(t, k, now) THEN StrikeBucket[k]
    ELSE StrikeProbeAt(k, CHOOSE i \in Probes :
                       /\ FreeForStrike(t, k, now, i)
                       /\ \A j \in 0 .. i - 1 : ~ FreeForStrike(t, k, now, j))

\* The entry with this strike counted in.
Counted(t, k, now) ==
    LET e == t[StrikeSlot(t, k, now)]
    IN  IF Found(t, k) = {}
          THEN [odd |-> TRUE, key |-> k, start |-> now % Wrap, count |-> 1,
                until |-> 0]
        ELSE IF RolledOver(e, k[2], now)
          THEN [e EXCEPT !.start = now % Wrap, !.count = 1]
        ELSE [e EXCEPT !.count = @ + 1]

\* What is written: an escalation begins, or goes on, at the threshold.
Recorded(t, k, now) ==
    LET e == Counted(t, k, now)
    IN  [e EXCEPT !.odd = FALSE,
                  !.until = IF e.count >= Strikes[k[2]]
                              THEN now + Ttl[k[2]] ELSE @]
=============================================================================
