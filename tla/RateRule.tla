------------------------------ MODULE RateRule ------------------------------
(***************************************************************************)
(* Requests that match a rule with a budget (the rate part of the walk in  *)
(* bs_check_policy): the escalation check, the counter of the rule, and    *)
(* on a refusal the flag and the strike.                                   *)
(*                                                                         *)
(* The counter of a rule is one word of count and window start, changed by *)
(* compare-and-swap; the clock is read once before the first attempt.  The *)
(* strike table is changed under the global mutex, which a request only    *)
(* tries.  Seconds and milliseconds are one unit of time here.  The action *)
(* a rule may name for a refusal in place of 429 is left out.              *)
(***************************************************************************)
EXTENDS StrikeTable, Sequences, FiniteSets

CONSTANTS
    Handlers,         \* processes that serve requests, one after the other
    NoHandler,        \* the holder of a free mutex
    Escalating,       \* the rules with a BotShieldEscalate
    Budget,           \* requests per window of a rule
    BudgetWindow,     \* window_ms of a rule
    MaxRetries,       \* attempts of the compare-and-swap: 32 in the code
    Observing,        \* subset of BOOLEAN: whether requests only observe
    FirstRateTime,    \* the time at which the segment is made
    LastRateTime,     \* bound on the clock
    MaxMatches,       \* bound on the number of requests
    MaxHandlerDeaths  \* bound on the number of processes that die

\* The clock stays short of the wrap of its 32 bits.
ASSUME RateAssumption ==
    /\ NoHandler \notin Handlers
    /\ Escalating \subseteq Rule
    /\ \A r \in Rule : Budget[r] \in Nat \ {0} /\ BudgetWindow[r] \in 0 .. Wrap - 1
    /\ MaxRetries \in Nat \ {0}
    /\ Observing \subseteq BOOLEAN
    /\ FirstRateTime \in 1 .. LastRateTime
    /\ \A r \in Rule : LastRateTime + BudgetWindow[r] <= Wrap /\ LastRateTime + Per[r] <= Wrap
    /\ LastRateTime \in Nat /\ MaxMatches \in Nat /\ MaxHandlerDeaths \in Nat

VARIABLES
    rateClock,      \* the time
    matchesSoFar,   \* requests so far
    handlerDeaths,  \* processes that died so far
    counter,        \* the word of each rule
    strikeTable,    \* the strike table
    strikeMutex,    \* who holds the global mutex
    flagged,        \* addresses with BS_FLAG_RATE_ABUSE
    handling,       \* what each process is at
    spentAt,        \* history: the clock readings of what each word counts
    strikeAt,       \* history: the clock readings of the recorded strikes of a key
    owed            \* history: the escalation a key was given and must still have

rateHistory == <<spentAt, strikeAt, owed>>
rateVars == <<rateClock, matchesSoFar, handlerDeaths, counter, strikeTable, strikeMutex,
              flagged, handling, rateHistory>>

Word == [count : Nat, start : 0 .. Wrap - 1]
Over == {"strike", "write", "refused", "observed"}
Answers == {"admitted", "refused", "observed", "escalated"}
RateSteps == {"check", "clock", "load", "cas", "strike", "write"}

NoRuleYet == [pc |-> "idle", key |-> NoOne, observe |-> FALSE, sec |-> 0, ms |-> 0,
              word |-> [count |-> 0, start |-> 0], tries |-> 0, slot |-> 0,
              entry |-> NoStrikes]

RateInit ==
    /\ rateClock = FirstRateTime
    /\ matchesSoFar = 0 /\ handlerDeaths = 0
    /\ counter = [r \in Rule |-> [count |-> 0, start |-> 0]]
    /\ strikeTable = [i \in StrikeSlots |-> NoStrikes]
    /\ strikeMutex = NoHandler
    /\ flagged = {}
    /\ handling = [p \in Handlers |-> NoRuleYet]
    /\ spentAt = [r \in Rule |-> <<>>]
    /\ strikeAt = [k \in Keys |-> <<>>]
    /\ owed = [k \in Keys |-> 0]

RuleOf(p) == handling[p].key[2]
IpOf(p) == handling[p].key[1]
Goto(p, pc) == handling' = [handling EXCEPT ![p].pc = pc]

----------------------------------------------------------------------------
\* A request arrives at a rule it matches; rl_now is read.
Arrive(p) ==
    /\ handling[p].pc \in Answers \cup {"idle"}
    /\ matchesSoFar < MaxMatches
    /\ matchesSoFar' = matchesSoFar + 1
    /\ \E k \in Keys, o \in Observing :
           handling' = [handling EXCEPT ![p] = [NoRuleYet EXCEPT !.pc = "check", !.key = k,
                                                  !.observe = o, !.sec = rateClock]]
    /\ UNCHANGED <<rateClock, handlerDeaths, counter, strikeTable, strikeMutex, flagged, rateHistory>>

\* bs_flag_client: the flag is dropped when the mutex is taken, by a strike or
\* by a request that changes another table.
FlagClient(p) == flagged' \in {flagged, flagged \cup {IpOf(p)}}

IsEscalated(p) ==
    /\ ~ handling[p].observe
    /\ RuleOf(p) \in Escalating
    /\ Escalated(strikeTable, handling[p].key, handling[p].sec)

\* An address that is already escalated is refused and spends nothing.
CheckStrikes(p) ==
    /\ handling[p].pc = "check"
    /\ IF IsEscalated(p)
         THEN Goto(p, "escalated") /\ FlagClient(p)
         ELSE Goto(p, "clock") /\ UNCHANGED flagged
    /\ UNCHANGED <<rateClock, matchesSoFar, handlerDeaths, counter, strikeTable, strikeMutex, rateHistory>>

\* bs_rate_counter_admit reads the clock ...
ReadMillis(p) ==
    /\ handling[p].pc = "clock"
    /\ handling' = [handling EXCEPT ![p].pc = "load", ![p].ms = rateClock]
    /\ UNCHANGED <<rateClock, matchesSoFar, handlerDeaths, counter, strikeTable, strikeMutex, flagged, rateHistory>>

\* Mutant of Rolls: the window is one unit longer.
RollsLate(w, r, ms) == Since(w.start, ms % Wrap) > BudgetWindow[r]

\* A window long or more has passed since the start of the word's window.
Rolls(w, r, ms) == Since(w.start, ms % Wrap) >= BudgetWindow[r]

\* The word with one more request in it.
Charged(w, r, ms) ==
    IF Rolls(w, r, ms) THEN [count |-> 1, start |-> ms % Wrap]
                       ELSE [w EXCEPT !.count = @ + 1]

Refuses(w, r, ms) == ~ Rolls(w, r, ms) /\ w.count >= Budget[r]

\* ... and the word, again after each lost attempt.
LoadWord(p) ==
    LET w == counter[RuleOf(p)]
        over == Refuses(w, RuleOf(p), handling[p].ms)
    IN  /\ handling[p].pc = "load"
        /\ IF over /\ ~ handling[p].observe
             THEN FlagClient(p)
             ELSE UNCHANGED flagged
        /\ handling' = [handling EXCEPT ![p].word = w,
                              ![p].pc = IF ~ over THEN "cas"
                                        ELSE IF handling[p].observe THEN "observed"
                                        ELSE IF RuleOf(p) \in Escalating
                                          THEN "strike"
                                        ELSE "refused"]
        /\ UNCHANGED <<rateClock, matchesSoFar, handlerDeaths, counter, strikeTable, strikeMutex, rateHistory>>

\* Mutant of Win: the word is stored, whatever became of it meanwhile.
WinAlways(p) ==
    LET r == RuleOf(p)
    IN  /\ counter' = [counter EXCEPT ![r] = Charged(handling[p].word, r, handling[p].ms)]
        /\ Goto(p, "admitted")
        /\ spentAt' = [spentAt EXCEPT ![r] =
                          IF Rolls(counter[r], r, handling[p].ms)
                            THEN <<handling[p].ms>> ELSE Append(@, handling[p].ms)]

\* The word is still the one read: the request is counted and admitted.
Win(p) ==
    LET r == RuleOf(p)
    IN  /\ counter[r] = handling[p].word
        /\ counter' = [counter EXCEPT ![r] = Charged(handling[p].word, r, handling[p].ms)]
        /\ Goto(p, "admitted")
        /\ spentAt' = [spentAt EXCEPT ![r] =
                          IF Rolls(handling[p].word, r, handling[p].ms)
                            THEN <<handling[p].ms>> ELSE Append(@, handling[p].ms)]

\* It is not: the request tries again, and is admitted after the last try.
Lose(p) ==
    /\ counter[RuleOf(p)] # handling[p].word
    /\ handling' = [handling EXCEPT ![p].tries = @ + 1,
                          ![p].pc = IF handling[p].tries + 1 = MaxRetries
                                      THEN "admitted" ELSE "load"]
    /\ UNCHANGED <<counter, spentAt>>

CompareAndSwap(p) ==
    /\ handling[p].pc = "cas"
    /\ Win(p) \/ Lose(p)
    /\ UNCHANGED <<rateClock, matchesSoFar, handlerDeaths, strikeTable, strikeMutex, flagged, strikeAt, owed>>

----------------------------------------------------------------------------
\* bs_strike_record_429: nothing is recorded when the mutex is taken, by
\* another strike or by a request that changes another table.
DropStrike(p) ==
    /\ handling[p].pc = "strike"
    /\ Goto(p, "refused")
    /\ UNCHANGED <<rateClock, matchesSoFar, handlerDeaths, counter, strikeTable, strikeMutex, flagged, rateHistory>>

\* An escalation that is overwritten in a full window is no longer owed.
Forgiven(t, k, now) ==
    IF Saturated(t, k, now) THEN {t[StrikeSlot(t, k, now)].key} ELSE {}

\* The mutex is taken, the slot chosen and its version made odd.
BeginStrike(p) ==
    LET k == handling[p].key
        now == handling[p].sec
        i == StrikeSlot(strikeTable, k, now)
        e == Recorded(strikeTable, k, now)
    IN  /\ handling[p].pc = "strike"
        /\ strikeMutex = NoHandler
        /\ strikeMutex' = p
        /\ handling' = [handling EXCEPT ![p].pc = "write", ![p].slot = i, ![p].entry = e]
        /\ strikeTable' = [strikeTable EXCEPT ![i].odd = TRUE]
        /\ strikeAt' = [strikeAt EXCEPT ![k] = Append(@, now)]
        /\ owed' = [j \in Keys |-> IF j \in Forgiven(strikeTable, k, now)
                                     THEN 0 ELSE owed[j]]
        /\ UNCHANGED <<rateClock, matchesSoFar, handlerDeaths, counter, flagged, spentAt>>

\* The entry is written and the mutex released.
EndStrike(p) ==
    LET e == handling[p].entry
    IN  /\ handling[p].pc = "write"
        /\ Goto(p, "refused")
        /\ strikeTable' = [strikeTable EXCEPT ![handling[p].slot] = e]
        /\ owed' = [owed EXCEPT ![handling[p].key] = e.until]
        /\ strikeMutex' = NoHandler
        /\ UNCHANGED <<rateClock, matchesSoFar, handlerDeaths, counter, flagged, spentAt, strikeAt>>

\* A process dies with a request, its slot half written; the mutex is
\* recovered.
HandlerDies(p) ==
    /\ handling[p].pc \in RateSteps
    /\ handlerDeaths < MaxHandlerDeaths
    /\ handlerDeaths' = handlerDeaths + 1
    /\ handling' = [handling EXCEPT ![p] = NoRuleYet]
    /\ IF strikeMutex = p
         THEN /\ strikeMutex' = NoHandler
              /\ strikeTable' = [strikeTable EXCEPT ![handling[p].slot] = [NoStrikes EXCEPT !.odd = TRUE]]
              /\ owed' = [owed EXCEPT ![handling[p].key] = 0]
         ELSE UNCHANGED <<strikeMutex, strikeTable, owed>>
    /\ UNCHANGED <<rateClock, matchesSoFar, counter, flagged, spentAt, strikeAt>>

ClockTicks ==
    /\ rateClock < LastRateTime
    /\ rateClock' = rateClock + 1
    /\ UNCHANGED <<matchesSoFar, handlerDeaths, counter, strikeTable, strikeMutex, flagged, handling, rateHistory>>

ServeRule(p) ==
    \/ Arrive(p)
    \/ CheckStrikes(p)
    \/ ReadMillis(p)
    \/ LoadWord(p)
    \/ CompareAndSwap(p)
    \/ DropStrike(p)
    \/ BeginStrike(p)
    \/ EndStrike(p)
    \/ HandlerDies(p)

RateNext == ClockTicks \/ \E p \in Handlers : ServeRule(p)

RateSpec == RateInit /\ [][RateNext]_rateVars

----------------------------------------------------------------------------
\* Every variable keeps to its range; the mutex is held by the process that
\* writes an entry (the critical section of bs_strike_record_429).
RateTypeOK ==
    /\ rateClock \in Nat /\ matchesSoFar \in Nat /\ handlerDeaths \in Nat
    /\ counter \in [Rule -> Word]
    /\ strikeTable \in [StrikeSlots -> StrikeEntry]
    /\ strikeMutex \in Handlers \cup {NoHandler}
    /\ \A p \in Handlers : strikeMutex = p <=> handling[p].pc = "write"
    /\ flagged \subseteq Ip
    /\ handling \in [Handlers -> [pc : RateSteps \cup Answers \cup {"idle"},
                             key : Keys \cup {NoOne}, observe : BOOLEAN,
                             sec : Nat, ms : Nat, word : Word, tries : Nat,
                             slot : StrikeSlots, entry : StrikeEntry]]
    /\ \A p \in Handlers : handling[p].pc # "idle" => handling[p].key \in Keys
    /\ spentAt \in [Rule -> Seq(Nat)]
    /\ strikeAt \in [Keys -> Seq(Nat)]
    /\ owed \in [Keys -> Nat]

\* The word of a rule counts every request it admitted in its window and no
\* other: neither a roll nor a lost attempt costs or forges a count.
CountIsSpent ==
    \A r \in Rule : counter[r].count = Len(spentAt[r])

\* A request is over budget only when a whole budget of requests was admitted
\* less than a window before it, or after it read the clock.
RefusedWhenSpent ==
    [][\A p \in Handlers :
           handling[p].pc = "load" /\ handling'[p].pc \in Over
           => LET spent == spentAt[RuleOf(p)]
              IN  /\ Len(spent) >= Budget[RuleOf(p)]
                  /\ \A i \in DOMAIN spent :
                         handling[p].ms - spent[i] < BudgetWindow[RuleOf(p)]]_rateVars

\* The readings of s at the indexes J fall in one strike window.
InOneWindow(s, J, per) == \A a, b \in J : s[a] - s[b] < per

\* The strikes s earned an escalation of rule r that lasts past now.
Earned(s, r, now) ==
    \E J \in SUBSET DOMAIN s :
        /\ Cardinality(J) >= Strikes[r]
        /\ InOneWindow(s, J, Per[r])
        /\ \E j \in J : s[j] + Ttl[r] > now

\* An address is answered with the escalated status only if it earned the
\* strikes of this rule within its window, and not longer ago than its ttl:
\* neither other addresses nor other rules of the same slot count.
EscalatedJustified ==
    \A p \in Handlers :
        handling[p].pc = "escalated"
        => Earned(strikeAt[handling[p].key], RuleOf(p), handling[p].sec)

\* An escalation, once given, is found by every lookup until it ends, unless
\* a full probe window or the death of a writer cost it its entry.
EscalationKept ==
    strikeMutex = NoHandler
    => \A k \in Keys : owed[k] > rateClock => Escalated(strikeTable, k, rateClock)
=============================================================================
