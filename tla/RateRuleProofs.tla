--------------------------- MODULE RateRuleProofs ---------------------------
(***************************************************************************)
(* Theorems of RateRule, for every set of addresses and rules, every table *)
(* size, budget and threshold, and any number of requests and crashes.     *)
(***************************************************************************)
EXTENDS RateRule, LeastIndex

(***************************************************************************)
(* The strike table.                                                       *)
(***************************************************************************)

\* A probe stays inside the table.
LEMMA ProbeInTable ==
    ASSUME NEW k \in Keys, NEW i \in Probes
    PROVE  StrikeProbeAt(k, i) \in StrikeSlots
  BY StrikeAssumption DEF StrikeProbeAt, Probes, StrikeSlots, Keys

\* The slot chosen is one of the table; an entry that was found has the key.
LEMMA TargetInTable ==
    ASSUME NEW t \in [StrikeSlots -> StrikeEntry], NEW k \in Keys, NEW now \in Nat
    PROVE  /\ StrikeSlot(t, k, now) \in StrikeSlots
           /\ Found(t, k) # {} => /\ Readable(t[StrikeSlot(t, k, now)])
                                  /\ t[StrikeSlot(t, k, now)].key = k
  <1>1. CASE Found(t, k) # {}
    <2>1. PICK i \in Found(t, k) : i = CHOOSE n \in Found(t, k) : TRUE
      BY <1>1
    <2>2. StrikeSlot(t, k, now) = StrikeProbeAt(k, i)
      BY <1>1, <2>1 DEF StrikeSlot
    <2>3. i \in Probes /\ Readable(t[StrikeProbeAt(k, i)]) /\ t[StrikeProbeAt(k, i)].key = k
      BY DEF Found
    <2> QED
      BY <2>2, <2>3, ProbeInTable
  <1>2. CASE Found(t, k) = {} /\ Saturated(t, k, now)
    BY <1>2, StrikeAssumption DEF StrikeSlot, StrikeSlots, Keys
  <1>3. CASE Found(t, k) = {} /\ ~ Saturated(t, k, now)
    <2> DEFINE S == {i \in Probes : FreeForStrike(t, k, now, i)}
               First(i) == /\ FreeForStrike(t, k, now, i)
                           /\ \A j \in 0 .. i - 1 : ~ FreeForStrike(t, k, now, j)
    <2>1. S # {} /\ StrikeProbeLimit - 1 \in Nat /\ S \subseteq 0 .. StrikeProbeLimit - 1
      BY <1>3, StrikeAssumption DEF Saturated, Probes
    <2>2. PICK i \in S : \A j \in S : i <= j
      <3> HIDE DEF S
      <3> QED
        BY <2>1, LeastExists
    <2>3. First(i)
      <3> SUFFICES ASSUME NEW j \in 0 .. i - 1, FreeForStrike(t, k, now, j)
                   PROVE  FALSE
        OBVIOUS
      <3>1. i \in 0 .. StrikeProbeLimit - 1 /\ StrikeProbeLimit \in Nat
        <4>1. i \in Probes
          OBVIOUS
        <4> QED
          BY <4>1, StrikeAssumption DEF Probes
      <3>2. j \in Probes /\ ~ i <= j
        BY <3>1 DEF Probes
      <3>3. j \in S
        BY <3>2
      <3> HIDE DEF S
      <3>4. i <= j
        BY <2>2, <3>3
      <3> QED
        BY <3>2, <3>4
    <2>4. (CHOOSE n \in Probes : First(n)) \in Probes
      BY <2>3
    <2> QED
      BY <1>3, <2>4, ProbeInTable DEF StrikeSlot
  <1> QED
    BY <1>1, <1>2, <1>3

\* A reading of the clock in 32 bits.
LEMMA LowBits ==
    ASSUME NEW n \in Nat
    PROVE  n % Wrap \in 0 .. Wrap - 1 /\ (n < Wrap => n % Wrap = n)
  BY StrikeAssumption

\* What is counted is an entry of the key.
LEMMA CountedType ==
    ASSUME NEW t \in [StrikeSlots -> StrikeEntry], NEW k \in Keys, NEW now \in Nat
    PROVE  Counted(t, k, now) \in StrikeEntry /\ Counted(t, k, now).key = k
  <1> DEFINE e == t[StrikeSlot(t, k, now)]
             c == Counted(t, k, now)
  <1> SUFFICES c \in StrikeEntry /\ c.key = k
    OBVIOUS
  <1>1. e \in StrikeEntry /\ now % Wrap \in 0 .. Wrap - 1
    BY TargetInTable, LowBits
  <1>2. CASE Found(t, k) = {}
    BY <1>1, <1>2 DEF Counted, StrikeEntry
  <1>3. CASE Found(t, k) # {}
    <2>1. e.key = k
      BY <1>3, TargetInTable
    <2>2. c = [e EXCEPT !.start = now % Wrap, !.count = 1]
          \/ c = [e EXCEPT !.count = @ + 1]
      <3>1. CASE RolledOver(e, k[2], now)
        BY <1>3, <3>1 DEF Counted
      <3>2. CASE ~ RolledOver(e, k[2], now)
        BY <1>3, <3>2 DEF Counted
      <3> QED
        BY <3>1, <3>2
    <2>3. CASE c = [e EXCEPT !.start = now % Wrap, !.count = 1]
      <3>1. PICK n \in 0 .. Wrap - 1 : n = now % Wrap
        BY <1>1
      <3>2. c = [e EXCEPT !.start = n, !.count = 1]
        BY <2>3, <3>1
      <3> HIDE DEF e, c
      <3> QED
        BY <1>1, <2>1, <3>2 DEF StrikeEntry
    <2>4. CASE c = [e EXCEPT !.count = @ + 1]
      <3>1. PICK n \in Nat : n = e.count + 1
        BY <1>1 DEF StrikeEntry
      <3>2. c = [e EXCEPT !.count = n]
        BY <2>4, <3>1
      <3> HIDE DEF e, c
      <3> QED
        BY <1>1, <2>1, <3>2 DEF StrikeEntry
    <2> HIDE DEF e, c
    <2> QED
      BY <2>2, <2>3, <2>4
  <1> QED
    BY <1>2, <1>3

\* What is written is an entry of the key.
LEMMA RecordedType ==
    ASSUME NEW t \in [StrikeSlots -> StrikeEntry], NEW k \in Keys, NEW now \in Nat
    PROVE  /\ Recorded(t, k, now) \in StrikeEntry
           /\ Recorded(t, k, now).key = k
           /\ ~ Recorded(t, k, now).odd
  <1>1. PICK c \in StrikeEntry : c = Counted(t, k, now) /\ c.key = k
    BY CountedType
  <1>2. PICK u \in Nat : Recorded(t, k, now) = [c EXCEPT !.odd = FALSE, !.until = u]
    <2>1. c.until \in Nat
      BY DEF StrikeEntry
    <2>2. now + Ttl[k[2]] \in Nat
      BY StrikeAssumption DEF Keys
    <2>3. Recorded(t, k, now)
            = [c EXCEPT !.odd = FALSE,
                        !.until = IF c.count >= Strikes[k[2]]
                                    THEN now + Ttl[k[2]] ELSE c.until]
      BY <1>1 DEF Recorded
    <2>4. CASE c.count >= Strikes[k[2]]
      BY <2>2, <2>3, <2>4
    <2>5. CASE ~ (c.count >= Strikes[k[2]])
      BY <2>1, <2>3, <2>5
    <2> QED
      BY <2>4, <2>5
  <1> QED
    BY <1>1, <1>2 DEF StrikeEntry


(***************************************************************************)
(* Types.                                                                  *)
(***************************************************************************)

Request == [pc : RateSteps \cup Answers \cup {"idle"}, key : Keys \cup {NoOne},
            observe : BOOLEAN, sec : Nat, ms : Nat, word : Word, tries : Nat,
            slot : StrikeSlots, entry : StrikeEntry]

\* The values of the initial state have their types.
LEMMA InitialTypes ==
    /\ NoStrikes \in StrikeEntry /\ [NoStrikes EXCEPT !.odd = TRUE] \in StrikeEntry
    /\ NoRuleYet \in Request
    /\ [count |-> 0, start |-> 0] \in Word
  <1>1. 0 \in 0 .. Wrap - 1 /\ 0 \in StrikeSlots
    BY StrikeAssumption DEF StrikeSlots
  <1>2. NoStrikes \in StrikeEntry /\ [NoStrikes EXCEPT !.odd = TRUE] \in StrikeEntry
    BY <1>1 DEF NoStrikes, StrikeEntry
  <1>3. [count |-> 0, start |-> 0] \in Word
    BY <1>1 DEF Word
  <1> QED
    BY <1>1, <1>2, <1>3 DEF NoRuleYet, Request

\* A request past its arrival has an address and a rule.
LEMMA KeyParts ==
    ASSUME RateTypeOK, NEW p \in Handlers, handling[p].pc # "idle"
    PROVE  handling[p].key \in Keys /\ RuleOf(p) \in Rule /\ IpOf(p) \in Ip
  BY DEF RateTypeOK, Keys, RuleOf, IpOf

\* Counting a request keeps the type of the word.
LEMMA SpentType ==
    ASSUME NEW w \in Word, NEW r, NEW ms \in Nat
    PROVE  Charged(w, r, ms) \in Word
  <1>1. PICK n \in 0 .. Wrap - 1 : n = ms % Wrap
    BY LowBits
  <1>2. CASE Rolls(w, r, ms)
    <2>1. Charged(w, r, ms) = [count |-> 1, start |-> n]
      BY <1>1, <1>2 DEF Charged
    <2> QED
      BY <2>1 DEF Word
  <1>3. CASE ~ Rolls(w, r, ms)
    <2>1. PICK n2 \in Nat : n2 = w.count + 1
      BY DEF Word
    <2>2. Charged(w, r, ms) = [w EXCEPT !.count = n2]
      BY <1>3, <2>1 DEF Charged
    <2> QED
      BY <2>2 DEF Word
  <1> QED
    BY <1>2, <1>3

\* The flag of a client is an address.
LEMMA FlagType ==
    ASSUME RateTypeOK, NEW p \in Handlers, handling[p].pc # "idle",
           FlagClient(p) \/ UNCHANGED flagged
    PROVE  flagged' \subseteq Ip
  BY KeyParts DEF FlagClient, RateTypeOK

\* A request with a new position is a request.
LEMMA UpdatePc ==
    ASSUME handling \in [Handlers -> Request], NEW p \in Handlers,
           NEW c \in RateSteps \cup Answers,
           handling' = [handling EXCEPT ![p].pc = c]
    PROVE  \E u \in Request : /\ u.pc = c /\ u.key = handling[p].key
                             /\ handling' = [handling EXCEPT ![p] = u]
  <1>1. PICK d \in Request : d = handling[p]
    OBVIOUS
  <1> DEFINE u == [d EXCEPT !.pc = c]
  <1>2. u \in Request /\ u.pc = c /\ u.key = d.key
    BY DEF Request
  <1>3. handling' = [handling EXCEPT ![p] = u]
    BY <1>1
  <1> HIDE DEF u
  <1> QED
    BY <1>1, <1>2, <1>3

\* A request with a reading of the clock is a request.
LEMMA UpdateClock ==
    ASSUME handling \in [Handlers -> Request], NEW p \in Handlers,
           NEW c \in RateSteps \cup Answers, NEW n \in Nat,
           handling' = [handling EXCEPT ![p].pc = c, ![p].ms = n]
    PROVE  \E u \in Request : /\ u.pc = c /\ u.key = handling[p].key
                             /\ handling' = [handling EXCEPT ![p] = u]
  <1>1. PICK d \in Request : d = handling[p]
    OBVIOUS
  <1> DEFINE u == [d EXCEPT !.pc = c, !.ms = n]
  <1>2. u \in Request /\ u.pc = c /\ u.key = d.key
    BY DEF Request
  <1>3. handling' = [handling EXCEPT ![p] = u]
    BY <1>1
  <1> HIDE DEF u
  <1> QED
    BY <1>1, <1>2, <1>3

\* A request with the word read is a request.
LEMMA UpdateWord ==
    ASSUME handling \in [Handlers -> Request], NEW p \in Handlers,
           NEW c \in RateSteps \cup Answers, NEW w \in Word,
           handling' = [handling EXCEPT ![p].word = w, ![p].pc = c]
    PROVE  \E u \in Request : /\ u.pc = c /\ u.key = handling[p].key
                             /\ handling' = [handling EXCEPT ![p] = u]
  <1>1. PICK d \in Request : d = handling[p]
    OBVIOUS
  <1> DEFINE u == [d EXCEPT !.word = w, !.pc = c]
  <1>2. u \in Request /\ u.pc = c /\ u.key = d.key
    BY DEF Request
  <1>3. handling' = [handling EXCEPT ![p] = u]
    BY <1>1
  <1> HIDE DEF u
  <1> QED
    BY <1>1, <1>2, <1>3

\* A request with a lost attempt is a request.
LEMMA UpdateTries ==
    ASSUME handling \in [Handlers -> Request], NEW p \in Handlers,
           NEW c \in RateSteps \cup Answers, NEW n \in Nat,
           handling' = [handling EXCEPT ![p].tries = n, ![p].pc = c]
    PROVE  \E u \in Request : /\ u.pc = c /\ u.key = handling[p].key
                             /\ handling' = [handling EXCEPT ![p] = u]
  <1>1. PICK d \in Request : d = handling[p]
    OBVIOUS
  <1> DEFINE u == [d EXCEPT !.tries = n, !.pc = c]
  <1>2. u \in Request /\ u.pc = c /\ u.key = d.key
    BY DEF Request
  <1>3. handling' = [handling EXCEPT ![p] = u]
    BY <1>1
  <1> HIDE DEF u
  <1> QED
    BY <1>1, <1>2, <1>3

\* A request with the entry to write is a request.
LEMMA UpdateEntry ==
    ASSUME handling \in [Handlers -> Request], NEW p \in Handlers,
           NEW c \in RateSteps \cup Answers, NEW i \in StrikeSlots, NEW e \in StrikeEntry,
           handling' = [handling EXCEPT ![p].pc = c, ![p].slot = i, ![p].entry = e]
    PROVE  \E u \in Request : /\ u.pc = c /\ u.key = handling[p].key
                             /\ handling' = [handling EXCEPT ![p] = u]
  <1>1. PICK d \in Request : d = handling[p]
    OBVIOUS
  <1> DEFINE u == [d EXCEPT !.pc = c, !.slot = i, !.entry = e]
  <1>2. u \in Request /\ u.pc = c /\ u.key = d.key
    BY DEF Request
  <1>3. handling' = [handling EXCEPT ![p] = u]
    BY <1>1
  <1> HIDE DEF u
  <1> QED
    BY <1>1, <1>2, <1>3

\* A step of one process leaves the types of req, and unless it takes or
\* releases the mutex, the mutex is held by the writer.
LEMMA Moved ==
    ASSUME RateTypeOK, NEW p \in Handlers, NEW u \in Request,
           handling' = [handling EXCEPT ![p] = u],
           u.pc # "idle" => u.key \in Keys
    PROVE  /\ handling' \in [Handlers -> Request]
           /\ handling'[p] = u /\ \A q \in Handlers : q # p => handling'[q] = handling[q]
           /\ \A q \in Handlers : handling'[q].pc # "idle" => handling'[q].key \in Keys
           /\ strikeMutex' = strikeMutex /\ handling[p].pc # "write" /\ u.pc # "write"
              => \A q \in Handlers : strikeMutex' = q <=> handling'[q].pc = "write"
  <1>1. handling \in [Handlers -> Request]
    BY DEF RateTypeOK, Request
  <1>2. handling' \in [Handlers -> Request]
    BY <1>1
  <1>3. handling'[p] = u /\ \A q \in Handlers : q # p => handling'[q] = handling[q]
    BY <1>1
  <1> QED
    BY <1>2, <1>3 DEF RateTypeOK

\* No step leaves the types.
LEMMA TypePreserved ==
    ASSUME RateTypeOK, [RateNext]_rateVars
    PROVE  RateTypeOK'
  <1>0. handling \in [Handlers -> Request]
    BY DEF RateTypeOK, Request
  <1>1. CASE UNCHANGED rateVars
    BY <1>1 DEF RateTypeOK, rateVars, rateHistory
  <1>2. CASE ClockTicks
    BY <1>2 DEF RateTypeOK, ClockTicks, rateHistory
  <1>3. ASSUME NEW p \in Handlers, Arrive(p)
        PROVE  RateTypeOK'
    <2>1. PICK k \in Keys, o \in BOOLEAN :
             handling' = [handling EXCEPT ![p] = [NoRuleYet EXCEPT !.pc = "check", !.key = k,
                                                    !.observe = o, !.sec = rateClock]]
      BY <1>3, RateAssumption DEF Arrive
    <2>2. PICK u \in Request :
             /\ u.pc = "check" /\ u.key = k
             /\ handling' = [handling EXCEPT ![p] = u]
      <3>1. [NoRuleYet EXCEPT !.pc = "check", !.key = k, !.observe = o, !.sec = rateClock]
               \in Request
        BY InitialTypes DEF RateTypeOK, NoRuleYet, RateSteps, Request
      <3> QED
        BY <2>1, <3>1 DEF NoRuleYet
    <2>3. /\ handling[p].pc # "write" /\ matchesSoFar' \in Nat
          /\ UNCHANGED <<rateClock, handlerDeaths, counter, strikeTable, strikeMutex, flagged, rateHistory>>
      BY SMTT(30), <1>3 DEF Arrive, Answers, RateTypeOK
    <2> QED
      BY <2>2, <2>3, Moved DEF RateTypeOK, Request, rateHistory
  <1>4. ASSUME NEW p \in Handlers, CheckStrikes(p)
        PROVE  RateTypeOK'
    <2>1. PICK c \in {"escalated", "clock"} : handling' = [handling EXCEPT ![p].pc = c]
      BY <1>4 DEF CheckStrikes, Goto
    <2>2. /\ handling[p].pc = "check"
          /\ UNCHANGED <<rateClock, matchesSoFar, handlerDeaths, counter, strikeTable, strikeMutex, rateHistory>>
      BY <1>4 DEF CheckStrikes
    <2>3. PICK u \in Request :
             /\ u.pc # "write" /\ u.key = handling[p].key
             /\ handling' = [handling EXCEPT ![p] = u]
      BY <1>0, <2>1, UpdatePc DEF RateSteps, Answers
    <2>4. flagged' \subseteq Ip
      <3>1. FlagClient(p) \/ UNCHANGED flagged
        BY <1>4 DEF CheckStrikes
      <3> QED
        BY <2>2, <3>1, FlagType
    <2>5. u.key \in Keys
      BY <2>2, <2>3, KeyParts
    <2> QED
      BY <2>2, <2>3, <2>4, <2>5, Moved DEF RateTypeOK, Request, rateHistory
  <1>5. ASSUME NEW p \in Handlers, ReadMillis(p)
        PROVE  RateTypeOK'
    <2>1. /\ handling' = [handling EXCEPT ![p].pc = "load", ![p].ms = rateClock]
          /\ handling[p].pc = "clock" /\ rateClock \in Nat
          /\ UNCHANGED <<rateClock, matchesSoFar, handlerDeaths, counter, strikeTable, strikeMutex, flagged,
                         rateHistory>>
      BY <1>5 DEF ReadMillis, RateTypeOK
    <2>2. PICK u \in Request :
             /\ u.pc # "write" /\ u.key = handling[p].key
             /\ handling' = [handling EXCEPT ![p] = u]
      BY ZenonT(30), <1>0, <2>1, UpdateClock DEF RateSteps
    <2>3. u.key \in Keys
      BY <2>1, <2>2, KeyParts
    <2>4. /\ handling' \in [Handlers -> Request]
          /\ \A q \in Handlers : handling'[q].pc # "idle" => handling'[q].key \in Keys
          /\ \A q \in Handlers : strikeMutex' = q <=> handling'[q].pc = "write"
      BY <2>1, <2>2, <2>3, Moved
    <2> QED
      BY <2>1, <2>4 DEF RateTypeOK, Request, rateHistory
  <1>6. ASSUME NEW p \in Handlers, LoadWord(p)
        PROVE  RateTypeOK'
    <2>1. /\ handling[p].pc = "load"
          /\ UNCHANGED <<rateClock, matchesSoFar, handlerDeaths, counter, strikeTable, strikeMutex, rateHistory>>
      BY <1>6 DEF LoadWord
    <2>2. PICK c \in {"cas", "observed", "strike", "refused"} :
             handling' = [handling EXCEPT ![p].word = counter[RuleOf(p)], ![p].pc = c]
      <3> DEFINE c0 == IF ~ Refuses(counter[RuleOf(p)], RuleOf(p), handling[p].ms)
                         THEN "cas"
                       ELSE IF handling[p].observe THEN "observed"
                       ELSE IF RuleOf(p) \in Escalating THEN "strike"
                       ELSE "refused"
      <3>1. c0 \in {"cas", "observed", "strike", "refused"}
        OBVIOUS
      <3>2. handling' = [handling EXCEPT ![p].word = counter[RuleOf(p)], ![p].pc = c0]
        BY <1>6 DEF LoadWord
      <3> HIDE DEF c0
      <3> QED
        BY <3>1, <3>2
    <2>3. PICK u \in Request :
             /\ u.pc # "write" /\ u.key = handling[p].key
             /\ handling' = [handling EXCEPT ![p] = u]
      <3>1. counter[RuleOf(p)] \in Word
        BY <2>1, KeyParts DEF RateTypeOK
      <3> QED
        BY ZenonT(30), <1>0, <2>2, <3>1, UpdateWord DEF RateSteps, Answers
    <2>4. flagged' \subseteq Ip
      <3>1. FlagClient(p) \/ UNCHANGED flagged
        BY <1>6 DEF LoadWord
      <3> QED
        BY <2>1, <3>1, FlagType
    <2>5. u.key \in Keys
      BY <2>1, <2>3, KeyParts
    <2> QED
      BY <2>1, <2>3, <2>4, <2>5, Moved DEF RateTypeOK, Request, rateHistory
  <1>7. ASSUME NEW p \in Handlers, CompareAndSwap(p)
        PROVE  RateTypeOK'
    <2>1. /\ handling[p].pc = "cas"
          /\ UNCHANGED <<rateClock, matchesSoFar, handlerDeaths, strikeTable, strikeMutex, flagged, strikeAt, owed>>
      BY <1>7 DEF CompareAndSwap
    <2>2. /\ RuleOf(p) \in Rule /\ handling[p] \in Request /\ handling[p].key \in Keys
          /\ handling[p].word \in Word /\ handling[p].ms \in Nat /\ handling[p].tries \in Nat
      BY <1>0, <2>1, KeyParts DEF Request
    <2>3. PICK u \in Request :
             /\ u.pc # "write" /\ u.key = handling[p].key
             /\ handling' = [handling EXCEPT ![p] = u]
      <3>1. CASE Win(p)
        <4>1. handling' = [handling EXCEPT ![p].pc = "admitted"]
          BY <3>1 DEF Win, Goto
        <4> QED
          BY ZenonT(30), <1>0, <4>1, UpdatePc DEF Answers
      <3>2. CASE Lose(p)
        <4>1. PICK n \in Nat : n = handling[p].tries + 1
          BY <2>2
        <4>2. PICK c \in {"admitted", "load"} :
                 handling' = [handling EXCEPT ![p].tries = n, ![p].pc = c]
          <5>1. handling' = [handling EXCEPT ![p].tries = n,
                                   ![p].pc = IF n = MaxRetries
                                               THEN "admitted" ELSE "load"]
            BY <3>2, <4>1 DEF Lose
          <5> QED
            BY <5>1
        <4> QED
          BY ZenonT(30), <1>0, <4>2, UpdateTries DEF Answers, RateSteps
      <3> QED
        BY <1>7, <3>1, <3>2 DEF CompareAndSwap
    <2>4. counter' \in [Rule -> Word] /\ spentAt' \in [Rule -> Seq(Nat)]
      <3>1. CASE Win(p)
        <4>1. PICK w \in Word : w = Charged(handling[p].word, RuleOf(p), handling[p].ms)
          BY <2>2, SpentType
        <4>2. spentAt[RuleOf(p)] \in Seq(Nat)
          BY <2>2 DEF RateTypeOK
        <4>3. <<handling[p].ms>> \in Seq(Nat)
              /\ Append(spentAt[RuleOf(p)], handling[p].ms) \in Seq(Nat)
          BY <2>2, <4>2
        <4>4. PICK s \in Seq(Nat) :
                 s = IF Rolls(handling[p].word, RuleOf(p), handling[p].ms)
                       THEN <<handling[p].ms>>
                       ELSE Append(spentAt[RuleOf(p)], handling[p].ms)
          BY <4>3
        <4>5. /\ counter' = [counter EXCEPT ![RuleOf(p)] = w]
              /\ spentAt' = [spentAt EXCEPT ![RuleOf(p)] = s]
          BY <3>1, <4>1, <4>4 DEF Win
        <4> QED
          BY <4>5 DEF RateTypeOK
      <3>2. CASE Lose(p)
        BY <3>2 DEF Lose, RateTypeOK
      <3> QED
        BY <1>7, <3>1, <3>2 DEF CompareAndSwap
    <2> QED
      BY <2>1, <2>2, <2>3, <2>4, Moved DEF RateTypeOK, Request
  <1>8. ASSUME NEW p \in Handlers, DropStrike(p)
        PROVE  RateTypeOK'
    <2>1. /\ handling' = [handling EXCEPT ![p].pc = "refused"] /\ handling[p].pc = "strike"
          /\ UNCHANGED <<rateClock, matchesSoFar, handlerDeaths, counter, strikeTable, strikeMutex, flagged,
                         rateHistory>>
      BY <1>8 DEF DropStrike, Goto
    <2>2. PICK u \in Request :
             /\ u.pc # "write" /\ u.key = handling[p].key
             /\ handling' = [handling EXCEPT ![p] = u]
      BY <1>0, <2>1, UpdatePc DEF Answers
    <2>3. u.key \in Keys
      BY <2>1, <2>2, KeyParts
    <2>4. /\ handling' \in [Handlers -> Request]
          /\ \A q \in Handlers : handling'[q].pc # "idle" => handling'[q].key \in Keys
          /\ \A q \in Handlers : strikeMutex' = q <=> handling'[q].pc = "write"
      BY <2>1, <2>2, <2>3, Moved
    <2> QED
      BY <2>1, <2>4 DEF RateTypeOK, Request, rateHistory
  <1>9. ASSUME NEW p \in Handlers, BeginStrike(p)
        PROVE  RateTypeOK'
    <2>1. PICK k \in Keys, now \in Nat : k = handling[p].key /\ now = handling[p].sec
      BY <1>0, <1>9, KeyParts DEF BeginStrike, Request
    <2>2. strikeTable \in [StrikeSlots -> StrikeEntry]
      BY DEF RateTypeOK
    <2>3. PICK i \in StrikeSlots, e \in StrikeEntry :
             i = StrikeSlot(strikeTable, k, now) /\ e = Recorded(strikeTable, k, now)
      BY <2>2, TargetInTable, RecordedType
    <2>4. /\ handling' = [handling EXCEPT ![p].pc = "write", ![p].slot = i, ![p].entry = e]
          /\ strikeTable' = [strikeTable EXCEPT ![i].odd = TRUE]
          /\ handling[p].pc = "strike" /\ strikeMutex = NoHandler /\ strikeMutex' = p
          /\ UNCHANGED <<rateClock, matchesSoFar, handlerDeaths, counter, flagged, spentAt>>
      BY <1>9, <2>1, <2>3 DEF BeginStrike
    <2>5. PICK u \in Request :
             /\ u.pc = "write" /\ u.key = k
             /\ handling' = [handling EXCEPT ![p] = u]
      BY <1>0, <2>1, <2>4, UpdateEntry DEF RateSteps
    <2>6. strikeTable' \in [StrikeSlots -> StrikeEntry]
      <3>1. [strikeTable[i] EXCEPT !.odd = TRUE] \in StrikeEntry
        BY <2>2 DEF StrikeEntry
      <3> QED
        BY <2>2, <2>4, <3>1
    <2>7. strikeAt' \in [Keys -> Seq(Nat)]
      <3>1. strikeAt[k] \in Seq(Nat)
        BY DEF RateTypeOK
      <3>2. Append(strikeAt[k], now) \in Seq(Nat)
        BY <3>1
      <3>3. strikeAt' = [strikeAt EXCEPT ![k] = Append(strikeAt[k], now)]
        BY <1>9, <2>1 DEF BeginStrike
      <3> QED
        BY <3>2, <3>3 DEF RateTypeOK
    <2>8. owed' \in [Keys -> Nat]
      BY <1>9 DEF BeginStrike, RateTypeOK
    <2>9. \A q \in Handlers : q # p => handling[q].pc # "write"
      BY <2>4, RateAssumption DEF RateTypeOK
    <2>10. /\ handling' \in [Handlers -> Request]
           /\ \A q \in Handlers : handling'[q].pc # "idle" => handling'[q].key \in Keys
           /\ handling'[p] = u
           /\ \A q \in Handlers : q # p => handling'[q] = handling[q]
      BY <2>5, Moved
    <2>11. \A q \in Handlers : strikeMutex' = q <=> handling'[q].pc = "write"
      <3> SUFFICES ASSUME NEW q \in Handlers
                   PROVE  strikeMutex' = q <=> handling'[q].pc = "write"
        OBVIOUS
      <3>1. CASE q = p
        BY <2>4, <2>5, <2>10, <3>1
      <3>2. CASE q # p
        BY <2>4, <2>9, <2>10, <3>2
      <3> QED
        BY <3>1, <3>2
    <2> QED
      BY <2>4, <2>6, <2>7, <2>8, <2>10, <2>11 DEF RateTypeOK, Request
  <1>10. ASSUME NEW p \in Handlers, EndStrike(p)
         PROVE  RateTypeOK'
    <2>1. /\ handling' = [handling EXCEPT ![p].pc = "refused"]
          /\ handling[p].pc = "write" /\ strikeMutex' = NoHandler
          /\ UNCHANGED <<rateClock, matchesSoFar, handlerDeaths, counter, flagged, spentAt, strikeAt>>
      BY <1>10 DEF EndStrike, Goto
    <2>2. PICK u \in Request :
             /\ u.pc = "refused" /\ u.key = handling[p].key
             /\ handling' = [handling EXCEPT ![p] = u]
      BY <1>0, <2>1, UpdatePc DEF Answers
    <2>3. handling[p].entry \in StrikeEntry /\ handling[p].slot \in StrikeSlots /\ handling[p].key \in Keys
      BY <1>0, <2>1, KeyParts DEF Request
    <2>4. strikeTable' \in [StrikeSlots -> StrikeEntry]
      BY <1>10, <2>3 DEF EndStrike, RateTypeOK
    <2>5. owed' \in [Keys -> Nat]
      <3>1. PICK n \in Nat : n = handling[p].entry.until
        BY <2>3 DEF StrikeEntry
      <3>2. owed' = [owed EXCEPT ![handling[p].key] = n]
        BY <1>10, <3>1 DEF EndStrike
      <3> QED
        BY <3>2 DEF RateTypeOK
    <2>6. \A q \in Handlers : handling'[q].pc # "write"
      BY <2>1, <2>2, <2>3, Moved DEF RateTypeOK
    <2>7. \A q \in Handlers : strikeMutex' = q <=> handling'[q].pc = "write"
      BY <2>1, <2>6, RateAssumption
    <2>8. /\ handling' \in [Handlers -> Request]
          /\ \A q \in Handlers : handling'[q].pc # "idle" => handling'[q].key \in Keys
      BY <2>2, <2>3, Moved
    <2> QED
      BY <2>1, <2>4, <2>5, <2>7, <2>8 DEF RateTypeOK, Request
  <1>11. ASSUME NEW p \in Handlers, HandlerDies(p)
         PROVE  RateTypeOK'
    <2>1. /\ handling' = [handling EXCEPT ![p] = NoRuleYet] /\ handling[p].pc # "idle"
          /\ handlerDeaths' \in Nat
          /\ UNCHANGED <<rateClock, matchesSoFar, counter, flagged, spentAt, strikeAt>>
      BY <1>11 DEF HandlerDies, RateSteps, RateTypeOK
    <2>2. PICK u \in Request : u.pc = "idle" /\ handling' = [handling EXCEPT ![p] = u]
      BY <2>1, InitialTypes DEF NoRuleYet
    <2>3. CASE strikeMutex = p
      <3>1. /\ strikeMutex' = NoHandler
            /\ strikeTable' = [strikeTable EXCEPT ![handling[p].slot] = [NoStrikes EXCEPT !.odd = TRUE]]
            /\ owed' = [owed EXCEPT ![handling[p].key] = 0]
        BY <1>11, <2>3 DEF HandlerDies
      <3>2. strikeTable' \in [StrikeSlots -> StrikeEntry] /\ owed' \in [Keys -> Nat]
        BY <3>1, InitialTypes DEF RateTypeOK
      <3>3. \A q \in Handlers : handling'[q].pc # "write"
        BY <2>2, <2>3, Moved DEF RateTypeOK
      <3>4. \A q \in Handlers : strikeMutex' = q <=> handling'[q].pc = "write"
        BY <3>1, <3>3, RateAssumption
      <3>5. /\ handling' \in [Handlers -> Request]
            /\ \A q \in Handlers : handling'[q].pc # "idle" => handling'[q].key \in Keys
        BY <2>2, Moved
      <3> QED
        BY ZenonT(30), <2>1, <3>1, <3>2, <3>4, <3>5 DEF RateTypeOK, Request
    <2>4. CASE strikeMutex # p
      <3>1. UNCHANGED <<strikeMutex, strikeTable, owed>> /\ handling[p].pc # "write"
        BY <1>11, <2>4 DEF HandlerDies, RateTypeOK
      <3>2. /\ handling' \in [Handlers -> Request]
            /\ \A q \in Handlers : handling'[q].pc # "idle" => handling'[q].key \in Keys
            /\ \A q \in Handlers : strikeMutex' = q <=> handling'[q].pc = "write"
        BY <2>2, <3>1, Moved DEF RateTypeOK
      <3> QED
        BY ZenonT(30), <2>1, <3>1, <3>2 DEF RateTypeOK, Request
    <2> QED
      BY <2>3, <2>4
  <1> QED
    BY <1>1, <1>2, <1>3, <1>4, <1>5, <1>6, <1>7, <1>8, <1>9, <1>10, <1>11
       DEF RateNext, ServeRule

\* TypeOK of every behaviour: the mutex is held by the one process that writes
\* an entry, also when processes die (bs_strike_record_429).
THEOREM RateTypeCorrect == RateSpec => []RateTypeOK
  <1>1. RateInit => RateTypeOK
    BY InitialTypes, RateAssumption DEF RateInit, RateTypeOK, Request, NoRuleYet
  <1> QED
    BY <1>1, TypePreserved, PTL DEF RateSpec

(***************************************************************************)
(* Readings of the clock.                                                  *)
(***************************************************************************)

TimeInv ==
    /\ rateClock <= LastRateTime
    /\ \A p \in Handlers : handling[p].sec <= rateClock /\ handling[p].ms <= rateClock

\* A time elapsed is a number, also of readings out of order.
LEMMA SinceType ==
    ASSUME NEW a \in Nat, NEW b \in Nat
    PROVE  Since(a, b % Wrap) \in Nat
  <1>1. b % Wrap \in Nat /\ Wrap \in Nat \ {0}
    BY StrikeAssumption
  <1> QED
    BY <1>1 DEF Since

\* Of two readings before the wrap, a difference of less than a span says that
\* the first came first.
LEMMA Elapsed ==
    ASSUME NEW a \in 0 .. LastRateTime, NEW b \in 0 .. LastRateTime, NEW span \in Nat,
           LastRateTime + span <= Wrap, Since(a, b % Wrap) < span
    PROVE  a <= b /\ b - a < span
  <1>1. Wrap \in Nat \ {0} /\ LastRateTime \in Nat
    BY StrikeAssumption, RateAssumption
  <1>2. CASE b < Wrap
    <2>1. b % Wrap = b
      BY <1>1, <1>2
    <2>2. CASE a <= b
      <3>1. (b - a) % Wrap = b - a
        BY <1>1, <1>2, <2>2
      <3> QED
        BY <2>1, <2>2, <3>1 DEF Since
    <2>3. CASE b < a
      <3>1. (b - a) % Wrap = b - a + Wrap
        BY <1>1, <1>2, <2>3
      <3> QED
        BY <1>1, <2>1, <2>3, <3>1 DEF Since
    <2> QED
      BY <2>2, <2>3
  <1>3. CASE b >= Wrap
    <2>1. span = 0
      BY <1>1, <1>3
    <2>2. Since(a, b % Wrap) \in Nat
      BY <1>1 DEF Since
    <2> QED
      BY <2>1, <2>2
  <1> QED
    BY <1>1, <1>2, <1>3

\* A reading before the wrap survives its 32 bits when there is a rule.
LEMMA Unwrapped ==
    ASSUME NEW r \in Rule, NEW n \in 0 .. LastRateTime
    PROVE  n % Wrap = n
  <1>1. n < Wrap
    BY StrikeAssumption, RateAssumption
  <1> QED
    BY <1>1, LowBits

\* What a step makes of the readings of a request.
LEMMA Readings ==
    ASSUME RateTypeOK, [RateNext]_rateVars, NEW p \in Handlers
    PROVE  /\ handling'[p].sec \in {0, handling[p].sec, rateClock}
           /\ handling'[p].ms \in {0, handling[p].ms, rateClock}
  <1>0. handling \in [Handlers -> Request]
    BY DEF RateTypeOK, Request
  <1>1. CASE UNCHANGED handling
    BY <1>1
  <1>2. ASSUME NEW q \in Handlers, ServeRule(q)
        PROVE  /\ handling'[p].sec \in {0, handling[p].sec, rateClock}
               /\ handling'[p].ms \in {0, handling[p].ms, rateClock}
    <2>1. CASE Arrive(q)
      <3>1. PICK k \in Keys, o \in Observing :
               handling' = [handling EXCEPT ![q] = [NoRuleYet EXCEPT !.pc = "check", !.key = k,
                                                      !.observe = o, !.sec = rateClock]]
        BY <2>1 DEF Arrive
      <3>2. \/ handling'[p] = handling[p]
            \/ handling'[p] = [NoRuleYet EXCEPT !.pc = "check", !.key = k,
                                      !.observe = o, !.sec = rateClock]
        BY <1>0, <3>1
      <3> QED
        BY <3>2 DEF NoRuleYet
    <2>2. CASE ReadMillis(q)
      <3>1. handling' = [handling EXCEPT ![q].pc = "load", ![q].ms = rateClock]
        BY <2>2 DEF ReadMillis
      <3>2. handling'[p] = handling[p] \/ handling'[p] = [handling[p] EXCEPT !.pc = "load", !.ms = rateClock]
        BY <1>0, <3>1
      <3> QED
        BY <1>0, <3>2 DEF Request
    <2>3. CASE HandlerDies(q)
      BY <1>0, <2>3 DEF HandlerDies, NoRuleYet
    <2>4. CASE CheckStrikes(q)
      BY <1>0, <2>4 DEF CheckStrikes, Goto, Request
    <2>5. CASE DropStrike(q)
      BY <1>0, <2>5 DEF DropStrike, Goto, Request
    <2>6. CASE EndStrike(q)
      BY <1>0, <2>6 DEF EndStrike, Goto, Request
    <2>7. CASE LoadWord(q)
      <3>1. PICK w, c : handling' = [handling EXCEPT ![q].word = w, ![q].pc = c]
        BY <2>7 DEF LoadWord
      <3>2. handling'[p] = handling[p] \/ handling'[p] = [handling[p] EXCEPT !.word = w, !.pc = c]
        BY <1>0, <3>1
      <3> QED
        BY <1>0, <3>2 DEF Request
    <2>8. CASE CompareAndSwap(q)
      <3>1. CASE Win(q)
        BY <1>0, <3>1 DEF Win, Goto, Request
      <3>2. CASE Lose(q)
        <4>1. PICK n, c : handling' = [handling EXCEPT ![q].tries = n, ![q].pc = c]
          BY <3>2 DEF Lose
        <4>2. handling'[p] = handling[p] \/ handling'[p] = [handling[p] EXCEPT !.tries = n, !.pc = c]
          BY <1>0, <4>1
        <4> QED
          BY <1>0, <4>2 DEF Request
      <3> QED
        BY <2>8, <3>1, <3>2 DEF CompareAndSwap
    <2>9. CASE BeginStrike(q)
      <3>1. PICK i, e : handling' = [handling EXCEPT ![q].pc = "write", ![q].slot = i,
                                           ![q].entry = e]
        BY <2>9 DEF BeginStrike
      <3>2. \/ handling'[p] = handling[p]
            \/ handling'[p] = [handling[p] EXCEPT !.pc = "write", !.slot = i, !.entry = e]
        BY <1>0, <3>1
      <3> QED
        BY <1>0, <3>2 DEF Request
    <2> QED
      BY <1>2, <2>1, <2>2, <2>3, <2>4, <2>5, <2>6, <2>7, <2>8, <2>9 DEF ServeRule
  <1>3. CASE ClockTicks
    BY <1>3 DEF ClockTicks
  <1> QED
    BY <1>1, <1>2, <1>3 DEF RateNext, rateVars

\* The clock only goes forward, up to its bound.
LEMMA ClockRuns ==
    ASSUME RateTypeOK, rateClock <= LastRateTime, [RateNext]_rateVars
    PROVE  rateClock <= rateClock' /\ rateClock' <= LastRateTime /\ rateClock' \in Nat
  <1>1. CASE ClockTicks
    BY <1>1, RateAssumption DEF ClockTicks, RateTypeOK
  <1>2. CASE UNCHANGED rateClock
    BY <1>2 DEF RateTypeOK
  <1>3. ASSUME NEW p \in Handlers, ServeRule(p)
        PROVE  UNCHANGED rateClock
    BY <1>3 DEF ServeRule, Arrive, CheckStrikes, ReadMillis, LoadWord, CompareAndSwap, DropStrike,
                BeginStrike, EndStrike, HandlerDies
  <1> QED
    BY <1>1, <1>2, <1>3 DEF RateNext, rateVars

\* No request holds a reading of the future.
LEMMA TimePreserved ==
    ASSUME RateTypeOK, TimeInv, [RateNext]_rateVars
    PROVE  TimeInv'
  <1>1. rateClock <= rateClock' /\ rateClock' <= LastRateTime /\ rateClock \in Nat /\ rateClock' \in Nat
    BY ClockRuns DEF TimeInv, RateTypeOK
  <1>2. ASSUME NEW p \in Handlers
        PROVE  handling'[p].sec <= rateClock' /\ handling'[p].ms <= rateClock'
    <2>1. /\ handling[p].sec \in Nat /\ handling[p].ms \in Nat
          /\ handling[p].sec <= rateClock /\ handling[p].ms <= rateClock
      BY DEF RateTypeOK, TimeInv
    <2>2. /\ handling'[p].sec \in {0, handling[p].sec, rateClock}
          /\ handling'[p].ms \in {0, handling[p].ms, rateClock}
      BY Readings
    <2> QED
      BY <1>1, <2>1, <2>2
  <1> QED
    BY <1>1, <1>2 DEF TimeInv

(***************************************************************************)
(* The counter of a rule.                                                  *)
(***************************************************************************)

\* The readings that a word counts are none of the future and none before the
\* start of its window.
CountInv ==
    /\ TimeInv
    /\ CountIsSpent
    /\ \A r \in Rule :
        /\ counter[r].start <= rateClock
        /\ \A i \in DOMAIN spentAt[r] : counter[r].start <= spentAt[r][i]

\* The counter of a rule changes by a compare-and-swap only.
LEMMA CounterSteps ==
    ASSUME [RateNext]_rateVars,
           ~ \E p \in Handlers : CompareAndSwap(p) /\ Win(p)
    PROVE  UNCHANGED <<counter, spentAt>>
  <1>1. CASE UNCHANGED rateVars \/ ClockTicks
    BY <1>1 DEF rateVars, rateHistory, ClockTicks
  <1>2. ASSUME NEW p \in Handlers, ServeRule(p)
        PROVE  UNCHANGED <<counter, spentAt>>
    <2>1. CASE CompareAndSwap(p)
      BY <2>1 DEF CompareAndSwap, Lose
    <2>2. CASE ~ CompareAndSwap(p)
      BY <1>2, <2>2 DEF ServeRule, Arrive, CheckStrikes, ReadMillis, LoadWord, DropStrike,
                        BeginStrike, EndStrike, HandlerDies, rateHistory
    <2> QED
      BY <2>1, <2>2
  <1> QED
    BY <1>1, <1>2 DEF RateNext

\* A request counted in keeps the count and the window of its rule.
LEMMA WinCounts ==
    ASSUME RateTypeOK, CountInv, NEW p \in Handlers, CompareAndSwap(p), Win(p),
           NEW r \in Rule
    PROVE  /\ counter'[r].count = Len(spentAt'[r])
           /\ counter'[r].start <= rateClock
           /\ \A i \in DOMAIN spentAt'[r] : counter'[r].start <= spentAt'[r][i]
  <1>0. /\ RuleOf(p) \in Rule /\ handling[p].ms \in Nat /\ handling[p].ms <= rateClock
        /\ counter[RuleOf(p)] = handling[p].word
        /\ rateClock \in Nat /\ rateClock <= LastRateTime
        /\ counter \in [Rule -> Word] /\ spentAt \in [Rule -> Seq(Nat)]
    BY KeyParts DEF CompareAndSwap, RateTypeOK, CountInv, TimeInv, Win
  <1>1. CASE r # RuleOf(p)
    <2>1. counter'[r] = counter[r] /\ spentAt'[r] = spentAt[r]
      BY <1>0, <1>1 DEF Win
    <2> QED
      BY <2>1 DEF CountInv, CountIsSpent
  <1>2. CASE r = RuleOf(p) /\ Rolls(handling[p].word, r, handling[p].ms)
    <2>1. handling[p].ms % Wrap = handling[p].ms
      BY <1>0, Unwrapped, RateAssumption
    <2>2. counter'[r] = [count |-> 1, start |-> handling[p].ms]
      BY <1>0, <1>2, <2>1 DEF Win, Charged
    <2>3. spentAt'[r] = <<handling[p].ms>>
      BY <1>0, <1>2 DEF Win
    <2>4. Len(<<handling[p].ms>>) = 1 /\ DOMAIN <<handling[p].ms>> = {1}
          /\ <<handling[p].ms>>[1] = handling[p].ms
      OBVIOUS
    <2> QED
      BY <1>0, <2>2, <2>3, <2>4
  <1>3. CASE r = RuleOf(p) /\ ~ Rolls(handling[p].word, r, handling[p].ms)
    <2>1. PICK w \in Word, s \in Seq(Nat) : w = handling[p].word /\ s = spentAt[r]
      BY <1>0
    <2>2. /\ w.count = Len(s) /\ w.start <= rateClock
          /\ \A i \in DOMAIN s : w.start <= s[i]
      BY <1>0, <1>3, <2>1 DEF CountInv, CountIsSpent
    <2>3. counter'[r] = [w EXCEPT !.count = @ + 1]
      BY <1>0, <1>3, <2>1 DEF Win, Charged
    <2>4. spentAt'[r] = Append(s, handling[p].ms)
      BY <1>0, <1>3, <2>1 DEF Win
    <2>5. counter'[r].count = w.count + 1 /\ counter'[r].start = w.start
      BY <2>3 DEF Word
    <2>6. w.start <= handling[p].ms
      <3>1. Since(w.start, handling[p].ms % Wrap) < BudgetWindow[r]
        <4>1. Since(w.start, handling[p].ms % Wrap) \in Int /\ BudgetWindow[r] \in Int
          <5>1. w.start \in Nat /\ BudgetWindow[r] \in Int
            BY RateAssumption DEF Word
          <5>2. Since(w.start, handling[p].ms % Wrap) \in Nat
            BY <1>0, <5>1, SinceType
          <5> QED
            BY <5>1, <5>2
        <4> QED
          BY <1>3, <2>1, <4>1 DEF Rolls
      <3>2. w.start \in 0 .. LastRateTime /\ handling[p].ms \in 0 .. LastRateTime
            /\ BudgetWindow[r] \in Nat /\ LastRateTime + BudgetWindow[r] <= Wrap
        BY SMTT(30), <1>0, <2>2, RateAssumption DEF Word
      <3> QED
        BY <3>1, <3>2, Elapsed
    <2>7. /\ Len(Append(s, handling[p].ms)) = Len(s) + 1
          /\ DOMAIN Append(s, handling[p].ms) = 1 .. Len(s) + 1
          /\ \A i \in 1 .. Len(s) + 1 :
                 Append(s, handling[p].ms)[i] = IF i = Len(s) + 1 THEN handling[p].ms ELSE s[i]
      BY <1>0
    <2>8. DOMAIN s = 1 .. Len(s)
      OBVIOUS
    <2> QED
      BY <2>2, <2>4, <2>5, <2>6, <2>7, <2>8
  <1> QED
    BY <1>1, <1>2, <1>3

\* Every step keeps the count.
LEMMA CountPreserved ==
    ASSUME RateTypeOK, CountInv, [RateNext]_rateVars
    PROVE  CountInv'
  <1>1. TimeInv'
    BY TimePreserved DEF CountInv
  <1>2. rateClock <= rateClock' /\ rateClock \in Nat /\ rateClock' \in Nat
    BY ClockRuns DEF CountInv, TimeInv, RateTypeOK
  <1>3. \A r \in Rule : counter'[r].start \in Nat
    BY TypePreserved DEF RateTypeOK, Word
  <1>4. CASE \E p \in Handlers : CompareAndSwap(p) /\ Win(p)
    <2>1. PICK p \in Handlers : CompareAndSwap(p) /\ Win(p)
      BY <1>4
    <2>2. \A r \in Rule :
             /\ counter'[r].count = Len(spentAt'[r])
             /\ counter'[r].start <= rateClock
             /\ \A i \in DOMAIN spentAt'[r] : counter'[r].start <= spentAt'[r][i]
      BY <2>1, WinCounts
    <2> QED
      BY <1>1, <1>2, <1>3, <2>2 DEF CountInv, CountIsSpent
  <1>5. CASE ~ \E p \in Handlers : CompareAndSwap(p) /\ Win(p)
    <2>1. UNCHANGED <<counter, spentAt>>
      BY <1>5, CounterSteps
    <2> QED
      BY <1>1, <1>2, <1>3, <2>1 DEF CountInv, CountIsSpent
  <1> QED
    BY <1>4, <1>5

\* A request that finds its rule over budget finds it within the window of all
\* that the word counts.
LEMMA RefusalJustified ==
    ASSUME RateTypeOK, CountInv, [RateNext]_rateVars, NEW p \in Handlers,
           handling[p].pc = "load", handling'[p].pc \in Over
    PROVE  LET spent == spentAt[RuleOf(p)]
           IN  /\ Len(spent) >= Budget[RuleOf(p)]
               /\ \A i \in DOMAIN spent :
                      handling[p].ms - spent[i] < BudgetWindow[RuleOf(p)]
  <1>0. handling \in [Handlers -> Request]
    BY DEF RateTypeOK, Request
  <1>1. LoadWord(p)
    <2>1. handling'[p] # handling[p]
      BY DEF Over
    <2>2. PICK q \in Handlers : ServeRule(q)
      BY <2>1 DEF RateNext, ClockTicks, rateVars
    <2>3. q = p
      BY <1>0, <2>1, <2>2 DEF ServeRule, Arrive, CheckStrikes, ReadMillis, LoadWord, CompareAndSwap,
                              Win, Lose, DropStrike, BeginStrike, EndStrike, HandlerDies, Goto
    <2>4. LoadWord(p) \/ HandlerDies(p)
      BY <2>2, <2>3 DEF ServeRule, Arrive, CheckStrikes, ReadMillis, CompareAndSwap, DropStrike,
                        BeginStrike, EndStrike, Answers
    <2>5. HandlerDies(p) => handling'[p].pc = "idle"
      BY <1>0 DEF HandlerDies, NoRuleYet
    <2> QED
      BY <2>4, <2>5 DEF Over
  <1>2. PICK r \in Rule : r = RuleOf(p)
    BY KeyParts
  <1>3. Refuses(counter[r], r, handling[p].ms)
    <2>1. CASE ~ Refuses(counter[r], r, handling[p].ms)
      <3>1. handling' = [handling EXCEPT ![p].word = counter[r], ![p].pc = "cas"]
        BY <1>1, <1>2, <2>1 DEF LoadWord
      <3>2. handling'[p] = [handling[p] EXCEPT !.word = counter[r], !.pc = "cas"]
        BY <1>0, <3>1
      <3>3. handling'[p].pc = "cas"
        BY <1>0, <3>2 DEF Request
      <3> QED
        BY <3>3 DEF Over
    <2> QED
      BY <2>1
  <1>4. /\ counter[r] \in Word /\ spentAt[r] \in Seq(Nat)
        /\ counter[r].count = Len(spentAt[r])
        /\ counter[r].start \in 0 .. LastRateTime
        /\ handling[p].ms \in 0 .. LastRateTime
        /\ \A i \in DOMAIN spentAt[r] : counter[r].start <= spentAt[r][i]
    BY SMTT(30), RateAssumption DEF RateTypeOK, Word, CountInv, CountIsSpent, TimeInv
  <1>5. handling[p].ms - counter[r].start < BudgetWindow[r]
    <2>1. Since(counter[r].start, handling[p].ms % Wrap) < BudgetWindow[r]
      <3>1. Since(counter[r].start, handling[p].ms % Wrap) \in Int /\ BudgetWindow[r] \in Int
        BY RateAssumption, StrikeAssumption, <1>4 DEF Since
      <3> QED
        BY <1>3, <3>1 DEF Refuses, Rolls
    <2>2. BudgetWindow[r] \in Nat /\ LastRateTime + BudgetWindow[r] <= Wrap
      BY RateAssumption
    <2> QED
      BY <1>4, <2>1, <2>2, Elapsed
  <1>6. \A i \in DOMAIN spentAt[r] : handling[p].ms - spentAt[r][i] < BudgetWindow[r]
    <2> SUFFICES ASSUME NEW i \in DOMAIN spentAt[r]
                 PROVE  handling[p].ms - spentAt[r][i] < BudgetWindow[r]
      OBVIOUS
    <2>1. spentAt[r][i] \in Nat /\ counter[r].start <= spentAt[r][i]
      BY <1>4
    <2> QED
      BY SMTT(30), <1>4, <1>5, <2>1, RateAssumption
  <1>7. Len(spentAt[r]) >= Budget[r]
    BY <1>3, <1>4 DEF Refuses
  <1> QED
    BY <1>2, <1>6, <1>7

\* The word of a rule counts every request it admitted in its window and no
\* other (CountIsSpent, bs_rate_counter_admit).
THEOREM SpentCounted == RateSpec => []CountIsSpent
  <1>1. RateInit => CountInv
    BY RateAssumption DEF RateInit, CountInv, TimeInv, CountIsSpent, NoRuleYet
  <1>2. CountInv => CountIsSpent
    BY DEF CountInv
  <1> QED
    BY <1>1, <1>2, CountPreserved, RateTypeCorrect, PTL DEF RateSpec

\* A request is refused for its rate only when a whole budget was admitted less
\* than a window before the reading of its clock (RefusedWhenSpent).
THEOREM RefusalsJustified == RateSpec => RefusedWhenSpent
  <1>1. RateInit => CountInv
    BY RateAssumption DEF RateInit, CountInv, TimeInv, CountIsSpent, NoRuleYet
  <1>2. RateTypeOK /\ CountInv /\ [RateNext]_rateVars
        => [\A p \in Handlers :
               handling[p].pc = "load" /\ handling'[p].pc \in Over
               => LET spent == spentAt[RuleOf(p)]
                  IN  /\ Len(spent) >= Budget[RuleOf(p)]
                      /\ \A i \in DOMAIN spent :
                             handling[p].ms - spent[i] < BudgetWindow[RuleOf(p)]]_rateVars
    BY RefusalJustified
  <1> QED
    BY <1>1, <1>2, CountPreserved, RateTypeCorrect, PTL DEF RateSpec, RefusedWhenSpent

(***************************************************************************)
(* Escalations.                                                            *)
(***************************************************************************)

\* The strikes an entry counts were recorded in its window.
Recounted(s, e, r) ==
    \E J \in SUBSET DOMAIN s :
        /\ Cardinality(J) = e.count
        /\ \A j \in J : e.start <= s[j] /\ s[j] - e.start < Per[r]

\* So were they, the last among them.
RecountedLast(s, e, r) ==
    \E J \in SUBSET DOMAIN s :
        /\ Len(s) \in J
        /\ Cardinality(J) = e.count
        /\ \A j \in J : e.start <= s[j] /\ s[j] - e.start < Per[r]

\* An escalation to until was earned.
Backed(s, until, r) ==
    \E J \in SUBSET DOMAIN s :
        /\ Cardinality(J) >= Strikes[r]
        /\ InOneWindow(s, J, Per[r])
        /\ \E j \in J : s[j] + Ttl[r] >= until

Justified(s, e, r) ==
    /\ e.start <= LastRateTime
    /\ Recounted(s, e, r)
    /\ e.until # 0 => Backed(s, e.until, r)

\* Every entry of the table and every entry about to be written is justified
\* by the strikes recorded for its key.
JustInv ==
    /\ TimeInv
    /\ \A i \in StrikeSlots :
           Readable(strikeTable[i])
           => Justified(strikeAt[strikeTable[i].key], strikeTable[i], strikeTable[i].key[2])
    /\ \A p \in Handlers :
           handling[p].pc = "write"
           => /\ handling[p].entry.key = handling[p].key
              /\ Justified(strikeAt[handling[p].key], handling[p].entry, RuleOf(p))
    /\ EscalatedJustified

\* The elements of a sequence of numbers.
LEMMA Elements ==
    ASSUME NEW s \in Seq(Nat)
    PROVE  \A z \in DOMAIN s : s[z] \in Nat
  OBVIOUS

\* A sequence and what is appended to it.
LEMMA Longer ==
    ASSUME NEW s \in Seq(Nat), NEW n \in Nat
    PROVE  /\ Append(s, n) \in Seq(Nat)
           /\ DOMAIN s = 1 .. Len(s) /\ Len(s) \in Nat
           /\ DOMAIN Append(s, n) = 1 .. Len(s) + 1
           /\ \A i \in DOMAIN s : i \in DOMAIN Append(s, n) /\ Append(s, n)[i] = s[i]
           /\ Append(s, n)[Len(s) + 1] = n
  OBVIOUS

\* One more strike takes no justification away.
LEMMA StillJustified ==
    ASSUME NEW s \in Seq(Nat), NEW n \in Nat, NEW r \in Rule
    PROVE  /\ \A e : Recounted(s, e, r) => Recounted(Append(s, n), e, r)
           /\ \A u : Backed(s, u, r) => Backed(Append(s, n), u, r)
           /\ \A u : Earned(s, r, u) => Earned(Append(s, n), r, u)
           /\ \A e : Justified(s, e, r) => Justified(Append(s, n), e, r)
  <1>1. ASSUME NEW e, Recounted(s, e, r)
        PROVE  Recounted(Append(s, n), e, r)
    <2>1. PICK J \in SUBSET DOMAIN s :
             /\ Cardinality(J) = e.count
             /\ \A j \in J : e.start <= s[j] /\ s[j] - e.start < Per[r]
      BY <1>1 DEF Recounted
    <2>2. J \in SUBSET DOMAIN Append(s, n) /\ \A j \in J : Append(s, n)[j] = s[j]
      BY <2>1, Longer
    <2> QED
      BY <2>1, <2>2 DEF Recounted
  <1>2. ASSUME NEW u, Backed(s, u, r)
        PROVE  Backed(Append(s, n), u, r)
    <2>1. PICK J \in SUBSET DOMAIN s :
             /\ Cardinality(J) >= Strikes[r]
             /\ InOneWindow(s, J, Per[r])
             /\ \E j \in J : s[j] + Ttl[r] >= u
      BY <1>2 DEF Backed
    <2>2. J \in SUBSET DOMAIN Append(s, n) /\ \A j \in J : Append(s, n)[j] = s[j]
      BY <2>1, Longer
    <2>3. InOneWindow(Append(s, n), J, Per[r])
      BY <2>1, <2>2 DEF InOneWindow
    <2> QED
      BY <2>1, <2>2, <2>3 DEF Backed
  <1>3. ASSUME NEW u, Earned(s, r, u)
        PROVE  Earned(Append(s, n), r, u)
    <2>1. PICK J \in SUBSET DOMAIN s :
             /\ Cardinality(J) >= Strikes[r]
             /\ InOneWindow(s, J, Per[r])
             /\ \E j \in J : s[j] + Ttl[r] > u
      BY <1>3 DEF Earned
    <2>2. J \in SUBSET DOMAIN Append(s, n) /\ \A j \in J : Append(s, n)[j] = s[j]
      BY <2>1, Longer
    <2>3. InOneWindow(Append(s, n), J, Per[r])
      BY <2>1, <2>2 DEF InOneWindow
    <2> QED
      BY <2>1, <2>2, <2>3 DEF Earned
  <1> QED
    BY <1>1, <1>2, <1>3 DEF Justified

\* A strike counted into a running window, or the first of a new one.
LEMMA CountedJustified ==
    ASSUME NEW t \in [StrikeSlots -> StrikeEntry], NEW k \in Keys, NEW now \in 0 .. LastRateTime,
           NEW s \in Seq(Nat),
           Found(t, k) # {} => Justified(s, t[StrikeSlot(t, k, now)], k[2])
    PROVE  /\ Justified(Append(s, now), Counted(t, k, now), k[2])
           /\ RecountedLast(Append(s, now), Counted(t, k, now), k[2])
  <1>0. k[2] \in Rule /\ now \in Nat /\ now % Wrap = now
    BY RateAssumption, Unwrapped DEF Keys
  <1>1. PICK e \in StrikeEntry : e = t[StrikeSlot(t, k, now)]
    BY <1>0, TargetInTable
  <1> DEFINE c == Counted(t, k, now)
             L == Len(s) + 1
             a == Append(s, now)
  <1>2. L \in DOMAIN a /\ a[L] = now /\ L \notin DOMAIN s /\ Len(a) = L
    BY <1>0, Longer
  <1>3. Per[k[2]] \in Nat \ {0} /\ LastRateTime + Per[k[2]] <= Wrap
    BY <1>0, StrikeAssumption, RateAssumption
  <1>4. ASSUME c.start = now, c.count = 1
        PROVE  Recounted(a, c, k[2]) /\ RecountedLast(a, c, k[2])
    <2>1. {L} \in SUBSET DOMAIN a /\ Cardinality({L}) = 1
      BY <1>2, FS_Singleton
    <2>2. \A j \in {L} : c.start <= a[j] /\ a[j] - c.start < Per[k[2]]
      BY <1>0, <1>2, <1>3, <1>4
    <2> QED
      BY <1>2, <1>4, <2>1, <2>2 DEF Recounted, RecountedLast
  <1>5. CASE Found(t, k) = {}
    <2>1. c = [odd |-> TRUE, key |-> k, start |-> now, count |-> 1, until |-> 0]
      BY <1>0, <1>5 DEF Counted
    <2> QED
      BY <1>4, <2>1 DEF Justified
  <1>6. CASE Found(t, k) # {} /\ RolledOver(e, k[2], now)
    <2>1. c = [e EXCEPT !.start = now, !.count = 1]
      BY <1>0, <1>1, <1>6 DEF Counted
    <2>2. c.start = now /\ c.count = 1 /\ c.until = e.until
      BY <2>1 DEF StrikeEntry
    <2>3. e.until # 0 => Backed(a, e.until, k[2])
      BY <1>0, <1>1, <1>6, StillJustified DEF Justified
    <2> QED
      BY <1>4, <2>2, <2>3 DEF Justified
  <1>7. CASE Found(t, k) # {} /\ ~ RolledOver(e, k[2], now)
    <2>1. c = [e EXCEPT !.count = @ + 1]
      BY <1>1, <1>7 DEF Counted
    <2>2. c.start = e.start /\ c.count = e.count + 1 /\ c.until = e.until
      BY <2>1 DEF StrikeEntry
    <2>3. e.until # 0 => Backed(a, e.until, k[2])
      BY <1>0, <1>1, <1>7, StillJustified DEF Justified
    <2>4. PICK J \in SUBSET DOMAIN s :
             /\ Cardinality(J) = e.count
             /\ \A j \in J : e.start <= s[j] /\ s[j] - e.start < Per[k[2]]
      BY <1>1, <1>7 DEF Justified, Recounted
    <2>5. e.start \in 0 .. LastRateTime
      BY <1>1, <1>7 DEF Justified, StrikeEntry
    <2>6. e.start <= now /\ now - e.start < Per[k[2]]
      <3>1. Since(e.start, now % Wrap) < Per[k[2]]
        <4>1. Since(e.start, now % Wrap) \in Nat
          <5>1. e.start \in Nat /\ now \in Nat
            BY <2>5
          <5> QED
            BY <5>1, SinceType
        <4>2. ~ (Since(e.start, now % Wrap) >= Per[k[2]])
          BY <1>7 DEF RolledOver
        <4> QED
          BY <1>3, <4>1, <4>2
      <3>2. Per[k[2]] \in Nat
        BY <1>3
      <3> QED
        BY <1>3, <2>5, <3>1, <3>2, Elapsed
    <2>7. Cardinality(J \cup {L}) = e.count + 1
      <3>1. IsFiniteSet(J)
        BY <1>0, Longer, FS_Interval, FS_Subset
      <3>2. L \notin J
        BY <1>2
      <3> QED
        BY <2>4, <3>1, <3>2, FS_AddElement
    <2>8. J \cup {L} \in SUBSET DOMAIN a
      BY <1>0, <1>2, Longer
    <2>9. \A j \in J \cup {L} : e.start <= a[j] /\ a[j] - e.start < Per[k[2]]
      <3>1. \A j \in J : a[j] = s[j]
        BY <1>0, Longer
      <3> QED
        BY <1>2, <2>4, <2>6, <3>1
    <2>10. Recounted(a, c, k[2]) /\ RecountedLast(a, c, k[2])
      BY <1>2, <2>2, <2>7, <2>8, <2>9 DEF Recounted, RecountedLast
    <2> QED
      BY <2>2, <2>3, <2>5, <2>10 DEF Justified
  <1> QED
    BY <1>1, <1>5, <1>6, <1>7

\* What is written is justified, the escalation it begins too.
LEMMA RecordedJustified ==
    ASSUME NEW t \in [StrikeSlots -> StrikeEntry], NEW k \in Keys, NEW now \in 0 .. LastRateTime,
           NEW s \in Seq(Nat),
           Found(t, k) # {} => Justified(s, t[StrikeSlot(t, k, now)], k[2])
    PROVE  Justified(Append(s, now), Recorded(t, k, now), k[2])
  <1>0. /\ k[2] \in Rule /\ now \in Nat
        /\ Ttl[k[2]] \in Nat \ {0} /\ Strikes[k[2]] \in Nat
    BY RateAssumption, StrikeAssumption DEF Keys
  <1>1. PICK c \in StrikeEntry : c = Counted(t, k, now)
    BY <1>0, CountedType
  <1>2. PICK a \in Seq(Nat) : a = Append(s, now) /\ a[Len(a)] = now
    <2>1. Append(s, now) \in Seq(Nat)
      BY <1>0, Longer
    <2>2. Len(Append(s, now)) = Len(s) + 1
      BY <1>0
    <2>3. Append(s, now)[Len(s) + 1] = now
      BY <1>0, Longer
    <2> QED
      BY <2>1, <2>2, <2>3
  <1>3. Justified(a, c, k[2]) /\ RecountedLast(a, c, k[2])
    BY <1>1, <1>2, CountedJustified
  <1>4. CASE c.count >= Strikes[k[2]]
    <2>1. PICK u \in Nat : u = now + Ttl[k[2]]
      BY <1>0
    <2>2. Recorded(t, k, now) = [c EXCEPT !.odd = FALSE, !.until = u]
      BY <1>1, <1>4, <2>1 DEF Recorded
    <2>3. PICK J \in SUBSET DOMAIN a :
             /\ Len(a) \in J
             /\ Cardinality(J) = c.count
             /\ \A j \in J : c.start <= a[j] /\ a[j] - c.start < Per[k[2]]
      BY <1>3 DEF RecountedLast
    <2>4. InOneWindow(a, J, Per[k[2]])
      <3> SUFFICES ASSUME NEW x \in J, NEW y \in J
                   PROVE  a[x] - a[y] < Per[k[2]]
        BY DEF InOneWindow
      <3>1. a[x] \in Nat /\ a[y] \in Nat /\ c.start \in Nat /\ Per[k[2]] \in Nat
        <4>1. a[x] \in Nat /\ a[y] \in Nat
          <5>1. x \in DOMAIN a /\ y \in DOMAIN a
            BY <2>3
          <5>2. \A z \in DOMAIN a : a[z] \in Nat
            BY <1>2, Elements
          <5> QED
            BY <5>1, <5>2
        <4>2. c.start \in Nat
          BY <1>1 DEF StrikeEntry
        <4>3. Per[k[2]] \in Nat
          BY SMTT(30), <1>0, StrikeAssumption
        <4> QED
          BY <4>1, <4>2, <4>3
      <3>2. c.start <= a[y] /\ a[x] - c.start < Per[k[2]]
        BY <2>3
      <3> QED
        BY SMTT(30), <3>1, <3>2
    <2>5. a[Len(a)] + Ttl[k[2]] >= u
      BY <1>0, <1>2, <2>1
    <2>6. Backed(a, u, k[2])
      BY <1>4, <2>3, <2>4, <2>5 DEF Backed
    <2>7. PICK d \in StrikeEntry : d = Recorded(t, k, now)
      BY <1>0, RecordedType
    <2>8. d.start = c.start /\ d.count = c.count /\ d.until = u
      BY <2>2, <2>7 DEF StrikeEntry
    <2>9. Justified(a, d, k[2])
      BY <1>3, <2>6, <2>8 DEF Justified, Recounted
    <2> QED
      BY <1>2, <2>7, <2>9
  <1>5. CASE ~ (c.count >= Strikes[k[2]])
    <2>1. Recorded(t, k, now) = [c EXCEPT !.odd = FALSE, !.until = c.until]
      BY <1>1, <1>5 DEF Recorded
    <2>2. PICK d \in StrikeEntry : d = Recorded(t, k, now)
      BY <1>0, RecordedType
    <2>3. d.start = c.start /\ d.count = c.count /\ d.until = c.until
      BY <2>1, <2>2 DEF StrikeEntry
    <2>4. Justified(a, d, k[2])
      BY <1>3, <2>3 DEF Justified, Recounted
    <2> QED
      BY <1>2, <2>2, <2>4
  <1> QED
    BY <1>4, <1>5

\* A lookup that finds an escalation finds one that was earned.
LEMMA LookupEarned ==
    ASSUME RateTypeOK, JustInv, NEW k \in Keys, NEW now \in Nat,
           Escalated(strikeTable, k, now)
    PROVE  Earned(strikeAt[k], k[2], now)
  <1>1. PICK i \in Found(strikeTable, k) : strikeTable[StrikeProbeAt(k, i)].until > now
    BY DEF Escalated
  <1>2. PICK m \in StrikeSlots : m = StrikeProbeAt(k, i)
    BY ProbeInTable DEF Found
  <1>3. Readable(strikeTable[m]) /\ strikeTable[m].key = k
    BY <1>2 DEF Found
  <1>4. strikeTable[m].until > now /\ strikeTable[m].until \in Nat
    BY <1>1, <1>2 DEF RateTypeOK, StrikeEntry
  <1>5. Backed(strikeAt[k], strikeTable[m].until, k[2])
    BY <1>3, <1>4 DEF JustInv, Justified
  <1>6. PICK J \in SUBSET DOMAIN strikeAt[k] :
           /\ Cardinality(J) >= Strikes[k[2]]
           /\ InOneWindow(strikeAt[k], J, Per[k[2]])
           /\ \E j \in J : strikeAt[k][j] + Ttl[k[2]] >= strikeTable[m].until
    BY <1>5 DEF Backed
  <1>7. PICK j \in J : strikeAt[k][j] + Ttl[k[2]] >= strikeTable[m].until
    BY <1>6
  <1>8. strikeAt[k][j] \in Nat /\ Ttl[k[2]] \in Nat
    BY SMTT(30), StrikeAssumption DEF RateTypeOK, Keys
  <1>9. strikeAt[k][j] + Ttl[k[2]] > now
    BY <1>4, <1>7, <1>8
  <1> QED
    BY <1>6, <1>9 DEF Earned

\* A step of another process leaves a request alone.
LEMMA RequestSteps ==
    ASSUME RateTypeOK, [RateNext]_rateVars, NEW p \in Handlers, handling'[p] # handling[p]
    PROVE  ServeRule(p)
  <1>0. handling \in [Handlers -> Request]
    BY DEF RateTypeOK, Request
  <1>1. PICK q \in Handlers : ServeRule(q)
    BY DEF RateNext, ClockTicks, rateVars
  <1>2. q = p
    BY <1>0, <1>1 DEF ServeRule, Arrive, CheckStrikes, ReadMillis, LoadWord, CompareAndSwap,
                      Win, Lose, DropStrike, BeginStrike, EndStrike, HandlerDies, Goto
  <1> QED
    BY <1>1, <1>2

\* Strikes are only ever added.
LEMMA StrikesGrow ==
    ASSUME RateTypeOK, [RateNext]_rateVars, NEW k \in Keys
    PROVE  \/ strikeAt'[k] = strikeAt[k]
           \/ \E n \in Nat : strikeAt'[k] = Append(strikeAt[k], n)
  <1>1. CASE UNCHANGED strikeAt
    BY <1>1
  <1>2. ASSUME NEW p \in Handlers, BeginStrike(p)
        PROVE  \/ strikeAt'[k] = strikeAt[k]
               \/ \E n \in Nat : strikeAt'[k] = Append(strikeAt[k], n)
    <2>1. PICK n \in Nat : n = handling[p].sec
      BY DEF RateTypeOK
    <2>2. strikeAt' = [strikeAt EXCEPT ![handling[p].key] = Append(@, n)]
      BY <1>2, <2>1 DEF BeginStrike
    <2>3. strikeAt \in [Keys -> Seq(Nat)]
      BY DEF RateTypeOK
    <2> QED
      BY <2>2, <2>3
  <1>3. ASSUME NEW p \in Handlers, ServeRule(p), ~ BeginStrike(p)
        PROVE  UNCHANGED strikeAt
    BY <1>3 DEF ServeRule, Arrive, CheckStrikes, ReadMillis, LoadWord, CompareAndSwap, DropStrike,
                EndStrike, HandlerDies, rateHistory
  <1> QED
    BY <1>1, <1>2, <1>3 DEF RateNext, rateVars, rateHistory, ClockTicks

\* An entry that can be read was there or is what a writer held.
LEMMA EntrySteps ==
    ASSUME RateTypeOK, [RateNext]_rateVars, NEW i \in StrikeSlots, Readable(strikeTable'[i])
    PROVE  \/ strikeTable'[i] = strikeTable[i]
           \/ \E p \in Handlers : handling[p].pc = "write" /\ strikeTable'[i] = handling[p].entry
  <1>0. strikeTable \in [StrikeSlots -> StrikeEntry]
    BY DEF RateTypeOK
  <1>1. CASE UNCHANGED strikeTable
    BY <1>1
  <1>2. ASSUME NEW p \in Handlers, ServeRule(p), ~ UNCHANGED strikeTable
        PROVE  \/ strikeTable'[i] = strikeTable[i]
               \/ \E q \in Handlers : handling[q].pc = "write" /\ strikeTable'[i] = handling[q].entry
    <2>1. BeginStrike(p) \/ EndStrike(p) \/ HandlerDies(p)
      BY <1>2 DEF ServeRule, Arrive, CheckStrikes, ReadMillis, LoadWord, CompareAndSwap, DropStrike
    <2>2. CASE BeginStrike(p)
      <3>1. PICK m : strikeTable' = [strikeTable EXCEPT ![m].odd = TRUE]
        BY <2>2 DEF BeginStrike
      <3>2. strikeTable'[i] = strikeTable[i] \/ strikeTable'[i] = [strikeTable[i] EXCEPT !.odd = TRUE]
        BY <1>0, <3>1
      <3>3. [strikeTable[i] EXCEPT !.odd = TRUE].odd = TRUE
        BY <1>0 DEF StrikeEntry
      <3> QED
        BY <3>2, <3>3 DEF Readable
    <2>3. CASE EndStrike(p)
      BY <1>0, <2>3 DEF EndStrike
    <2>4. CASE HandlerDies(p)
      <3>1. strikeTable' = [strikeTable EXCEPT ![handling[p].slot] = [NoStrikes EXCEPT !.odd = TRUE]]
        BY <1>2, <2>4 DEF HandlerDies
      <3>2. [NoStrikes EXCEPT !.odd = TRUE].odd = TRUE
        BY DEF NoStrikes
      <3> QED
        BY <1>0, <3>1, <3>2 DEF Readable
    <2> QED
      BY <2>1, <2>2, <2>3, <2>4
  <1> QED
    BY <1>1, <1>2 DEF RateNext, ClockTicks, rateVars

\* Where each action takes its request.
LEMMA Positions ==
    ASSUME RateTypeOK, NEW p \in Handlers
    PROVE  /\ Arrive(p) => handling'[p].pc = "check"
           /\ ReadMillis(p) => handling'[p].pc = "load"
           /\ LoadWord(p) => handling'[p].pc \in {"cas", "observed", "strike", "refused"}
           /\ CompareAndSwap(p) => handling'[p].pc \in {"admitted", "load"}
           /\ DropStrike(p) \/ EndStrike(p) => handling'[p].pc = "refused"
           /\ BeginStrike(p) => handling'[p].pc = "write"
           /\ HandlerDies(p) => handling'[p].pc = "idle"
  <1>0. handling \in [Handlers -> Request]
    BY DEF RateTypeOK, Request
  <1>1. ASSUME Arrive(p)
        PROVE  handling'[p].pc = "check"
    <2>1. PICK k \in Keys, o \in Observing :
             handling' = [handling EXCEPT ![p] = [NoRuleYet EXCEPT !.pc = "check", !.key = k,
                                                    !.observe = o, !.sec = rateClock]]
      BY <1>1 DEF Arrive
    <2> QED
      BY <1>0, <2>1 DEF NoRuleYet
  <1>2. ASSUME ReadMillis(p)
        PROVE  handling'[p].pc = "load"
    <2>1. handling'[p] = [handling[p] EXCEPT !.pc = "load", !.ms = rateClock]
      BY <1>0, <1>2 DEF ReadMillis
    <2> QED
      BY <1>0, <2>1 DEF Request
  <1>3. ASSUME LoadWord(p)
        PROVE  handling'[p].pc \in {"cas", "observed", "strike", "refused"}
    <2> DEFINE c0 == IF ~ Refuses(counter[RuleOf(p)], RuleOf(p), handling[p].ms)
                       THEN "cas"
                     ELSE IF handling[p].observe THEN "observed"
                     ELSE IF RuleOf(p) \in Escalating THEN "strike"
                     ELSE "refused"
    <2>1. PICK c \in {"cas", "observed", "strike", "refused"} : c = c0
      OBVIOUS
    <2>2. handling' = [handling EXCEPT ![p].word = counter[RuleOf(p)], ![p].pc = c]
      BY <1>3, <2>1 DEF LoadWord
    <2>3. handling'[p] = [handling[p] EXCEPT !.word = counter[RuleOf(p)], !.pc = c]
      BY <1>0, <2>2
    <2> HIDE DEF c0
    <2> QED
      BY <1>0, <2>3 DEF Request
  <1>4. ASSUME CompareAndSwap(p)
        PROVE  handling'[p].pc \in {"admitted", "load"}
    <2>1. CASE Win(p)
      BY <1>0, <2>1 DEF Win, Goto, Request
    <2>2. CASE Lose(p)
      <3> DEFINE c0 == IF handling[p].tries + 1 = MaxRetries THEN "admitted" ELSE "load"
      <3>1. PICK c \in {"admitted", "load"} : c = c0
        OBVIOUS
      <3>2. PICK n : handling' = [handling EXCEPT ![p].tries = n, ![p].pc = c]
        BY <2>2, <3>1 DEF Lose
      <3>3. handling'[p] = [handling[p] EXCEPT !.tries = n, !.pc = c]
        BY <1>0, <3>2
      <3> HIDE DEF c0
      <3> QED
        BY <1>0, <3>3 DEF Request
    <2> QED
      BY <1>4, <2>1, <2>2 DEF CompareAndSwap
  <1>5. DropStrike(p) \/ EndStrike(p) => handling'[p].pc = "refused"
    BY <1>0 DEF DropStrike, EndStrike, Goto, Request
  <1>6. ASSUME BeginStrike(p)
        PROVE  handling'[p].pc = "write"
    <2>1. PICK i, e : handling' = [handling EXCEPT ![p].pc = "write", ![p].slot = i,
                                         ![p].entry = e]
      BY <1>6 DEF BeginStrike
    <2>2. handling'[p] = [handling[p] EXCEPT !.pc = "write", !.slot = i, !.entry = e]
      BY <1>0, <2>1
    <2> QED
      BY <1>0, <2>2 DEF Request
  <1>7. HandlerDies(p) => handling'[p].pc = "idle"
    BY <1>0 DEF HandlerDies, NoRuleYet
  <1> QED
    BY <1>1, <1>2, <1>3, <1>4, <1>5, <1>6, <1>7

\* The escalation check leaves the key and the reading.
LEMMA CheckSteps ==
    ASSUME RateTypeOK, NEW p \in Handlers, CheckStrikes(p)
    PROVE  /\ handling'[p].pc = IF IsEscalated(p) THEN "escalated" ELSE "clock"
           /\ handling'[p].key = handling[p].key /\ handling'[p].sec = handling[p].sec
  <1>0. handling \in [Handlers -> Request]
    BY DEF RateTypeOK, Request
  <1>1. CASE IsEscalated(p)
    BY <1>0, <1>1 DEF CheckStrikes, Goto, Request
  <1>2. CASE ~ IsEscalated(p)
    BY <1>0, <1>2 DEF CheckStrikes, Goto, Request
  <1> QED
    BY <1>1, <1>2

\* A writer was one before, with the same entry, or has just chosen it.
LEMMA WriterSteps ==
    ASSUME RateTypeOK, [RateNext]_rateVars, NEW p \in Handlers, handling'[p].pc = "write"
    PROVE  handling'[p] = handling[p] \/ BeginStrike(p)
  BY RequestSteps, Positions, CheckSteps DEF ServeRule

\* An answer with the escalated status comes of the escalation check.
LEMMA AnswerSteps ==
    ASSUME RateTypeOK, [RateNext]_rateVars, NEW p \in Handlers, handling'[p].pc = "escalated",
           handling'[p] # handling[p]
    PROVE  /\ CheckStrikes(p) /\ IsEscalated(p)
           /\ handling'[p].key = handling[p].key /\ handling'[p].sec = handling[p].sec
  <1>1. CheckStrikes(p)
    BY RequestSteps, Positions DEF ServeRule
  <1> QED
    BY <1>1, CheckSteps

\* Every step keeps the justifications.
LEMMA JustPreserved ==
    ASSUME RateTypeOK, JustInv, [RateNext]_rateVars
    PROVE  JustInv'
  <1>0. handling \in [Handlers -> Request] /\ strikeTable \in [StrikeSlots -> StrikeEntry]
        /\ strikeAt \in [Keys -> Seq(Nat)]
    BY DEF RateTypeOK, Request
  <1>1. TimeInv'
    BY TimePreserved DEF JustInv
  <1>2. ASSUME NEW k \in Keys
        PROVE  /\ k[2] \in Rule
               /\ \A e : Justified(strikeAt[k], e, k[2])
                         => Justified(strikeAt'[k], e, k[2])
               /\ \A u : Earned(strikeAt[k], k[2], u) => Earned(strikeAt'[k], k[2], u)
    <2>1. k[2] \in Rule /\ strikeAt[k] \in Seq(Nat)
      BY <1>0 DEF Keys
    <2> QED
      BY <2>1, StrikesGrow, StillJustified
  <1>3. ASSUME NEW i \in StrikeSlots, Readable(strikeTable'[i])
        PROVE  Justified(strikeAt'[strikeTable'[i].key], strikeTable'[i], strikeTable'[i].key[2])
    <2>1. CASE strikeTable'[i] = strikeTable[i]
      <3>1. Readable(strikeTable[i]) /\ strikeTable[i].key \in Keys
        BY <1>0, <1>3, <2>1 DEF Readable, StrikeEntry
      <3>2. Justified(strikeAt[strikeTable[i].key], strikeTable[i], strikeTable[i].key[2])
        BY <3>1 DEF JustInv
      <3> QED
        BY <1>2, <2>1, <3>1, <3>2
    <2>2. CASE \E p \in Handlers : handling[p].pc = "write" /\ strikeTable'[i] = handling[p].entry
      <3>1. PICK p \in Handlers : handling[p].pc = "write" /\ strikeTable'[i] = handling[p].entry
        BY <2>2
      <3>2. /\ handling[p].entry.key = handling[p].key /\ handling[p].key \in Keys
            /\ Justified(strikeAt[handling[p].key], handling[p].entry, handling[p].key[2])
        BY <3>1 DEF JustInv, RateTypeOK, RuleOf
      <3> QED
        BY <1>2, <3>1, <3>2
    <2> QED
      BY <1>3, <2>1, <2>2, EntrySteps
  <1>4. ASSUME NEW p \in Handlers, handling'[p].pc = "write"
        PROVE  /\ handling'[p].entry.key = handling'[p].key
               /\ Justified(strikeAt'[handling'[p].key], handling'[p].entry, handling'[p].key[2])
    <2>1. CASE handling'[p] = handling[p]
      <3>1. /\ handling[p].entry.key = handling[p].key /\ handling[p].key \in Keys
            /\ Justified(strikeAt[handling[p].key], handling[p].entry, handling[p].key[2])
        BY <1>4, <2>1 DEF JustInv, RateTypeOK, RuleOf
      <3> QED
        BY <1>2, <2>1, <3>1
    <2>2. CASE BeginStrike(p)
      <3>1. PICK k \in Keys, now \in 0 .. LastRateTime : k = handling[p].key /\ now = handling[p].sec
        <4>1. handling[p].key \in Keys
          BY <2>2 DEF BeginStrike, RateTypeOK
        <4>2. handling[p].sec \in Nat /\ handling[p].sec <= rateClock /\ rateClock <= LastRateTime
              /\ rateClock \in Nat /\ LastRateTime \in Nat
          BY RateAssumption DEF RateTypeOK, JustInv, TimeInv
        <4> QED
          BY <4>1, <4>2
      <3>2. PICK i \in StrikeSlots, e \in StrikeEntry :
               i = StrikeSlot(strikeTable, k, now) /\ e = Recorded(strikeTable, k, now) /\ e.key = k
        BY SMTT(30), <1>0, TargetInTable, RecordedType
      <3>3. /\ handling' = [handling EXCEPT ![p].pc = "write", ![p].slot = i, ![p].entry = e]
            /\ strikeAt' = [strikeAt EXCEPT ![k] = Append(@, now)]
        BY <2>2, <3>1, <3>2 DEF BeginStrike
      <3>4. handling'[p] = [handling[p] EXCEPT !.pc = "write", !.slot = i, !.entry = e]
        BY <1>0, <3>3
      <3>5. handling'[p].entry = e /\ handling'[p].key = k
        BY <1>0, <3>1, <3>4 DEF Request
      <3>6. PICK s \in Seq(Nat) : s = strikeAt[k]
        BY <1>0
      <3>7. Found(strikeTable, k) # {} => Justified(s, strikeTable[StrikeSlot(strikeTable, k, now)], k[2])
        <4>1. Found(strikeTable, k) # {} => /\ Readable(strikeTable[i]) /\ strikeTable[i].key = k
          <5>1. strikeTable \in [StrikeSlots -> StrikeEntry] /\ now \in Nat /\ k \in Keys
            BY <1>0, <3>1
          <5>2. Found(strikeTable, k) # {} => /\ Readable(strikeTable[StrikeSlot(strikeTable, k, now)])
                                              /\ strikeTable[StrikeSlot(strikeTable, k, now)].key = k
            BY <5>1, TargetInTable
          <5> QED
            BY <3>2, <5>2
        <4>2. Readable(strikeTable[i])
              => Justified(strikeAt[strikeTable[i].key], strikeTable[i], strikeTable[i].key[2])
          BY DEF JustInv
        <4> QED
          BY <3>2, <3>6, <4>1, <4>2
      <3>8. Justified(Append(s, now), e, k[2])
        <4>1. strikeTable \in [StrikeSlots -> StrikeEntry]
          BY <1>0
        <4>2. Justified(Append(s, now), Recorded(strikeTable, k, now), k[2])
          BY <3>7, <4>1, RecordedJustified
        <4> QED
          BY <3>2, <4>2
      <3>9. strikeAt'[k] = Append(s, now)
        BY <1>0, <3>3, <3>6
      <3> QED
        BY <3>2, <3>5, <3>8, <3>9
    <2> QED
      BY <1>4, <2>1, <2>2, WriterSteps
  <1>5. ASSUME NEW p \in Handlers, handling'[p].pc = "escalated"
        PROVE  Earned(strikeAt'[handling'[p].key], handling'[p].key[2], handling'[p].sec)
    <2>1. CASE handling'[p] = handling[p]
      <3>1. handling[p].pc = "escalated" /\ handling[p].key \in Keys
        BY <1>5, <2>1 DEF RateTypeOK
      <3>2. Earned(strikeAt[handling[p].key], handling[p].key[2], handling[p].sec)
        BY <3>1 DEF JustInv, EscalatedJustified, RuleOf
      <3> QED
        BY <1>2, <2>1, <3>1, <3>2
    <2>2. CASE handling'[p] # handling[p]
      <3>1. /\ CheckStrikes(p) /\ IsEscalated(p)
            /\ handling'[p].key = handling[p].key /\ handling'[p].sec = handling[p].sec
        BY <1>5, <2>2, AnswerSteps
      <3>2. handling[p].key \in Keys /\ handling[p].sec \in Nat
            /\ Escalated(strikeTable, handling[p].key, handling[p].sec)
        BY <1>0, <3>1 DEF CheckStrikes, IsEscalated, RateTypeOK, Request
      <3>3. Earned(strikeAt[handling[p].key], handling[p].key[2], handling[p].sec)
        BY <3>2, LookupEarned
      <3> QED
        BY <1>2, <3>1, <3>2, <3>3
    <2> QED
      BY <2>1, <2>2
  <1> QED
    BY <1>1, <1>3, <1>4, <1>5 DEF JustInv, EscalatedJustified, RuleOf

\* An address is answered with the escalated status only if it earned it by the
\* strikes of this rule (EscalatedJustified, bs_strike_check_escalated and
\* bs_strike_record_429).
THEOREM EscalationsEarned == RateSpec => []EscalatedJustified
  <1>1. RateInit => JustInv
    BY RateAssumption
       DEF RateInit, JustInv, TimeInv, EscalatedJustified, NoRuleYet, Readable, NoStrikes
  <1>2. JustInv => EscalatedJustified
    BY DEF JustInv
  <1> QED
    BY <1>1, <1>2, JustPreserved, RateTypeCorrect, PTL DEF RateSpec

(***************************************************************************)
(* Escalations that are owed.                                              *)
(***************************************************************************)

\* Slot s is one of those that key k is looked for in.
InWindow(k, s) == \E i \in Probes : s = StrikeProbeAt(k, i)

\* A committed entry of key k.
Holds(t, s, k) == Readable(t[s]) /\ t[s].key = k

\* Every entry lies where its key is looked for, and a key has one; a writer's
\* slot is odd, its key has no other entry, and an escalation that is owed is in
\* the entry of its key, or the key is being written.
KeptInv ==
    /\ TimeInv
    /\ \A s \in StrikeSlots : Readable(strikeTable[s]) => InWindow(strikeTable[s].key, s)
    /\ \A s, t \in StrikeSlots, k \in Keys :
           Holds(strikeTable, s, k) /\ Holds(strikeTable, t, k) => s = t
    /\ \A p \in Handlers :
           handling[p].pc = "write"
           => /\ strikeTable[handling[p].slot].odd
              /\ InWindow(handling[p].key, handling[p].slot)
              /\ handling[p].entry.key = handling[p].key /\ ~ handling[p].entry.odd
              /\ \A s \in StrikeSlots : ~ Holds(strikeTable, s, handling[p].key)
    /\ \A k \in Keys :
           owed[k] > rateClock
           => \/ \E s \in StrikeSlots : Holds(strikeTable, s, k) /\ strikeTable[s].until = owed[k]
              \/ \E p \in Handlers : handling[p].pc = "write" /\ handling[p].key = k

\* A committed entry in the window of its key is found by a lookup.
LEMMA EntryFound ==
    ASSUME NEW t, NEW k \in Keys, NEW s, InWindow(k, s), Holds(t, s, k)
    PROVE  Found(t, k) # {}
  <1> DEFINE S == {i \in Probes : Holds(t, StrikeProbeAt(k, i), k)}
  <1>1. S # {} /\ StrikeProbeLimit - 1 \in Nat /\ S \subseteq 0 .. StrikeProbeLimit - 1
    BY StrikeAssumption DEF InWindow, Probes
  <1>2. PICK i \in S : \A j \in S : i <= j
    <2> HIDE DEF S
    <2> QED
      BY <1>1, LeastExists
  <1>3. ASSUME NEW j \in 0 .. i - 1, Holds(t, StrikeProbeAt(k, j), k)
        PROVE  FALSE
    <2>1. i \in 0 .. StrikeProbeLimit - 1 /\ StrikeProbeLimit \in Nat
      <3>1. i \in Probes
        OBVIOUS
      <3> QED
        BY <3>1, StrikeAssumption DEF Probes
    <2>2. j \in Probes /\ ~ i <= j
      BY <2>1 DEF Probes
    <2>3. j \in S
      BY <1>3, <2>2
    <2> HIDE DEF S
    <2> QED
      BY <1>2, <2>2, <2>3
  <1>4. i \in Found(t, k)
    BY <1>3 DEF Found, Holds
  <1> QED
    BY <1>4

\* A strike is written in the window of its key, over the entry of the key, a
\* slot that is odd, unused or dead, or the entry that a full window gives up.
LEMMA TargetChoice ==
    ASSUME NEW t \in [StrikeSlots -> StrikeEntry], NEW k \in Keys, NEW now \in Nat
    PROVE  /\ InWindow(k, StrikeSlot(t, k, now))
           /\ \/ Found(t, k) # {}
              \/ Saturated(t, k, now)
              \/ ~ Readable(t[StrikeSlot(t, k, now)])
              \/ Reclaimable(t[StrikeSlot(t, k, now)], k[2], now)
  <1>1. CASE Found(t, k) # {}
    <2>1. PICK i \in Found(t, k) : StrikeSlot(t, k, now) = StrikeProbeAt(k, i)
      BY <1>1 DEF StrikeSlot
    <2> QED
      BY <1>1, <2>1 DEF InWindow, Found
  <1>2. CASE Found(t, k) = {} /\ Saturated(t, k, now)
    <2>1. 0 \in Probes /\ StrikeBucket[k] \in 0 .. StrikeCapacity - 1 /\ StrikeCapacity \in Nat \ {0}
      BY StrikeAssumption DEF Probes, Keys
    <2>2. StrikeBucket[k] = StrikeProbeAt(k, 0)
      BY <2>1 DEF StrikeProbeAt
    <2> QED
      BY <1>2, <2>1, <2>2 DEF StrikeSlot, InWindow
  <1>3. CASE Found(t, k) = {} /\ ~ Saturated(t, k, now)
    <2> DEFINE S == {i \in Probes : FreeForStrike(t, k, now, i)}
               First(i) == /\ FreeForStrike(t, k, now, i)
                           /\ \A j \in 0 .. i - 1 : ~ FreeForStrike(t, k, now, j)
    <2>1. S # {} /\ StrikeProbeLimit - 1 \in Nat /\ S \subseteq 0 .. StrikeProbeLimit - 1
      BY <1>3, StrikeAssumption DEF Saturated, Probes
    <2>2. PICK i \in S : \A j \in S : i <= j
      <3> HIDE DEF S
      <3> QED
        BY <2>1, LeastExists
    <2>3. First(i)
      <3> SUFFICES ASSUME NEW j \in 0 .. i - 1, FreeForStrike(t, k, now, j)
                   PROVE  FALSE
        OBVIOUS
      <3>1. i \in 0 .. StrikeProbeLimit - 1 /\ StrikeProbeLimit \in Nat
        <4>1. i \in Probes
          OBVIOUS
        <4> QED
          BY <4>1, StrikeAssumption DEF Probes
      <3>2. j \in Probes /\ ~ i <= j
        BY <3>1 DEF Probes
      <3>3. j \in S
        BY <3>2
      <3> HIDE DEF S
      <3> QED
        BY <2>2, <3>2, <3>3
    <2>4. PICK n \in Probes : First(n) /\ StrikeSlot(t, k, now) = StrikeProbeAt(k, n)
      <3>1. (CHOOSE n \in Probes : First(n)) \in Probes
            /\ First(CHOOSE n \in Probes : First(n))
        BY <2>3
      <3> QED
        BY <1>3, <3>1 DEF StrikeSlot
    <2> QED
      BY <2>4 DEF FreeForStrike, InWindow, Readable
  <1> QED
    BY <1>1, <1>2, <1>3

\* A request that writes an entry goes on doing so until it ends or dies.
LEMMA WriterStays ==
    ASSUME RateTypeOK, [RateNext]_rateVars, NEW p \in Handlers, handling[p].pc = "write",
           ~ EndStrike(p), ~ HandlerDies(p)
    PROVE  handling'[p] = handling[p]
  <1> SUFFICES ASSUME ServeRule(p)
               PROVE  FALSE
    BY RequestSteps
  <1> QED
    BY DEF ServeRule, Arrive, CheckStrikes, ReadMillis, LoadWord, CompareAndSwap, DropStrike,
           BeginStrike, Answers

\* The mutex admits one writer.
LEMMA OneWriter ==
    ASSUME RateTypeOK, NEW p \in Handlers, handling[p].pc = "write"
    PROVE  \A q \in Handlers : handling[q].pc = "write" => q = p
  BY DEF RateTypeOK

\* The choice of a slot keeps what is owed.
LEMMA BeginKeeps ==
    ASSUME RateTypeOK, KeptInv, [RateNext]_rateVars, NEW p \in Handlers, BeginStrike(p)
    PROVE  KeptInv'
  <1>0. /\ handling \in [Handlers -> Request] /\ strikeTable \in [StrikeSlots -> StrikeEntry]
        /\ owed \in [Keys -> Nat] /\ RateTypeOK' /\ rateClock' = rateClock /\ rateClock \in Nat
    BY TypePreserved DEF RateTypeOK, Request, BeginStrike
  <1>1. PICK k \in Keys, now \in Nat :
           k = handling[p].key /\ now = handling[p].sec /\ now <= rateClock
    BY DEF BeginStrike, RateTypeOK, KeptInv, TimeInv
  <1>2. PICK i \in StrikeSlots, e \in StrikeEntry :
           /\ i = StrikeSlot(strikeTable, k, now) /\ e = Recorded(strikeTable, k, now)
           /\ e.key = k /\ ~ e.odd
    BY SMTT(30), <1>0, TargetInTable, RecordedType
  <1>3. handling'[p] = [handling[p] EXCEPT !.pc = "write", !.slot = i, !.entry = e]
    <2>1. handling' = [handling EXCEPT ![p].pc = "write", ![p].slot = i, ![p].entry = e]
      BY <1>1, <1>2 DEF BeginStrike
    <2> QED
      BY <1>0, <2>1
  <1>4. /\ handling'[p].pc = "write" /\ handling'[p].slot = i /\ handling'[p].entry = e
        /\ handling'[p].key = k
    BY <1>0, <1>1, <1>3 DEF Request
  <1>5. strikeTable' = [strikeTable EXCEPT ![i].odd = TRUE]
    BY <1>1, <1>2 DEF BeginStrike
  <1>6. strikeTable'[i].odd /\ \A s \in StrikeSlots : s # i => strikeTable'[s] = strikeTable[s]
    BY <1>0, <1>5 DEF StrikeEntry
  <1>7. \A s \in StrikeSlots : Readable(strikeTable'[s])
                         => s # i /\ strikeTable'[s] = strikeTable[s] /\ Readable(strikeTable[s])
    BY <1>6 DEF Readable
  <1>8. \A s \in StrikeSlots : ~ Holds(strikeTable', s, k)
    <2> SUFFICES ASSUME NEW s \in StrikeSlots, Holds(strikeTable', s, k)
                 PROVE  FALSE
      OBVIOUS
    <2>1. s # i /\ Holds(strikeTable, s, k)
      BY <1>7 DEF Holds
    <2>2. Found(strikeTable, k) # {}
      BY <2>1, EntryFound DEF KeptInv, Holds
    <2>3. Holds(strikeTable, i, k)
      BY <1>0, <1>2, <2>2, TargetInTable DEF Holds
    <2> QED
      BY <2>1, <2>3 DEF KeptInv
  <1>9. ASSUME NEW j \in Keys, owed'[j] > rateClock, j # k
        PROVE  \E s \in StrikeSlots : Holds(strikeTable', s, j) /\ strikeTable'[s].until = owed'[j]
    <2>1. j \notin Forgiven(strikeTable, k, now) /\ owed'[j] = owed[j]
      BY <1>0, <1>1, <1>9 DEF BeginStrike
    <2>2. PICK s \in StrikeSlots : Holds(strikeTable, s, j) /\ strikeTable[s].until = owed[j]
      <3>1. \A q \in Handlers : handling[q].pc # "write"
        BY RateAssumption DEF BeginStrike, RateTypeOK
      <3> QED
        BY <1>9, <2>1, <3>1 DEF KeptInv
    <2>3. s # i
      <3> SUFFICES ASSUME s = i
                   PROVE  FALSE
        OBVIOUS
      <3>1. Found(strikeTable, k) = {}
        BY <1>0, <1>2, <1>9, <2>2, TargetInTable DEF Holds
      <3>2. ~ Saturated(strikeTable, k, now)
        BY <1>2, <2>1, <2>2 DEF Forgiven, Holds
      <3>3. Reclaimable(strikeTable[i], k[2], now)
        BY <1>0, <1>2, <2>2, <3>1, <3>2, TargetChoice DEF Holds
      <3>4. owed[j] = 0 \/ owed[j] < now
        BY <2>2, <3>3 DEF Reclaimable
      <3> QED
        BY <1>0, <1>1, <1>9, <2>1, <3>4
    <2> QED
      BY <1>6, <2>1, <2>2, <2>3 DEF Holds
  <1>10. \A q \in Handlers : handling'[q].pc = "write" => q = p
    BY <1>0, <1>4 DEF RateTypeOK
  <1>11. InWindow(k, i)
    BY <1>0, <1>2, TargetChoice
  <1>12. TimeInv'
    BY TimePreserved DEF KeptInv
  <1>13. \A s \in StrikeSlots : Readable(strikeTable'[s]) => InWindow(strikeTable'[s].key, s)
    BY <1>7 DEF KeptInv
  <1>14. \A s, t \in StrikeSlots, j \in Keys :
            Holds(strikeTable', s, j) /\ Holds(strikeTable', t, j) => s = t
    BY <1>7 DEF KeptInv, Holds
  <1> QED
    BY <1>0, <1>2, <1>4, <1>6, <1>8, <1>9, <1>10, <1>11, <1>12, <1>13, <1>14
       DEF KeptInv

\* The end of a write keeps what is owed: the entry it commits is the only one
\* of its key.
LEMMA EndKeeps ==
    ASSUME RateTypeOK, KeptInv, [RateNext]_rateVars, NEW p \in Handlers, EndStrike(p)
    PROVE  KeptInv'
  <1>0. /\ strikeTable \in [StrikeSlots -> StrikeEntry] /\ owed \in [Keys -> Nat]
        /\ RateTypeOK' /\ rateClock' = rateClock /\ rateClock \in Nat
        /\ handling[p].pc = "write" /\ handling[p].slot \in StrikeSlots /\ handling[p].key \in Keys
    BY TypePreserved DEF RateTypeOK, EndStrike
  <1>1. PICK i \in StrikeSlots, k \in Keys, e \in StrikeEntry :
           i = handling[p].slot /\ k = handling[p].key /\ e = handling[p].entry
    BY <1>0 DEF RateTypeOK
  <1>2. /\ strikeTable[i].odd /\ InWindow(k, i) /\ e.key = k /\ ~ e.odd
        /\ \A s \in StrikeSlots : ~ Holds(strikeTable, s, k)
    BY <1>0, <1>1 DEF KeptInv
  <1>3. /\ strikeTable'[i] = e /\ \A s \in StrikeSlots : s # i => strikeTable'[s] = strikeTable[s]
        /\ owed'[k] = e.until /\ \A j \in Keys : j # k => owed'[j] = owed[j]
    BY <1>0, <1>1 DEF EndStrike
  <1>4. Holds(strikeTable', i, k)
    BY <1>1, <1>2, <1>3, StrikeAssumption DEF Holds, Readable, Keys
  <1>5. \A q \in Handlers : handling'[q].pc # "write"
    BY <1>0, RateAssumption DEF RateTypeOK, EndStrike
  <1>6. \A j \in Keys : owed'[j] > rateClock
           => \E s \in StrikeSlots : Holds(strikeTable', s, j) /\ strikeTable'[s].until = owed'[j]
    <2> SUFFICES ASSUME NEW j \in Keys, owed'[j] > rateClock, j # k
                 PROVE  \E s \in StrikeSlots : Holds(strikeTable', s, j)
                                         /\ strikeTable'[s].until = owed'[j]
      BY <1>3, <1>4
    <2>1. \A q \in Handlers : handling[q].pc = "write" => handling[q].key # j
      BY <1>0, <1>1, OneWriter
    <2>2. PICK s \in StrikeSlots : Holds(strikeTable, s, j) /\ strikeTable[s].until = owed[j]
      BY <1>3, <2>1 DEF KeptInv
    <2>3. s # i
      BY <1>2, <2>2 DEF Holds, Readable
    <2> QED
      BY <1>3, <2>2, <2>3 DEF Holds
  <1>7. TimeInv'
    BY TimePreserved DEF KeptInv
  <1>8. \A s \in StrikeSlots : Readable(strikeTable'[s]) => InWindow(strikeTable'[s].key, s)
    BY <1>2, <1>3 DEF KeptInv
  <1>9. \A s, t \in StrikeSlots, j \in Keys :
            Holds(strikeTable', s, j) /\ Holds(strikeTable', t, j) => s = t
    BY <1>2, <1>3 DEF KeptInv, Holds
  <1> QED
    BY <1>0, <1>5, <1>6, <1>7, <1>8, <1>9 DEF KeptInv

\* The death of a writer leaves a slot that nothing is read from, and what its
\* key was owed is owed no longer.
LEMMA CrashKeeps ==
    ASSUME RateTypeOK, KeptInv, [RateNext]_rateVars, NEW p \in Handlers, HandlerDies(p), strikeMutex = p
    PROVE  KeptInv'
  <1>0. /\ strikeTable \in [StrikeSlots -> StrikeEntry] /\ owed \in [Keys -> Nat]
        /\ RateTypeOK' /\ rateClock' = rateClock /\ rateClock \in Nat
        /\ handling[p].pc = "write" /\ handling[p].slot \in StrikeSlots /\ handling[p].key \in Keys
    BY TypePreserved DEF RateTypeOK, HandlerDies
  <1>1. PICK i \in StrikeSlots, k \in Keys : i = handling[p].slot /\ k = handling[p].key
    BY <1>0
  <1>2. /\ strikeTable'[i] = [NoStrikes EXCEPT !.odd = TRUE]
        /\ \A s \in StrikeSlots : s # i => strikeTable'[s] = strikeTable[s]
        /\ owed'[k] = 0 /\ \A j \in Keys : j # k => owed'[j] = owed[j]
    BY <1>0, <1>1 DEF HandlerDies
  <1>3. strikeTable[i].odd /\ strikeTable'[i].odd
    BY <1>0, <1>1, <1>2 DEF KeptInv, NoStrikes
  <1>4. \A s \in StrikeSlots : Readable(strikeTable'[s])
                         => s # i /\ strikeTable'[s] = strikeTable[s] /\ Readable(strikeTable[s])
    BY <1>2, <1>3 DEF Readable
  <1>5. \A q \in Handlers : handling'[q].pc # "write"
    <2>1. strikeMutex' = NoHandler
      BY DEF HandlerDies
    <2> QED
      BY <1>0, <2>1, RateAssumption DEF RateTypeOK
  <1>6. \A j \in Keys : owed'[j] > rateClock
           => \E s \in StrikeSlots : Holds(strikeTable', s, j) /\ strikeTable'[s].until = owed'[j]
    <2> SUFFICES ASSUME NEW j \in Keys, owed'[j] > rateClock, j # k
                 PROVE  \E s \in StrikeSlots : Holds(strikeTable', s, j)
                                         /\ strikeTable'[s].until = owed'[j]
      BY <1>0, <1>2
    <2>1. \A q \in Handlers : handling[q].pc = "write" => handling[q].key # j
      BY <1>0, <1>1, OneWriter
    <2>2. PICK s \in StrikeSlots : Holds(strikeTable, s, j) /\ strikeTable[s].until = owed[j]
      BY <1>2, <2>1 DEF KeptInv
    <2>3. s # i
      BY <1>3, <2>2 DEF Holds, Readable
    <2> QED
      BY <1>2, <2>2, <2>3 DEF Holds
  <1>7. TimeInv'
    BY TimePreserved DEF KeptInv
  <1>8. \A s \in StrikeSlots : Readable(strikeTable'[s]) => InWindow(strikeTable'[s].key, s)
    BY <1>4 DEF KeptInv
  <1>9. \A s, t \in StrikeSlots, j \in Keys :
            Holds(strikeTable', s, j) /\ Holds(strikeTable', t, j) => s = t
    BY <1>4 DEF KeptInv, Holds
  <1> QED
    BY <1>0, <1>5, <1>6, <1>7, <1>8, <1>9 DEF KeptInv

\* Every step keeps what is owed.
LEMMA KeptPreserved ==
    ASSUME RateTypeOK, KeptInv, [RateNext]_rateVars
    PROVE  KeptInv'
  <1>1. CASE \E p \in Handlers : \/ BeginStrike(p) \/ EndStrike(p)
                                 \/ HandlerDies(p) /\ strikeMutex = p
    BY <1>1, BeginKeeps, EndKeeps, CrashKeeps
  <1>2. CASE \A p \in Handlers : /\ ~ BeginStrike(p) /\ ~ EndStrike(p)
                                 /\ ~ (HandlerDies(p) /\ strikeMutex = p)
    <2>1. UNCHANGED <<strikeTable, owed>>
      <3>1. CASE UNCHANGED rateVars \/ ClockTicks
        BY <3>1 DEF rateVars, ClockTicks, rateHistory
      <3>2. ASSUME NEW p \in Handlers, ServeRule(p)
            PROVE  UNCHANGED <<strikeTable, owed>>
        <4>1. CASE HandlerDies(p)
          <5>1. strikeMutex # p
            BY <1>2, <4>1
          <5> QED
            BY <4>1, <5>1 DEF HandlerDies
        <4>2. CASE Arrive(p) \/ CheckStrikes(p) \/ ReadMillis(p) \/ LoadWord(p)
          <5>1. Arrive(p) => UNCHANGED <<strikeTable, owed>>
            BY Zenon DEF Arrive, rateHistory
          <5>2. /\ CheckStrikes(p) \/ ReadMillis(p) => UNCHANGED <<strikeTable, owed>>
                /\ LoadWord(p) => UNCHANGED <<strikeTable, owed>>
            BY DEF CheckStrikes, ReadMillis, LoadWord, rateHistory
          <5> QED
            BY <4>2, <5>1, <5>2
        <4>3. CASE CompareAndSwap(p) \/ DropStrike(p)
          BY <4>3 DEF CompareAndSwap, DropStrike, rateHistory
        <4> QED
          BY <1>2, <3>2, <4>1, <4>2, <4>3 DEF ServeRule
      <3> QED
        BY <3>1, <3>2 DEF RateNext
    <2>2. rateClock <= rateClock' /\ rateClock \in Nat /\ rateClock' \in Nat
      BY ClockRuns DEF KeptInv, TimeInv, RateTypeOK
    <2>3. \A p \in Handlers : handling'[p].pc = "write" => handling'[p] = handling[p]
      BY <1>2, WriterSteps
    <2>4. \A p \in Handlers : handling[p].pc = "write" => handling'[p] = handling[p]
      BY <1>2, WriterStays DEF RateTypeOK
    <2>5. \A k \in Keys : owed[k] > rateClock' => owed[k] > rateClock
      BY <2>2 DEF RateTypeOK
    <2>6. TimeInv'
      BY TimePreserved DEF KeptInv
    <2>7. \A p \in Handlers :
             handling'[p].pc = "write"
             => /\ strikeTable'[handling'[p].slot].odd
                /\ InWindow(handling'[p].key, handling'[p].slot)
                /\ handling'[p].entry.key = handling'[p].key /\ ~ handling'[p].entry.odd
                /\ \A s \in StrikeSlots : ~ Holds(strikeTable', s, handling'[p].key)
      BY <2>1, <2>3 DEF KeptInv
    <2>8. \A k \in Keys :
             owed'[k] > rateClock'
             => \/ \E s \in StrikeSlots : Holds(strikeTable', s, k) /\ strikeTable'[s].until = owed'[k]
                \/ \E p \in Handlers : handling'[p].pc = "write" /\ handling'[p].key = k
      BY <2>1, <2>4, <2>5 DEF KeptInv
    <2> QED
      BY <2>1, <2>6, <2>7, <2>8 DEF KeptInv
  <1> QED
    BY <1>1, <1>2

\* An escalation that was given is found until it ends, unless a full window or
\* the death of a writer cost it its entry (EscalationKept, the probe of
\* bs_strike_record_429 and of bs_strike_check_escalated).
THEOREM EscalationsKept == RateSpec => []EscalationKept
  <1>1. RateInit => KeptInv
    BY RateAssumption
       DEF RateInit, KeptInv, TimeInv, NoRuleYet, Readable, NoStrikes, Holds
  <1>2. RateTypeOK /\ KeptInv => EscalationKept
    <2> SUFFICES ASSUME RateTypeOK, KeptInv, strikeMutex = NoHandler,
                        NEW k \in Keys, owed[k] > rateClock
                 PROVE  Escalated(strikeTable, k, rateClock)
      BY DEF EscalationKept
    <2>1. PICK s \in StrikeSlots : Holds(strikeTable, s, k) /\ strikeTable[s].until = owed[k]
      <3>1. \A q \in Handlers : handling[q].pc # "write"
        BY RateAssumption DEF RateTypeOK
      <3> QED
        BY <3>1 DEF KeptInv
    <2>2. Found(strikeTable, k) # {}
      BY <2>1, EntryFound DEF KeptInv, Holds
    <2>3. PICK i \in Found(strikeTable, k) : TRUE
      BY <2>2
    <2>4. StrikeProbeAt(k, i) \in StrikeSlots /\ Holds(strikeTable, StrikeProbeAt(k, i), k)
      BY ProbeInTable DEF Found, Holds
    <2>5. StrikeProbeAt(k, i) = s
      BY <2>1, <2>4 DEF KeptInv
    <2> QED
      BY <2>1, <2>3, <2>5 DEF Escalated
  <1> QED
    BY <1>1, <1>2, KeptPreserved, RateTypeCorrect, PTL DEF RateSpec

=============================================================================
