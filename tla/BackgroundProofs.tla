-------------------------- MODULE BackgroundProofs --------------------------
(***************************************************************************)
(* Theorems of the six modules that run beside the requests:               *)
(*   - CaptchaLimits, for every limit, any number of callers, of slots, of *)
(*     attempts and of deaths;                                             *)
(*   - HotSwap, for any number of children, of requests, of edits and of   *)
(*     children that are replaced, whether every child ticks or one;       *)
(*   - LoadHysteresis, for every threshold, grace and kind of file;        *)
(*   - FormCaptcha, for every body, scope, answer of a provider and bound; *)
(*   - AllowRanges, for every content of the two files and every rewrite;  *)
(*   - UaMatch, for every list of patterns and every User-Agent.           *)
(* They share no variable: each has a section of its own.                  *)
(***************************************************************************)
EXTENDS CaptchaLimits, HotSwap, LoadHysteresis, FormCaptcha, AllowRanges, LeastIndex,
        FiniteSetTheorems, SequenceTheorems, TLAPS

-----------------------------------------------------------------------------
(* The limits of the captcha endpoints. *)

\* A step of one call leaves a record of the type, and the other calls alone.
Moved(c) ==
    /\ call' \in [Callers -> CallRecords]
    /\ \A d \in Callers : d # c => call'[d] = call[d]

\* The records of the calls under way.
Under == [at : Steps \ {"idle"}, slot : Slots, min : Minutes,
          seen : Words, count : Nat, tries : Nat]

\* A call under way has a slot, a minute and what it read.
LEMMA CallUnderWay ==
    ASSUME LimitTypeOK, NEW c \in Callers, call[c].at # "idle"
    PROVE  /\ call[c] \in Under
           /\ call[c].slot \in Slots /\ call[c].min \in Minutes
           /\ call[c].seen \in Words /\ call[c].count \in Nat /\ call[c].tries \in Nat
  BY DEF LimitTypeOK, CallRecords, NoCall, Steps, Under

\* A call takes on a record.
LEMMA BecomesForm ==
    ASSUME LimitTypeOK, NEW c \in Callers, NEW x \in CallRecords, call' = [call EXCEPT ![c] = x]
    PROVE  Moved(c) /\ call'[c] = x
  BY DEF LimitTypeOK, Moved

\* A new record of a call.
LEMMA InCallUnderWay ==
    ASSUME NEW at \in Steps \ {"idle"}, NEW s \in Slots, NEW m \in Minutes
    PROVE  /\ InCall(at, s, m) \in CallRecords
           /\ InCall(at, s, m).at = at
  BY LimitsAssumption DEF InCall, CallRecords, NoWord, Words, Minutes

\* The word after an attempt.
LEMMA NextWordForm ==
    ASSUME NEW w \in Words, NEW m \in Minutes
    PROVE  /\ NextWord(w, m) \in Words /\ NextWord(w, m).win = m
           /\ NextWord(w, m).n = IF w.win # m THEN 1 ELSE w.n + 1
  BY DEF NextWord, Words

\* To another loop.
LEMMA TurnForm ==
    ASSUME LimitTypeOK, NEW c \in Callers, call[c].at # "idle",
           NEW at \in Steps \ {"idle"}, NEW m \in Minutes, Turn(c, at, m)
    PROVE  Moved(c) /\ call'[c].at = at
  <1>1. call[c].slot \in Slots
    BY CallUnderWay
  <1>2. PICK x : x = InCall(at, call[c].slot, m)
    OBVIOUS
  <1>3. x \in CallRecords /\ x.at = at
    BY <1>1, <1>2, InCallUnderWay
  <1>4. call' = [call EXCEPT ![c] = x]
    BY <1>2 DEF Turn
  <1> QED
    BY <1>3, <1>4, BecomesForm

\* To another step of the same loop.
LEMMA GoForm ==
    ASSUME LimitTypeOK, NEW c \in Callers, call[c].at # "idle",
           NEW at \in Steps \ {"idle"}, Go(c, at)
    PROVE  Moved(c) /\ call'[c].at = at
  <1>1. PICK x : x = [call[c] EXCEPT !.at = at]
    OBVIOUS
  <1>2. x \in CallRecords /\ x.at = at
    BY <1>1, CallUnderWay DEF Under, CallRecords
  <1>3. call' = [call EXCEPT ![c] = x]
    BY <1>1 DEF Go
  <1> QED
    BY <1>2, <1>3, BecomesForm

\* A word was read.
LEMMA ReadForm ==
    ASSUME LimitTypeOK, NEW c \in Callers, call[c].at # "idle",
           NEW at \in Steps \ {"idle"}, NEW w \in Words,
           call' = [call EXCEPT ![c].at = at, ![c].seen = w]
    PROVE  /\ Moved(c) /\ call'[c].at = at /\ call'[c].seen = w
           /\ call'[c].slot = call[c].slot /\ call'[c].min = call[c].min
  <1>1. PICK x : x = [call[c] EXCEPT !.at = at, !.seen = w]
    OBVIOUS
  <1>2. /\ x \in CallRecords /\ x.at = at /\ x.seen = w
        /\ x.slot = call[c].slot /\ x.min = call[c].min
    BY <1>1, CallUnderWay DEF Under, CallRecords
  <1>3. call' = [call EXCEPT ![c] = x]
    BY <1>1
  <1> QED
    BY <1>2, <1>3, BecomesForm

\* The in-flight count was read.
LEMMA CountForm ==
    ASSUME LimitTypeOK, NEW c \in Callers, call[c].at # "idle",
           NEW at \in Steps \ {"idle"}, NEW n \in Nat,
           call' = [call EXCEPT ![c].at = at, ![c].count = n]
    PROVE  Moved(c) /\ call'[c].at = at /\ call'[c].count = n
  <1>1. PICK x : x = [call[c] EXCEPT !.at = at, !.count = n]
    OBVIOUS
  <1>2. x \in CallRecords /\ x.at = at /\ x.count = n
    BY <1>1, CallUnderWay DEF Under, CallRecords
  <1>3. call' = [call EXCEPT ![c] = x]
    BY <1>1
  <1> QED
    BY <1>2, <1>3, BecomesForm

\* Another attempt.
LEMMA AgainForm ==
    ASSUME LimitTypeOK, NEW c \in Callers, call[c].at # "idle",
           NEW at \in Steps \ {"idle"},
           call' = [call EXCEPT ![c].at = at, ![c].tries = @ + 1]
    PROVE  Moved(c) /\ call'[c].at = at
  <1>0. PICK n \in Nat : n = call[c].tries + 1
    BY CallUnderWay
  <1>1. PICK x : x = [call[c] EXCEPT !.at = at, !.tries = n]
    OBVIOUS
  <1>2. x \in CallRecords /\ x.at = at
    BY <1>1, CallUnderWay DEF Under, CallRecords
  <1>3. call' = [call EXCEPT ![c] = x]
    BY <1>0, <1>1
  <1> QED
    BY <1>2, <1>3, BecomesForm

\* The call is over.
LEMMA FinishForm ==
    ASSUME LimitTypeOK, NEW c \in Callers, Finish(c)
    PROVE  Moved(c) /\ call'[c].at = "idle"
  BY DEF Finish, Moved, NoCall, CallRecords, LimitTypeOK

-----------------------------------------------------------------------------
(***************************************************************************)
(* What each step does to the record of its call.                          *)
(***************************************************************************)

\* The ranges the steps use.
LEMMA Ranges ==
    ASSUME LimitTypeOK
    PROVE  /\ minute \in Minutes /\ 0 \in Minutes /\ inflight \in Nat
           /\ Minutes \subseteq Nat
           /\ InflightCap \in Nat /\ RateLimit \in Nat
           /\ {"rate", "rateSwap", "cap", "capSwap", "provider", "log", "logSwap"} = Steps \ {"idle"}
  BY LimitsAssumption DEF LimitTypeOK, Minutes, Steps

\* A call starts.
LEMMA CallStarts ==
    ASSUME LimitTypeOK, NEW c \in Callers, Call(c)
    PROVE  Moved(c) /\ call'[c].at \in {"rate", "cap"} /\ (call'[c].at = "rate" => RateLimit > 0)
  <1>1. PICK s \in Slots, at \in {"rate", "cap"} :
           (at = "rate" => RateLimit > 0) /\ call' = [call EXCEPT ![c] = InCall(at, s, minute)]
    BY DEF Call
  <1>2. PICK x : x = InCall(at, s, minute)
    OBVIOUS
  <1>3. x \in CallRecords /\ x.at = at
    BY <1>2, Ranges, InCallUnderWay
  <1> QED
    BY <1>1, <1>2, <1>3, BecomesForm

\* The rate word is read: it is tried only below the limit.
LEMMA RateReads ==
    ASSUME LimitTypeOK, NEW c \in Callers, RateRead(c)
    PROVE  /\ Moved(c)
           /\ \/ call'[c].at = "log"
              \/ call'[c].at = "rateSwap" /\ ~AtLimit(call'[c].seen, call'[c].min)
  <1>1. call[c].at = "rate" /\ rate[call[c].slot] \in Words
    BY CallUnderWay DEF RateRead, At, LimitTypeOK
  <1>2. CASE AtLimit(rate[call[c].slot], call[c].min)
    BY <1>1, <1>2, Ranges, TurnForm DEF RateRead
  <1>3. CASE ~AtLimit(rate[call[c].slot], call[c].min)
    <2>1. PICK w \in Words : w = rate[call[c].slot]
      BY <1>1
    <2>2. call' = [call EXCEPT ![c].at = "rateSwap", ![c].seen = w]
      BY <1>3, <2>1 DEF RateRead
    <2> QED
      BY ZenonT(30), <1>1, <1>3, <2>1, <2>2, Ranges, ReadForm
  <1> QED
    BY <1>2, <1>3

\* The in-flight count is read: it is tried only below the cap.
LEMMA CapReads ==
    ASSUME LimitTypeOK, NEW c \in Callers, CapRead(c)
    PROVE  /\ Moved(c)
           /\ \/ call'[c].at = "log"
              \/ call'[c].at = "capSwap" /\ call'[c].count < InflightCap
  <1>1. call[c].at = "cap"
    BY DEF CapRead, At
  <1>2. CASE inflight >= InflightCap
    BY <1>1, <1>2, Ranges, TurnForm DEF CapRead
  <1>3. CASE ~(inflight >= InflightCap)
    <2>1. PICK n \in Nat : n = inflight
      BY Ranges
    <2>2. call' = [call EXCEPT ![c].at = "capSwap", ![c].count = n]
      BY <1>3, <2>1 DEF CapRead
    <2>3. "capSwap" \in Steps \ {"idle"}
      BY Ranges
    <2>4. Moved(c) /\ call'[c].at = "capSwap" /\ call'[c].count = n
      BY <1>1, <2>2, <2>3, CountForm
    <2> QED
      BY <1>3, <2>1, <2>4, Ranges
  <1> QED
    BY <1>2, <1>3

\* The log word is read.
LEMMA LogReads ==
    ASSUME LimitTypeOK, NEW c \in Callers, LogRead(c)
    PROVE  Moved(c) /\ call'[c].at = "logSwap"
  <1>1. call[c].at = "log" /\ log[call[c].slot] \in Words
    BY CallUnderWay DEF LogRead, At, LimitTypeOK
  <1>2. PICK w \in Words : w = log[call[c].slot]
    BY <1>1
  <1>3. call' = [call EXCEPT ![c].at = "logSwap", ![c].seen = w]
    BY <1>2 DEF LogRead
  <1> QED
    BY <1>1, <1>3, Ranges, ReadForm

\* The other steps of a call.
LEMMA OtherSteps ==
    ASSUME LimitTypeOK, NEW c \in Callers
    PROVE  /\ RateSwap(c) => Moved(c) /\ call'[c].at = "cap"
           /\ RateOvertaken(c) => Moved(c) /\ call'[c].at \in {"rate", "cap"}
           /\ CapSwap(c) => Moved(c) /\ call'[c].at = "provider"
           /\ CapOvertaken(c) => Moved(c) /\ call'[c].at \in {"cap", "log"}
           /\ Release(c) \/ CallerDies(c) \/ LogSwap(c) => Moved(c) /\ call'[c].at = "idle"
           /\ LogOvertaken(c) => Moved(c) /\ call'[c].at \in {"log", "idle"}
  <1>1. RateSwap(c) => Moved(c) /\ call'[c].at = "cap"
    BY Ranges, TurnForm DEF RateSwap, At
  <1>2. ASSUME RateOvertaken(c) PROVE Moved(c) /\ call'[c].at \in {"rate", "cap"}
    <2>1. call[c].at = "rateSwap"
      BY <1>2 DEF RateOvertaken, At
    <2>2. CASE call' = [call EXCEPT ![c].at = "rate", ![c].tries = @ + 1]
      <3>1. "rate" \in Steps \ {"idle"}
        BY Ranges
      <3> QED
        BY <2>1, <2>2, <3>1, AgainForm
    <2>3. CASE Turn(c, "cap", 0)
      BY <2>1, <2>3, Ranges, TurnForm
    <2> QED
      BY <1>2, <2>2, <2>3 DEF RateOvertaken
  <1>3. CapSwap(c) => Moved(c) /\ call'[c].at = "provider"
    BY Ranges, GoForm DEF CapSwap, At
  <1>4. ASSUME CapOvertaken(c) PROVE Moved(c) /\ call'[c].at \in {"cap", "log"}
    <2>1. call[c].at = "capSwap"
      BY <1>4 DEF CapOvertaken, At
    <2>2. CASE call' = [call EXCEPT ![c].at = "cap", ![c].tries = @ + 1]
      <3>1. "cap" \in Steps \ {"idle"}
        BY Ranges
      <3> QED
        BY <2>1, <2>2, <3>1, AgainForm
    <2>3. CASE Turn(c, "log", minute)
      BY <2>1, <2>3, Ranges, TurnForm
    <2> QED
      BY <1>4, <2>2, <2>3 DEF CapOvertaken
  <1>5. Release(c) \/ CallerDies(c) \/ LogSwap(c) => Moved(c) /\ call'[c].at = "idle"
    BY FinishForm DEF Release, CallerDies, LogSwap
  <1>6. ASSUME LogOvertaken(c) PROVE Moved(c) /\ call'[c].at \in {"log", "idle"}
    <2>1. call[c].at = "logSwap"
      BY <1>6 DEF LogOvertaken, At
    <2>2. CASE call' = [call EXCEPT ![c].at = "log", ![c].tries = @ + 1]
      <3>1. "log" \in Steps \ {"idle"}
        BY Ranges
      <3> QED
        BY <2>1, <2>2, <3>1, AgainForm
    <2>3. CASE Finish(c)
      BY <2>3, FinishForm
    <2> QED
      BY <1>6, <2>2, <2>3 DEF LogOvertaken
  <1> QED
    BY <1>1, <1>2, <1>3, <1>4, <1>5, <1>6

-----------------------------------------------------------------------------
(***************************************************************************)
(* The types, and the permits.                                             *)
(***************************************************************************)

\* A swap of the in-flight count is tried only from below the cap.
BelowCap == \A c \in Callers : call[c].at = "capSwap" => call[c].count < InflightCap
CapInv == LimitTypeOK /\ InflightExact /\ BelowCap

\* The holders after a step of one call.
LEMMA HoldersForm ==
    ASSUME LimitTypeOK, NEW c \in Callers, Moved(c)
    PROVE  /\ Cardinality(Holders) \in Nat /\ Cardinality(Holders)' \in Nat
           /\ Cardinality(Holders)' = Cardinality(Holders)
                  + (IF call'[c].at = "provider" THEN 1 ELSE 0)
                  - (IF call[c].at = "provider" THEN 1 ELSE 0)
  <1>1. Holders \subseteq Callers /\ IsFiniteSet(Callers)
    BY LimitsAssumption DEF Holders
  <1>2. IsFiniteSet(Holders) /\ Cardinality(Holders) \in Nat
    BY <1>1, FS_Subset, FS_CardinalityType
  <1>3. c \in Holders <=> call[c].at = "provider"
    BY DEF Holders, At
  <1>4. ASSUME call'[c].at = "provider"
        PROVE  Cardinality(Holders)' = Cardinality(Holders) + 1
                  - (IF call[c].at = "provider" THEN 1 ELSE 0)
    <2>1. Holders' = Holders \cup {c}
      BY <1>4 DEF Moved, Holders, At
    <2>2. Cardinality(Holders \cup {c}) =
              IF c \in Holders THEN Cardinality(Holders) ELSE Cardinality(Holders) + 1
      BY <1>2, FS_AddElement
    <2> QED
      BY <1>2, <1>3, <1>4, <2>1, <2>2
  <1>5. ASSUME call'[c].at # "provider"
        PROVE  Cardinality(Holders)' = Cardinality(Holders)
                  - (IF call[c].at = "provider" THEN 1 ELSE 0)
    <2>1. Holders' = Holders \ {c}
      BY <1>5 DEF Moved, Holders, At
    <2>2. Cardinality(Holders \ {c}) =
              IF c \in Holders THEN Cardinality(Holders) - 1 ELSE Cardinality(Holders)
      BY <1>2, FS_RemoveElement
    <2> QED
      BY <1>2, <1>3, <1>5, <2>1, <2>2
  <1>6. Cardinality(Holders)' \in Nat
    <2>1. Holders' \subseteq Callers
      BY DEF Holders
    <2> QED
      BY <1>1, <2>1, FS_Subset, FS_CardinalityType
  <1> QED
    BY <1>2, <1>4, <1>5, <1>6

\* The bounds of the counters.
LEMMA CapInvInit == LimitInit => CapInv
  <1> SUFFICES ASSUME LimitInit PROVE CapInv
    OBVIOUS
  <1>1. LimitTypeOK
    BY LimitsAssumption DEF LimitInit, LimitTypeOK, Minutes, Words, NoWord, CallRecords
  <1>2. Holders = {}
    BY DEF LimitInit, Holders, At, NoCall
  <1>3. InflightExact
    BY <1>2, FS_EmptySet, LimitsAssumption DEF LimitInit, InflightExact
  <1>4. BelowCap
    BY DEF LimitInit, BelowCap, NoCall
  <1> QED
    BY <1>1, <1>3, <1>4 DEF CapInv

\* What is torn by a swap has the type.
LEMMA TearForm ==
    ASSUME LimitTypeOK, NEW table \in {"rate", "log"}, NEW s \in Slots,
           NEW w \in Words, NEW m \in Minutes, Tear(table, s, w, m)
    PROVE  /\ torn' \subseteq {"rate", "log"} \X Slots \X Minutes
           /\ torn \subseteq torn'
           /\ \A k \in Minutes : w.win > m /\ m <= k /\ k <= w.win => <<table, s, k>> \in torn'
  <1>1. /\ m \in Nat /\ m <= LastMinute /\ LastMinute \in Nat /\ w.win \in Nat /\ w.win <= LastMinute
        /\ torn \subseteq {"rate", "log"} \X Slots \X Minutes
    BY LimitsAssumption DEF LimitTypeOK, Minutes, Words
  <1>2. CASE w.win > m
    <2>1. torn' = torn \cup {<<table, s, k>> : k \in m .. w.win}
      BY <1>2 DEF Tear
    <2>2. \A k \in m .. w.win : <<table, s, k>> \in {"rate", "log"} \X Slots \X Minutes
      <3>1. \A k \in m .. w.win : k \in Minutes
        BY <1>1 DEF Minutes
      <3> QED
        BY <3>1
    <2>3. \A k \in Minutes : m <= k /\ k <= w.win => k \in m .. w.win
      BY <1>1 DEF Minutes
    <2> QED
      BY <1>1, <2>1, <2>2, <2>3
  <1>3. CASE ~(w.win > m)
    <2>1. torn' = torn
      BY <1>3 DEF Tear
    <2> QED
      BY <1>1, <1>3, <2>1 DEF Minutes
  <1> QED
    BY <1>2, <1>3

\* The type of a history that counts one more.
LEMMA CountedForm ==
    ASSUME NEW f, f \in [Slots \X Minutes -> Nat], NEW s \in Slots, NEW m \in Minutes,
           NEW g, g = [f EXCEPT ![<<s, m>>] = @ + 1]
    PROVE  /\ g \in [Slots \X Minutes -> Nat]
           /\ \A t \in Slots, k \in Minutes :
                  g[<<t, k>>] = IF t = s /\ k = m THEN f[<<t, k>>] + 1 ELSE f[<<t, k>>]
  <1>1. <<s, m>> \in Slots \X Minutes /\ f[<<s, m>>] \in Nat
    OBVIOUS
  <1>2. g \in [Slots \X Minutes -> Nat]
    BY <1>1
  <1>3. ASSUME NEW t \in Slots, NEW k \in Minutes
        PROVE  g[<<t, k>>] = IF t = s /\ k = m THEN f[<<t, k>>] + 1 ELSE f[<<t, k>>]
    <2>1. <<t, k>> \in Slots \X Minutes /\ (<<t, k>> = <<s, m>> <=> t = s /\ k = m)
      OBVIOUS
    <2> QED
      BY <1>1, <2>1
  <1> QED
    BY <1>2, <1>3

\* A step of a call other than a swap that takes, on a table or the in-flight
\* count, the release of a permit and a death.
Quiet(c) ==
    /\ Moved(c)
    /\ UNCHANGED <<minute, rate, log, inflight, leaked, admitted, lines>>
    /\ calls' \in 0 .. MaxCalls
    /\ torn \subseteq torn' /\ torn' \subseteq {"rate", "log"} \X Slots \X Minutes
    /\ call[c].at # "provider" /\ call'[c].at # "provider"
    /\ call'[c].at = "capSwap" => call'[c].count < InflightCap
    /\ call'[c].at = "rateSwap" => ~AtLimit(call'[c].seen, call'[c].min)
    /\ call'[c].at \in {"rate", "rateSwap"} => RateLimit > 0 \/ call[c].at \in {"rate", "rateSwap"}

\* The other steps.
LEMMA QuietSteps ==
    ASSUME LimitTypeOK, NEW c \in Callers
    PROVE  Call(c) \/ RateRead(c) \/ RateOvertaken(c) \/ CapRead(c) \/ CapOvertaken(c)
               \/ LogRead(c) \/ LogOvertaken(c) => Quiet(c)
  <1>0. calls \in 0 .. MaxCalls /\ torn \subseteq {"rate", "log"} \X Slots \X Minutes
    BY DEF LimitTypeOK
  <1>1. Call(c) => Quiet(c)
    <2> SUFFICES ASSUME Call(c) PROVE Quiet(c)
      OBVIOUS
    <2>1. /\ call[c].at = "idle" /\ calls < MaxCalls /\ calls' = calls + 1
          /\ UNCHANGED <<minute, rate, log, inflight, leaked, admitted, lines, torn>>
      BY DEF Call, At, limitHistory
    <2>2. Moved(c) /\ call'[c].at \in {"rate", "cap"} /\ (call'[c].at = "rate" => RateLimit > 0)
      BY CallStarts
    <2> QED
      BY <1>0, <2>1, <2>2, LimitsAssumption DEF Quiet
  <1>2. RateRead(c) => Quiet(c)
    BY <1>0, RateReads DEF RateRead, Quiet, At, limitHistory
  <1>3. CapRead(c) => Quiet(c)
    BY <1>0, CapReads DEF CapRead, Quiet, At, limitHistory
  <1>4. LogRead(c) => Quiet(c)
    BY <1>0, LogReads DEF LogRead, Quiet, At, limitHistory
  <1>5. CapOvertaken(c) => Quiet(c)
    BY <1>0, OtherSteps DEF CapOvertaken, Quiet, At, limitHistory
  <1>6. ASSUME RateOvertaken(c) PROVE Quiet(c)
    <2>1. call[c].at = "rateSwap" /\ call[c].slot \in Slots /\ call[c].min \in Minutes
      BY <1>6, CallUnderWay DEF RateOvertaken, At
    <2>2. torn \subseteq torn' /\ torn' \subseteq {"rate", "log"} \X Slots \X Minutes
      BY <1>0, <1>6, <2>1 DEF RateOvertaken, GiveUp
    <2> QED
      BY <1>0, <1>6, <2>1, <2>2, OtherSteps DEF RateOvertaken, Quiet
  <1>7. ASSUME LogOvertaken(c) PROVE Quiet(c)
    <2>1. call[c].at = "logSwap" /\ call[c].slot \in Slots /\ call[c].min \in Minutes
      BY <1>7, CallUnderWay DEF LogOvertaken, At
    <2>2. torn \subseteq torn' /\ torn' \subseteq {"rate", "log"} \X Slots \X Minutes
      BY <1>0, <1>7, <2>1 DEF LogOvertaken, GiveUp
    <2> QED
      BY <1>0, <1>7, <2>1, <2>2, OtherSteps DEF LogOvertaken, Quiet
  <1> QED
    BY <1>1, <1>2, <1>3, <1>4, <1>5, <1>6, <1>7

\* Below the cap after a step that moves no other call.
LEMMA BelowCapStep ==
    ASSUME BelowCap, NEW c \in Callers, Moved(c),
           call'[c].at = "capSwap" => call'[c].count < InflightCap
    PROVE  BelowCap'
  BY DEF BelowCap, Moved

\* Types, permits and the reading of the count are kept.
LEMMA CapInvStep == CapInv /\ [LimitNext]_limitVars => CapInv'
  <1> SUFFICES ASSUME CapInv, [LimitNext]_limitVars PROVE CapInv'
    OBVIOUS
  <1>0. LimitTypeOK /\ InflightExact /\ BelowCap
    BY DEF CapInv
  <1>1. ASSUME NEW c \in Callers, Quiet(c) PROVE CapInv'
    <2>1. LimitTypeOK'
      BY <1>0, <1>1 DEF Quiet, Moved, LimitTypeOK
    <2>2. InflightExact'
      BY <1>0, <1>1, HoldersForm DEF Quiet, InflightExact
    <2> QED
      BY <1>0, <1>1, <2>1, <2>2, BelowCapStep DEF Quiet, CapInv
  <1>2. ASSUME NEW c \in Callers, RateSwap(c) PROVE CapInv'
    <2>1. /\ call[c].at = "rateSwap" /\ call[c].slot \in Slots /\ call[c].min \in Minutes
          /\ call[c].seen \in Words /\ rate[call[c].slot] \in Words
      BY <1>0, <1>2, CallUnderWay DEF RateSwap, At, LimitTypeOK
    <2>2. Moved(c) /\ call'[c].at = "cap"
      BY <1>0, <1>2, OtherSteps
    <2>3. rate' \in [Slots -> Words]
      BY <1>0, <1>2, <2>1, NextWordForm DEF RateSwap, LimitTypeOK
    <2>4. admitted' \in [Slots \X Minutes -> Nat]
      BY <1>0, <1>2, <2>1, CountedForm DEF RateSwap, Place, LimitTypeOK
    <2>5. torn' \subseteq {"rate", "log"} \X Slots \X Minutes
      BY <1>0, <1>2, <2>1, TearForm DEF RateSwap
    <2>6. LimitTypeOK'
      BY <1>0, <1>2, <2>2, <2>3, <2>4, <2>5 DEF RateSwap, Moved, LimitTypeOK
    <2>7. InflightExact'
      BY <1>0, <1>2, <2>1, <2>2, HoldersForm DEF RateSwap, InflightExact
    <2> QED
      BY <1>0, <2>2, <2>6, <2>7, BelowCapStep DEF CapInv
  <1>3. ASSUME NEW c \in Callers, CapSwap(c) PROVE CapInv'
    <2>1. /\ call[c].at = "capSwap" /\ inflight = call[c].count /\ inflight < InflightCap
          /\ inflight' = inflight + 1 /\ leaked' = leaked /\ leaked \in Nat
      BY <1>0, <1>3 DEF CapSwap, CapTakes, At, BelowCap, LimitTypeOK
    <2>2. Moved(c) /\ call'[c].at = "provider"
      BY <1>0, <1>3, OtherSteps
    <2>3. LimitTypeOK'
      BY <1>0, <1>3, <2>1, <2>2 DEF CapSwap, Moved, LimitTypeOK, limitHistory
    <2>4. InflightExact'
      BY <1>0, <2>1, <2>2, HoldersForm, Ranges DEF InflightExact
    <2> QED
      BY <1>0, <2>2, <2>3, <2>4, BelowCapStep DEF CapInv
  <1>4. ASSUME NEW c \in Callers, Release(c) PROVE CapInv'
    <2>1. call[c].at = "provider" /\ inflight' = inflight - 1 /\ leaked' = leaked /\ leaked \in Nat
      BY <1>0, <1>4 DEF Release, At, LimitTypeOK
    <2>2. Moved(c) /\ call'[c].at = "idle"
      BY <1>0, <1>4, OtherSteps
    <2>3. InflightExact' /\ inflight' \in Nat
      BY <1>0, <2>1, <2>2, HoldersForm, Ranges DEF InflightExact
    <2>4. LimitTypeOK'
      BY <1>0, <1>4, <2>2, <2>3 DEF Release, Moved, LimitTypeOK, limitHistory
    <2> QED
      BY <1>0, <2>2, <2>3, <2>4, BelowCapStep DEF CapInv
  <1>5. ASSUME NEW c \in Callers, LogSwap(c) PROVE CapInv'
    <2>1. /\ call[c].at = "logSwap" /\ call[c].slot \in Slots /\ call[c].min \in Minutes
          /\ call[c].seen \in Words /\ log[call[c].slot] \in Words
      BY <1>0, <1>5, CallUnderWay DEF LogSwap, At, LimitTypeOK
    <2>2. Moved(c) /\ call'[c].at = "idle"
      BY <1>0, <1>5, OtherSteps
    <2>3. log' \in [Slots -> Words]
      BY <1>0, <1>5, <2>1, NextWordForm DEF LogSwap, LimitTypeOK
    <2>4. lines' \in [Slots \X Minutes -> Nat]
      BY <1>0, <1>5, <2>1, CountedForm DEF LogSwap, Place, LimitTypeOK
    <2>5. torn' \subseteq {"rate", "log"} \X Slots \X Minutes
      BY <1>0, <1>5, <2>1, TearForm DEF LogSwap
    <2>6. LimitTypeOK'
      BY <1>0, <1>5, <2>2, <2>3, <2>4, <2>5 DEF LogSwap, Moved, LimitTypeOK
    <2>7. InflightExact'
      BY <1>0, <1>5, <2>1, <2>2, HoldersForm DEF LogSwap, InflightExact
    <2> QED
      BY <1>0, <2>2, <2>6, <2>7, BelowCapStep DEF CapInv
  <1>6. ASSUME NEW c \in Callers, CallerDies(c) PROVE CapInv'
    <2>1. /\ inflight' = inflight /\ inflight \in Nat /\ leaked \in Nat /\ leaked < MaxDeaths
          /\ leaked' = IF call[c].at = "provider" THEN leaked + 1 ELSE leaked
      BY <1>0, <1>6, LimitsAssumption DEF CallerDies, At, LimitTypeOK
    <2>2. Moved(c) /\ call'[c].at = "idle"
      BY <1>0, <1>6, OtherSteps
    <2>3. LimitTypeOK'
      BY <1>0, <1>6, <2>1, <2>2, LimitsAssumption DEF CallerDies, Moved, LimitTypeOK, limitHistory
    <2>4. InflightExact'
      BY <1>0, <2>1, <2>2, HoldersForm DEF InflightExact
    <2> QED
      BY <1>0, <2>2, <2>3, <2>4, BelowCapStep DEF CapInv
  <1>7. ASSUME MinutePasses PROVE CapInv'
    <2>1. /\ minute' \in Minutes
          /\ UNCHANGED <<rate, log, inflight, call, calls, leaked, admitted, lines, torn>>
      BY <1>0, <1>7, LimitsAssumption DEF MinutePasses, LimitTypeOK, Minutes, limitHistory
    <2>2. Holders' = Holders
      BY <2>1 DEF Holders, At
    <2> QED
      BY <1>0, <2>1, <2>2 DEF CapInv, LimitTypeOK, InflightExact, BelowCap
  <1>8. ASSUME UNCHANGED limitVars PROVE CapInv'
    BY <1>0, <1>8 DEF limitVars, limitHistory, LimitTypeOK, InflightExact, Holders, At, BelowCap, CapInv
  <1> QED
    BY <1>0, <1>1, <1>2, <1>3, <1>4, <1>5, <1>6, <1>7, <1>8, QuietSteps DEF LimitNext, CallStep

-----------------------------------------------------------------------------
(***************************************************************************)
(* The words of the two tables.                                            *)
(***************************************************************************)

\* What a rate word says of the calls it let in: those of its minute, and none
\* of a later one.  A swap is tried only from below the limit.
RateSound(s, m) ==
    <<"rate", s, m>> \notin torn =>
        /\ admitted[<<s, m>>] <= RateLimit
        /\ m = rate[s].win => admitted[<<s, m>>] = rate[s].n
        /\ m > rate[s].win => admitted[<<s, m>>] = 0
LogSound(s, m) ==
    <<"log", s, m>> \notin torn =>
        /\ lines[<<s, m>>] <= 1
        /\ m > log[s].win => lines[<<s, m>>] = 0
BelowLimit ==
    \A c \in Callers : call[c].at = "rateSwap" => ~AtLimit(call[c].seen, call[c].min)
Limited == \A c \in Callers : call[c].at \in {"rate", "rateSwap"} => RateLimit > 0

WordInv ==
    /\ CapInv /\ BelowLimit /\ Limited
    /\ \A s \in Slots, m \in Minutes : RateSound(s, m) /\ LogSound(s, m)

\* At the start every word is of minute zero, in which nothing is counted.
LEMMA WordInvInit == LimitInit => WordInv
  <1> SUFFICES ASSUME LimitInit PROVE WordInv
    OBVIOUS
  <1>1. CapInv
    BY CapInvInit
  <1>2. BelowLimit /\ Limited
    BY DEF LimitInit, BelowLimit, Limited, NoCall
  <1>3. ASSUME NEW s \in Slots, NEW m \in Minutes PROVE RateSound(s, m) /\ LogSound(s, m)
    <2>1. <<s, m>> \in Slots \X Minutes
      OBVIOUS
    <2>2. /\ admitted[<<s, m>>] = 0 /\ lines[<<s, m>>] = 0
          /\ rate[s] = NoWord /\ log[s] = NoWord /\ torn = {}
      BY <2>1 DEF LimitInit
    <2> QED
      BY <2>2, LimitsAssumption DEF RateSound, LogSound, NoWord
  <1> QED
    BY <1>1, <1>2, <1>3 DEF WordInv

\* A swap of a rate word counts the call it lets in.
LEMMA RateSwapSound ==
    ASSUME WordInv, NEW c \in Callers, RateSwap(c),
           NEW s \in Slots, NEW m \in Minutes
    PROVE  RateSound(s, m)'
  <1>0. LimitTypeOK
    BY DEF WordInv, CapInv
  <1>1. /\ call[c].at = "rateSwap" /\ call[c].slot \in Slots /\ call[c].min \in Minutes
        /\ call[c].seen \in Words /\ rate[call[c].slot] = call[c].seen
    BY <1>0, CallUnderWay DEF RateSwap, At, SwapTakes
  <1>2. RateLimit > 0 /\ ~AtLimit(call[c].seen, call[c].min)
    BY <1>1 DEF WordInv, BelowLimit, Limited
  <1>3. PICK w \in Words, n \in Minutes, t \in Slots : w = call[c].seen /\ n = call[c].min /\ t = call[c].slot
    BY <1>1
  <1>4. rate[t] = w /\ rate' = [rate EXCEPT ![t] = NextWord(w, n)]
    BY <1>1, <1>3 DEF RateSwap
  <1>5. admitted' = [admitted EXCEPT ![<<t, n>>] = @ + 1]
    BY <1>3 DEF RateSwap, Place
  <1>6. admitted'[<<s, m>>] = IF s = t /\ m = n THEN admitted[<<s, m>>] + 1 ELSE admitted[<<s, m>>]
    BY <1>0, <1>5, CountedForm DEF LimitTypeOK
  <1>7. Tear("rate", t, w, n)
    BY <1>3 DEF RateSwap
  <1>8. /\ torn \subseteq torn'
        /\ w.win > n /\ n <= m /\ m <= w.win => <<"rate", t, m>> \in torn'
    BY <1>0, <1>7, TearForm
  <1>9. RateSound(s, m)
    BY DEF WordInv
  <1>10. /\ m \in Nat /\ n \in Nat /\ w.win \in Nat /\ w.n \in Nat /\ RateLimit \in Nat
         /\ admitted[<<s, m>>] \in Nat
    BY <1>0, LimitsAssumption DEF LimitTypeOK, Minutes, Words
  <1>11. CASE s # t
    <2>1. rate'[s] = rate[s]
      BY <1>0, <1>4, <1>11 DEF LimitTypeOK
    <2> QED
      BY <1>6, <1>8, <1>9, <1>11, <2>1 DEF RateSound
  <1>12. CASE s = t
    <2>1. rate'[s].win = n /\ rate'[s].n = IF w.win # n THEN 1 ELSE w.n + 1
      BY <1>0, <1>4, <1>12, NextWordForm DEF LimitTypeOK
    <2>2. w.win = n => w.n < RateLimit
      BY <1>2, <1>3, <1>10 DEF AtLimit
    <2> QED
      BY <1>2, <1>4, <1>6, <1>8, <1>9, <1>10, <1>12, <2>1, <2>2 DEF RateSound
  <1> QED
    BY <1>11, <1>12

\* A swap of a log word logs a line when it opens a minute.
LEMMA LogSwapSound ==
    ASSUME WordInv, NEW c \in Callers, LogSwap(c),
           NEW s \in Slots, NEW m \in Minutes
    PROVE  LogSound(s, m)'
  <1>0. LimitTypeOK
    BY DEF WordInv, CapInv
  <1>1. /\ call[c].at = "logSwap" /\ call[c].slot \in Slots /\ call[c].min \in Minutes
        /\ call[c].seen \in Words /\ log[call[c].slot] = call[c].seen
    BY <1>0, CallUnderWay DEF LogSwap, At, SwapTakes
  <1>3. PICK w \in Words, n \in Minutes, t \in Slots : w = call[c].seen /\ n = call[c].min /\ t = call[c].slot
    BY <1>1
  <1>4. log[t] = w /\ log' = [log EXCEPT ![t] = NextWord(w, n)]
    BY <1>1, <1>3 DEF LogSwap
  <1>5. lines' = IF w.win # n THEN [lines EXCEPT ![<<t, n>>] = @ + 1] ELSE lines
    BY <1>3 DEF LogSwap, Place
  <1>6. lines'[<<s, m>>] =
            IF w.win # n /\ s = t /\ m = n THEN lines[<<s, m>>] + 1 ELSE lines[<<s, m>>]
    <2>1. CASE w.win # n
      BY <1>0, <1>5, <2>1, CountedForm DEF LimitTypeOK
    <2>2. CASE w.win = n
      BY <1>5, <2>2
    <2> QED
      BY <2>1, <2>2
  <1>7. Tear("log", t, w, n)
    BY <1>3 DEF LogSwap
  <1>8. /\ torn \subseteq torn'
        /\ w.win > n /\ n <= m /\ m <= w.win => <<"log", t, m>> \in torn'
    BY <1>0, <1>7, TearForm
  <1>9. LogSound(s, m)
    BY DEF WordInv
  <1>10. m \in Nat /\ n \in Nat /\ w.win \in Nat /\ lines[<<s, m>>] \in Nat
    BY <1>0, LimitsAssumption DEF LimitTypeOK, Minutes, Words
  <1>11. CASE s # t
    <2>1. log'[s] = log[s]
      BY <1>0, <1>4, <1>11 DEF LimitTypeOK
    <2> QED
      BY <1>6, <1>8, <1>9, <1>11, <2>1 DEF LogSound
  <1>12. CASE s = t
    <2>1. log'[s].win = n
      BY <1>0, <1>4, <1>12, NextWordForm DEF LimitTypeOK
    <2> QED
      BY <1>4, <1>6, <1>8, <1>9, <1>10, <1>12, <2>1 DEF LogSound
  <1> QED
    BY <1>11, <1>12

\* The words are kept sound.
LEMMA WordInvStep == WordInv /\ [LimitNext]_limitVars => WordInv'
  <1> SUFFICES ASSUME WordInv, [LimitNext]_limitVars PROVE WordInv'
    OBVIOUS
  <1>0. LimitTypeOK /\ CapInv'
    BY CapInvStep DEF WordInv, CapInv
  <1>1. ASSUME NEW c \in Callers, Moved(c),
               call'[c].at = "rateSwap" => ~AtLimit(call'[c].seen, call'[c].min)
        PROVE  BelowLimit'
    BY <1>1 DEF WordInv, BelowLimit, Moved, AtLimit
  <1>2. ASSUME NEW c \in Callers, Moved(c), call'[c].at \in {"rate", "rateSwap"} => RateLimit > 0
        PROVE  Limited'
    BY <1>2 DEF WordInv, Limited, Moved
  <1>3. ASSUME UNCHANGED <<rate, admitted>>, torn \subseteq torn'
        PROVE  \A s \in Slots, m \in Minutes : RateSound(s, m)'
    BY <1>3 DEF WordInv, RateSound
  <1>4. ASSUME UNCHANGED <<log, lines>>, torn \subseteq torn'
        PROVE  \A s \in Slots, m \in Minutes : LogSound(s, m)'
    BY <1>4 DEF WordInv, LogSound
  <1>5. ASSUME NEW c \in Callers, Quiet(c) PROVE WordInv'
    <2>1. call'[c].at \in {"rate", "rateSwap"} => RateLimit > 0
      BY <1>5 DEF Quiet, WordInv, Limited
    <2> QED
      BY <1>0, <1>1, <1>2, <1>3, <1>4, <1>5, <2>1 DEF Quiet, WordInv
  <1>6. ASSUME NEW c \in Callers, RateSwap(c) PROVE WordInv'
    <2>1. Moved(c) /\ call'[c].at = "cap"
      BY <1>0, <1>6, OtherSteps
    <2>2. UNCHANGED <<log, lines>> /\ torn \subseteq torn'
      <3>1. call[c].at = "rateSwap" /\ call[c].slot \in Slots /\ call[c].min \in Minutes /\ call[c].seen \in Words
        BY <1>0, <1>6, CallUnderWay DEF RateSwap, At
      <3> QED
        BY <1>0, <1>6, <3>1, TearForm DEF RateSwap
    <2>3. \A s \in Slots, m \in Minutes : RateSound(s, m)'
      BY <1>6, RateSwapSound
    <2> QED
      BY <1>0, <1>1, <1>2, <1>4, <2>1, <2>2, <2>3 DEF WordInv
  <1>7. ASSUME NEW c \in Callers, LogSwap(c) PROVE WordInv'
    <2>1. Moved(c) /\ call'[c].at = "idle"
      BY <1>0, <1>7, OtherSteps
    <2>2. UNCHANGED <<rate, admitted>> /\ torn \subseteq torn'
      <3>1. call[c].at = "logSwap" /\ call[c].slot \in Slots /\ call[c].min \in Minutes /\ call[c].seen \in Words
        BY <1>0, <1>7, CallUnderWay DEF LogSwap, At
      <3> QED
        BY <1>0, <1>7, <3>1, TearForm DEF LogSwap
    <2>3. \A s \in Slots, m \in Minutes : LogSound(s, m)'
      BY <1>7, LogSwapSound
    <2> QED
      BY <1>0, <1>1, <1>2, <1>3, <2>1, <2>2, <2>3 DEF WordInv
  <1>8. ASSUME NEW c \in Callers, CapSwap(c) \/ Release(c) \/ CallerDies(c) PROVE WordInv'
    <2>1. Moved(c) /\ call'[c].at \in {"provider", "idle"}
      BY <1>0, <1>8, OtherSteps
    <2>2. UNCHANGED <<rate, log, admitted, lines, torn>>
      BY <1>8 DEF CapSwap, Release, CallerDies, limitHistory
    <2> QED
      BY <1>0, <1>1, <1>2, <1>3, <1>4, <2>1, <2>2 DEF WordInv
  <1>9. ASSUME MinutePasses \/ UNCHANGED limitVars PROVE WordInv'
    <2>1. UNCHANGED <<rate, log, call, admitted, lines, torn>>
      BY <1>9 DEF MinutePasses, limitVars, limitHistory
    <2>2. BelowLimit' /\ Limited'
      BY <2>1 DEF WordInv, BelowLimit, Limited
    <2> QED
      BY <1>0, <1>3, <1>4, <2>1, <2>2 DEF WordInv
  <1> QED
    BY <1>0, <1>5, <1>6, <1>7, <1>8, <1>9, QuietSteps DEF LimitNext, CallStep
-----------------------------------------------------------------------------
\* The variables keep their types.
THEOREM LimitTypes == LimitSpec => []LimitTypeOK
  <1>1. CapInv => LimitTypeOK
    BY DEF CapInv
  <1> QED
    BY <1>1, CapInvInit, CapInvStep, PTL DEF LimitSpec

\* The in-flight count is the number of calls that wait for a provider plus
\* the permits lost with a child, and never exceeds the cap.
THEOREM LimitInflightExact == LimitSpec => []InflightExact
  <1>1. CapInv => InflightExact
    BY DEF CapInv
  <1> QED
    BY <1>1, CapInvInit, CapInvStep, PTL DEF LimitSpec

\* In a minute no slot lets more calls through than the limit and logs more
\* than one line, unless a caller gave up or wrote an older minute.
THEOREM LimitRateKept == LimitSpec => []RateKept
  <1>1. WordInv => RateKept
    <2> SUFFICES ASSUME WordInv, NEW s \in Slots, NEW m \in Minutes
                 PROVE  /\ <<"rate", s, m>> \notin torn => admitted[<<s, m>>] <= RateLimit
                        /\ <<"log", s, m>> \notin torn => lines[<<s, m>>] <= 1
      BY DEF RateKept
    <2> QED
      BY DEF WordInv, RateSound, LogSound
  <1> QED
    BY <1>1, WordInvInit, WordInvStep, PTL DEF LimitSpec

-----------------------------------------------------------------------------
(* The directories that are swapped in. *)

\* The oldest generation a request of a child may still hold, while no tick
\* has ended since it took the pointer.
Oldest(c) == IF tick[c].at = "stored" THEN tick[c].old.id ELSE active[c].id

\* What the generation awaiting its destruction stands between: everything
\* destroyed is older than it, and it is older than what requests may hold.
GenerationsOrdered(c) ==
    /\ pending[c] \in Generation =>
           /\ pending[c].id < Oldest(c)
           /\ \A i \in freed[c] : i < pending[c].id
    /\ pending[c] \notin Generation => freed[c] = {}
    /\ Oldest(c) <= active[c].id
    /\ tick[c].at = "built" => tick[c].gen.id > active[c].id
    /\ tick[c].at = "stored" => tick[c].old.id < active[c].id

\* In the middle of a tick no request is left from before it, so each holds
\* the active generation or the one just displaced; after the tick those that
\* saw its end may hold the one that now awaits its destruction.
HeldBy(r) ==
    LET c == reader[r].child
    IN  /\ tick[c] # Idle => ~reader[r].aged
        /\ ~reader[r].aged => reader[r].gen.id >= Oldest(c)
        /\ reader[r].gen.id \notin freed[c]

SwapInv ==
    /\ SwapTypeOK
    /\ \A c \in Children : GenerationsOrdered(c)
    /\ \A r \in Readers : reader[r] # Free => HeldBy(r)

\* The invariant at the start.
LEMMA SwapInvInit == SwapInit => SwapInv
  <1> SUFFICES ASSUME SwapInit PROVE SwapInv
    OBVIOUS
  <1>1. SwapTypeOK
    BY SwapAssumption DEF SwapInit, SwapTypeOK, Loaded, BuiltIn, Generation, Idle, Free
  <1>2. ASSUME NEW c \in Children PROVE GenerationsOrdered(c)
    BY NoChildAssumption DEF SwapInit, GenerationsOrdered, Oldest, Loaded, BuiltIn, Generation, Idle
  <1>3. \A r \in Readers : reader[r] = Free
    BY DEF SwapInit
  <1> QED
    BY <1>1, <1>2, <1>3 DEF SwapInv

\* What a tick is doing, by its name.
LEMMA TickForm ==
    ASSUME SwapTypeOK, NEW c \in Children
    PROVE  /\ tick[c].at = "idle" => tick[c] = Idle
           /\ tick[c].at = "statted" => tick[c].mtime \in Nat
           /\ tick[c].at = "built" => tick[c].gen \in Generation
           /\ tick[c].at = "stored" => tick[c].old \in Generation
           /\ active[c] \in Generation
           /\ Oldest(c) \in Int
  BY DEF SwapTypeOK, Idle, Oldest, Generation

\* A request that is under way is in a child and holds a generation.
LEMMA ReaderForm ==
    ASSUME SwapTypeOK, NEW r \in Readers, reader[r] # Free
    PROVE  /\ reader[r].child \in Children
           /\ reader[r].gen \in Generation
           /\ reader[r].aged \in BOOLEAN
  BY DEF SwapTypeOK

\* The end of a tick: the requests of the child are marked, no other changes.
LEMMA EndTickForm ==
    ASSUME SwapTypeOK, NEW c \in Children, EndTick(c)
    PROVE  /\ tick' = [tick EXCEPT ![c] = Idle]
           /\ reader' \in [Readers -> {Free} \cup
                              [child : Children, gen : Generation, aged : BOOLEAN]]
           /\ \A r \in Readers : reader'[r] # Free =>
                  /\ reader[r] # Free
                  /\ reader'[r].child = reader[r].child
                  /\ reader'[r].gen = reader[r].gen
                  /\ reader[r].child = c => reader'[r].aged = TRUE
                  /\ reader[r].child # c => reader'[r].aged = reader[r].aged
  <1>2. \A r \in Readers : reader[r] # Free => reader[r].gen \in Generation
    BY ReaderForm
  <1>3. reader' = [r \in Readers |-> IF r \in ReadersOf(c) THEN Holds(c, reader[r].gen, TRUE)
                                     ELSE reader[r]]
    BY DEF EndTick
  <1>4. ASSUME NEW r \in Readers
        PROVE  /\ reader'[r] \in {Free} \cup [child : Children, gen : Generation, aged : BOOLEAN]
               /\ reader'[r] # Free =>
                  /\ reader[r] # Free
                  /\ reader'[r].child = reader[r].child
                  /\ reader'[r].gen = reader[r].gen
                  /\ reader[r].child = c => reader'[r].aged = TRUE
                  /\ reader[r].child # c => reader'[r].aged = reader[r].aged
    <2>1. CASE r \in ReadersOf(c)
      <3>1. reader'[r] = Holds(c, reader[r].gen, TRUE) /\ reader[r] # Free /\ reader[r].child = c
        BY <1>3, <2>1 DEF ReadersOf
      <3> QED
        BY <1>2, <3>1 DEF Holds
    <2>2. CASE r \notin ReadersOf(c)
      <3>1. reader'[r] = reader[r] /\ (reader[r] # Free => reader[r].child # c)
        BY <1>3, <2>2 DEF ReadersOf
      <3> QED
        BY <3>1 DEF SwapTypeOK
    <2> QED
      BY <2>1, <2>2
  <1>5. reader' = [r \in Readers |-> reader'[r]]
    BY <1>3
  <1>6. reader' \in [Readers -> {Free} \cup [child : Children, gen : Generation, aged : BOOLEAN]]
    BY <1>4, <1>5
  <1> QED
    BY <1>4, <1>6 DEF EndTick

-----------------------------------------------------------------------------
(***************************************************************************)
(* Each step keeps the types, and then the order of the generations.       *)
(***************************************************************************)

\* Types are kept.
LEMMA SwapTypeStep == SwapTypeOK /\ [SwapNext]_swapVars => SwapTypeOK'
  <1> SUFFICES ASSUME SwapTypeOK, [SwapNext]_swapVars PROVE SwapTypeOK'
    OBVIOUS
  <1> USE SwapAssumption
  <1>1. ASSUME NEW c \in Children, Stat(c) PROVE SwapTypeOK'
    BY <1>1 DEF Stat, SwapTypeOK, Statted
  <1>2. ASSUME NEW c \in Children, Parse(c) PROVE SwapTypeOK'
    <2>1. Timed(c) \in Generation
      BY <1>2, TickForm DEF Parse, Timed, Generation, SwapTypeOK
    <2>2. Built(Timed(c)) \in [at : {"built"}, gen : Generation]
      BY <2>1 DEF Built
    <2> QED
      BY <1>2, <2>2 DEF Parse, SwapTypeOK
  <1>3. ASSUME NEW c \in Children, ParseFails(c) PROVE SwapTypeOK'
    BY ZenonT(30), <1>3, EndTickForm DEF ParseFails, SwapTypeOK
  <1>4. ASSUME NEW c \in Children, Store(c) PROVE SwapTypeOK'
    <2>1. tick[c].gen \in Generation
      BY <1>4, TickForm DEF Store
    <2>2. Stored(active[c]) \in [at : {"stored"}, old : Generation]
      BY TickForm DEF Stored
    <2> QED
      BY <1>4, <2>1, <2>2 DEF Store, SwapTypeOK
  <1>5. ASSUME NEW c \in Children, Destroy(c) PROVE SwapTypeOK'
    <2>1. tick[c].old \in Generation
      BY <1>5, TickForm DEF Destroy
    <2>2. Retired(c) # NoChild => Retired(c).id \in Nat
      BY DEF Retired, SwapTypeOK, Generation
    <2>3. pending' \in [Children -> Generation \cup {NoChild}]
      BY <1>5, <2>1 DEF Destroy, SwapTypeOK
    <2>4. freed' \in [Children -> SUBSET Nat]
      BY <1>5, <2>2 DEF Destroy, SwapTypeOK
    <2> QED
      <3>1. tick' = [tick EXCEPT ![c] = Idle]
        BY <1>5, EndTickForm DEF Destroy
      <3>2. reader' \in [Readers -> {Free} \cup [child : Children, gen : Generation, aged : BOOLEAN]]
        BY <1>5, EndTickForm DEF Destroy
      <3> QED
        BY <1>5, <2>3, <2>4, <3>1, <3>2 DEF Destroy, SwapTypeOK
  <1>6. ASSUME NEW c \in Children, Fork(c) PROVE SwapTypeOK'
    <2>1. Loaded \in Generation /\ BuiltIn \in Generation
      BY DEF Loaded, BuiltIn, Generation
    <2>2. reader' \in [Readers -> {Free} \cup [child : Children, gen : Generation, aged : BOOLEAN]]
      BY <1>6 DEF Fork, SwapTypeOK
    <2> QED
      BY <1>6, <2>1, <2>2 DEF Fork, SwapTypeOK
  <1>7. ASSUME NEW r \in Readers, Take(r) PROVE SwapTypeOK'
    BY <1>7 DEF Take, SwapTypeOK, Holds
  <1>8. ASSUME NEW r \in Readers, Done(r) PROVE SwapTypeOK'
    BY <1>8 DEF Done, SwapTypeOK
  <1>9. ASSUME Edit PROVE SwapTypeOK'
    BY <1>9 DEF Edit, SwapTypeOK
  <1>10. ASSUME UNCHANGED swapVars PROVE SwapTypeOK'
    BY <1>10 DEF swapVars, SwapTypeOK
  <1> QED
    BY <1>1, <1>2, <1>3, <1>4, <1>5, <1>6, <1>7, <1>8, <1>9, <1>10 DEF SwapNext, Tick

\* A step that concerns one child only: what is left to show is about it.
LEMMA OneChild ==
    ASSUME SwapInv, SwapTypeOK', NEW c \in Children,
           \A d \in Children : d # c =>
               /\ tick'[d] = tick[d] /\ active'[d] = active[d]
               /\ pending'[d] = pending[d] /\ freed'[d] = freed[d],
           \A r \in Readers : reader'[r] # Free /\ reader'[r].child # c =>
               /\ reader[r] # Free /\ reader'[r].child = reader[r].child
               /\ reader'[r].gen = reader[r].gen /\ reader'[r].aged = reader[r].aged,
           GenerationsOrdered(c)',
           \A r \in Readers : reader'[r] # Free /\ reader'[r].child = c => HeldBy(r)'
    PROVE  SwapInv'
  <1>1. ASSUME NEW d \in Children PROVE GenerationsOrdered(d)'
    <2>1. CASE d = c
      BY <2>1
    <2>2. CASE d # c
      BY <2>2 DEF SwapInv, GenerationsOrdered, Oldest
    <2> QED
      BY <2>1, <2>2
  <1>2. ASSUME NEW r \in Readers, reader'[r] # Free PROVE HeldBy(r)'
    <2>1. CASE reader'[r].child = c
      BY <1>2, <2>1
    <2>2. CASE reader'[r].child # c
      <3>1. reader[r] # Free /\ HeldBy(r)
        BY <1>2, <2>2 DEF SwapInv
      <3>2. reader[r].child \in Children
        BY <3>1, ReaderForm DEF SwapInv
      <3> QED
        BY <1>2, <2>2, <3>1, <3>2 DEF HeldBy, Oldest
    <2> QED
      BY <2>1, <2>2
  <1> QED
    BY <1>1, <1>2 DEF SwapInv

\* What the order means for the child of a step.
LEMMA OrderForm ==
    ASSUME SwapInv, NEW c \in Children
    PROVE  /\ GenerationsOrdered(c) /\ Oldest(c) \in Int /\ active[c].id \in Nat
           /\ freed[c] \in SUBSET Nat
           /\ pending[c] \in Generation => pending[c].id \in Nat
           /\ pending[c] \notin Generation => pending[c] = NoChild
           /\ \A i \in freed[c] : i < Oldest(c)
  <1>1. GenerationsOrdered(c) /\ Oldest(c) \in Int /\ active[c].id \in Nat
    BY TickForm DEF SwapInv, Generation
  <1>2. /\ freed[c] \in SUBSET Nat
        /\ pending[c] \in Generation => pending[c].id \in Nat
        /\ pending[c] \notin Generation => pending[c] = NoChild
    BY DEF SwapInv, SwapTypeOK, Generation
  <1> QED
    BY <1>1, <1>2 DEF GenerationsOrdered

\* The invariant is kept.
LEMMA SwapInvStep == SwapInv /\ [SwapNext]_swapVars => SwapInv'
  <1> SUFFICES ASSUME SwapInv, [SwapNext]_swapVars PROVE SwapInv'
    OBVIOUS
  <1>0. SwapTypeOK /\ SwapTypeOK'
    BY SwapTypeStep DEF SwapInv
  <1>1. ASSUME NEW c \in Children, Stat(c) PROVE SwapInv'
    <2>1. tick[c] = Idle /\ tick'[c].at = "statted" /\ tick'[c] # Idle
      BY <1>0, <1>1 DEF Stat, Statted, SwapTypeOK, Idle
    <2>2. GenerationsOrdered(c)'
      BY <1>1, <2>1 DEF Stat, SwapInv, GenerationsOrdered, Oldest, Idle
    <2>3. ASSUME NEW r \in Readers, reader'[r] # Free, reader'[r].child = c PROVE HeldBy(r)'
      <3>1. reader'[r] = reader[r] /\ ~reader[r].aged /\ HeldBy(r)
        BY <1>1, <2>3 DEF Stat, Grace, ReadersOf, SwapInv
      <3> QED
        BY <1>1, <2>1, <2>3, <3>1 DEF Stat, HeldBy, Oldest, Idle
    <2> QED
      BY <1>0, <1>1, <2>2, <2>3, OneChild DEF Stat, SwapTypeOK
  <1>2. ASSUME NEW c \in Children, Parse(c) PROVE SwapInv'
    <2>1. tick[c].at = "statted" /\ tick'[c].at = "built" /\ tick[c] # Idle
      BY <1>0, <1>2 DEF Parse, Built, SwapTypeOK, Idle
    <2>2. GenerationsOrdered(c)'
      <3>1. tick'[c] = Built(Timed(c)) /\ tick'[c].gen.id = active[c].id + 1
        BY <1>0, <1>2 DEF Parse, Built, Timed, SwapTypeOK
      <3> QED
        BY <1>2, <2>1, <3>1, OrderForm DEF Parse, GenerationsOrdered, Oldest
    <2>3. ASSUME NEW r \in Readers, reader'[r] # Free, reader'[r].child = c PROVE HeldBy(r)'
      BY <1>2, <2>1, <2>3 DEF Parse, SwapInv, HeldBy, Oldest
    <2> QED
      BY <1>0, <1>2, <2>2, <2>3, OneChild DEF Parse, SwapTypeOK
  <1>3. ASSUME NEW c \in Children, ParseFails(c) PROVE SwapInv'
    <2>1. tick[c].at = "statted" /\ tick' = [tick EXCEPT ![c] = Idle] /\ tick'[c] = Idle
      BY <1>0, <1>3 DEF ParseFails, EndTick, SwapTypeOK
    <2>2. GenerationsOrdered(c)'
      BY <1>3, <2>1 DEF ParseFails, SwapInv, GenerationsOrdered, Oldest, Idle
    <2>3. EndTick(c)
      BY <1>3 DEF ParseFails
    <2>4. ASSUME NEW r \in Readers, reader'[r] # Free, reader'[r].child = c PROVE HeldBy(r)'
      <3>1. reader[r] # Free /\ reader[r].child = c /\ reader'[r].gen = reader[r].gen /\ reader'[r].aged
        BY <1>0, <2>3, <2>4, EndTickForm
      <3>2. reader[r].gen.id \notin freed[c]
        BY <3>1 DEF SwapInv, HeldBy
      <3> QED
        BY <1>3, <2>1, <2>4, <3>1, <3>2 DEF ParseFails, HeldBy
    <2>5. \A r \in Readers : reader'[r] # Free /\ reader'[r].child # c =>
              /\ reader[r] # Free /\ reader'[r].child = reader[r].child
              /\ reader'[r].gen = reader[r].gen /\ reader'[r].aged = reader[r].aged
      BY <1>0, <2>3, EndTickForm
    <2> QED
      BY <1>0, <1>3, <2>1, <2>2, <2>4, <2>5, OneChild DEF ParseFails, SwapTypeOK
  <1>4. ASSUME NEW c \in Children, Store(c) PROVE SwapInv'
    <2>1. /\ tick[c].at = "built" /\ tick[c].gen.id > active[c].id
          /\ tick'[c] = Stored(active[c]) /\ active'[c] = tick[c].gen
          /\ tick'[c].old = active[c]
      BY <1>0, <1>4 DEF Stored, Store, SwapTypeOK, SwapInv, GenerationsOrdered
    <2>2. Oldest(c)' = active[c].id /\ Oldest(c) = active[c].id /\ tick'[c].at = "stored"
      BY <2>1 DEF Oldest, Stored
    <2>3. active[c].id \in Nat /\ tick[c].gen.id \in Nat
      BY <1>0, <2>1, TickForm DEF Generation
    <2>4. GenerationsOrdered(c)'
      BY <1>4, <2>1, <2>2, <2>3, OrderForm DEF Store, GenerationsOrdered
    <2>5. ASSUME NEW r \in Readers, reader'[r] # Free, reader'[r].child = c PROVE HeldBy(r)'
      <3>1. reader'[r] = reader[r] /\ HeldBy(r) /\ ~reader[r].aged
        BY <1>4, <2>1, <2>5 DEF Store, SwapInv, HeldBy, Idle
      <3> QED
        BY <1>4, <2>1, <2>2, <2>5, <3>1 DEF Store, HeldBy
    <2> QED
      BY <1>0, <1>4, <2>4, <2>5, OneChild DEF Store, SwapTypeOK
  <1>5. ASSUME NEW c \in Children, Destroy(c) PROVE SwapInv'
    <2>1. /\ tick[c].at = "stored" /\ Oldest(c) = tick[c].old.id /\ tick[c].old \in Generation
          /\ tick' = [tick EXCEPT ![c] = Idle] /\ tick'[c] = Idle
          /\ pending'[c] = tick[c].old /\ EndTick(c)
      <3>1. tick[c].at = "stored" /\ tick[c].old \in Generation
        BY <1>0, <1>5, TickForm DEF Destroy
      <3>2. tick' = [tick EXCEPT ![c] = Idle] /\ pending'[c] = tick[c].old /\ EndTick(c)
        BY <1>0, <1>5 DEF Destroy, EndTick, SwapTypeOK
      <3> QED
        BY <1>0, <3>1, <3>2 DEF SwapTypeOK, Oldest
    <2>2. Oldest(c)' = active[c].id /\ tick'[c].at = "idle"
      BY <1>5, <2>1 DEF Destroy, Oldest, Idle
    <2>3. \A i \in freed'[c] : i < Oldest(c)
      <3>1. freed'[c] = IF pending[c] = NoChild THEN freed[c] ELSE freed[c] \cup {pending[c].id}
        BY <1>0, <1>5 DEF Destroy, Retired, SwapTypeOK
      <3> QED
        BY <3>1, OrderForm DEF GenerationsOrdered
    <2>4. Oldest(c) < active[c].id
      BY <2>1, OrderForm DEF GenerationsOrdered
    <2>5. GenerationsOrdered(c)'
      BY <1>5, <2>1, <2>2, <2>3, <2>4, OrderForm DEF Destroy, GenerationsOrdered
    <2>6. ASSUME NEW r \in Readers, reader'[r] # Free, reader'[r].child = c PROVE HeldBy(r)'
      <3>1. reader[r] # Free /\ reader[r].child = c /\ reader'[r].gen = reader[r].gen /\ reader'[r].aged
        BY <1>0, <2>1, <2>6, EndTickForm
      <3>2. reader[r].gen.id >= Oldest(c) /\ reader[r].gen.id \in Nat
        BY <1>0, <2>1, <3>1, ReaderForm DEF SwapInv, HeldBy, Idle, Generation
      <3>3. reader[r].gen.id \notin freed'[c]
        BY <2>3, <3>2, OrderForm
      <3> QED
        BY <2>1, <2>6, <3>1, <3>3 DEF HeldBy
    <2>7. \A r \in Readers : reader'[r] # Free /\ reader'[r].child # c =>
              /\ reader[r] # Free /\ reader'[r].child = reader[r].child
              /\ reader'[r].gen = reader[r].gen /\ reader'[r].aged = reader[r].aged
      BY <1>0, <2>1, EndTickForm
    <2> QED
      BY <1>0, <1>5, <2>1, <2>5, <2>6, <2>7, OneChild DEF Destroy, SwapTypeOK
  <1>6. ASSUME NEW c \in Children, Fork(c) PROVE SwapInv'
    <2>1. /\ active'[c] = Loaded /\ tick'[c] = Idle /\ freed'[c] = {}
          /\ pending'[c] \in {BuiltIn, NoChild}
      BY <1>0, <1>6 DEF Fork, SwapTypeOK
    <2>2. GenerationsOrdered(c)'
      BY <2>1, NoChildAssumption DEF GenerationsOrdered, Oldest, Loaded, BuiltIn, Generation, Idle
    <2>3. \A r \in Readers : reader'[r] # Free => reader'[r] = reader[r] /\ reader[r].child # c
      BY <1>6 DEF Fork, ReadersOf
    <2> QED
      BY <1>0, <1>6, <2>2, <2>3, OneChild DEF Fork, SwapTypeOK
  <1>7. ASSUME NEW r \in Readers, Take(r) PROVE SwapInv'
    <2>1. PICK c \in Children : reader' = [reader EXCEPT ![r] = Holds(c, active[c], FALSE)]
      BY <1>7 DEF Take
    <2>2. ASSUME NEW q \in Readers, reader'[q] # Free PROVE HeldBy(q)'
      <3>1. CASE q = r
        <4>1. reader'[q].child = c /\ reader'[q].gen = active[c] /\ reader'[q].aged = FALSE
          BY <1>0, <2>1, <3>1 DEF SwapTypeOK, Holds
        <4>2. active[c].id \notin freed[c] /\ active[c].id >= Oldest(c)
          BY OrderForm DEF GenerationsOrdered
        <4> QED
          BY <1>7, <4>1, <4>2 DEF Take, HeldBy, Oldest
      <3>2. CASE q # r
        <4>1. reader'[q] = reader[q]
          BY <1>0, <2>1, <3>2 DEF SwapTypeOK
        <4> QED
          BY <1>7, <2>2, <4>1 DEF Take, SwapInv, HeldBy, Oldest
      <3> QED
        BY <3>1, <3>2
    <2>3. \A d \in Children : GenerationsOrdered(d)'
      BY <1>7 DEF Take, SwapInv, GenerationsOrdered, Oldest
    <2> QED
      BY <1>0, <2>2, <2>3 DEF SwapInv
  <1>8. ASSUME NEW r \in Readers, Done(r) PROVE SwapInv'
    <2>1. \A q \in Readers : reader'[q] # Free => reader'[q] = reader[q]
      BY <1>0, <1>8 DEF Done, SwapTypeOK
    <2>2. \A q \in Readers : reader'[q] # Free => HeldBy(q)'
      BY <1>8, <2>1 DEF Done, SwapInv, HeldBy, Oldest
    <2>3. \A d \in Children : GenerationsOrdered(d)'
      BY <1>8 DEF Done, SwapInv, GenerationsOrdered, Oldest
    <2> QED
      BY <1>0, <2>2, <2>3 DEF SwapInv
  <1>9. CASE Edit \/ UNCHANGED swapVars
    <2>1. UNCHANGED <<active, pending, tick, freed, reader>>
      BY <1>9 DEF Edit, swapVars
    <2> QED
      BY <1>0, <2>1 DEF SwapInv, GenerationsOrdered, HeldBy, Oldest
  <1> QED
    BY <1>1, <1>2, <1>3, <1>4, <1>5, <1>6, <1>7, <1>8, <1>9 DEF SwapNext, Tick
-----------------------------------------------------------------------------
\* Every reachable state has the invariant.
THEOREM SwapInvariant == SwapSpec => []SwapInv
  BY SwapInvInit, SwapInvStep, PTL DEF SwapSpec

\* The variables keep their types.
THEOREM SwapTypes == SwapSpec => []SwapTypeOK
  <1>1. SwapInv => SwapTypeOK
    BY DEF SwapInv
  <1> QED
    BY <1>1, SwapInvariant, PTL

\* No request uses a generation whose pool is destroyed, as long as none
\* outlives the interval between two ticks.
THEOREM SwapNoUseAfterFree == SwapSpec => []NoUseAfterFree
  <1>1. SwapInv => NoUseAfterFree
    BY DEF SwapInv, NoUseAfterFree, HeldBy
  <1> QED
    BY <1>1, SwapInvariant, PTL

-----------------------------------------------------------------------------
(* The hysteresis of the load. *)

(* The load state. *)

\* The greatest of three numbers bounds them.
LEMMA LongestBounds == Longest \in Nat /\ WarmRise <= Longest /\ HotRise <= Longest /\ NormalFall <= Longest
  <1> DEFINE S == {WarmRise, HotRise, NormalFall}
  <1>1. \E x \in S : \A y \in S : x >= y
    <2>1. WarmRise \in Nat /\ HotRise \in Nat /\ NormalFall \in Nat
      BY LoadAssumption
    <2>2. CASE WarmRise >= HotRise /\ WarmRise >= NormalFall
      BY <2>1, <2>2
    <2>3. CASE HotRise >= WarmRise /\ HotRise >= NormalFall
      BY <2>1, <2>3
    <2>4. CASE NormalFall >= WarmRise /\ NormalFall >= HotRise
      BY <2>1, <2>4
    <2> QED
      BY <2>1, <2>2, <2>3, <2>4
  <1>2. Longest \in S /\ \A y \in S : Longest >= y
    <2> HIDE DEF S
    <2>1. Longest = CHOOSE x \in S : \A y \in S : x >= y
      BY DEF Longest, Max, S
    <2> QED
      BY <1>1, <2>1
  <1> QED
    BY <1>2, LoadAssumption

\* The most severe of some states is one of them.
LEMMA SevereState == ASSUME NEW S \in SUBSET States, S # {} PROVE Max(S) \in States
  <1>1. \E x \in S : \A y \in S : x >= y
    <2>1. \A y \in S : y = 0 \/ y = 1 \/ y = 2
      BY DEF States, Normal, Hot
    <2>2. CASE 2 \in S
      BY <2>1, <2>2
    <2>3. CASE 2 \notin S /\ 1 \in S
      BY <2>1, <2>3
    <2>4. CASE 2 \notin S /\ 1 \notin S
      BY <2>1, <2>4
    <2> QED
      BY <2>2, <2>3, <2>4
  <1> QED
    BY <1>1 DEF Max

\* The candidates beyond a state, on the one side or the other, and the row
\* of them at the end of a trail: how far back it reaches.
Over(s)    == {x \in States : x > s}
Beneath(s) == {x \in States : x < s}
Row(t, beyond) == {n \in 1 .. Len(t) : \A i \in Len(t) - n + 1 .. Len(t) : t[i] \in beyond}

\* A trail takes a candidate at its end and forgets the oldest.
LEMMA TrailedSays ==
    ASSUME NEW t \in Seq(States), Len(t) <= Longest, NEW c \in States
    PROVE  /\ Trailed(t, c) \in Seq(States)
           /\ Len(Trailed(t, c)) = IF Len(t) + 1 > Longest THEN Longest ELSE Len(t) + 1
           /\ Len(Trailed(t, c)) >= 1
           /\ Trailed(t, c)[Len(Trailed(t, c))] = c
           /\ \A i \in 1 .. Len(Trailed(t, c)) - 1 :
                  Trailed(t, c)[i] = t[i + Len(t) + 1 - Len(Trailed(t, c))]
  <1> DEFINE all == Append(t, c)
  <1>0. Longest \in Nat /\ Longest >= 1
    BY LongestBounds, LoadAssumption
  <1>1. /\ all \in Seq(States) /\ Len(all) = Len(t) + 1 /\ all[Len(t) + 1] = c
        /\ \A i \in 1 .. Len(t) : all[i] = t[i]
    OBVIOUS
  <1>2. CASE Len(t) + 1 > Longest
    <2>1. Trailed(t, c) = SubSeq(all, Len(all) - Longest + 1, Len(all))
      BY <1>1, <1>2 DEF Trailed, LastOf
    <2>2. Len(t) = Longest
      BY <1>0, <1>2
    <2> HIDE DEF all
    <2>3. /\ Trailed(t, c) \in Seq(States) /\ Len(Trailed(t, c)) = Longest
          /\ \A i \in 1 .. Longest : Trailed(t, c)[i] = all[i + 1]
      <3>1. Len(all) - Longest + 1 = 2 /\ Len(all) = Longest + 1
        BY <1>0, <1>1, <2>2
      <3>2. Trailed(t, c) = SubSeq(all, 2, Longest + 1)
        BY <2>1, <3>1
      <3> QED
        BY <1>0, <1>1, <3>1, <3>2
    <2> QED
      BY SMTT(30), <1>0, <1>1, <1>2, <2>2, <2>3
  <1>3. CASE ~(Len(t) + 1 > Longest)
    <2>1. Trailed(t, c) = all
      BY <1>1, <1>3 DEF Trailed
    <2> HIDE DEF all
    <2> QED
      BY <1>0, <1>1, <1>3, <2>1
  <1> QED
    BY <1>2, <1>3

\* A candidate beyond the state makes its row longer by one, ...
LEMMA RowGrows ==
    ASSUME NEW t \in Seq(States), Len(t) <= Longest, NEW beyond, NEW c \in States, c \in beyond,
           NEW n \in Nat, n + 1 <= Longest, Row(t, beyond) = 1 .. n
    PROVE  Row(Trailed(t, c), beyond) = 1 .. n + 1
  <1>0. Longest \in Nat
    BY LongestBounds
  <1>1. PICK u \in Seq(States) :
            /\ u = Trailed(t, c)
            /\ Len(u) = IF Len(t) + 1 > Longest THEN Longest ELSE Len(t) + 1
            /\ Len(u) >= 1 /\ u[Len(u)] = c
            /\ \A i \in 1 .. Len(u) - 1 : u[i] = t[i + Len(t) + 1 - Len(u)]
    BY TrailedSays
  <1>2. PICK had, has \in Nat : had = Len(t) /\ has = Len(u)
    OBVIOUS
  <1>3. n <= had
    <2>1. CASE n = 0
      BY <1>2, <2>1
    <2>2. CASE n # 0
      <3>1. n \in Row(t, beyond)
        BY <2>2
      <3> QED
        BY <1>2, <3>1 DEF Row
    <2> QED
      BY <2>1, <2>2
  <1>4. has <= had + 1 /\ n + 1 <= has /\ has >= 1
    BY <1>0, <1>1, <1>2, <1>3
  <1>5. ASSUME NEW m \in 1 .. n + 1 PROVE m \in Row(u, beyond)
    <2>1. m \in 1 .. Len(u)
      BY <1>2, <1>4
    <2>2. ASSUME NEW i \in Len(u) - m + 1 .. Len(u) PROVE u[i] \in beyond
      <3>1. CASE i = Len(u)
        BY <1>1, <3>1
      <3>2. CASE i # Len(u)
        <4>1. i \in 1 .. Len(u) - 1 /\ m - 1 \in 1 .. n
          BY <1>2, <1>4, <3>2
        <4>2. m - 1 \in Row(t, beyond)
          BY <4>1
        <4>3. i + had + 1 - has \in had - (m - 1) + 1 .. had
          BY <1>2, <1>4, <4>1
        <4>4. t[i + had + 1 - has] \in beyond
          BY <1>2, <4>2, <4>3 DEF Row
        <4> QED
          BY <1>1, <1>2, <4>1, <4>4
      <3> QED
        BY <3>1, <3>2
    <2> QED
      BY <2>1, <2>2 DEF Row
  <1>6. ASSUME NEW m \in Row(u, beyond) PROVE m \in 1 .. n + 1
    <2>1. m \in 1 .. has
      BY <1>2 DEF Row
    <2>2. CASE m = 1
      BY <2>2
    <2>3. CASE m # 1
      <3>1. m - 1 \in 1 .. Len(t)
        BY <1>2, <1>4, <2>1, <2>3
      <3>2. ASSUME NEW j \in Len(t) - (m - 1) + 1 .. Len(t) PROVE t[j] \in beyond
        <4> DEFINE i == j - had - 1 + has
        <4>2. i \in 1 .. has - 1 /\ i \in has - m + 1 .. has /\ i + had + 1 - has = j
          BY <1>2, <1>4, <2>1, <2>3
        <4>3. u[i] \in beyond
          BY <1>2, <4>2 DEF Row
        <4> QED
          BY <1>1, <1>2, <4>2, <4>3
      <3>3. m - 1 \in Row(t, beyond)
        BY <3>1, <3>2 DEF Row
      <3> QED
        BY <2>1, <3>3
    <2> QED
      BY <2>2, <2>3
  <1> QED
    BY <1>1, <1>5, <1>6

\* ... and any other ends it.
LEMMA RowEnds ==
    ASSUME NEW t \in Seq(States), Len(t) <= Longest, NEW beyond, NEW c \in States, c \notin beyond
    PROVE  Row(Trailed(t, c), beyond) = {}
  <1>1. PICK u \in Seq(States) : u = Trailed(t, c) /\ u[Len(u)] = c
    BY TrailedSays
  <1>2. ASSUME NEW m \in Row(u, beyond) PROVE FALSE
    <2>1. Len(u) \in Len(u) - m + 1 .. Len(u)
      BY DEF Row
    <2> QED
      BY <1>1, <2>1 DEF Row
  <1> QED
    BY <1>1, <1>2

\* An empty trail ends in no row.
LEMMA NoRow == ASSUME NEW beyond PROVE Row(<<>>, beyond) = {}
  BY DEF Row

\* The types of the load state, with the row that its next move takes.
LoadInv ==
    /\ LoadTypeOK
    /\ Len(trail) <= Longest
    /\ load.state < Hot =>
           Row(trail, Over(load.state)) = 1 .. load.up /\ load.up < Need(load.state)
    /\ load.state > Normal =>
           Row(trail, Beneath(load.state)) = 1 .. load.down /\ load.down < NormalFall

LoadRecords == [state : States, up : Nat, down : Nat]

\* What a tick makes of the state: it counts on or it moves by one level.
LEMMA AppliedSays ==
    ASSUME NEW l \in LoadRecords, NEW c \in States, NEW new, new = Applied(l, c)
    PROVE  /\ new \in LoadRecords
           /\ \/ /\ c > l.state /\ l.up + 1 >= Need(l.state)
                 /\ new.state = l.state + 1 /\ new.up = 0 /\ new.down = 0
              \/ /\ c > l.state /\ ~(l.up + 1 >= Need(l.state))
                 /\ new.state = l.state /\ new.up = l.up + 1 /\ new.down = 0
              \/ /\ c < l.state /\ l.down + 1 >= NormalFall
                 /\ new.state = l.state - 1 /\ new.up = 0 /\ new.down = 0
              \/ /\ c < l.state /\ ~(l.down + 1 >= NormalFall)
                 /\ new.state = l.state /\ new.up = 0 /\ new.down = l.down + 1
              \/ c = l.state /\ new.state = l.state /\ new.up = 0 /\ new.down = 0
  <1>0. /\ l.state \in States /\ l.up \in Nat /\ l.down \in Nat
        /\ c \in Int /\ l.state \in Int /\ (c > l.state => ~(c < l.state))
        /\ (c > l.state => l.state + 1 \in States) /\ (c < l.state => l.state - 1 \in States)
    BY DEF LoadRecords, States, Normal, Hot
  <1>1. new = CASE c > l.state ->
                     IF l.up + 1 >= Need(l.state)
                     THEN [state |-> l.state + 1, up |-> 0, down |-> 0]
                     ELSE [l EXCEPT !.up = l.up + 1, !.down = 0]
                [] c < l.state ->
                     IF l.down + 1 >= NormalFall
                     THEN [state |-> l.state - 1, up |-> 0, down |-> 0]
                     ELSE [l EXCEPT !.up = 0, !.down = l.down + 1]
                [] OTHER -> [l EXCEPT !.up = 0, !.down = 0]
    BY DEF Applied
  <1>2. ASSUME NEW up \in Nat, NEW down \in Nat, new = [l EXCEPT !.up = up, !.down = down]
        PROVE  new \in LoadRecords /\ new.state = l.state /\ new.up = up /\ new.down = down
    BY <1>2 DEF LoadRecords
  <1>3. ASSUME NEW s \in States, new = [state |-> s, up |-> 0, down |-> 0]
        PROVE  new \in LoadRecords /\ new.state = s /\ new.up = 0 /\ new.down = 0
    BY <1>3 DEF LoadRecords
  <1>4. CASE c > l.state /\ l.up + 1 >= Need(l.state)
    BY <1>0, <1>1, <1>3, <1>4
  <1>5. CASE c > l.state /\ ~(l.up + 1 >= Need(l.state))
    <2>1. new = [l EXCEPT !.up = l.up + 1, !.down = 0] /\ l.up + 1 \in Nat
      BY <1>0, <1>1, <1>5
    <2> QED
      BY <1>2, <1>5, <2>1
  <1>6. CASE c < l.state /\ l.down + 1 >= NormalFall
    BY <1>0, <1>1, <1>3, <1>6
  <1>7. CASE c < l.state /\ ~(l.down + 1 >= NormalFall)
    <2>1. new = [l EXCEPT !.up = 0, !.down = l.down + 1] /\ l.down + 1 \in Nat
      BY <1>0, <1>1, <1>7
    <2> QED
      BY <1>2, <1>7, <2>1
  <1>8. CASE c = l.state
    <2>1. new = [l EXCEPT !.up = 0, !.down = 0]
      BY <1>0, <1>1, <1>8
    <2> QED
      BY <1>2, <1>8, <2>1
  <1>9. c > l.state \/ c < l.state \/ c = l.state
    BY <1>0
  <1> QED
    BY <1>4, <1>5, <1>6, <1>7, <1>8, <1>9

\* What a sample leaves of the latency.
LEMMA SampledTyped ==
    ASSUME LoadTypeOK, NEW mean \in LatencyMs \cup {Unknown}
    PROVE  Sampled(lat, mean) \in [ms : LatencyMs \cup {0, Unknown}, age : 0 .. LatencyPeriod,
                                   grace : 0 .. LatencyGrace, extended : BOOLEAN]
  <1> DEFINE due == lat.age >= LatencyPeriod
             ms == IF ~due THEN lat.ms
                   ELSE IF ~lat.extended THEN Unknown
                   ELSE IF mean = Unknown THEN lat.ms ELSE mean
             age == IF due THEN 1 ELSE lat.age + 1
             grace == IF lat.grace > 0 THEN lat.grace - 1 ELSE 0
  <1>1. /\ lat \in [ms : LatencyMs \cup {0, Unknown}, age : 0 .. LatencyPeriod,
                    grace : 0 .. LatencyGrace, extended : BOOLEAN]
    BY DEF LoadTypeOK
  <1>2. Sampled(lat, mean) = [lat EXCEPT !.ms = ms, !.age = age, !.grace = grace]
    BY Zenon DEF Sampled
  <1>3. ms \in LatencyMs \cup {0, Unknown}
    BY <1>1
  <1>4. age \in 0 .. LatencyPeriod
    BY <1>1, LoadAssumption
  <1>5. grace \in 0 .. LatencyGrace
    BY <1>1, LoadAssumption
  <1> HIDE DEF ms, age, grace
  <1> QED
    BY <1>1, <1>2, <1>3, <1>4, <1>5

\* The candidate of a tick is a state.
LEMMA SevereTyped ==
    ASSUME NEW busy, NEW pushed \in States, NEW avg, NEW latency
    PROVE  MostSevere(busy, pushed, avg, latency) \in States
  <1>1. /\ BusyState(busy) \in States /\ AvgState(avg) \in States /\ LatencyState(latency) \in States
    BY DEF BusyState, AvgState, LatencyState, StateFromPct, States, Normal, Warm, Hot
  <1>2. {BusyState(busy), pushed, AvgState(avg), LatencyState(latency)} \in SUBSET States
    BY <1>1
  <1> QED
    BY <1>2, SevereState DEF MostSevere

\* A row is never asked to be longer than the trail is kept.
LEMMA NeedBounds == ASSUME NEW s PROVE Need(s) \in Nat /\ Need(s) > 0 /\ Need(s) <= Longest
  BY LongestBounds, LoadAssumption DEF Need

\* The rows after a tick are what the streaks count.
LEMMA RowsKept ==
    ASSUME NEW l \in LoadRecords, NEW t \in Seq(States), Len(t) <= Longest, NEW c \in States,
           NEW new, new = Applied(l, c),
           NEW u, u = IF new.state # l.state THEN <<>> ELSE Trailed(t, c),
           l.state < Hot => Row(t, Over(l.state)) = 1 .. l.up /\ l.up < Need(l.state),
           l.state > Normal => Row(t, Beneath(l.state)) = 1 .. l.down /\ l.down < NormalFall
    PROVE  /\ u \in Seq(States) /\ Len(u) <= Longest
           /\ new.state < Hot => Row(u, Over(new.state)) = 1 .. new.up /\ new.up < Need(new.state)
           /\ new.state > Normal => Row(u, Beneath(new.state)) = 1 .. new.down /\ new.down < NormalFall
  <1>0. /\ l.state \in 0 .. 2 /\ l.up \in Nat /\ l.down \in Nat /\ c \in 0 .. 2
        /\ Longest \in Nat /\ NormalFall \in Nat /\ NormalFall > 0 /\ NormalFall <= Longest
        /\ Need(l.state) \in Nat /\ Need(l.state) > 0 /\ Need(l.state) <= Longest
        /\ Need(new.state) \in Nat /\ Need(new.state) > 0
    <2>1. /\ l.state \in 0 .. 2 /\ l.up \in Nat /\ l.down \in Nat /\ c \in 0 .. 2
      BY DEF LoadRecords, States, Normal, Hot
    <2>2. /\ Longest \in Nat /\ NormalFall \in Nat /\ NormalFall > 0 /\ NormalFall <= Longest
      BY LoadAssumption, LongestBounds
    <2> QED
      BY <2>1, <2>2, NeedBounds
  <1>1. /\ new \in LoadRecords
        /\ \/ /\ c > l.state /\ l.up + 1 >= Need(l.state)
              /\ new.state = l.state + 1 /\ new.up = 0 /\ new.down = 0
           \/ /\ c > l.state /\ ~(l.up + 1 >= Need(l.state))
              /\ new.state = l.state /\ new.up = l.up + 1 /\ new.down = 0
           \/ /\ c < l.state /\ l.down + 1 >= NormalFall
              /\ new.state = l.state - 1 /\ new.up = 0 /\ new.down = 0
           \/ /\ c < l.state /\ ~(l.down + 1 >= NormalFall)
              /\ new.state = l.state /\ new.up = 0 /\ new.down = l.down + 1
           \/ c = l.state /\ new.state = l.state /\ new.up = 0 /\ new.down = 0
    BY AppliedSays
  <1>2. u \in Seq(States) /\ Len(u) <= Longest
    <2>1. CASE new.state # l.state
      BY <1>0, <2>1
    <2>2. CASE new.state = l.state
      <3>1. u = Trailed(t, c)
        BY <2>2
      <3>2. /\ Trailed(t, c) \in Seq(States)
            /\ Len(Trailed(t, c)) = IF Len(t) + 1 > Longest THEN Longest ELSE Len(t) + 1
        BY TrailedSays
      <3>3. Len(t) \in Nat
        OBVIOUS
      <3>4. Len(Trailed(t, c)) <= Longest
        BY <1>0, <3>2, <3>3
      <3> QED
        BY <3>1, <3>2, <3>4
    <2> QED
      BY <2>1, <2>2
  <1>3. CASE new.state # l.state
    <2>1. u = <<>> /\ new.up = 0 /\ new.down = 0 /\ new.state \in Int
      BY <1>0, <1>1, <1>3
    <2>2. Row(u, Over(new.state)) = {} /\ Row(u, Beneath(new.state)) = {}
      BY <2>1, NoRow
    <2>3. Row(u, Over(new.state)) = 1 .. new.up /\ Row(u, Beneath(new.state)) = 1 .. new.down
      BY <2>1, <2>2
    <2> QED
      BY <1>0, <1>2, <2>1, <2>3
  <1>4. CASE new.state = l.state
    <2>0. u = Trailed(t, c) /\ 1 .. 0 = {}
      BY <1>4
    <2>1. ASSUME l.state < Hot
          PROVE  Row(u, Over(l.state)) = 1 .. new.up /\ new.up < Need(l.state)
      <3>1. CASE c > l.state
        <4>1. ~(l.up + 1 >= Need(l.state)) /\ new.up = l.up + 1
          BY <1>0, <1>1, <1>4, <3>1
        <4>2. l.up + 1 <= Longest /\ l.up + 1 < Need(l.state)
          BY <1>0, <4>1
        <4>3. c \in Over(l.state)
          BY <3>1 DEF Over
        <4>4. Row(Trailed(t, c), Over(l.state)) = 1 .. l.up + 1
          BY <1>0, <2>1, <4>2, <4>3, RowGrows
        <4> QED
          BY <2>0, <4>1, <4>2, <4>4
      <3>2. CASE ~(c > l.state)
        <4>1. new.up = 0
          BY <1>1, <3>2
        <4>2. c \notin Over(l.state)
          BY <3>2 DEF Over
        <4>3. Row(Trailed(t, c), Over(l.state)) = {}
          BY <4>2, RowEnds
        <4> QED
          BY <1>0, <2>0, <4>1, <4>3
      <3> QED
        BY <3>1, <3>2
    <2>2. ASSUME l.state > Normal
          PROVE  Row(u, Beneath(l.state)) = 1 .. new.down /\ new.down < NormalFall
      <3>1. CASE c < l.state
        <4>1. ~(l.down + 1 >= NormalFall) /\ new.down = l.down + 1
          BY <1>0, <1>1, <1>4, <3>1
        <4>2. l.down + 1 <= Longest /\ l.down + 1 < NormalFall
          BY <1>0, <4>1
        <4>3. c \in Beneath(l.state)
          BY <3>1 DEF Beneath
        <4>4. Row(Trailed(t, c), Beneath(l.state)) = 1 .. l.down + 1
          BY <1>0, <2>2, <4>2, <4>3, RowGrows
        <4> QED
          BY <2>0, <4>1, <4>2, <4>4
      <3>2. CASE ~(c < l.state)
        <4>1. new.down = 0
          BY <1>1, <3>2
        <4>2. c \notin Beneath(l.state)
          BY <3>2 DEF Beneath
        <4>3. Row(Trailed(t, c), Beneath(l.state)) = {}
          BY <4>2, RowEnds
        <4> QED
          BY <1>0, <2>0, <4>1, <4>3
      <3> QED
        BY <3>1, <3>2
    <2> QED
      BY <1>2, <1>4, <2>1, <2>2
  <1> QED
    BY <1>3, <1>4

\* A tick keeps the rows and the types, whatever the samples are.
LEMMA FoldKeeps ==
    ASSUME LoadInv, NEW busy, NEW pushed \in States, NEW avg, NEW mean \in LatencyMs \cup {Unknown},
           Fold(busy, pushed, avg, mean),
           file' = file, ext' \in [mtime : Mtimes \cup {0}, state : States],
           statted' \in Mtimes \cup {0}, starts' = starts
    PROVE  LoadInv'
  <1>1. PICK c \in States : c = MostSevere(busy, pushed, avg, Sampled(lat, mean))
    BY SevereTyped
  <1>2. /\ lat' = Sampled(lat, mean) /\ load' = Applied(load, c) /\ cand' = c
        /\ trail' = IF load'.state # load.state THEN <<>> ELSE Trailed(trail, c)
    BY <1>1, Zenon DEF Fold
  <1>3. load \in LoadRecords /\ trail \in Seq(States)
    BY DEF LoadInv, LoadTypeOK, LoadRecords
  <1>4. PICK l \in LoadRecords, t \in Seq(States) : l = load /\ t = trail
    BY <1>3
  <1>5. PICK new, u : new = load' /\ u = trail'
    OBVIOUS
  <1>6. /\ Len(t) <= Longest /\ new = Applied(l, c)
        /\ u = IF new.state # l.state THEN <<>> ELSE Trailed(t, c)
    BY <1>2, <1>4, <1>5 DEF LoadInv
  <1>7. /\ l.state < Hot => Row(t, Over(l.state)) = 1 .. l.up /\ l.up < Need(l.state)
        /\ l.state > Normal => Row(t, Beneath(l.state)) = 1 .. l.down /\ l.down < NormalFall
    BY <1>4 DEF LoadInv
  <1>8. new \in LoadRecords
    BY <1>6, AppliedSays
  <1>9. /\ u \in Seq(States) /\ Len(u) <= Longest
        /\ new.state < Hot => Row(u, Over(new.state)) = 1 .. new.up /\ new.up < Need(new.state)
        /\ new.state > Normal => Row(u, Beneath(new.state)) = 1 .. new.down /\ new.down < NormalFall
    BY <1>6, <1>7, RowsKept
  <1>10. LoadTypeOK'
    <2>1. lat' \in [ms : LatencyMs \cup {0, Unknown}, age : 0 .. LatencyPeriod,
                    grace : 0 .. LatencyGrace, extended : BOOLEAN]
      BY <1>2, SampledTyped DEF LoadInv
    <2>2. load' \in [state : States, up : Nat, down : Nat] /\ trail' \in Seq(States) /\ cand' \in States
      BY <1>2, <1>5, <1>8, <1>9 DEF LoadRecords
    <2> QED
      BY <2>1, <2>2 DEF LoadInv, LoadTypeOK
  <1> QED
    BY <1>5, <1>9, <1>10 DEF LoadInv

\* The monitor finds a new modification time: four are more than three.
LEMMA NewMtime ==
    ASSUME NEW a, NEW b, NEW c
    PROVE  Min(Mtimes \ {a, b, c}) \in Mtimes
  <1> DEFINE S == Mtimes \ {a, b, c}
  <1>1. S # {}
    <2> SUFFICES ASSUME Mtimes \subseteq {a, b, c} PROVE FALSE
      OBVIOUS
    <2>1. IsFiniteSet({a, b, c}) /\ Cardinality({a, b, c}) \in Nat /\ Cardinality({a, b, c}) <= 3
      <3>1. IsFiniteSet({}) /\ Cardinality({}) = 0
        BY FS_EmptySet
      <3>2. {a} = {} \cup {a} /\ {a, b} = {a} \cup {b} /\ {a, b, c} = {a, b} \cup {c}
        OBVIOUS
      <3>3. IsFiniteSet({a}) /\ Cardinality({a}) = 1
        BY FS_Singleton
      <3>4. IsFiniteSet({a, b}) /\ Cardinality({a, b}) \in {1, 2}
        BY <3>2, <3>3, FS_AddElement
      <3>5. IsFiniteSet({a, b, c}) /\ Cardinality({a, b, c}) \in {1, 2, 3}
        BY <3>2, <3>4, FS_AddElement
      <3> QED
        BY <3>5
    <2>2. IsFiniteSet(Mtimes) /\ Cardinality(Mtimes) <= Cardinality({a, b, c})
      BY <2>1, FS_Subset
    <2>3. Cardinality(Mtimes) \in Nat
      BY <2>2, FS_CardinalityType
    <2> QED
      BY <2>1, <2>2, <2>3, LoadAssumption
  <1>2. S \subseteq Nat
    BY LoadAssumption
  <1>3. PICK m \in S : TRUE
    BY <1>1
  <1> HIDE DEF S
  <1> DEFINE low == {s \in S : s <= m}
  <1>4. m \in Nat /\ low \in SUBSET (0 .. m) /\ low # {}
    <2>1. m \in S /\ m \in Nat
      BY <1>2, <1>3
    <2>2. m \in low
      BY <2>1
    <2>3. \A s \in low : s \in 0 .. m
      BY <1>2, <2>1
    <2> HIDE DEF low
    <2> QED
      BY <2>1, <2>2, <2>3
  <1>5. PICK least \in low : \A s \in low : least <= s
    <2> HIDE DEF low
    <2> QED
      BY <1>4, LeastExists
  <1>6. \A s \in S : least <= s
    BY <1>2, <1>4, <1>5
  <1>7. Min(S) \in S
    BY <1>5, <1>6 DEF Min
  <1> QED
    BY <1>7 DEF S

\* The load state at the start, and after a restart.
LEMMA LoadFresh ==
    ASSUME load = NewLoad, ext = NewExt, NEW extended \in BOOLEAN, lat = NewLat(extended),
           file \in [mtime : Mtimes \cup {0}, body : Bodies \cup {"none"}],
           statted = 0, starts \in 0 .. MaxRestarts, cand = Unknown, trail = <<>>
    PROVE  LoadInv
  <1>1. LoadTypeOK
    BY LoadAssumption DEF LoadTypeOK, NewLoad, NewExt, NewLat, States, Normal, Hot
  <1>2. trail = <<>> /\ load.state = 0 /\ load.up = 0 /\ load.down = 0
    BY DEF NewLoad, Normal
  <1>3. Row(trail, Over(load.state)) = 1 .. 0 /\ Row(trail, Beneath(load.state)) = 1 .. 0
    BY <1>2, NoRow
  <1>4. Len(trail) <= Longest /\ 0 < Need(load.state) /\ 0 < NormalFall
    BY <1>2, LongestBounds, NeedBounds, LoadAssumption
  <1> QED
    BY <1>1, <1>2, <1>3, <1>4 DEF LoadInv

\* Every step of the watchdog, the monitor or the parent keeps them.
LEMMA LoadStep == ASSUME LoadInv, [LoadNext]_loadVars PROVE LoadInv'
  <1>0. LoadTypeOK /\ ext.state \in States
    BY DEF LoadInv, LoadTypeOK
  <1>1. CASE TickOnCached
    <2>1. PICK busy \in BusyPct, avg \in LoadAvg \cup {Unknown},
              mean \in LatencyMs \cup {Unknown} : Fold(busy, ext.state, avg, mean)
      BY <1>1, Zenon DEF TickOnCached, FoldAny
    <2>2. UNCHANGED <<file, ext, statted, starts>>
      BY <1>1 DEF TickOnCached
    <2> QED
      BY <1>0, <2>1, <2>2, FoldKeeps DEF LoadTypeOK
  <1>2. CASE TickStat
    <2>1. statted' \in Mtimes \cup {0} /\ UNCHANGED <<load, file, ext, lat, starts, cand, trail>>
      BY <1>0, <1>2 DEF TickStat, LoadTypeOK, loadHistory
    <2> QED
      BY <2>1 DEF LoadInv, LoadTypeOK
  <1>3. CASE TickRead
    <2>1. Parsed(file.body) \in States
      BY DEF Parsed, States, Normal, Warm, Hot
    <2>2. PICK busy \in BusyPct, avg \in LoadAvg \cup {Unknown},
              mean \in LatencyMs \cup {Unknown} : Fold(busy, Parsed(file.body), avg, mean)
      BY <1>3, Zenon DEF TickRead, FoldAny
    <2>3. /\ ext' \in [mtime : Mtimes \cup {0}, state : States]
          /\ statted' \in Mtimes \cup {0} /\ UNCHANGED <<file, starts>>
      BY <1>0, <1>3, <2>1 DEF TickRead, LoadTypeOK
    <2> QED
      BY <2>1, <2>2, <2>3, FoldKeeps
  <1>4. CASE TickReadFails
    <2>1. PICK busy \in BusyPct, avg \in LoadAvg \cup {Unknown},
              mean \in LatencyMs \cup {Unknown} : Fold(busy, ext.state, avg, mean)
      BY <1>4, Zenon DEF TickReadFails, FoldAny
    <2>2. /\ ext' \in [mtime : Mtimes \cup {0}, state : States]
          /\ statted' \in Mtimes \cup {0} /\ UNCHANGED <<file, starts>>
      BY <1>0, <1>4 DEF TickReadFails, LoadTypeOK
    <2> QED
      BY <1>0, <2>1, <2>2, FoldKeeps
  <1>5. CASE MonitorWrites
    <2>1. PICK body \in Bodies :
              file' = [mtime |-> Min(Mtimes \ {file.mtime, ext.mtime, statted}), body |-> body]
      BY <1>5 DEF MonitorWrites
    <2>2. UNCHANGED <<load, ext, lat, statted, starts, cand, trail>>
      BY <1>5 DEF MonitorWrites, loadHistory
    <2>3. file' \in [mtime : Mtimes \cup {0}, body : Bodies \cup {"none"}]
      BY <2>1, NewMtime
    <2> QED
      BY <2>2, <2>3 DEF LoadInv, LoadTypeOK
  <1>6. CASE LoadRestart
    <2>1. PICK extended \in BOOLEAN : extended = lat.extended
      BY <1>0 DEF LoadTypeOK
    <2>2. /\ load' = NewLoad /\ ext' = NewExt /\ lat' = NewLat(extended) /\ statted' = 0
          /\ cand' = Unknown /\ trail' = <<>> /\ file' = file /\ starts' \in 0 .. MaxRestarts
      BY <1>0, <1>6, <2>1, LoadAssumption DEF LoadRestart, LoadTypeOK
    <2>3. file' \in [mtime : Mtimes \cup {0}, body : Bodies \cup {"none"}]
      BY <1>0, <2>2 DEF LoadTypeOK
    <2>4. (load = NewLoad /\ ext = NewExt /\ lat = NewLat(extended)
             /\ file \in [mtime : Mtimes \cup {0}, body : Bodies \cup {"none"}]
             /\ statted = 0 /\ starts \in 0 .. MaxRestarts /\ cand = Unknown /\ trail = <<>>
           => LoadInv)'
      BY LoadFresh, PTL
    <2> QED
      BY <2>2, <2>3, <2>4
  <1>7. CASE UNCHANGED loadVars
    BY <1>7 DEF loadVars, LoadInv, LoadTypeOK
  <1> QED
    BY <1>1, <1>2, <1>3, <1>4, <1>5, <1>6, <1>7 DEF LoadNext, LoadTick

\* The types of the load state, and the rows behind its streaks.
THEOREM LoadInvariant == LoadSpec => []LoadInv
  <1>1. LoadInit => LoadInv
    <2> SUFFICES ASSUME LoadInit PROVE LoadInv
      OBVIOUS
    <2>1. PICK extended \in BOOLEAN : lat = NewLat(extended)
      BY DEF LoadInit
    <2>2. /\ load = NewLoad /\ ext = NewExt /\ statted = 0 /\ starts \in 0 .. MaxRestarts
          /\ cand = Unknown /\ trail = <<>>
          /\ file \in [mtime : Mtimes \cup {0}, body : Bodies \cup {"none"}]
      BY LoadAssumption DEF LoadInit
    <2> QED
      BY <2>1, <2>2, LoadFresh
  <1>2. LoadInv /\ [LoadNext]_loadVars => LoadInv'
    BY LoadStep
  <1> QED
    BY <1>1, <1>2, PTL DEF LoadSpec

\* The state moves after the whole row of candidates that the move takes, and
\* as soon as the row is full.
THEOREM LoadHysteresisKept == LoadSpec => []HysteresisKept
  <1>1. LoadInv => HysteresisKept
    <2> SUFFICES ASSUME LoadInv PROVE HysteresisKept
      OBVIOUS
    <2>1. /\ load.state \in Int /\ load.up \in Nat /\ load.down \in Nat
          /\ \A i \in 1 .. Len(trail) : trail[i] \in States
      BY DEF LoadInv, LoadTypeOK, States, Normal, Hot
    <2>2. Above = Row(trail, Over(load.state)) /\ Below = Row(trail, Beneath(load.state))
      <3>1. \A n \in 1 .. Len(trail) : \A i \in Len(trail) - n + 1 .. Len(trail) : trail[i] \in States
        BY <2>1
      <3> QED
        BY <3>1 DEF Above, Below, Row, Over, Beneath
    <2>3. \A n \in Nat : Cardinality(1 .. n) = n
      <3> SUFFICES ASSUME NEW n \in Nat PROVE Cardinality(1 .. n) = n
        OBVIOUS
      <3>1. Cardinality(1 .. n) = IF 1 > n THEN 0 ELSE n - 1 + 1
        BY FS_Interval
      <3> QED
        BY <3>1
    <2> QED
      BY <2>1, <2>2, <2>3 DEF LoadInv, HysteresisKept
  <1> QED
    BY <1>1, LoadInvariant, PTL

-----------------------------------------------------------------------------
(* The doors of a token. *)

\* The provider said yes, whole, and what it said suits the POST.
SaidYes(p, c) ==
    /\ c.result = "yes" /\ Answered(c) /\ c.answer.ok /\ c.answer.says = "yes"
    /\ Accepts(p, BlockOf(p), Details(c.block.kind, c.answer))

Unheard(c) == c.result \in {"timeout", "error"}

\* A call of the provider is about the token of the body that was read, and
\* at the form that body has no NUL byte to hide another one behind.
Asking(c, p, body) ==
    c.token # NoToken =>
        /\ c.block = BlockOf(p) /\ body = p.body
        /\ p.door = "form" => c.token = TokenOf(p.type, p.body)

\* The records keep their fields.
CallForm(c) ==
    c = [token |-> c.token, block |-> c.block, answer |-> c.answer,
         chunks |-> c.chunks, result |-> c.result]
OutcomeForm(o) ==
    o = [status |-> o.status, cookie |-> o.cookie, closes |-> o.closes,
         framed |-> o.framed, clears |-> o.clears]

\* What was read is a beginning of the body, what was played back one too.
BodyRead ==
    /\ post.body \in Seq(ToSet(post.body))
    /\ Len(taken) \in 0 .. Len(post.body) /\ taken = SubSeq(post.body, 1, Len(taken))
    /\ Len(app.pieces) \in 0 .. Len(post.body)
    /\ app = [pieces |-> SubSeq(post.body, 1, Len(app.pieces)), eos |-> app.eos]
    /\ app.eos => Len(app.pieces) = Len(post.body)

\* The handler up to the judgement: nothing is decided, and from the body on
\* all of it was read, and the endpoint has seen a good pending cookie.
Early == stage \in {"arrived", "reading", "inspect"}
Calling == stage \in {"call", "answering", "judge"}
OnItsWay ==
    /\ Early \/ Calling => outcome = Undecided
    /\ Early => asked = Unasked
    /\ stage \in {"inspect"} \/ Calling => taken = post.body
    /\ (stage \in {"reading", "inspect"} \/ Calling) /\ post.door = "endpoint" =>
           PendingGood(post.scope, post.pending)
    /\ Calling => asked.token # NoToken
    /\ stage \in {"call", "answering"} => asked.result = "none"

\* What an answer of the provider stands for.
Heard ==
    /\ Asking(asked, post, taken)
    /\ asked.result = "yes" => Answered(asked) /\ asked.answer.ok /\ asked.answer.says = "yes"

\* What a cookie and the way to the application stand for.
Opened ==
    /\ stage = "replay" => post.door = "form"
    /\ outcome.framed => taken = post.body
    /\ outcome.cookie =>
           /\ asked.token # NoToken
           /\ SaidYes(post, asked) \/ (post.door = "endpoint" /\ Unheard(asked)
                                       /\ PendingGood(post.scope, post.pending))
    /\ stage = "replay" => SaidYes(post, asked) \/ post.scope.observe \/ ~post.scope.formCaptcha

FormInv ==
    /\ BodyRead /\ CallForm(asked) /\ OutcomeForm(outcome)
    /\ stage # "replay" => Len(app.pieces) = 0 /\ app.eos = FALSE
    /\ OnItsWay /\ Heard /\ Opened

\* A body without a NUL byte is all of it text.
LEMMA AllText == ASSUME NEW body, ~HasNul(body), DOMAIN body = 1 .. Len(body) PROVE UpToNul(body) = body
  <1> DEFINE I == {i \in 1 .. Len(body) : body[i].what = "nul"}
  <1>1. I = {}
    BY DEF HasNul
  <1>2. UpToNul(body) = LET nul == IF I # {} THEN Min(I) ELSE 0
                        IN  IF nul = 0 THEN body ELSE SubSeq(body, 1, nul - 1)
    BY DEF UpToNul, SelectInSeq
  <1> HIDE DEF I
  <1> QED
    BY <1>1, <1>2

\* A beginning of a sequence with some more of what follows it.
LEMMA BeginningGrows ==
    ASSUME NEW S, NEW body \in Seq(S), NEW l \in Nat, NEW n \in Nat, l + n <= Len(body)
    PROVE  SubSeq(body, 1, l) \o SubSeq(SubSeq(body, l + 1, Len(body)), 1, n) = SubSeq(body, 1, l + n)
  <1> DEFINE a == SubSeq(body, 1, l)
             r == SubSeq(body, l + 1, Len(body))
             b == SubSeq(r, 1, n)
             c == SubSeq(body, 1, l + n)
  <1>1. a \in Seq(S) /\ Len(a) = l /\ \A i \in 1 .. l : a[i] = body[i]
    OBVIOUS
  <1>2. r \in Seq(S) /\ Len(r) = Len(body) - l /\ \A i \in 1 .. Len(body) - l : r[i] = body[l + i]
    OBVIOUS
  <1>3. b \in Seq(S) /\ Len(b) = n /\ \A i \in 1 .. n : b[i] = body[l + i]
    <2> HIDE DEF r
    <2>1. Len(r) \in Nat /\ n <= Len(r)
      BY <1>2
    <2> QED
      BY <1>2, <2>1
  <1>4. c \in Seq(S) /\ Len(c) = l + n /\ \A i \in 1 .. l + n : c[i] = body[i]
    OBVIOUS
  <1> HIDE DEF a, b, c, r
  <1>5. PICK ab \in Seq(S) :
            /\ ab = a \o b /\ Len(ab) = l + n
            /\ \A i \in 1 .. l + n : ab[i] = IF i <= l THEN a[i] ELSE b[i - l]
    <2>1. /\ a \o b \in Seq(S) /\ Len(a \o b) = Len(a) + Len(b)
          /\ \A i \in 1 .. Len(a) + Len(b) : (a \o b)[i] = IF i <= Len(a) THEN a[i] ELSE b[i - Len(a)]
      BY <1>1, <1>3, ConcatProperties
    <2>2. Len(a) = l /\ Len(b) = n
      BY <1>1, <1>3
    <2> QED
      BY <2>1, <2>2, Zenon
  <1>6. ASSUME NEW i \in 1 .. l + n PROVE ab[i] = c[i]
    <2>1. CASE i <= l
      <3>1. ab[i] = a[i]
        BY <1>5, <2>1, Zenon
      <3>2. i \in 1 .. l
        BY <2>1
      <3> QED
        BY <1>1, <1>4, <3>1, <3>2
    <2>2. CASE i > l
      <3>1. ab[i] = b[i - l]
        <4>1. ~(i <= l)
          BY <2>2
        <4> QED
          BY <1>5, <4>1, Zenon
      <3>2. i - l \in 1 .. n /\ l + (i - l) = i
        BY <2>2
      <3> QED
        BY <1>3, <1>4, <3>1, <3>2
    <2> QED
      BY <2>1, <2>2
  <1>7. ab = c
    BY <1>4, <1>5, <1>6, SeqEqual
  <1> QED
    BY <1>5, <1>7 DEF a, b, c, r

\* A read takes at least a piece, and no more than what remains.
LEMMA EmittedSays ==
    ASSUME NEW mode, Remaining # <<>>, NEW S, Remaining \in Seq(S)
    PROVE  Emitted(mode) \in 1 .. Len(Remaining)
  <1>0. PICK rem \in Seq(S) : rem = Remaining
    OBVIOUS
  <1> DEFINE I == {i \in 1 .. Len(rem) : rem[i].what = "newline"}
             line == IF I # {} THEN Min(I) ELSE 0
  <1>1. Emitted(mode) = IF mode = "one" THEN 1
                        ELSE IF mode = "line" /\ line # 0 THEN line ELSE Len(rem)
    BY <1>0 DEF Emitted, SelectInSeq
  <1>2. Len(rem) \in Nat /\ Len(rem) >= 1
    BY <1>0
  <1>3. line # 0 => line \in 1 .. Len(rem)
    <2>1. I \in SUBSET (0 .. Len(rem)) /\ I \subseteq 1 .. Len(rem)
      BY <1>2
    <2> HIDE DEF I
    <2>2. I # {} => \E i \in I : \A j \in I : i <= j
      BY <1>2, <2>1, LeastExists
    <2>3. I # {} => Min(I) \in I
      BY <2>2 DEF Min
    <2> QED
      BY <2>1, <2>3
  <1> HIDE DEF line
  <1> QED
    BY <1>0, <1>1, <1>2, <1>3

\* What changes in a call leaves the rest of it.
LEMMA CallChanges ==
    ASSUME NEW c, CallForm(c), NEW x, NEW d
    PROVE  /\ d = [c EXCEPT !.result = x] =>
                  /\ CallForm(d) /\ d.result = x
                  /\ d.token = c.token /\ d.block = c.block /\ d.answer = c.answer /\ d.chunks = c.chunks
           /\ d = [c EXCEPT !.answer = x] =>
                  /\ CallForm(d) /\ d.token = c.token /\ d.block = c.block /\ d.result = c.result
           /\ d = [c EXCEPT !.chunks = x] =>
                  /\ CallForm(d) /\ d.token = c.token /\ d.block = c.block /\ d.result = c.result
  BY DEF CallForm

\* A status leaves the rest of the outcome.
LEMMA OutcomeChanges ==
    ASSUME NEW o, OutcomeForm(o), NEW d, NEW s, NEW b
    PROVE  /\ d = [o EXCEPT !.status = s] =>
                  OutcomeForm(d) /\ d.cookie = o.cookie /\ d.framed = o.framed
           /\ d = [o EXCEPT !.status = s, !.closes = b] =>
                  OutcomeForm(d) /\ d.cookie = o.cookie /\ d.framed = o.framed
           /\ d = [o EXCEPT !.framed = b] =>
                  OutcomeForm(d) /\ d.cookie = o.cookie /\ d.framed = b
  BY DEF OutcomeForm

\* What a call that has not asked yet looks like.
LEMMA Fresh == /\ CallForm(Unasked) /\ Unasked.token = NoToken /\ Unasked.result = "none"
               /\ OutcomeForm(Undecided) /\ Undecided.cookie = FALSE /\ Undecided.framed = FALSE
  BY DEF CallForm, Unasked, OutcomeForm, Undecided

\* A POST that comes to its end without a decision for it.
LEMMA EndKeeps ==
    ASSUME FormInv, stage # "replay", stage' = "over", NEW status, NEW closes,
           outcome' = [outcome EXCEPT !.status = status] \/
               outcome' = [outcome EXCEPT !.status = status, !.closes = closes],
           UNCHANGED <<post, taken, asked, app>>
    PROVE  FormInv'
  <1>1. OutcomeForm(outcome)
    BY DEF FormInv
  <1>2. PICK o, d : o = outcome /\ d = outcome'
    OBVIOUS
  <1>3. OutcomeForm(d) /\ d.cookie = o.cookie /\ d.framed = o.framed
    <2>1. OutcomeForm(o)
      BY <1>1, <1>2
    <2>2. CASE d = [o EXCEPT !.status = status]
      BY <2>1, <2>2, OutcomeChanges
    <2>3. CASE d = [o EXCEPT !.status = status, !.closes = closes]
      BY <2>1, <2>3, OutcomeChanges
    <2> QED
      BY <1>2, <2>2, <2>3
  <1>4. BodyRead' /\ CallForm(asked)' /\ OutcomeForm(outcome)'
    BY <1>2, <1>3 DEF FormInv, BodyRead
  <1>5. OnItsWay' /\ Heard'
    BY DEF FormInv, OnItsWay, Early, Calling, Heard
  <1>6. Opened'
    BY <1>2, <1>3 DEF FormInv, Opened
  <1>7. Len(app.pieces)' = 0 /\ app'.eos = FALSE
    BY DEF FormInv
  <1> QED
    BY <1>4, <1>5, <1>6, <1>7 DEF FormInv

\* The POST goes on to the next stage, before any call.
LEMMA GateKeeps == ASSUME FormInv, Gate PROVE FormInv'
  <1>0. stage = "arrived" /\ UNCHANGED <<post, taken, asked, app>>
    BY DEF Gate
  <1>1. asked = Unasked /\ outcome = Undecided
    BY <1>0 DEF FormInv, OnItsWay, Early
  <1>2. CASE post.door = "form" /\ ~post.scope.formCaptcha
    <2>1. stage' = "replay" /\ outcome' = outcome
      BY <1>2 DEF Gate, GoesTo
    <2>2. BodyRead' /\ CallForm(asked)' /\ OutcomeForm(outcome)'
      BY <1>0, <2>1 DEF FormInv, BodyRead
    <2>3. OnItsWay' /\ Heard'
      BY <1>0, <2>1 DEF FormInv, OnItsWay, Early, Calling, Heard
    <2>4. Opened'
      BY <1>0, <1>1, <1>2, <2>1, Fresh DEF Opened
    <2> QED
      BY <2>1, <2>2, <2>3, <2>4 DEF FormInv
  <1>3. CASE ~(post.door = "form" /\ ~post.scope.formCaptcha) /\ AtTheGate(post) = 0
    <2>1. stage' = "reading" /\ outcome' = outcome
      BY <1>3 DEF Gate, GoesTo
    <2>2. post.door = "endpoint" => PendingGood(post.scope, post.pending)
      BY <1>3 DEF AtTheGate
    <2>3. BodyRead' /\ CallForm(asked)' /\ OutcomeForm(outcome)'
      BY <1>0, <2>1 DEF FormInv, BodyRead
    <2>4. OnItsWay' /\ Heard'
      BY <1>0, <1>1, <2>1, <2>2 DEF FormInv, OnItsWay, Early, Calling, Heard
    <2>5. Opened'
      BY <1>0, <1>1, <2>1, Fresh DEF Opened
    <2>6. Len(app.pieces)' = 0 /\ app'.eos = FALSE
      BY <1>0 DEF FormInv
    <2> QED
      BY <2>3, <2>4, <2>5, <2>6 DEF FormInv
  <1>4. CASE ~(post.door = "form" /\ ~post.scope.formCaptcha) /\ AtTheGate(post) # 0
    <2>1. stage' = "over" /\ outcome' = [outcome EXCEPT !.status = AtTheGate(post)]
      BY <1>4 DEF Gate, Ends
    <2> QED
      BY <1>0, <2>1, EndKeeps
  <1> QED
    BY <1>2, <1>3, <1>4

\* A bucket that fits is a longer beginning of the body; at its end the whole
\* of it was read.
LEMMA ReadBucketKeeps == ASSUME FormInv, ReadBucket PROVE FormInv'
  <1>0. stage = "reading" /\ UNCHANGED <<post, asked, app>>
    BY DEF ReadBucket
  <1>1. asked = Unasked /\ outcome = Undecided
    BY <1>0 DEF FormInv, OnItsWay, Early
  <1>2. /\ post.body \in Seq(ToSet(post.body)) /\ Len(taken) \in 0 .. Len(post.body)
        /\ taken = SubSeq(post.body, 1, Len(taken))
    BY DEF FormInv, BodyRead
  <1>3. ASSUME NEW n \in 1 .. 2, n <= Len(post.body) - Len(taken),
               taken' = SubSeq(post.body, 1, Len(taken) + n), UNCHANGED <<stage, outcome>>
        PROVE  FormInv'
    <2>1. Len(taken') = Len(taken) + n /\ Len(taken') \in 0 .. Len(post.body)
      BY <1>2, <1>3
    <2>2. taken' = SubSeq(post.body, 1, Len(taken'))
      BY <1>3, <2>1
    <2>3. BodyRead' /\ CallForm(asked)' /\ OutcomeForm(outcome)'
      BY <1>0, <1>3, <2>1, <2>2 DEF FormInv, BodyRead
    <2>4. OnItsWay'
      BY <1>0, <1>3 DEF FormInv, OnItsWay, Early, Calling
    <2>5. Heard' /\ Opened'
      BY <1>0, <1>1, <1>3, Fresh DEF Heard, Opened, Asking
    <2>6. Len(app.pieces)' = 0 /\ app'.eos = FALSE
      BY <1>0 DEF FormInv
    <2> QED
      BY <2>3, <2>4, <2>5, <2>6 DEF FormInv
  <1>4. ASSUME Len(post.body) - Len(taken) = 0, GoesTo("inspect"), UNCHANGED taken PROVE FormInv'
    <2>1. stage' = "inspect" /\ outcome' = outcome /\ taken' = taken
      BY <1>4 DEF GoesTo
    <2>2. taken = post.body
      <3>1. Len(taken) = Len(post.body) /\ SubSeq(post.body, 1, Len(post.body)) = post.body
        BY <1>2, <1>4
      <3> QED
        BY <1>2, <3>1
    <2>3. BodyRead' /\ CallForm(asked)' /\ OutcomeForm(outcome)'
      BY <1>0, <2>1 DEF FormInv, BodyRead
    <2>4. OnItsWay'
      BY <1>0, <2>1, <2>2 DEF FormInv, OnItsWay, Early, Calling
    <2>5. Heard' /\ Opened'
      BY <1>0, <1>1, <2>1, Fresh DEF Heard, Opened, Asking
    <2>6. Len(app.pieces)' = 0 /\ app'.eos = FALSE
      BY <1>0 DEF FormInv
    <2> QED
      BY <2>3, <2>4, <2>5, <2>6 DEF FormInv
  <1>5. ASSUME stage' = "over", outcome' = [outcome EXCEPT !.status = 413, !.closes = TRUE],
               UNCHANGED taken
        PROVE  FormInv'
    BY ZenonT(30), <1>0, <1>5, EndKeeps
  <1>6. ASSUME Ends(400), UNCHANGED taken PROVE FormInv'
    BY <1>0, <1>6, EndKeeps DEF Ends
  <1> QED
    BY <1>3, <1>4, <1>5, <1>6 DEF ReadBucket

\* The body was read whole: it is played back, refused, or asked about.
LEMMA InspectKeeps == ASSUME FormInv, Inspect PROVE FormInv'
  <1> DEFINE text == UpToNul(taken)
             token == TokenOf(post.type, text)
             found == IF token \in LongTokens /\ post.door # "form" THEN NoToken ELSE token
             asks == /\ GoesTo("call") /\ found # NoToken
                     /\ asked' = [Unasked EXCEPT !.token = found, !.block = BlockOf(post)]
                     /\ post.door = "form" => ~HasNul(taken)
             ends == (\E s \in {400, 403, 503} : Ends(s)) /\ UNCHANGED asked
             replays == post.door = "form" /\ post.scope.observe /\ Replays /\ UNCHANGED asked
  <1>0. stage = "inspect" /\ UNCHANGED <<post, taken, app>>
    BY DEF Inspect
  <1>1. asked = Unasked /\ outcome = Undecided /\ taken = post.body
    BY <1>0 DEF FormInv, OnItsWay, Early
  <1>2. asks \/ ends \/ replays
    <2> HIDE DEF text
    <2>1. CASE post.door = "form" /\ HasNul(taken)
      BY <2>1 DEF Inspect
    <2>2. CASE post.door = "form" /\ ~HasNul(taken) /\ post.scope.observe
      BY <2>2 DEF Inspect
    <2>3. CASE /\ ~(post.door = "form" /\ (HasNul(taken) \/ post.scope.observe))
               /\ post.door # "endpoint" /\ Malformed(post.type, text)
      BY <2>3 DEF Inspect, text
    <2>4. CASE /\ ~(post.door = "form" /\ (HasNul(taken) \/ post.scope.observe))
               /\ ~(post.door # "endpoint" /\ Malformed(post.type, text))
      BY <2>4 DEF Inspect, text
    <2> QED
      BY <2>1, <2>2, <2>3, <2>4
  <1>3. CASE asks
    <2>1. stage' = "call" /\ outcome' = outcome
      BY <1>3 DEF GoesTo
    <2>2. PICK d : d = asked'
      OBVIOUS
    <2>3. CallForm(d) /\ d.token = found /\ d.block = BlockOf(post) /\ d.result = "none"
      <3>1. PICK block, tok : block = BlockOf(post) /\ tok = found
        OBVIOUS
      <3>2. d = [Unasked EXCEPT !.token = tok, !.block = block]
        BY <1>3, <2>2, <3>1
      <3>3. CallForm(d) /\ d.token = tok /\ d.block = block /\ d.result = "none"
        BY <3>2 DEF CallForm, Unasked
      <3> QED
        BY <3>1, <3>3
    <2>4. post.door = "form" => found = TokenOf(post.type, post.body)
      <3>1. DOMAIN taken = 1 .. Len(taken)
        BY <1>1 DEF FormInv, BodyRead
      <3>2. post.door = "form" => text = taken
        BY <1>3, <3>1, AllText
      <3> QED
        BY <1>1, <3>2
    <2>5. BodyRead' /\ CallForm(asked)' /\ OutcomeForm(outcome)'
      BY <1>0, <2>1, <2>2, <2>3 DEF FormInv, BodyRead
    <2>6. OnItsWay'
      <3>1. asked'.token # NoToken /\ asked'.result = "none"
        BY <1>3, <2>2, <2>3
      <3> QED
        BY <1>0, <1>1, <2>1, <3>1 DEF FormInv, OnItsWay, Early, Calling
    <2>7. Heard'
      <3>1. Asking(asked', post', taken')
        BY <1>0, <1>1, <2>2, <2>3, <2>4 DEF Asking
      <3> QED
        BY <2>2, <2>3, <3>1 DEF Heard
    <2>8. Opened'
      BY <1>1, <2>1, Fresh DEF Opened
    <2>9. Len(app.pieces)' = 0 /\ app'.eos = FALSE
      BY <1>0 DEF FormInv
    <2> QED
      BY <2>5, <2>6, <2>7, <2>8, <2>9 DEF FormInv
  <1>4. CASE ends
    <2>1. PICK s \in {400, 403, 503} : Ends(s)
      BY <1>4
    <2> QED
      BY ZenonT(30), <1>0, <1>4, <2>1, EndKeeps DEF Ends
  <1>5. CASE replays
    <2>1. stage' = "replay" /\ outcome' = [outcome EXCEPT !.framed = TRUE]
      BY <1>5 DEF Replays
    <2>2. OutcomeForm(outcome') /\ outcome'.cookie = FALSE
      BY <1>1, <2>1, Fresh, OutcomeChanges
    <2>3. BodyRead' /\ CallForm(asked)'
      BY <1>0, <1>5 DEF FormInv, BodyRead
    <2>4. OnItsWay' /\ Heard'
      BY <1>0, <1>5, <2>1 DEF FormInv, OnItsWay, Early, Calling, Heard
    <2>5. Opened'
      BY <1>0, <1>1, <1>5, <2>1, <2>2 DEF Opened
    <2> QED
      BY <2>1, <2>2, <2>3, <2>4, <2>5 DEF FormInv
  <1> HIDE DEF asks, ends, replays
  <1> QED
    BY <1>2, <1>3, <1>4, <1>5

\* A step of the call that leaves its token and its block: what it hears is
\* a yes only when the whole of a good answer says so.
LEMMA HearingKeeps ==
    ASSUME FormInv, stage \in {"call", "answering"}, UNCHANGED <<post, taken, outcome, app>>,
           CallForm(asked'), asked'.token = asked.token, asked'.block = asked.block,
           stage' = "judge" \/ (stage' = "answering" /\ asked'.result = "none"),
           asked'.result = "yes" =>
               Answered(asked') /\ asked'.answer.ok /\ asked'.answer.says = "yes"
    PROVE  FormInv'
  <1>1. BodyRead' /\ OutcomeForm(outcome)'
    BY DEF FormInv, BodyRead
  <1>2. OnItsWay'
    BY DEF FormInv, OnItsWay, Early, Calling
  <1>3. Heard'
    BY DEF FormInv, Heard, Asking
  <1>4. Opened'
    <2>1. outcome' = Undecided /\ stage' # "replay"
      BY DEF FormInv, OnItsWay, Calling
    <2> QED
      BY <2>1, Fresh DEF Opened
  <1>5. Len(app.pieces)' = 0 /\ app'.eos = FALSE
    BY DEF FormInv
  <1> QED
    BY <1>1, <1>2, <1>3, <1>4, <1>5 DEF FormInv

\* A result that is no yes.
LEMMA ResultKeeps ==
    ASSUME FormInv, stage \in {"call", "answering"}, UNCHANGED <<post, taken, outcome, app>>,
           NEW r, Result(r),
           r = "yes" => Answered(asked) /\ asked.answer.ok /\ asked.answer.says = "yes"
    PROVE  FormInv'
  <1>1. PICK c, d : c = asked /\ d = asked'
    OBVIOUS
  <1>2. /\ CallForm(d) /\ d.result = r
        /\ d.token = c.token /\ d.block = c.block /\ d.answer = c.answer /\ d.chunks = c.chunks
    <2>1. CallForm(c) /\ d = [c EXCEPT !.result = r]
      BY <1>1 DEF FormInv, Result
    <2> QED
      BY <2>1, CallChanges
  <1>3. asked'.result = "yes" => Answered(asked') /\ asked'.answer.ok /\ asked'.answer.says = "yes"
    BY <1>1, <1>2 DEF Answered
  <1> QED
    BY <1>1, <1>2, <1>3, HearingKeeps DEF Result

\* A step of a call leaves it as the invariant has it.
LEMMA CallKeeps ==
    ASSUME FormInv, Refused \/ NoSocket \/ Ask \/ Receive \/ Breaks \/ AnswerEnds
    PROVE  FormInv'
  <1>0. UNCHANGED <<post, taken, outcome, app>>
    BY DEF Refused, NoSocket, Ask, Receive, Breaks, AnswerEnds
  <1>1. stage \in {"call", "answering"}
    BY DEF Refused, NoSocket, Ask, Receive, Breaks, AnswerEnds
  <1>2. ASSUME NEW r \in {"limited", "saturated", "error", "timeout", "no"}, Result(r) PROVE FormInv'
    BY <1>0, <1>1, <1>2, ResultKeeps
  <1>3. PICK c, d : c = asked /\ d = asked'
    OBVIOUS
  <1>4. CallForm(c) /\ c.result = "none"
    BY <1>1, <1>3 DEF FormInv, OnItsWay
  <1>5. CASE Refused \/ NoSocket \/ Breaks
    BY <1>2, <1>5 DEF Refused, NoSocket, Breaks
  <1>6. CASE Ask
    <2>1. ASSUME NEW answer \in ProviderAnswers, asked' = [asked EXCEPT !.answer = answer],
                 stage' = "answering"
          PROVE  FormInv'
      <3>1. d = [c EXCEPT !.answer = answer]
        BY <1>3, <2>1
      <3>2. CallForm(d) /\ d.token = c.token /\ d.block = c.block /\ d.result = c.result
        BY <1>4, <3>1, CallChanges
      <3> QED
        BY <1>0, <1>1, <1>3, <1>4, <2>1, <3>2, HearingKeeps
    <2> QED
      BY <1>2, <1>6, <2>1 DEF Ask
  <1>7. CASE Receive
    <2>1. ASSUME asked' = [asked EXCEPT !.chunks = @ + 1], UNCHANGED stage PROVE FormInv'
      <3>1. stage' = "answering"
        BY <1>7, <2>1 DEF Receive
      <3>2. PICK x : x = c.chunks + 1
        OBVIOUS
      <3>3. d = [c EXCEPT !.chunks = x]
        BY <1>3, <2>1, <3>2
      <3>4. CallForm(d) /\ d.token = c.token /\ d.block = c.block /\ d.result = c.result
        BY <1>4, <3>3, CallChanges
      <3> QED
        BY <1>0, <1>1, <1>3, <1>4, <3>1, <3>4, HearingKeeps
    <2> QED
      BY <1>2, <1>7, <2>1 DEF Receive
  <1>8. CASE AnswerEnds
    <2>1. CASE asked.answer.ok
      <3>1. PICK r : Result(r) /\ r = SaidOf(asked.block.kind, asked.answer)
        BY <1>8, <2>1 DEF AnswerEnds
      <3>2. r = "yes" => asked.answer.says = "yes"
        BY <3>1 DEF SaidOf
      <3> QED
        BY <1>0, <1>1, <1>8, <2>1, <3>1, <3>2, ResultKeeps DEF AnswerEnds
    <2>2. CASE ~asked.answer.ok
      BY <1>2, <1>8, <2>2 DEF AnswerEnds
    <2> QED
      BY <2>1, <2>2
  <1> QED
    BY <1>5, <1>6, <1>7, <1>8

\* A cookie is minted for a token the provider vouched for, or, at the
\* endpoint, for one nobody could be heard about.
LEMMA JudgeAnswerKeeps == ASSUME FormInv, JudgeAnswer PROVE FormInv'
  <1> DEFINE r == asked.result
             fits == r = "yes" => Accepts(post, asked.block, Details(asked.block.kind, asked.answer))
  <1>0. stage = "judge" /\ UNCHANGED <<post, taken, asked, app>>
    BY DEF JudgeAnswer
  <1>1. (\E s \in {429, 503, 403, 500} : Ends(s)) \/ (Granted(post.door, r) /\ fits /\ Mints)
    BY DEF JudgeAnswer, Mints
  <1>2. ASSUME NEW s \in {429, 503, 403, 500}, Ends(s) PROVE FormInv'
    BY ZenonT(30), <1>0, <1>2, EndKeeps DEF Ends
  <1>3. ASSUME Granted(post.door, r), fits, outcome'.cookie = TRUE, OutcomeForm(outcome'),
               stage' = IF post.door = "form" THEN "replay" ELSE "over"
        PROVE  FormInv'
    <2>1. asked.token # NoToken /\ taken = post.body
      BY <1>0 DEF FormInv, OnItsWay, Calling
    <2>2. asked.block = BlockOf(post)
      BY <2>1 DEF FormInv, Heard, Asking
    <2>3. r = "yes" => SaidYes(post, asked)
      BY <1>3, <2>2 DEF FormInv, Heard, SaidYes
    <2>4. r # "yes" => /\ post.door = "endpoint" /\ Unheard(asked)
                       /\ PendingGood(post.scope, post.pending)
      BY <1>0, <1>3 DEF Granted, Unheard, FormInv, OnItsWay, Calling
    <2>5. BodyRead' /\ CallForm(asked)'
      BY <1>0 DEF FormInv, BodyRead
    <2>6. OnItsWay' /\ Heard'
      BY <1>0, <1>3 DEF FormInv, OnItsWay, Early, Calling, Heard
    <2>7. Opened'
      <3>1. stage' = "replay" => post.door = "form"
        BY <1>3
      <3>2. SaidYes(post', asked') = SaidYes(post, asked) /\ Unheard(asked') = Unheard(asked)
        BY <1>0
      <3> QED
        BY <1>0, <2>1, <2>3, <2>4, <3>1, <3>2 DEF Opened
    <2>8. stage' # "replay" => Len(app.pieces)' = 0 /\ app'.eos = FALSE
      BY <1>0 DEF FormInv
    <2> QED
      BY <1>3, <2>5, <2>6, <2>7, <2>8 DEF FormInv
  <1>4. ASSUME Granted(post.door, r), fits, Mints PROVE FormInv'
    <2>1. CASE Ends(500)
      BY <1>2, <2>1
    <2>2. CASE ~Ends(500)
      <3>1. /\ outcome' = [outcome EXCEPT !.cookie = TRUE, !.framed = post.door = "form",
                              !.clears = post.door = "endpoint",
                              !.status = CASE post.door = "form" -> 0
                                           [] post.door = "endpoint" -> 303
                                           [] OTHER -> 204]
            /\ stage' = IF post.door = "form" THEN "replay" ELSE "over"
        BY <1>4, <2>2 DEF Mints
      <3>2. OutcomeForm(outcome)
        BY DEF FormInv
      <3>3. OutcomeForm(outcome') /\ outcome'.cookie = TRUE
        BY <3>1, <3>2 DEF OutcomeForm
      <3> QED
        BY <1>3, <1>4, <3>1, <3>3
    <2> QED
      BY <2>1, <2>2
  <1> QED
    BY <1>1, <1>2, <1>4

\* The application reads on where it was.
LEMMA ReadBackKeeps == ASSUME FormInv, ReadBack PROVE FormInv'
  <1>0. stage = "replay" /\ outcome.framed /\ ~app.eos /\ UNCHANGED <<post, stage, taken, asked, outcome>>
    BY DEF ReadBack
  <1>1. taken = post.body
    BY <1>0 DEF FormInv, Opened
  <1>2. PICK l : l = Len(app.pieces)
    OBVIOUS
  <1>3. /\ post.body \in Seq(ToSet(post.body)) /\ l \in 0 .. Len(post.body)
        /\ app.pieces = SubSeq(post.body, 1, l)
    <2>1. app.pieces = SubSeq(post.body, 1, Len(app.pieces))
      BY DEF FormInv, BodyRead
    <2> QED
      BY <1>2, <2>1 DEF FormInv, BodyRead
  <1>4. Remaining = SubSeq(post.body, l + 1, Len(post.body))
    BY <1>1, <1>2 DEF Remaining
  <1>5. Remaining \in Seq(ToSet(post.body)) /\ Len(Remaining) = Len(post.body) - l
    BY <1>3, <1>4
  <1>6. BodyRead'
    <2>1. CASE Remaining = <<>>
      <3>1. l = Len(post.body)
        BY <1>3, <1>5, <2>1
      <3>2. app' = [app EXCEPT !.eos = TRUE]
        BY <2>1 DEF ReadBack
      <3>3. app = [pieces |-> app.pieces, eos |-> app.eos]
        BY <1>2, <1>3 DEF FormInv, BodyRead
      <3>4. app'.pieces = app.pieces /\ app' = [pieces |-> app'.pieces, eos |-> app'.eos]
        BY <3>2, <3>3
      <3>5. Len(app'.pieces) = l /\ app'.pieces = SubSeq(post.body, 1, l)
        BY <1>2, <1>3, <3>4
      <3> QED
        BY <1>0, <1>3, <3>1, <3>4, <3>5 DEF FormInv, BodyRead
    <2>2. CASE Remaining # <<>>
      <3>1. PICK mode : app' = [pieces |-> app.pieces \o SubSeq(Remaining, 1, Emitted(mode)),
                                eos |-> Emitted(mode) = Len(Remaining)]
        BY <2>2 DEF ReadBack
      <3>2. Emitted(mode) \in 1 .. Len(Remaining)
        BY <1>5, <2>2, EmittedSays
      <3>3. PICK n \in Nat : n = Emitted(mode) /\ n <= Len(post.body) - l
        BY <1>3, <1>5, <3>2
      <3>4. app'.pieces = SubSeq(post.body, 1, l + n)
        <4>1. l \in Nat /\ l + n <= Len(post.body)
          BY <1>3, <3>3
        <4>2. SubSeq(post.body, 1, l) \o SubSeq(SubSeq(post.body, l + 1, Len(post.body)), 1, n)
                = SubSeq(post.body, 1, l + n)
          BY <1>3, <4>1, BeginningGrows
        <4>3. app'.pieces = app.pieces \o SubSeq(Remaining, 1, n)
          BY <3>1, <3>3
        <4> QED
          BY <1>3, <1>4, <4>2, <4>3
      <3>5. l + n \in 0 .. Len(post.body) /\ Len(app'.pieces) = l + n
        <4>1. PICK k \in 0 .. Len(post.body) : k = l + n
          BY <1>3, <3>3
        <4>2. Len(SubSeq(post.body, 1, k)) = k
          BY <1>3, <4>1
        <4> QED
          BY <3>4, <4>1, <4>2
      <3>6. app'.eos => l + n = Len(post.body)
        <4>1. app'.eos = (Emitted(mode) = Len(Remaining))
          BY <3>1
        <4>2. app'.eos => n = Len(post.body) - l
          BY <1>5, <3>3, <4>1
        <4> QED
          BY <1>3, <3>3, <4>2
      <3>7. app' = [pieces |-> app'.pieces, eos |-> app'.eos]
        BY <3>1
      <3>8. app' = [pieces |-> SubSeq(post.body, 1, Len(app'.pieces)), eos |-> app'.eos]
        BY <3>4, <3>5, <3>7
      <3> QED
        BY <1>0, <3>5, <3>6, <3>8 DEF FormInv, BodyRead
    <2> QED
      BY <2>1, <2>2
  <1>7. CallForm(asked)' /\ OutcomeForm(outcome)'
    BY <1>0 DEF FormInv
  <1>8. OnItsWay' /\ Heard'
    BY <1>0 DEF FormInv, OnItsWay, Early, Calling, Heard
  <1>9. Opened'
    <2>1. SaidYes(post', asked') = SaidYes(post, asked) /\ Unheard(asked') = Unheard(asked)
      BY <1>0
    <2> QED
      BY <1>0, <2>1 DEF FormInv, Opened
  <1> QED
    BY <1>0, <1>6, <1>7, <1>8, <1>9 DEF FormInv

\* Every POST: what was read of its body, what was asked about it, and what
\* was decided belong together (formcaptcha.c, captcha.c, non_interactive.c).
THEOREM FormInvariant == FormSpec => []FormInv
  <1>1. FormInit => FormInv
    <2> SUFFICES ASSUME FormInit PROVE FormInv
      OBVIOUS
    <2>1. /\ stage = "arrived" /\ taken = <<>> /\ asked = Unasked /\ outcome = Undecided
          /\ app = [pieces |-> <<>>, eos |-> FALSE]
      BY DEF FormInit
    <2>2. post.body \in FormBodies
      BY DEF FormInit
    <2>3. post.body \in Seq(ToSet(post.body))
      BY <2>2, FormAssumption
    <2>4. Len(post.body) \in Nat /\ SubSeq(post.body, 1, 0) = <<>> /\ Len(<<>>) = 0
      BY <2>3
    <2>5. BodyRead
      <3>1. Len(taken) = 0 /\ taken = SubSeq(post.body, 1, Len(taken))
        BY <2>1, <2>4
      <3>2. Len(app.pieces) = 0 /\ app.eos = FALSE
        BY <2>1, <2>4
      <3>3. app = [pieces |-> SubSeq(post.body, 1, Len(app.pieces)), eos |-> app.eos]
        BY <2>1, <2>4, <3>2
      <3> QED
        BY <2>3, <2>4, <3>1, <3>2, <3>3 DEF BodyRead
    <2>6. OnItsWay /\ Heard /\ Opened
      BY <2>1, Fresh DEF OnItsWay, Early, Calling, Heard, Opened, Asking
    <2> QED
      BY <2>1, <2>4, <2>5, <2>6, Fresh DEF FormInv
  <1>2. FormInv /\ [FormNext]_formVars => FormInv'
    <2> SUFFICES ASSUME FormInv, [FormNext]_formVars PROVE FormInv'
      OBVIOUS
    <2>1. CASE UNCHANGED formVars
      BY <2>1 DEF formVars, FormInv, BodyRead, OnItsWay, Early, Calling, Heard, Opened
    <2> QED
      BY <2>1, GateKeeps, ReadBucketKeeps, InspectKeeps, CallKeeps, JudgeAnswerKeeps, ReadBackKeeps
         DEF FormNext
  <1> QED
    BY <1>1, <1>2, PTL DEF FormSpec

\* A cookie, and the application behind a form, are reached only with a token
\* the provider vouched for or could not be heard about, at the endpoint only
\* from a client with a challenge of ours; and the application reads back the
\* very body that was judged.
THEOREM TokenVouchedFor == FormSpec => []VouchedFor
  <1>1. FormInv => VouchedFor
    <2> SUFFICES ASSUME FormInv PROVE VouchedFor
      OBVIOUS
    <2>1. /\ post.body \in Seq(ToSet(post.body)) /\ Len(app.pieces) \in 0 .. Len(post.body)
          /\ app.pieces = SubSeq(post.body, 1, Len(app.pieces))
          /\ app.eos => Len(app.pieces) = Len(post.body)
      BY DEF FormInv, BodyRead
    <2>2. IsPrefix(app.pieces, post.body)
      BY <2>1 DEF IsPrefix
    <2>3. app.eos => app.pieces = post.body
      <3>1. SubSeq(post.body, 1, Len(post.body)) = post.body
        BY <2>1
      <3> QED
        BY <2>1, <3>1
    <2>4. app.eos /\ asked.token # NoToken => TokenOf(post.type, app.pieces) = asked.token
      BY <2>3 DEF FormInv, Opened, Heard, Asking
    <2>5. asked.token # NoToken => asked.block = BlockOf(post)
      BY DEF FormInv, Heard, Asking
    <2>6. PlayedBack
      BY <2>2, <2>3, <2>4 DEF PlayedBack
    <2>7. SaidYes(post, asked) => /\ asked.result = "yes" /\ Answered(asked) /\ asked.answer.ok
                               /\ asked.answer.says = "yes"
                               /\ Accepts(post, BlockOf(post),
                                          Details(asked.block.kind, asked.answer))
      BY DEF SaidYes
    <2> QED
      BY <2>5, <2>6, <2>7 DEF FormInv, Opened, Unheard, VouchedFor
  <1> QED
    BY <1>1, FormInvariant, PTL
-----------------------------------------------------------------------------
(* The addresses of a verified bot. *)

\* What a file holds now it has held: whole, or it cannot be loaded.
OnDisk ==
    /\ files = [q \in Parts |-> files[q]] /\ held = [q \in Parts |-> held[q]]
    /\ files.file.lines # Missing =>
           Loaded1(files.file.lines) \in held.file \cup {Missing}
    /\ IF files.side.lines = Missing THEN {} \in held.side
       ELSE Loaded1(files.side.lines) \in held.side \cup {Missing}

\* A build past the reading of the file has a list the file has held.
BuildReads ==
    /\ build = Resting \/ allowed.kind = "file"
    /\ build.at \in {"rest", "read", "stat", "statside", "readside"}
    /\ build.at \in {"stat", "statside", "readside"} => build.list \in held.file

\* A table is a whole list, or nothing is known of the bot's addresses.
WholeTable ==
    allowed.kind # "any" /\ ranges.list # Missing =>
        \E l \in Listed : ranges.list = l[1] \cup l[2]

RangesInv == OnDisk /\ BuildReads /\ WholeTable /\ JudgedByWholeFiles

\* A list loaded with a sidecar is both of them.
LEMMA WithSideWhole ==
    ASSUME allowed.kind # "inline", NEW list \in held.file, NEW side \in held.side \cup {Missing},
           WithSide(list, side) # Missing
    PROVE  \E l \in Listed : WithSide(list, side) = l[1] \cup l[2]
  <1>1. side \in held.side /\ WithSide(list, side) = list \cup side
    BY DEF WithSide
  <1>2. <<list, side>> \in Listed
    BY <1>1 DEF Listed
  <1> QED
    BY <1>1, <1>2

\* The label of a client that names the bot: by its addresses alone.
LEMMA LabelOfBot ==
    ASSUME NEW flags, NEW tabs, NEW name, NEW said
    PROVE  /\ Classify(Bot, flags, tabs, name, said).label = "fake" => said \notin {"any", "unranged", "in"}
           /\ Classify(Bot, flags, tabs, name, said).label = "verified" => said = "in"
  <1> DEFINE known == WithKnown(NoClass, flags, Bot, tabs.rows)
             class == WithVerified(known, flags, name, said)
  <1>1. known = NoClass \/ \E slug, group : known = [[[NoClass EXCEPT !.label = "known"] EXCEPT !.slug = slug] EXCEPT !.group = group]
    BY Zenon DEF WithKnown
  <1>2. NoClass \in [DOMAIN NoClass -> {NoClass[f] : f \in DOMAIN NoClass}]
        /\ "label" \in DOMAIN NoClass /\ NoClass.label = "unknown" /\ "name" \in DOMAIN NoClass
    BY Zenon DEF NoClass
  <1>3. /\ DOMAIN known = DOMAIN NoClass /\ known = [f \in DOMAIN known |-> known[f]]
        /\ known.label \in {"unknown", "known"}
    <2> HIDE DEF known, NoClass
    <2> QED
      BY <1>1, <1>2
  <1>4. /\ class.label = "fake" => said \notin {"any", "unranged", "in"}
        /\ class.label = "verified" => said = "in"
        /\ [class EXCEPT !.label = "unknownbot"].label = "unknownbot"
    <2> HIDE DEF known, NoClass
    <2>1. CASE name = <<>>
      BY <1>2, <1>3, <2>1 DEF WithVerified
    <2>2. CASE name # <<>>
      <3> DEFINE label == IF "verified-bots" \notin flags \/ said \in {"any", "unranged"} THEN "known"
                          ELSE IF said = "in" THEN "verified" ELSE "fake"
      <3>1. class = [[known EXCEPT !.name = name] EXCEPT !.label = label]
        BY Zenon, <2>2 DEF WithVerified
      <3>2. class.label = label /\ "label" \in DOMAIN class
        <4> HIDE DEF label, class
        <4> QED
          BY <1>2, <1>3, <3>1
      <3>3. [class EXCEPT !.label = "unknownbot"].label = "unknownbot"
        <4> HIDE DEF label, class
        <4> QED
          BY <3>2
      <3>4. /\ label = "fake" => said \notin {"any", "unranged", "in"}
            /\ label = "verified" => said = "in"
        OBVIOUS
      <3> HIDE DEF label, class
      <3> QED
        BY <3>2, <3>3, <3>4
    <2> QED
      BY <2>1, <2>2
  <1>5. Classify(Bot, flags, tabs, name, said) \in
            {[NoClass EXCEPT !.label = "no-ua"], [NoClass EXCEPT !.label = "browser"], class,
             [class EXCEPT !.label = "unknownbot"]}
    <2> HIDE DEF class, known
    <2>1. ClaimedRetired(Bot) = 0
      BY RangesAssumption
    <2> QED
      BY <2>1 DEF Classify, class, known
  <1>6. [NoClass EXCEPT !.label = "no-ua"].label = "no-ua" /\ [NoClass EXCEPT !.label = "browser"].label = "browser"
    BY DEF NoClass
  <1> HIDE DEF class
  <1> QED
    BY <1>4, <1>5, <1>6

\* What the table says of an address, by the address lists it was made of.
LEMMA SaidOfWhole ==
    ASSUME WholeTable, NEW addr
    PROVE  /\ Said(addr) \notin {"any", "unranged", "in"} => \E l \in Listed : addr \notin l[1] \cup l[2]
           /\ Said(addr) = "in" => \E l \in Listed : addr \in l[1] \cup l[2]
  BY DEF Said, WholeTable

\* The lists that count only grow.
LEMMA ListedGrows ==
    ASSUME UNCHANGED allowed, held.file \subseteq held'.file, held.side \subseteq held'.side
    PROVE  Listed \subseteq Listed'
  BY DEF Listed

\* A client is judged by the active table, which is whole.
LEMMA JudgeKeeps ==
    ASSUME RangesInv, NEW addr \in Addresses, Judge(addr)
    PROVE  RangesInv'
  <1>1. UNCHANGED <<allowed, files, ranges, build, rewrites, held>>
    BY DEF Judge
  <1>2. UNCHANGED Listed
    BY <1>1 DEF Listed
  <1>3. OnDisk' /\ BuildReads' /\ WholeTable'
    BY <1>1, <1>2 DEF RangesInv, OnDisk, BuildReads, WholeTable
  <1> DEFINE class == Classify(Bot, allowed.flags, tables, Trie(<<Bot>>, Bot), Said(addr))
  <1>4. verdict'.addr = addr /\ verdict'.label = class.label
    BY DEF Judge
  <1>5. /\ class.label = "fake" => Said(addr) \notin {"any", "unranged", "in"}
        /\ class.label = "verified" => Said(addr) = "in"
    BY LabelOfBot
  <1> HIDE DEF class
  <1>6. JudgedByWholeFiles'
    BY <1>2, <1>4, <1>5, SaidOfWhole DEF RangesInv, JudgedByWholeFiles
  <1> QED
    BY <1>3, <1>6 DEF RangesInv

\* The steps of a build, from the list that was read to the table.
LEMMA BuildKeeps ==
    ASSUME RangesInv, StartBuild \/ ReadFile \/ StatFile \/ StatSide \/ ReadSide
    PROVE  RangesInv'
  <1>1. UNCHANGED <<allowed, files, rewrites, verdict, held>>
    BY DEF StartBuild, ReadFile, StatFile, StatSide, ReadSide
  <1>2. UNCHANGED Listed
    BY <1>1 DEF Listed
  <1>3. OnDisk' /\ JudgedByWholeFiles'
    BY <1>1, <1>2 DEF RangesInv, OnDisk, JudgedByWholeFiles
  <1>4. CASE StartBuild
    BY <1>1, <1>2, <1>3, <1>4 DEF RangesInv, StartBuild, BuildReads, WholeTable
  <1>5. CASE ReadFile
    <2> DEFINE list == IF files.file.lines = Missing THEN Missing ELSE Loaded1(files.file.lines)
    <2>1. list \in held.file \cup {Missing} /\ allowed.kind = "file"
      BY <1>5 DEF RangesInv, OnDisk, ReadFile, BuildReads, Resting
    <2>2. IF list = Missing THEN ranges'.list = Missing /\ build' = Resting
          ELSE build' = [at |-> "stat", list |-> list] /\ UNCHANGED ranges
      BY <1>5 DEF ReadFile, Publish, Table
    <2> HIDE DEF list
    <2>3. WholeTable'
      BY <1>1, <1>2, <2>2 DEF RangesInv, WholeTable
    <2>4. BuildReads'
      BY <1>1, <2>1, <2>2 DEF RangesInv, BuildReads, Resting
    <2> QED
      BY <1>3, <2>3, <2>4 DEF RangesInv
  <1>6. CASE StatFile
    <2>1. build.list \in held.file /\ allowed.kind = "file"
      BY <1>6 DEF RangesInv, StatFile, BuildReads, Resting
    <2>2. build'.at = "statside" /\ build'.list = build.list /\ UNCHANGED ranges
      BY <1>6 DEF StatFile
    <2>3. WholeTable'
      BY <1>1, <1>2, <2>2 DEF RangesInv, WholeTable
    <2>4. BuildReads'
      BY <1>1, <2>1, <2>2 DEF BuildReads
    <2> QED
      BY <1>3, <2>3, <2>4 DEF RangesInv
  <1>7. CASE StatSide
    <2>1. build.list \in held.file /\ allowed.kind = "file"
      BY <1>7 DEF RangesInv, StatSide, BuildReads, Resting
    <2>2. CASE files.side.lines = Missing
      <3>1. ranges'.list = build.list /\ build' = Resting
        BY <1>7, <2>2 DEF StatSide, Publish, Table
      <3>2. <<build.list, {}>> \in Listed
        BY <2>1, <2>2 DEF RangesInv, OnDisk, Listed
      <3>3. WholeTable'
        BY <1>2, <3>1, <3>2 DEF WholeTable
      <3> QED
        BY <1>3, <3>1, <3>3 DEF RangesInv, BuildReads, Resting
    <2>3. CASE files.side.lines # Missing
      BY <1>1, <1>2, <1>3, <1>7, <2>1, <2>3 DEF RangesInv, StatSide, BuildReads, WholeTable
    <2> QED
      BY <2>2, <2>3
  <1>8. CASE ReadSide
    <2> DEFINE side == IF files.side.lines = Missing THEN Missing ELSE Loaded1(files.side.lines)
    <2>1. build.list \in held.file /\ allowed.kind = "file"
      BY <1>8 DEF RangesInv, ReadSide, BuildReads, Resting
    <2>2. side \in held.side \cup {Missing}
      BY DEF RangesInv, OnDisk
    <2>3. ranges'.list = WithSide(build.list, side) /\ build' = Resting
      BY <1>8 DEF ReadSide, Publish, Table
    <2> HIDE DEF side
    <2>4. WholeTable'
      BY <1>2, <2>1, <2>2, <2>3, WithSideWhole DEF WholeTable
    <2> QED
      BY <1>3, <2>3, <2>4 DEF RangesInv, BuildReads, Resting
  <1> QED
    BY <1>4, <1>5, <1>6, <1>7, <1>8

\* A replaced file leaves its old contents among those that were held.
LEMMA RewriteKeeps ==
    ASSUME RangesInv, NEW p \in Parts, Rewrite(p)
    PROVE  RangesInv'
  <1> DEFINE Whole(body) == IF body # Missing THEN Loaded1(body) ELSE IF p = "side" THEN {} ELSE Missing
  <1>1. PICK body : files' = [files EXCEPT ![p] = [mtime |-> rewrites + 2, lines |-> body]]
                     /\ held' = [held EXCEPT ![p] = @ \cup ({Whole(body)} \ {Missing})]
    BY DEF Rewrite
  <1>2. UNCHANGED <<allowed, ranges, build, verdict>>
    BY DEF Rewrite
  <1>3. /\ files = [q \in Parts |-> files[q]] /\ held = [q \in Parts |-> held[q]]
        /\ Parts = {"file", "side"}
    BY DEF RangesInv, OnDisk, Parts
  <1>4. /\ files'[p].lines = body /\ held'[p] = held[p] \cup ({Whole(body)} \ {Missing})
        /\ \A q \in Parts \ {p} : files'[q] = files[q] /\ held'[q] = held[q]
        /\ files' = [q \in Parts |-> files'[q]] /\ held' = [q \in Parts |-> held'[q]]
    <2> HIDE DEF Whole
    <2> QED
      BY <1>1, <1>3
  <1>5. Missing # {}
    BY RangesAssumption
  <1>6. body # Missing => Loaded1(body) \in held'[p] \cup {Missing}
    BY <1>4
  <1>7. body = Missing /\ p = "side" => {} \in held'[p]
    BY <1>4, <1>5
  <1> HIDE DEF Whole
  <1>8. OnDisk'
    <2>1. CASE p = "file"
      BY <1>3, <1>4, <1>6, <2>1 DEF RangesInv, OnDisk
    <2>2. CASE p = "side"
      BY <1>3, <1>4, <1>6, <1>7, <2>2 DEF RangesInv, OnDisk
    <2> QED
      BY <1>3, <2>1, <2>2
  <1>9. held.file \subseteq held'.file /\ held.side \subseteq held'.side
    BY <1>3, <1>4
  <1>10. Listed \subseteq Listed'
    BY <1>2, <1>9, ListedGrows
  <1>11. WholeTable' /\ JudgedByWholeFiles'
    BY <1>2, <1>10 DEF RangesInv, WholeTable, JudgedByWholeFiles
  <1>12. BuildReads'
    BY <1>2, <1>9 DEF RangesInv, BuildReads
  <1> QED
    BY <1>8, <1>11, <1>12 DEF RangesInv

\* The table of the start is made of the files of the start.
LEMMA RangesBegin ==
    ASSUME RangesInit
    PROVE  RangesInv
  <1>1. PICK body \in FileBodies :
            /\ files = [file |-> [mtime |-> 1, lines |-> body], side |-> [mtime |-> 1, lines |-> SideAtStart]]
            /\ ranges = CASE allowed.kind = "any"    -> Table(Missing, 0, 0)
                          [] allowed.kind = "inline" -> Table(Loaded1(allowed.lines), 0, 0)
                          [] OTHER -> IF Loaded1(body) = Missing THEN Table(Missing, 0, 0)
                                      ELSE Table(WithSide(Loaded1(body), Loaded1(SideAtStart)), 1, 1)
            /\ held = [file |-> {Loaded1(body)} \ {Missing}, side |-> {Loaded1(SideAtStart)} \ {Missing}]
    BY DEF RangesInit
  <1>2. build = Resting /\ verdict = NoVerdict
    BY DEF RangesInit
  <1>3. SideAtStart # Missing
    BY RangesAssumption
  <1>4. OnDisk
    BY <1>1, <1>3 DEF OnDisk, Parts
  <1>5. WholeTable
    <2>1. CASE allowed.kind = "inline"
      BY <1>1, <2>1 DEF WholeTable, Listed, Table
    <2>2. CASE allowed.kind \notin {"any", "inline"} /\ Loaded1(body) # Missing
      <3>1. ranges.list = WithSide(Loaded1(body), Loaded1(SideAtStart))
        BY <1>1, <2>2 DEF Table
      <3>2. Loaded1(body) \in held.file /\ Loaded1(SideAtStart) \in held.side \cup {Missing}
        BY <1>1, <2>2
      <3> QED
        BY <2>2, <3>1, <3>2, WithSideWhole DEF WholeTable
    <2>3. CASE allowed.kind \notin {"any", "inline"} /\ Loaded1(body) = Missing
      BY <1>1, <2>3 DEF WholeTable, Table
    <2> QED
      BY <2>1, <2>2, <2>3 DEF WholeTable
  <1> QED
    BY <1>2, <1>4, <1>5 DEF RangesInv, BuildReads, Resting, JudgedByWholeFiles, NoVerdict

\* What a bot is judged by is whole: every table is a file and a sidecar that
\* were on disk, or nothing, whatever is replaced while it is built
\* (bs_allow_load_ranges_with_sidecar, bs_allow_ranges_build).
THEOREM RangesInvariant == RangesSpec => []RangesInv
  <1>1. MatchInit /\ RangesInit => RangesInv
    BY RangesBegin
  <1>2. RangesInv /\ [\/ RangesNext /\ UNCHANGED matchVars
                      \/ MatchNext /\ UNCHANGED rangesVars]_<<matchVars, rangesVars>> => RangesInv'
    <2> SUFFICES ASSUME RangesInv, RangesNext \/ UNCHANGED rangesVars
                 PROVE  RangesInv'
      BY DEF rangesVars
    <2>1. CASE UNCHANGED rangesVars
      BY <2>1 DEF rangesVars, RangesInv, OnDisk, BuildReads, WholeTable, JudgedByWholeFiles, Listed
    <2> QED
      BY <2>1, BuildKeeps, JudgeKeeps, RewriteKeeps DEF RangesNext
  <1> QED
    BY <1>1, <1>2, PTL DEF RangesSpec

\* Nobody is called a fake, or verified, because of half a list
\* (classify_verified).
THEOREM BotJudgedByWholeFiles == RangesSpec => []JudgedByWholeFiles
  <1>1. RangesInv => JudgedByWholeFiles
    BY DEF RangesInv
  <1> QED
    BY <1>1, RangesInvariant, PTL
-----------------------------------------------------------------------------
(* The ends of a text. *)

TextEnds(x, s) == Len(x) <= Len(s) /\ \A i \in 1 .. Len(x) : x[i] = s[Len(s) - Len(x) + i]

\* Every text ends with nothing and with itself; an end of an end is an end.
LEMMA EndsBasics ==
    ASSUME NEW T, NEW s \in Seq(T)
    PROVE  /\ TextEnds(<<>>, s) /\ TextEnds(s, s)
           /\ \A x \in Seq(T) : TextEnds(x, s) /\ Len(x) = Len(s) => x = s
           /\ \A x, y \in Seq(T) : TextEnds(x, y) /\ TextEnds(y, s) => TextEnds(x, s)
  <1>0. Len(s) \in Nat /\ \A x \in Seq(T) : Len(x) \in Nat
    BY LenProperties
  <1>1. TextEnds(<<>>, s) /\ TextEnds(s, s)
    <2>1. Len(<<>>) = 0
      BY EmptySeq
    <2> QED
      BY <1>0, <2>1 DEF TextEnds
  <1>2. ASSUME NEW x \in Seq(T), TextEnds(x, s), Len(x) = Len(s) PROVE x = s
    <2>1. \A i \in 1 .. Len(x) : x[i] = s[i]
      BY <1>0, <1>2 DEF TextEnds
    <2> QED
      BY <1>2, <2>1, SeqEqual
  <1>3. ASSUME NEW x \in Seq(T), NEW y \in Seq(T), TextEnds(x, y), TextEnds(y, s) PROVE TextEnds(x, s)
    <2>1. Len(x) <= Len(s)
      BY <1>0, <1>3 DEF TextEnds
    <2>2. ASSUME NEW i \in 1 .. Len(x) PROVE x[i] = s[Len(s) - Len(x) + i]
      <3>1. x[i] = y[Len(y) - Len(x) + i]
        BY <1>3 DEF TextEnds
      <3>2. Len(y) - Len(x) + i \in 1 .. Len(y)
        BY <1>0, <1>3 DEF TextEnds
      <3>3. y[Len(y) - Len(x) + i] = s[Len(s) - Len(y) + (Len(y) - Len(x) + i)]
        BY <1>3, <3>2 DEF TextEnds
      <3>4. Len(s) - Len(y) + (Len(y) - Len(x) + i) = Len(s) - Len(x) + i
        BY <1>0
      <3> QED
        BY <3>1, <3>3, <3>4
    <2> QED
      BY <2>1, <2>2 DEF TextEnds
  <1> QED
    BY <1>1, <1>2, <1>3

\* Of two ends of a text the shorter one ends the longer one.
LEMMA EndsNested ==
    ASSUME NEW T, NEW s \in Seq(T), NEW x \in Seq(T), NEW y \in Seq(T),
           TextEnds(x, s), TextEnds(y, s), Len(x) <= Len(y)
    PROVE  TextEnds(x, y)
  <1>0. Len(s) \in Nat /\ Len(x) \in Nat /\ Len(y) \in Nat
    BY LenProperties
  <1>1. ASSUME NEW i \in 1 .. Len(x) PROVE x[i] = y[Len(y) - Len(x) + i]
    <2>1. x[i] = s[Len(s) - Len(x) + i]
      BY DEF TextEnds
    <2>2. Len(y) - Len(x) + i \in 1 .. Len(y)
      BY <1>0
    <2>3. y[Len(y) - Len(x) + i] = s[Len(s) - Len(y) + (Len(y) - Len(x) + i)]
      BY <2>2 DEF TextEnds
    <2>4. Len(s) - Len(y) + (Len(y) - Len(x) + i) = Len(s) - Len(x) + i
      BY <1>0
    <2> QED
      BY <2>1, <2>3, <2>4
  <1> QED
    BY <1>1 DEF TextEnds

\* A text that is not empty is its front and its last token.
LEMMA FrontAndLast ==
    ASSUME NEW T, NEW s \in Seq(T), s # <<>>
    PROVE  /\ Front(s) \in Seq(T) /\ Len(Front(s)) = Len(s) - 1 /\ Last(s) \in T
           /\ s = Append(Front(s), Last(s)) /\ Len(s) \in Nat \ {0}
  <1>0. Len(s) \in Nat \ {0}
    BY EmptySeq
  <1>1. \A i \in 1 .. Len(s) - 1 : s[i] \in T
    BY <1>0, ElementOfSeq
  <1>2. /\ Front(s) \in Seq(T) /\ Len(Front(s)) = Len(s) - 1
        /\ \A i \in 1 .. Len(s) - 1 : Front(s)[i] = s[i]
    <2>1. /\ SubSeq(s, 1, Len(s) - 1) \in Seq(T)
          /\ Len(SubSeq(s, 1, Len(s) - 1)) = IF 1 <= Len(s) - 1 THEN Len(s) - 1 - 1 + 1 ELSE 0
          /\ \A i \in 1 .. Len(s) - 1 - 1 + 1 : SubSeq(s, 1, Len(s) - 1)[i] = s[1 + i - 1]
      <3>1. 1 \in Int /\ Len(s) - 1 \in Int
        BY <1>0
      <3> QED
        BY <1>1, <3>1, SubSeqProperties
    <2>2. Len(s) - 1 - 1 + 1 = Len(s) - 1 /\ \A i \in 1 .. Len(s) - 1 : 1 + i - 1 = i
      BY <1>0
    <2>3. Len(s) = 1 \/ 1 <= Len(s) - 1
      <3>1. \A n \in Nat : n # 0 => n = 1 \/ 1 <= n - 1
        OBVIOUS
      <3>2. Len(s) \in Nat /\ Len(s) # 0
        BY <1>0
      <3> QED
        BY <3>1, <3>2
    <2>4. Front(s) = SubSeq(s, 1, Len(s) - 1)
      BY DEF Front
    <2>5. \A i \in 1 .. Len(s) - 1 : SubSeq(s, 1, Len(s) - 1)[i] = s[i]
      BY <2>1, <2>2
    <2>6. Len(SubSeq(s, 1, Len(s) - 1)) = Len(s) - 1
      BY <2>1, <2>2, <2>3
    <2> QED
      BY <2>1, <2>4, <2>5, <2>6
  <1>3. Last(s) \in T
    BY <1>0, ElementOfSeq DEF Last
  <1>4. /\ Append(Front(s), Last(s)) \in Seq(T) /\ Len(Append(Front(s), Last(s))) = Len(Front(s)) + 1
        /\ \A i \in 1 .. Len(Front(s)) : Append(Front(s), Last(s))[i] = Front(s)[i]
        /\ Append(Front(s), Last(s))[Len(Front(s)) + 1] = Last(s)
    BY <1>2, <1>3, AppendProperties
  <1>5. \A i \in 1 .. Len(s) : s[i] = Append(Front(s), Last(s))[i]
    <2> TAKE i \in 1 .. Len(s)
    <2>1. CASE i = Len(s)
      BY <1>0, <1>2, <1>4, <2>1 DEF Last
    <2>2. CASE i # Len(s)
      <3>1. i \in 1 .. Len(s) - 1
        BY <1>0, <2>2
      <3> QED
        BY <1>2, <1>4, <3>1
    <2> QED
      BY <2>1, <2>2
  <1>6. Len(s) = Len(Append(Front(s), Last(s)))
    BY <1>0, <1>2, <1>4
  <1>7. s = Append(Front(s), Last(s))
    BY <1>4, <1>5, <1>6, SeqEqual
  <1> QED
    BY <1>0, <1>2, <1>3, <1>7

\* One more token on both.
LEMMA EndsAppend ==
    ASSUME NEW T, NEW s \in Seq(T), NEW x \in Seq(T), NEW c \in T, NEW d \in T
    PROVE  TextEnds(Append(x, c), Append(s, d)) <=> c = d /\ TextEnds(x, s)
  <1>0. Len(s) \in Nat /\ Len(x) \in Nat
    BY LenProperties
  <1>1. /\ Len(Append(x, c)) = Len(x) + 1 /\ Append(x, c)[Len(x) + 1] = c
        /\ \A i \in 1 .. Len(x) : Append(x, c)[i] = x[i]
    BY AppendProperties
  <1>2. /\ Len(Append(s, d)) = Len(s) + 1 /\ Append(s, d)[Len(s) + 1] = d
        /\ \A i \in 1 .. Len(s) : Append(s, d)[i] = s[i]
    BY AppendProperties
  <1>3. ASSUME TextEnds(Append(x, c), Append(s, d)) PROVE c = d /\ TextEnds(x, s)
    <2>1. /\ Len(x) + 1 <= Len(s) + 1
          /\ \A i \in 1 .. Len(x) + 1 :
                 Append(x, c)[i] = Append(s, d)[(Len(s) + 1) - (Len(x) + 1) + i]
      BY <1>1, <1>2, <1>3 DEF TextEnds
    <2>2. c = d
      <3>1. Len(x) + 1 \in 1 .. Len(x) + 1
        BY <1>0
      <3>2. Append(x, c)[Len(x) + 1] = Append(s, d)[(Len(s) + 1) - (Len(x) + 1) + (Len(x) + 1)]
        BY <2>1, <3>1
      <3>3. (Len(s) + 1) - (Len(x) + 1) + (Len(x) + 1) = Len(s) + 1
        BY <1>0
      <3> QED
        BY <1>1, <1>2, <3>2, <3>3
    <2>3. ASSUME NEW i \in 1 .. Len(x) PROVE x[i] = s[Len(s) - Len(x) + i]
      <3>1. i \in 1 .. Len(x) + 1 /\ Len(s) - Len(x) + i \in 1 .. Len(s)
        BY <1>0, <2>1
      <3>2. Append(x, c)[i] = Append(s, d)[(Len(s) + 1) - (Len(x) + 1) + i]
        BY <2>1, <3>1
      <3>3. (Len(s) + 1) - (Len(x) + 1) + i = Len(s) - Len(x) + i
        BY <1>0
      <3> QED
        BY <1>1, <1>2, <3>1, <3>2, <3>3
    <2> QED
      BY <1>0, <2>1, <2>2, <2>3 DEF TextEnds
  <1>4. ASSUME c = d, TextEnds(x, s) PROVE TextEnds(Append(x, c), Append(s, d))
    <2>1. Len(x) + 1 <= Len(s) + 1
      BY <1>0, <1>4 DEF TextEnds
    <2>2. ASSUME NEW i \in 1 .. Len(x) + 1
          PROVE  Append(x, c)[i] = Append(s, d)[(Len(s) + 1) - (Len(x) + 1) + i]
      <3>1. CASE i = Len(x) + 1
        <4>1. (Len(s) + 1) - (Len(x) + 1) + i = Len(s) + 1
          BY <1>0, <3>1
        <4> QED
          BY <1>1, <1>2, <1>4, <3>1, <4>1
      <3>2. CASE i # Len(x) + 1
        <4>1. i \in 1 .. Len(x) /\ Len(s) - Len(x) + i \in 1 .. Len(s)
          BY <1>0, <2>1, <3>2
        <4>2. (Len(s) + 1) - (Len(x) + 1) + i = Len(s) - Len(x) + i
          BY <1>0
        <4>3. x[i] = s[Len(s) - Len(x) + i]
          BY <1>4, <4>1 DEF TextEnds
        <4> QED
          BY <1>1, <1>2, <4>1, <4>2, <4>3
      <3> QED
        BY <3>1, <3>2
    <2> QED
      BY <1>1, <1>2, <2>1, <2>2 DEF TextEnds
  <1> QED
    BY <1>3, <1>4

\* What ends a text and is not the whole of it ends it without its first token.
LEMMA EndsTail ==
    ASSUME NEW T, NEW s \in Seq(T), s # <<>>
    PROVE  /\ Tail(s) \in Seq(T) /\ Len(Tail(s)) = Len(s) - 1 /\ TextEnds(Tail(s), s)
           /\ \A x \in Seq(T) : TextEnds(x, s) /\ Len(x) < Len(s) => TextEnds(x, Tail(s))
           /\ \A x \in Seq(T) : TextEnds(x, Tail(s)) => TextEnds(x, s) /\ Len(x) < Len(s)
  <1>0. Len(s) \in Nat \ {0} /\ \A x \in Seq(T) : Len(x) \in Nat
    BY EmptySeq, LenProperties
  <1>1. /\ Tail(s) \in Seq(T) /\ Len(Tail(s)) = Len(s) - 1
        /\ \A i \in 1 .. Len(s) - 1 : Tail(s)[i] = s[i + 1]
    BY HeadTailProperties
  <1>2. TextEnds(Tail(s), s)
    <2>1. \A i \in 1 .. Len(s) - 1 : Len(s) - (Len(s) - 1) + i = i + 1
      BY <1>0
    <2> QED
      BY <1>0, <1>1, <2>1 DEF TextEnds
  <1>3. ASSUME NEW x \in Seq(T), TextEnds(x, s), Len(x) < Len(s) PROVE TextEnds(x, Tail(s))
    <2>1. Len(x) <= Len(Tail(s))
      BY <1>0, <1>1, <1>3
    <2> QED
      BY <1>1, <1>2, <1>3, <2>1, EndsNested
  <1>4. ASSUME NEW x \in Seq(T), TextEnds(x, Tail(s)) PROVE TextEnds(x, s) /\ Len(x) < Len(s)
    <2>1. TextEnds(x, s)
      BY <1>1, <1>2, <1>4, EndsBasics
    <2>2. Len(x) <= Len(Tail(s))
      BY <1>4 DEF TextEnds
    <2> QED
      BY <1>0, <1>1, <2>1, <2>2
  <1> QED
    BY <1>1, <1>2, <1>3, <1>4

\* The ends of a text but for its first token, with one more token.
LEMMA TailOfAppend ==
    ASSUME NEW T, NEW s \in Seq(T), s # <<>>, NEW c
    PROVE  Append(Tail(s), c) = Tail(Append(s, c))
  BY HeadTailAppend
-----------------------------------------------------------------------------
(* The automaton of the directory. *)

\* A set of texts with the beginnings of each, none longer than N.
IsTrie(nodes, T, N) ==
    /\ N \in Nat /\ nodes \in SUBSET Seq(T) /\ <<>> \in nodes
    /\ \A m \in nodes : Len(m) \in 0 .. N
    /\ \A x \in Seq(T), c \in T : Append(x, c) \in nodes => x \in nodes

\* What is reached by the patterns is one (bs_known_bots_build_ac).
LEMMA NodesAreTrie ==
    ASSUME NEW T, NEW ps \in Seq(Seq(T))
    PROVE  \E N \in Nat : IsTrie(Nodes(ps), T, N) /\ \A i \in DOMAIN ps : ps[i] \in Nodes(ps)
  <1>0. Len(ps) \in Nat /\ DOMAIN ps = 1 .. Len(ps) /\ \A i \in 1 .. Len(ps) : ps[i] \in Seq(T)
    BY LenProperties, ElementOfSeq
  <1> DEFINE Bounded(n) == \E N \in Nat : \A i \in 1 .. n : Len(ps[i]) <= N
             S == {n \in 0 .. Len(ps) : Bounded(n)}
  <1>1. 0 \in S
    <2>1. Bounded(0)
      OBVIOUS
    <2> QED
      BY <1>0, <2>1
  <1>2. ASSUME NEW n \in 0 .. Len(ps), n + 1 \in 0 .. Len(ps), n \in S PROVE n + 1 \in S
    <2>1. PICK N \in Nat : \A i \in 1 .. n : Len(ps[i]) <= N
      BY <1>2
    <2>2. n + 1 \in 1 .. Len(ps)
      BY <1>0, <1>2
    <2>3. Len(ps[n + 1]) \in Nat
      BY <1>0, <2>2, LenProperties
    <2>4. \A i \in 1 .. n : Len(ps[i]) \in Nat
      <3> TAKE i \in 1 .. n
      <3>1. i \in 1 .. Len(ps)
        BY <1>0, <1>2
      <3> QED
        BY <1>0, <3>1, LenProperties
    <2>5. \A i \in 1 .. n + 1 : Len(ps[i]) <= N + Len(ps[n + 1])
      <3> TAKE i \in 1 .. n + 1
      <3>1. CASE i = n + 1
        BY <2>3, <3>1
      <3>2. CASE i # n + 1
        <4>1. i \in 1 .. n
          BY <1>0, <1>2, <3>2
        <4> QED
          BY <2>1, <2>3, <2>4, <4>1
      <3> QED
        BY <3>1, <3>2
    <2>6. N + Len(ps[n + 1]) \in Nat
      BY <2>3
    <2>7. Bounded(n + 1)
      BY <2>5, <2>6
    <2> QED
      BY <1>2, <2>7
  <1>3. Len(ps) \in S
    <2> HIDE DEF S
    <2>1. 0 .. Len(ps) \subseteq S
      BY <1>0, <1>1, <1>2, RangeInduction
    <2> QED
      BY <1>0, <2>1
  <1>4. PICK N \in Nat : \A i \in 1 .. Len(ps) : Len(ps[i]) <= N
    BY <1>3
  <1>5. ASSUME NEW i \in 1 .. Len(ps), NEW l \in 0 .. Len(ps[i])
        PROVE  /\ SubSeq(ps[i], 1, l) \in Seq(T) /\ Len(SubSeq(ps[i], 1, l)) = l
               /\ \A j \in 1 .. l : SubSeq(ps[i], 1, l)[j] = ps[i][j]
    <2>1. ps[i] \in Seq(T) /\ Len(ps[i]) \in Nat
      BY <1>0, LenProperties
    <2>2. \A j \in 1 .. l : ps[i][j] \in T
      BY <2>1, ElementOfSeq
    <2>3. /\ SubSeq(ps[i], 1, l) \in Seq(T)
          /\ Len(SubSeq(ps[i], 1, l)) = IF 1 <= l THEN l - 1 + 1 ELSE 0
          /\ \A j \in 1 .. l - 1 + 1 : SubSeq(ps[i], 1, l)[j] = ps[i][1 + j - 1]
      <3>1. 1 \in Int /\ l \in Int
        BY <2>1
      <3> QED
        BY <2>2, <3>1, SubSeqProperties
    <2>4. l - 1 + 1 = l /\ (~(1 <= l) => l = 0) /\ \A j \in 1 .. l : 1 + j - 1 = j
      BY <2>1
    <2> QED
      BY <2>3, <2>4
  <1>6. \A m \in Nodes(ps) : m = <<>> \/ \E i \in 1 .. Len(ps) : \E l \in 0 .. Len(ps[i]) : m = SubSeq(ps[i], 1, l)
    BY <1>0 DEF Nodes, Prefixes
  <1>7. ASSUME NEW i \in 1 .. Len(ps), NEW l \in 0 .. Len(ps[i]) PROVE SubSeq(ps[i], 1, l) \in Nodes(ps)
    <2>1. SubSeq(ps[i], 1, l) \in Prefixes(ps[i])
      BY DEF Prefixes
    <2>2. i \in DOMAIN ps
      BY <1>0
    <2> QED
      BY <2>1, <2>2 DEF Nodes
  <1>8. <<>> \in Nodes(ps) /\ <<>> \in Seq(T) /\ Len(<<>>) = 0
    BY EmptySeq DEF Nodes
  <1>9. ASSUME NEW m \in Nodes(ps) PROVE m \in Seq(T) /\ Len(m) \in 0 .. N
    <2>1. CASE m = <<>>
      BY <1>8, <2>1
    <2>2. CASE m # <<>>
      <3>1. PICK i \in 1 .. Len(ps) : \E l \in 0 .. Len(ps[i]) : m = SubSeq(ps[i], 1, l)
        BY <1>6, <2>2
      <3>2. PICK l \in 0 .. Len(ps[i]) : m = SubSeq(ps[i], 1, l)
        BY <3>1
      <3>3. Len(ps[i]) \in Nat /\ Len(ps[i]) <= N
        BY <1>0, <1>4, LenProperties
      <3> QED
        BY <1>5, <3>2, <3>3
    <2> QED
      BY <2>1, <2>2
  <1>10. ASSUME NEW x \in Seq(T), NEW c \in T, Append(x, c) \in Nodes(ps) PROVE x \in Nodes(ps)
    <2>1. Append(x, c) # <<>> /\ Len(Append(x, c)) = Len(x) + 1 /\ Len(x) \in Nat
          /\ \A j \in 1 .. Len(x) : Append(x, c)[j] = x[j]
      BY AppendProperties, LenProperties
    <2>2. PICK i \in 1 .. Len(ps) : \E l \in 0 .. Len(ps[i]) : Append(x, c) = SubSeq(ps[i], 1, l)
      BY <1>6, <1>10, <2>1
    <2>3. PICK l \in 0 .. Len(ps[i]) : Append(x, c) = SubSeq(ps[i], 1, l)
      BY <2>2
    <2>4. Len(ps[i]) \in Nat
      BY <1>0, LenProperties
    <2>5. l = Len(x) + 1
      BY <1>5, <2>1, <2>3
    <2>6. Len(x) \in 0 .. Len(ps[i])
      BY <2>1, <2>4, <2>5
    <2>7. /\ SubSeq(ps[i], 1, Len(x)) \in Seq(T) /\ Len(SubSeq(ps[i], 1, Len(x))) = Len(x)
          /\ \A j \in 1 .. Len(x) : SubSeq(ps[i], 1, Len(x))[j] = ps[i][j]
      BY <1>5, <2>6
    <2>8. \A j \in 1 .. Len(x) : x[j] = ps[i][j]
      <3> TAKE j \in 1 .. Len(x)
      <3>1. j \in 1 .. l
        BY <2>1, <2>5
      <3>2. SubSeq(ps[i], 1, l)[j] = ps[i][j]
        BY <1>5, <3>1
      <3> QED
        BY <2>1, <2>3, <3>2
    <2>9. x = SubSeq(ps[i], 1, Len(x))
      BY <2>7, <2>8, SeqEqual
    <2> QED
      BY <1>7, <2>6, <2>9
  <1>11. ASSUME NEW i \in DOMAIN ps PROVE ps[i] \in Nodes(ps)
    <2>1. i \in 1 .. Len(ps) /\ Len(ps[i]) \in Nat
      BY <1>0, LenProperties
    <2>2. SubSeq(ps[i], 1, Len(ps[i])) = ps[i]
      BY <1>0, <2>1, SubSeqFull
    <2>3. Len(ps[i]) \in 0 .. Len(ps[i])
      BY <2>1
    <2> QED
      BY <1>7, <2>1, <2>2, <2>3
  <1> QED
    BY <1>8, <1>9, <1>10, <1>11 DEF IsTrie

\* Links that lead to shorter texts.
Shortens(nodes, f) ==
    f \in [nodes -> nodes] /\ \A m \in nodes : m # <<>> => Len(f[m]) < Len(m)

Stops(nodes, m, token) == m = <<>> \/ Append(m, token) \in nodes

\* FallBack is what its recursion says.
LEMMA FallBackEquation ==
    ASSUME NEW T, NEW N, NEW nodes, IsTrie(nodes, T, N), NEW f, Shortens(nodes, f), NEW token
    PROVE  \A m \in nodes :
             /\ FallBack(nodes, f, m, token) \in nodes /\ Len(FallBack(nodes, f, m, token)) <= Len(m)
             /\ FallBack(nodes, f, m, token) =
                  IF Stops(nodes, m, token) THEN m ELSE FallBack(nodes, f, f[m], token)
  <1> DEFINE Rec(b) == b = [m \in nodes |->
                 IF m = <<>> \/ Append(m, token) \in nodes THEN m ELSE b[f[m]]]
             c == CHOOSE b : Rec(b)
             stop == {m \in nodes : Stops(nodes, m, token)}
             val == [m \in nodes |-> m]
             size == [m \in nodes |-> Len(m)]
  <1>1. Nearer(nodes, size, stop, f, N)
    <2>1. size \in [nodes -> 0 .. N]
      BY DEF IsTrie
    <2> QED
      BY <2>1 DEF Nearer, Shortens, Stops
  <1>2. PICK g \in [nodes -> nodes] : ChainEquation(g, nodes, stop, val, f)
    <2>1. val \in [nodes -> nodes] /\ N \in Nat
      BY DEF IsTrie
    <2> HIDE DEF stop, val, size
    <2> QED
      BY <1>1, <2>1, ChainRecursion
  <1>3. Rec(g)
    <2>1. \A m \in nodes : g[m] = IF m = <<>> \/ Append(m, token) \in nodes THEN m ELSE g[f[m]]
      BY <1>2 DEF ChainEquation, Stops
    <2>2. g = [m \in nodes |-> g[m]]
      BY <1>2
    <2> QED
      BY <2>1, <2>2
  <1>4. Rec(c)
    <2> HIDE DEF Rec
    <2> QED
      BY <1>3
  <1>5. \A m : FallBack(nodes, f, m, token) = c[m]
    BY DEF FallBack
  <1>6. \A m \in nodes : c[m] = IF Stops(nodes, m, token) THEN m ELSE c[f[m]]
    <2> HIDE DEF c
    <2> QED
      BY <1>4 DEF Stops
  <1> DEFINE P(m) == c[m] \in nodes /\ Len(c[m]) <= Len(m)
             S == {n \in 0 .. N : \A m \in nodes : Len(m) <= n => P(m)}
  <1> HIDE DEF Rec, c, stop, val, size
  <1>0. N \in Nat /\ \A m \in nodes : Len(m) \in 0 .. N
    BY DEF IsTrie
  <1>7. 0 \in S
    <2>1. ASSUME NEW m \in nodes, Len(m) <= 0 PROVE P(m)
      <3>1. Stops(nodes, m, token)
        <4>1. m # <<>> => Len(f[m]) < Len(m) /\ f[m] \in nodes
          BY DEF Shortens
        <4>2. f[m] \in nodes => Len(f[m]) \in 0 .. N
          BY <1>0
        <4> QED
          BY <1>0, <2>1, <4>1, <4>2 DEF Stops
      <3> QED
        BY <1>0, <1>6, <3>1
    <2> QED
      BY <1>0, <2>1
  <1>8. ASSUME NEW n \in 0 .. N, n + 1 \in 0 .. N, n \in S PROVE n + 1 \in S
    <2>1. ASSUME NEW m \in nodes, Len(m) <= n + 1 PROVE P(m)
      <3>1. CASE Stops(nodes, m, token)
        BY <1>0, <1>6, <3>1
      <3>2. CASE ~ Stops(nodes, m, token)
        <4>1. Len(f[m]) < Len(m) /\ f[m] \in nodes
          BY <3>2 DEF Shortens, Stops
        <4>2. Len(f[m]) <= n
          BY <1>0, <2>1, <4>1
        <4>3. P(f[m])
          BY <1>8, <4>1, <4>2
        <4>4. Len(c[f[m]]) <= Len(m)
          BY <1>0, <4>1, <4>3
        <4> QED
          BY <1>6, <3>2, <4>3, <4>4
      <3> QED
        BY <3>1, <3>2
    <2> QED
      BY <1>8, <2>1
  <1>9. N \in S
    <2> HIDE DEF S
    <2>1. 0 .. N \subseteq S
      BY <1>0, <1>7, <1>8, RangeInduction
    <2> QED
      BY <1>0, <2>1
  <1>10. \A m \in nodes : c[m] \in nodes /\ Len(c[m]) <= Len(m)
    BY <1>0, <1>9
  <1> QED
    BY <1>5, <1>6, <1>10

\* The longest of the nodes that end a text.
LongestEnd(nodes, s, x) == x \in nodes /\ TextEnds(x, s) /\ \A y \in nodes : TextEnds(y, s) => Len(y) <= Len(x)

\* The links of the nodes up to a length are the longest ends.
Linked(nodes, f, k) ==
    \A m \in nodes : m # <<>> /\ Len(m) <= k => LongestEnd(nodes, Tail(m), f[m])

\* FallBack finds the longest end of a node that goes on with the token.
LEMMA FallBackLongest ==
    ASSUME NEW T, NEW N, NEW nodes, IsTrie(nodes, T, N), NEW f, Shortens(nodes, f),
           NEW k \in 0 .. N, Linked(nodes, f, k), NEW token
    PROVE  \A m \in nodes : Len(m) <= k =>
             LET x == FallBack(nodes, f, m, token)
             IN  /\ x \in nodes /\ TextEnds(x, m) /\ Stops(nodes, x, token)
                 /\ \A y \in nodes : TextEnds(y, m) /\ Append(y, token) \in nodes => Len(y) <= Len(x)
  <1>0. /\ N \in Nat /\ k \in Nat /\ \A m \in nodes : Len(m) \in 0 .. N /\ m \in Seq(T)
        /\ <<>> \in nodes /\ \A m \in nodes : m # <<>> => Len(m) # 0
    BY EmptySeq DEF IsTrie
  <1> DEFINE F(m) == FallBack(nodes, f, m, token)
             Good(m) == /\ TextEnds(F(m), m) /\ Stops(nodes, F(m), token)
                        /\ \A y \in nodes : TextEnds(y, m) /\ Append(y, token) \in nodes => Len(y) <= Len(F(m))
             S == {n \in 0 .. k : \A m \in nodes : Len(m) <= n => Good(m)}
  <1>1. \A m \in nodes : F(m) \in nodes /\ F(m) = IF Stops(nodes, m, token) THEN m ELSE F(f[m])
    BY FallBackEquation
  <1> HIDE DEF F
  <1>2. ASSUME NEW m \in nodes, Stops(nodes, m, token) PROVE Good(m)
    <2>1. F(m) = m
      BY <1>1, <1>2
    <2>2. TextEnds(m, m)
      BY <1>0, EndsBasics
    <2> QED
      BY <1>2, <2>1, <2>2 DEF TextEnds
  <1>3. 0 \in S
    <2>1. ASSUME NEW m \in nodes, Len(m) <= 0 PROVE Good(m)
      <3>1. Len(m) = 0
        BY <1>0, <2>1
      <3> QED
        BY <1>0, <1>2, <3>1 DEF Stops
    <2>2. 0 \in 0 .. k
      BY <1>0
    <2> HIDE DEF Good
    <2> QED
      BY <2>1, <2>2
  <1>4. ASSUME NEW n \in 0 .. k, n + 1 \in 0 .. k, n \in S PROVE n + 1 \in S
    <2>1. ASSUME NEW m \in nodes, Len(m) <= n + 1, ~ Stops(nodes, m, token) PROVE Good(m)
      <3>1. m # <<>> /\ Append(m, token) \notin nodes
        BY <2>1 DEF Stops
      <3>2. f[m] \in nodes /\ Len(f[m]) < Len(m)
        BY <3>1 DEF Shortens
      <3>3. Len(f[m]) <= n
        BY <1>0, <2>1, <3>2
      <3>4. Good(f[m])
        <4> HIDE DEF Good
        <4> QED
          BY <1>4, <3>2, <3>3
      <3>5. F(m) = F(f[m])
        BY <1>1, <2>1
      <3>6. LongestEnd(nodes, Tail(m), f[m])
        <4>1. Len(m) <= k
          BY <1>0, <1>4, <2>1
        <4> QED
          BY <3>1, <4>1 DEF Linked
      <3>7. /\ Tail(m) \in Seq(T)
            /\ \A x \in Seq(T) : TextEnds(x, m) /\ Len(x) < Len(m) => TextEnds(x, Tail(m))
            /\ \A x \in Seq(T) : TextEnds(x, Tail(m)) => TextEnds(x, m) /\ Len(x) < Len(m)
        BY <1>0, <3>1, EndsTail
      <3>8. TextEnds(f[m], m)
        BY <1>0, <3>2, <3>6, <3>7 DEF LongestEnd
      <3>9. TextEnds(F(m), m)
        <4>1. F(m) \in Seq(T) /\ TextEnds(F(m), f[m])
          BY <1>0, <1>1, <3>4, <3>5
        <4> QED
          BY <1>0, <3>2, <3>8, <4>1, EndsBasics
      <3>10. ASSUME NEW y \in nodes, TextEnds(y, m), Append(y, token) \in nodes PROVE Len(y) <= Len(F(m))
        <4>1. Len(y) < Len(m)
          <5>1. Len(y) # Len(m)
            BY <1>0, <3>1, <3>10, EndsBasics
          <5>2. Len(y) <= Len(m)
            BY <3>10 DEF TextEnds
          <5> QED
            BY <1>0, <5>1, <5>2
        <4>2. TextEnds(y, Tail(m)) /\ y \in Seq(T)
          BY <1>0, <3>7, <3>10, <4>1
        <4>3. Len(y) <= Len(f[m]) /\ TextEnds(f[m], Tail(m)) /\ f[m] \in Seq(T)
          BY <1>0, <3>2, <3>6, <4>2 DEF LongestEnd
        <4>4. TextEnds(y, f[m])
          BY <3>7, <4>2, <4>3, EndsNested
        <4> QED
          BY <3>4, <3>5, <3>10, <4>4
      <3> QED
        BY <3>4, <3>5, <3>9, <3>10
    <2> HIDE DEF Good
    <2> QED
      BY <1>2, <1>4, <2>1
  <1>5. k \in S
    <2> HIDE DEF S
    <2>1. 0 .. k \subseteq S
      BY <1>0, <1>3, <1>4, RangeInduction
    <2> QED
      BY <1>0, <2>1
  <1>6. ASSUME NEW m \in nodes, Len(m) <= k PROVE F(m) \in nodes /\ Good(m)
    <2> HIDE DEF Good
    <2> QED
      BY <1>1, <1>5, <1>6
  <1> QED
    BY <1>6 DEF F

\* And Goto keeps track of the longest end that is a node.
LEMMA GotoLongest ==
    ASSUME NEW T, NEW N, NEW nodes, IsTrie(nodes, T, N), NEW f, Shortens(nodes, f),
           NEW k \in 0 .. N, Linked(nodes, f, k), NEW token \in T,
           NEW s \in Seq(T), NEW m \in nodes, Len(m) <= k, LongestEnd(nodes, s, m)
    PROVE  LongestEnd(nodes, Append(s, token), Goto(nodes, f, m, token))
  <1> DEFINE x == FallBack(nodes, f, m, token)
             to == Goto(nodes, f, m, token)
  <1>0. /\ \A y \in nodes : Len(y) \in 0 .. N /\ y \in Seq(T)
        /\ <<>> \in nodes /\ N \in Nat
    BY DEF IsTrie
  <1>1. /\ x \in nodes /\ TextEnds(x, m) /\ Stops(nodes, x, token)
        /\ \A y \in nodes : TextEnds(y, m) /\ Append(y, token) \in nodes => Len(y) <= Len(x)
    BY FallBackLongest
  <1>2. to = IF Append(x, token) \in nodes THEN Append(x, token) ELSE x
    BY DEF Goto
  <1> HIDE DEF x, to
  <1>3. x \in Seq(T) /\ m \in Seq(T) /\ Len(x) \in Nat /\ Append(s, token) \in Seq(T)
    BY <1>0, <1>1, AppendProperties
  <1>4. TextEnds(x, s)
    BY <1>1, <1>3, EndsBasics DEF LongestEnd
  <1>5. ASSUME NEW y \in nodes, TextEnds(y, Append(s, token)), y # <<>>
        PROVE  Append(x, token) \in nodes /\ Len(y) <= Len(Append(x, token))
    <2>1. /\ Front(y) \in Seq(T) /\ Last(y) \in T /\ y = Append(Front(y), Last(y))
          /\ Len(Front(y)) = Len(y) - 1
      BY <1>0, <1>5, FrontAndLast
    <2>2. Last(y) = token /\ TextEnds(Front(y), s)
      <3>1. TextEnds(Append(Front(y), Last(y)), Append(s, token))
        BY <1>5, <2>1
      <3> QED
        BY <2>1, <3>1, EndsAppend
    <2>3. Front(y) \in nodes
      <3>1. Append(Front(y), Last(y)) \in nodes /\ Front(y) \in Seq(T) /\ Last(y) \in T
        BY <2>1
      <3> HIDE DEF IsTrie
      <3>2. \A p \in Seq(T), t \in T : Append(p, t) \in nodes => p \in nodes
        BY DEF IsTrie
      <3> QED
        BY <3>1, <3>2
    <2>4. TextEnds(Front(y), m)
      <3>1. Len(Front(y)) <= Len(m) /\ TextEnds(m, s)
        BY <2>2, <2>3 DEF LongestEnd
      <3> QED
        BY <1>3, <2>1, <2>2, <3>1, EndsNested
    <2>5. Append(Front(y), token) \in nodes
      BY <2>1, <2>2
    <2>6. Len(Front(y)) <= Len(x)
      BY <1>1, <2>3, <2>4, <2>5
    <2>7. Append(x, token) \in nodes
      <3>1. CASE x = <<>>
        <4>1. Len(x) = 0 /\ Len(Front(y)) \in Nat
          BY <2>1, <3>1, EmptySeq, LenProperties
        <4>2. Len(Front(y)) = Len(x)
          BY <2>6, <4>1
        <4>3. Front(y) = <<>>
          BY <2>1, <4>1, <4>2, EmptySeq
        <4> QED
          BY <2>5, <3>1, <4>3
      <3>2. CASE x # <<>>
        BY <1>1, <3>2 DEF Stops
      <3> QED
        BY <3>1, <3>2
    <2>8. Len(Append(x, token)) = Len(x) + 1
      BY <1>3, AppendProperties
    <2> QED
      BY <1>0, <1>3, <2>1, <2>6, <2>7, <2>8
  <1>6. CASE Append(x, token) \in nodes
    <2>1. TextEnds(Append(x, token), Append(s, token))
      BY <1>3, <1>4, EndsAppend
    <2>2. ASSUME NEW y \in nodes, TextEnds(y, Append(s, token)) PROVE Len(y) <= Len(Append(x, token))
      <3>1. CASE y = <<>>
        BY <1>0, <1>6, <3>1, EmptySeq
      <3>2. CASE y # <<>>
        BY <1>5, <2>2, <3>2
      <3> QED
        BY <3>1, <3>2
    <2> QED
      BY <1>2, <1>6, <2>1, <2>2 DEF LongestEnd, to
  <1>7. CASE Append(x, token) \notin nodes
    <2>1. x = <<>>
      BY <1>1, <1>7 DEF Stops
    <2>2. TextEnds(x, Append(s, token))
      BY <1>3, <2>1, EndsBasics
    <2>3. \A y \in nodes : TextEnds(y, Append(s, token)) => y = <<>>
      BY <1>5, <1>7
    <2>4. \A y \in nodes : TextEnds(y, Append(s, token)) => Len(y) <= Len(x)
      BY <1>3, <2>1, <2>3
    <2> QED
      BY <1>1, <1>2, <1>7, <2>2, <2>4 DEF LongestEnd, to
  <1> QED
    BY <1>6, <1>7

\* One token never makes a node longer by more than one.
LEMMA GotoShort ==
    ASSUME NEW T, NEW N, NEW nodes, IsTrie(nodes, T, N), NEW f, Shortens(nodes, f),
           NEW token \in T, NEW m \in nodes
    PROVE  Goto(nodes, f, m, token) \in nodes /\ Len(Goto(nodes, f, m, token)) <= Len(m) + 1
  <1> DEFINE x == FallBack(nodes, f, m, token)
  <1>1. x \in nodes /\ Len(x) <= Len(m)
    BY FallBackEquation
  <1>2. Goto(nodes, f, m, token) = IF Append(x, token) \in nodes THEN Append(x, token) ELSE x
    BY DEF Goto
  <1> HIDE DEF x
  <1>3. x \in Seq(T) /\ Len(x) \in Nat /\ Len(m) \in Nat
    BY <1>1 DEF IsTrie
  <1>4. Len(Append(x, token)) = Len(x) + 1
    BY <1>3, AppendProperties
  <1> QED
    BY <1>1, <1>2, <1>3, <1>4

\* The largest and the smallest member of a set of numbers.
LEMMA MaxMember ==
    ASSUME NEW N \in Nat, NEW S \in SUBSET (0 .. N), S # {}
    PROVE  Max(S) \in S /\ \A y \in S : y <= Max(S)
  <1>1. \E x \in S : \A y \in S : y <= x
    BY GreatestExists
  <1>2. \E x \in S : \A y \in S : x >= y
    <2>1. PICK x \in S : \A y \in S : y <= x
      BY <1>1
    <2> QED
      BY <2>1
  <1>3. Max(S) \in S /\ \A y \in S : Max(S) >= y
    BY <1>2 DEF Max
  <1> QED
    BY <1>3

LEMMA MinMember ==
    ASSUME NEW N \in Nat, NEW S \in SUBSET (0 .. N), S # {}
    PROVE  Min(S) \in S /\ \A y \in S : Min(S) <= y
  <1>1. \E x \in S : \A y \in S : x <= y
    BY LeastExists
  <1> QED
    BY <1>1 DEF Min

\* The links made breadth first are the longest ends.
THEOREM MatcherLinks ==
    ASSUME NEW T, NEW ps, NEW N, IsTrie(Nodes(ps), T, N)
    PROVE  Shortens(Nodes(ps), Failures(ps)) /\ Linked(Nodes(ps), Failures(ps), N)
  <1> DEFINE nodes == Nodes(ps)
             L == Max({Len(node) : node \in nodes})
             Next(n, f) == [node \in nodes |->
                 IF n > 1 /\ Len(node) = n THEN Goto(nodes, f, f[Front(node)], Last(node)) ELSE f[node]]
             base == [node \in nodes |-> <<>>]
             Rec(l) == l = [n \in 0 .. L |-> IF n = 0 THEN base ELSE Next(n, l[n - 1])]
             c == CHOOSE l : Rec(l)
             D == {f \in [nodes -> nodes] : Shortens(nodes, f)}
             step == [n \in 1 .. L |-> [f \in D |-> Next(n, f)]]
  <1>1. Failures(ps) = c[L]
    BY DEF Failures
  <1>2. IsTrie(nodes, T, N)
    OBVIOUS
  <1> HIDE DEF nodes
  <1>0. /\ \A m \in nodes : Len(m) \in 0 .. N /\ m \in Seq(T)
        /\ <<>> \in nodes /\ N \in Nat /\ Len(<<>>) = 0
    BY <1>2, EmptySeq DEF IsTrie
  <1>3. L \in 0 .. N /\ \A m \in nodes : Len(m) <= L
    <2> DEFINE sizes == {Len(node) : node \in nodes}
    <2>1. sizes \in SUBSET (0 .. N) /\ sizes # {}
      BY <1>0
    <2>2. Max(sizes) \in sizes /\ \A y \in sizes : y <= Max(sizes)
      <3> HIDE DEF sizes
      <3> QED
        BY <1>0, <2>1, MaxMember
    <2> QED
      BY <2>1, <2>2
  <1> HIDE DEF L
  <1>4. ASSUME NEW node \in nodes, Len(node) > 1
        PROVE  /\ Front(node) \in nodes /\ Front(node) # <<>> /\ Last(node) \in T
               /\ Len(Front(node)) = Len(node) - 1 /\ node = Append(Front(node), Last(node))
    <2>1. node # <<>> /\ node \in Seq(T)
      BY <1>0, <1>4
    <2>2. /\ Front(node) \in Seq(T) /\ Len(Front(node)) = Len(node) - 1 /\ Last(node) \in T
          /\ node = Append(Front(node), Last(node))
      BY <2>1, FrontAndLast
    <2>3. Front(node) \in nodes
      <3>1. Append(Front(node), Last(node)) \in nodes
        BY <2>2
      <3> QED
        BY <1>2, <2>2, <3>1 DEF IsTrie
    <2>4. Len(Front(node)) # 0
      BY <1>0, <1>4, <2>2
    <2> QED
      BY <1>0, <2>2, <2>3, <2>4
  <1>5. ASSUME NEW n \in 1 .. L, NEW f \in D PROVE Next(n, f) \in D
    <2>1. f \in [nodes -> nodes] /\ Shortens(nodes, f)
      BY <1>5
    <2>2. ASSUME NEW node \in nodes
          PROVE  Next(n, f)[node] \in nodes /\ (node # <<>> => Len(Next(n, f)[node]) < Len(node))
      <3>1. CASE n > 1 /\ Len(node) = n
        <4>1. Front(node) \in nodes /\ Front(node) # <<>> /\ Last(node) \in T
              /\ Len(Front(node)) = Len(node) - 1
          BY <1>4, <3>1
        <4>2. f[Front(node)] \in nodes /\ Len(f[Front(node)]) < Len(Front(node))
          BY <2>1, <4>1 DEF Shortens
        <4> DEFINE to == Goto(nodes, f, f[Front(node)], Last(node))
        <4>3. to \in nodes /\ Len(to) <= Len(f[Front(node)]) + 1
          BY <1>2, <2>1, <4>1, <4>2, GotoShort
        <4>4. Next(n, f)[node] = to
          BY <3>1
        <4> HIDE DEF to, Next
        <4>5. Len(to) < Len(node)
          BY <1>0, <4>1, <4>2, <4>3
        <4> QED
          BY <4>3, <4>4, <4>5
      <3>2. CASE ~ (n > 1 /\ Len(node) = n)
        <4>1. Next(n, f)[node] = f[node]
          BY <3>2
        <4> HIDE DEF Next
        <4> QED
          BY <2>1, <4>1 DEF Shortens
      <3> QED
        BY <3>1, <3>2
    <2>3. Next(n, f) = [node \in nodes |-> Next(n, f)[node]]
      OBVIOUS
    <2> HIDE DEF Next
    <2>4. Next(n, f) \in [nodes -> nodes]
      BY <2>2, <2>3
    <2> QED
      BY <2>2, <2>4 DEF Shortens
  <1>6. base \in D
    <2>1. \A m \in nodes : m # <<>> => Len(<<>>) < Len(m)
      <3> TAKE m \in nodes
      <3>1. m \in Seq(T)
        BY <1>0
      <3>2. m # <<>> => Len(m) \in Nat \ {0}
        BY <3>1, EmptySeq
      <3> QED
        BY <1>0, <3>2
    <2> QED
      BY <1>0, <2>1 DEF Shortens
  <1> HIDE DEF D, base, Next
  <1>7. step \in [1 .. L -> [D -> D]]
    BY <1>5
  <1>8. PICK g : StepsThrough(g, L, D, base, step)
    <2>1. L \in Nat
      BY <1>3
    <2> HIDE DEF step
    <2> QED
      BY <1>6, <1>7, <2>1, RangeRecursion
  <1>9. Rec(g)
    <2>1. ASSUME NEW n \in 0 .. L PROVE g[n] = IF n = 0 THEN base ELSE Next(n, g[n - 1])
      <3>1. CASE n = 0
        BY <1>8, <3>1 DEF StepsThrough
      <3>2. CASE n # 0
        <4>1. n \in 1 .. L /\ n - 1 \in 0 .. L
          BY <1>3, <3>2
        <4>2. g[n] = step[n][g[n - 1]] /\ g[n - 1] \in D
          BY <1>8, <4>1 DEF StepsThrough
        <4> QED
          BY <3>2, <4>1, <4>2
      <3> QED
        BY <3>1, <3>2
    <2>2. g = [n \in 0 .. L |-> g[n]]
      BY <1>8 DEF StepsThrough
    <2> QED
      BY <2>1, <2>2
  <1>10. Rec(c)
    <2> HIDE DEF Rec
    <2> QED
      BY <1>9
  <1>11. c[0] = base /\ \A n \in 1 .. L : c[n] = Next(n, c[n - 1])
    <2> HIDE DEF c
    <2>1. c[0] = base
      BY <1>3, <1>10
    <2>2. \A n \in 1 .. L : n \in 0 .. L /\ n # 0
      OBVIOUS
    <2> QED
      BY <1>10, <2>1, <2>2
  <1> HIDE DEF c, Rec
  <1> DEFINE S == {n \in 0 .. L : c[n] \in D /\ Linked(nodes, c[n], n)}
  <1>12. 0 \in S
    <2>1. Linked(nodes, base, 0)
      <3>1. \A m \in nodes : m # <<>> => Len(m) # 0
        BY <1>0, EmptySeq
      <3> QED
        BY <1>0, <3>1 DEF Linked
    <2>2. 0 \in 0 .. L
      BY <1>3
    <2> QED
      BY <1>6, <1>11, <2>1, <2>2
  <1>13. ASSUME NEW n \in 0 .. L, n + 1 \in 0 .. L, n \in S PROVE n + 1 \in S
    <2> DEFINE f == c[n]
               h == c[n + 1]
    <2>1. f \in D /\ Linked(nodes, f, n)
      BY <1>13
    <2>2. n + 1 \in 1 .. L /\ (n + 1) - 1 = n /\ n \in 0 .. N
      <3>1. L \in Nat /\ L <= N /\ N \in Nat /\ n \in Nat /\ n <= L
        BY <1>0, <1>3
      <3>2. n + 1 <= L
        BY <1>13
      <3> QED
        BY <3>1, <3>2
    <2>3. h = Next(n + 1, f)
      BY <1>11, <2>2
    <2>4. h \in D
      BY <1>5, <2>1, <2>2, <2>3
    <2> HIDE DEF f, h
    <2>5. ASSUME NEW m \in nodes, m # <<>>, Len(m) <= n + 1 PROVE LongestEnd(nodes, Tail(m), h[m])
      <3>0. m \in Seq(T) /\ Len(m) \in Nat \ {0}
        BY <1>0, <2>5, EmptySeq
      <3>1. CASE Len(m) <= n
        <4>1. h[m] = f[m]
          <5>1. Len(m) # n + 1
            BY <1>0, <2>2, <3>1
          <5> QED
            BY <2>3, <5>1 DEF Next
        <4> QED
          BY <2>1, <2>5, <3>1, <4>1 DEF Linked
      <3>2. CASE Len(m) = n + 1 /\ n = 0
        <4>1. h[m] = f[m] /\ f = base
          <5>1. ~ (n + 1 > 1)
            BY <3>2
          <5> QED
            BY <1>11, <2>3, <3>2, <5>1 DEF Next, f
        <4>2. h[m] = <<>>
          BY <4>1 DEF base
        <4>3. Tail(m) \in Seq(T) /\ Len(Tail(m)) = 0
          BY <2>5, <3>0, <3>2, EndsTail
        <4>4. \A y \in nodes : TextEnds(y, Tail(m)) => Len(y) <= 0
          BY <4>3 DEF TextEnds
        <4>5. TextEnds(<<>>, Tail(m))
          BY <4>3, EndsBasics
        <4> QED
          BY <1>0, <4>2, <4>4, <4>5 DEF LongestEnd
      <3>3. CASE Len(m) = n + 1 /\ n # 0
        <4> DEFINE front == Front(m)
        <4>1. /\ front \in nodes /\ front # <<>> /\ Last(m) \in T
              /\ Len(front) = n /\ m = Append(front, Last(m))
          <5>1. Len(m) > 1 /\ Len(m) - 1 = n
            BY <2>2, <3>3
          <5> QED
            BY <1>4, <5>1
        <4>2. h[m] = Goto(nodes, f, f[front], Last(m))
          <5>1. n + 1 > 1
            BY <2>2, <3>3
          <5> QED
            BY <2>3, <3>3, <5>1 DEF Next
        <4> HIDE DEF front
        <4>3. LongestEnd(nodes, Tail(front), f[front])
          <5>1. Len(front) <= n
            BY <2>2, <4>1
          <5> QED
            BY <2>1, <4>1, <5>1 DEF Linked
        <4>4. Shortens(nodes, f)
          BY <2>1 DEF D
        <4>5. f[front] \in nodes /\ Len(f[front]) <= n
          <5>1. f[front] \in nodes /\ Len(f[front]) < Len(front)
            BY <4>1, <4>4 DEF Shortens
          <5> QED
            BY <1>0, <4>1, <5>1
        <4>6. Tail(front) \in Seq(T) /\ front \in Seq(T)
          BY <1>0, <4>1, EndsTail
        <4>7. LongestEnd(nodes, Append(Tail(front), Last(m)), h[m])
          <5>1. LongestEnd(nodes, Append(Tail(front), Last(m)), Goto(nodes, f, f[front], Last(m)))
            BY <1>2, <2>1, <2>2, <4>1, <4>3, <4>4, <4>5, <4>6, GotoLongest
          <5> QED
            BY <4>2, <5>1
        <4>8. Append(Tail(front), Last(m)) = Tail(m)
          BY <4>1, <4>6, TailOfAppend
        <4> QED
          BY <4>7, <4>8
      <3> QED
        BY <2>2, <2>5, <3>0, <3>1, <3>2, <3>3
    <2>6. Linked(nodes, h, n + 1)
      BY <2>5 DEF Linked
    <2> QED
      BY <1>13, <2>4, <2>6 DEF h
  <1>14. L \in S
    <2> HIDE DEF S
    <2>1. 0 .. L \subseteq S
      <3>1. L \in Nat
        BY <1>3
      <3> QED
        BY <1>12, <1>13, <3>1, RangeInduction
    <2> QED
      BY <1>3, <2>1
  <1>15. Shortens(nodes, c[L]) /\ Linked(nodes, c[L], L)
    BY <1>14 DEF D
  <1>16. Linked(nodes, c[L], N)
    BY <1>3, <1>15 DEF Linked
  <1> QED
    BY <1>1, <1>15, <1>16 DEF nodes

\* The answer of a node is the longest pattern that ends its text, the first of
\* equal ones.
Answers(ps, s, hit) ==
    /\ hit = 0 => \A j \in DOMAIN ps : ps[j] # <<>> => ~ TextEnds(ps[j], s)
    /\ hit # 0 =>
          /\ hit \in DOMAIN ps /\ ps[hit] # <<>> /\ TextEnds(ps[hit], s)
          /\ \A j \in DOMAIN ps : ps[j] # <<>> /\ TextEnds(ps[j], s) =>
                Len(ps[j]) <= Len(ps[hit]) /\ (ps[j] = ps[hit] => j >= hit)

LEMMA PatternAnswers ==
    ASSUME NEW T, NEW ps \in Seq(Seq(T)), NEW N, IsTrie(Nodes(ps), T, N),
           \A i \in DOMAIN ps : ps[i] \in Nodes(ps)
    PROVE  \A m \in Nodes(ps) : Answers(ps, m, PatternAt(ps, m))
  <1> DEFINE nodes == Nodes(ps)
             f == Failures(ps)
             D == 0 .. Len(ps)
             Rec(b) == b = [m \in nodes |->
                 IF Own(ps, m) # {} THEN Min(Own(ps, m)) ELSE IF m = <<>> THEN 0 ELSE b[f[m]]]
             c == CHOOSE b : Rec(b)
             stop == {m \in nodes : Own(ps, m) # {} \/ m = <<>>}
             val == [m \in nodes |-> IF Own(ps, m) # {} THEN Min(Own(ps, m)) ELSE 0]
             size == [m \in nodes |-> Len(m)]
  <1>1. Shortens(nodes, f) /\ Linked(nodes, f, N)
    BY MatcherLinks
  <1>2. \A m : PatternAt(ps, m) = c[m]
    BY DEF PatternAt
  <1>3. IsTrie(nodes, T, N) /\ \A i \in DOMAIN ps : ps[i] \in nodes
    OBVIOUS
  <1> HIDE DEF nodes, f
  <1>0. /\ \A m \in nodes : Len(m) \in 0 .. N /\ m \in Seq(T) /\ (m # <<>> => Len(m) # 0)
        /\ <<>> \in nodes /\ N \in Nat /\ Len(<<>>) = 0
        /\ DOMAIN ps = 1 .. Len(ps) /\ Len(ps) \in Nat
    BY <1>3, EmptySeq, LenProperties DEF IsTrie
  <1>4. ASSUME NEW m \in nodes, Own(ps, m) # {}
        PROVE  /\ Min(Own(ps, m)) \in 1 .. Len(ps) /\ Min(Own(ps, m)) \in Own(ps, m)
               /\ \A j \in Own(ps, m) : j >= Min(Own(ps, m))
    <2>1. Own(ps, m) \in SUBSET (1 .. Len(ps))
      BY <1>0 DEF Own
    <2>2. Own(ps, m) \in SUBSET (0 .. Len(ps))
      BY <2>1
    <2>3. Min(Own(ps, m)) \in Own(ps, m) /\ \A j \in Own(ps, m) : Min(Own(ps, m)) <= j
      BY <1>0, <1>4, <2>2, MinMember
    <2> QED
      BY <1>0, <2>1, <2>3
  <1>5. val \in [nodes -> D]
    <2>1. ASSUME NEW m \in nodes PROVE val[m] \in D
      <3>1. CASE Own(ps, m) # {}
        <4>1. Min(Own(ps, m)) \in 1 .. Len(ps)
          BY <1>4, <3>1
        <4> QED
          BY <1>0, <3>1, <4>1
      <3>2. CASE Own(ps, m) = {}
        BY <1>0, <3>2
      <3> QED
        BY <3>1, <3>2
    <2>2. val = [m \in nodes |-> val[m]]
      OBVIOUS
    <2> HIDE DEF val
    <2> QED
      BY <2>1, <2>2
  <1>6. Nearer(nodes, size, stop, f, N)
    <2>1. size \in [nodes -> 0 .. N]
      BY <1>0
    <2> QED
      BY <1>1, <2>1 DEF Nearer, Shortens
  <1>7. PICK g \in [nodes -> D] : ChainEquation(g, nodes, stop, val, f)
    <2> HIDE DEF stop, val, size, D
    <2> QED
      BY <1>0, <1>5, <1>6, ChainRecursion
  <1>8. Rec(g)
    <2>1. ASSUME NEW m \in nodes
          PROVE  g[m] = IF Own(ps, m) # {} THEN Min(Own(ps, m)) ELSE IF m = <<>> THEN 0 ELSE g[f[m]]
      BY <1>7 DEF ChainEquation
    <2>2. g = [m \in nodes |-> g[m]]
      BY <1>7
    <2> QED
      BY <2>1, <2>2
  <1>9. Rec(c)
    <2> HIDE DEF Rec
    <2> QED
      BY <1>8
  <1>10. \A m \in nodes : c[m] = IF Own(ps, m) # {} THEN Min(Own(ps, m)) ELSE IF m = <<>> THEN 0 ELSE c[f[m]]
    <2> HIDE DEF c
    <2> QED
      BY <1>9
  <1> HIDE DEF c, Rec, D, stop, val, size
  <1>11. ASSUME NEW m \in nodes, Own(ps, m) # {} PROVE Answers(ps, m, c[m])
    <2>1. c[m] = Min(Own(ps, m))
      BY <1>10, <1>11
    <2>2. c[m] \in 1 .. Len(ps) /\ c[m] \in Own(ps, m) /\ \A j \in Own(ps, m) : j >= c[m]
      BY <1>4, <1>11, <2>1
    <2>3. c[m] \in DOMAIN ps /\ ps[c[m]] = m /\ ps[c[m]] # <<>> /\ c[m] # 0
      BY <1>0, <2>2 DEF Own
    <2>4. TextEnds(m, m)
      BY <1>0, EndsBasics
    <2>5. \A j \in DOMAIN ps : ps[j] # <<>> /\ TextEnds(ps[j], m) =>
             Len(ps[j]) <= Len(m) /\ (ps[j] = m => j >= c[m])
      BY <2>2 DEF TextEnds, Own
    <2> QED
      BY <2>3, <2>4, <2>5 DEF Answers
  <1>12. ASSUME Own(ps, <<>>) = {} PROVE Answers(ps, <<>>, c[<<>>])
    <2>1. c[<<>>] = 0
      BY <1>0, <1>10, <1>12
    <2>2. ASSUME NEW j \in DOMAIN ps, ps[j] # <<>> PROVE ~ TextEnds(ps[j], <<>>)
      <3>1. Len(ps[j]) # 0 /\ Len(ps[j]) \in 0 .. N
        BY <1>0, <1>3, <2>2
      <3> QED
        BY <1>0, <3>1 DEF TextEnds
    <2> QED
      BY <2>1, <2>2 DEF Answers
  <1>13. ASSUME NEW m \in nodes, m # <<>>, Own(ps, m) = {}, Answers(ps, f[m], c[f[m]])
         PROVE  Answers(ps, m, c[m])
    <2>1. c[m] = c[f[m]]
      BY <1>10, <1>13
    <2>2. f[m] \in nodes /\ LongestEnd(nodes, Tail(m), f[m])
      BY <1>0, <1>1, <1>13 DEF Shortens, Linked
    <2>3. m \in Seq(T) /\ f[m] \in Seq(T)
      BY <1>0, <2>2
    <2>4. /\ Tail(m) \in Seq(T)
          /\ \A x \in Seq(T) : TextEnds(x, m) /\ Len(x) < Len(m) => TextEnds(x, Tail(m))
          /\ \A x \in Seq(T) : TextEnds(x, Tail(m)) => TextEnds(x, m)
      BY <1>13, <2>3, EndsTail
    <2>5. TextEnds(f[m], m)
      BY <2>2, <2>3, <2>4 DEF LongestEnd
    <2>6. ASSUME NEW j \in DOMAIN ps, ps[j] # <<>> PROVE TextEnds(ps[j], m) <=> TextEnds(ps[j], f[m])
      <3>1. ps[j] \in nodes /\ ps[j] \in Seq(T) /\ Len(ps[j]) \in 0 .. N /\ Len(m) \in 0 .. N
        BY <1>0, <1>3
      <3>2. ASSUME TextEnds(ps[j], f[m]) PROVE TextEnds(ps[j], m)
        BY <2>3, <2>5, <3>1, <3>2, EndsBasics
      <3>3. ASSUME TextEnds(ps[j], m) PROVE TextEnds(ps[j], f[m])
        <4>1. ps[j] # m
          BY <1>13, <2>6 DEF Own
        <4>2. Len(ps[j]) # Len(m)
          BY <2>3, <3>1, <3>3, <4>1, EndsBasics
        <4>3. Len(ps[j]) < Len(m)
          <5>1. Len(ps[j]) <= Len(m)
            BY <3>3 DEF TextEnds
          <5> QED
            BY <3>1, <4>2, <5>1
        <4>4. TextEnds(ps[j], Tail(m))
          BY <2>4, <3>1, <3>3, <4>3
        <4>5. Len(ps[j]) <= Len(f[m]) /\ TextEnds(f[m], Tail(m))
          BY <2>2, <3>1, <4>4 DEF LongestEnd
        <4> QED
          BY <2>3, <2>4, <3>1, <4>4, <4>5, EndsNested
      <3> QED
        BY <3>2, <3>3
    <2> QED
      BY <1>13, <2>1, <2>6 DEF Answers
  <1> DEFINE S == {n \in 0 .. N : \A m \in nodes : Len(m) <= n => Answers(ps, m, c[m])}
  <1>14. 0 \in S
    <2>1. ASSUME NEW m \in nodes, Len(m) <= 0 PROVE Answers(ps, m, c[m])
      <3>1. m = <<>>
        BY <1>0, <2>1
      <3> QED
        BY <1>0, <1>11, <1>12, <3>1
    <2> QED
      BY <1>0, <2>1
  <1>15. ASSUME NEW n \in 0 .. N, n + 1 \in 0 .. N, n \in S PROVE n + 1 \in S
    <2>1. ASSUME NEW m \in nodes, Len(m) <= n + 1 PROVE Answers(ps, m, c[m])
      <3>1. CASE m = <<>> \/ Own(ps, m) # {}
        BY <1>0, <1>11, <1>12, <3>1
      <3>2. CASE m # <<>> /\ Own(ps, m) = {}
        <4>1. f[m] \in nodes /\ Len(f[m]) < Len(m)
          BY <1>1, <3>2 DEF Shortens
        <4>2. Len(f[m]) <= n
          BY <1>0, <2>1, <4>1
        <4> QED
          BY <1>13, <1>15, <3>2, <4>1, <4>2
      <3> QED
        BY <3>1, <3>2
    <2> QED
      BY <1>15, <2>1
  <1>16. N \in S
    <2> HIDE DEF S
    <2>1. 0 .. N \subseteq S
      BY <1>0, <1>14, <1>15, RangeInduction
    <2> QED
      BY <1>0, <2>1
  <1>17. \A m \in nodes : Answers(ps, m, c[m])
    BY <1>0, <1>16
  <1> QED
    BY <1>2, <1>17 DEF nodes

\* After any beginning of a text the walk is at the longest end that is a node.
LEMMA WalkIsLongest ==
    ASSUME NEW T, NEW ps \in Seq(Seq(T)), NEW N, IsTrie(Nodes(ps), T, N), NEW t \in Seq(T)
    PROVE  \A n \in 0 .. Len(t) : LongestEnd(Nodes(ps), SubSeq(t, 1, n), NodeAfter(ps, t, n))
  <1> SUFFICES ASSUME NEW n \in 0 .. Len(t)
               PROVE  LongestEnd(Nodes(ps), SubSeq(t, 1, n), NodeAfter(ps, t, n))
    OBVIOUS
  <1> DEFINE nodes == Nodes(ps)
             f == Failures(ps)
             Rec(b) == b = [i \in 0 .. n |-> IF i = 0 THEN <<>> ELSE Goto(nodes, f, b[i - 1], t[i])]
             c == CHOOSE b : Rec(b)
             step == [i \in 1 .. n |-> [m \in nodes |-> Goto(nodes, f, m, t[i])]]
  <1>1. Shortens(nodes, f) /\ Linked(nodes, f, N)
    BY MatcherLinks
  <1>2. NodeAfter(ps, t, n) = c[n]
    BY DEF NodeAfter
  <1>3. IsTrie(nodes, T, N)
    OBVIOUS
  <1> HIDE DEF nodes, f
  <1>0. /\ \A m \in nodes : Len(m) \in 0 .. N /\ m \in Seq(T)
        /\ <<>> \in nodes /\ N \in Nat /\ Len(t) \in Nat /\ n \in Nat
        /\ \A i \in 1 .. n : i \in 1 .. Len(t) /\ t[i] \in T
    <2>1. Len(t) \in Nat
      BY LenProperties
    <2>2. \A i \in 1 .. n : i \in 1 .. Len(t)
      BY <2>1
    <2> QED
      BY <1>3, <2>1, <2>2, ElementOfSeq DEF IsTrie
  <1>4. \A i \in 1 .. n, m \in nodes : Goto(nodes, f, m, t[i]) \in nodes
    BY <1>0, <1>1, <1>3, GotoShort
  <1>5. PICK g : StepsThrough(g, n, nodes, <<>>, step)
    <2>1. step \in [1 .. n -> [nodes -> nodes]]
      BY <1>4
    <2> HIDE DEF step
    <2> QED
      BY <1>0, <2>1, RangeRecursion
  <1>6. Rec(g)
    <2>1. ASSUME NEW i \in 0 .. n PROVE g[i] = IF i = 0 THEN <<>> ELSE Goto(nodes, f, g[i - 1], t[i])
      <3>1. CASE i = 0
        BY <1>5, <3>1 DEF StepsThrough
      <3>2. CASE i # 0
        <4>1. i \in 1 .. n /\ i - 1 \in 0 .. n
          BY <1>0, <3>2
        <4>2. g[i] = step[i][g[i - 1]] /\ g[i - 1] \in nodes
          BY <1>5, <4>1 DEF StepsThrough
        <4> QED
          BY <3>2, <4>1, <4>2
      <3> QED
        BY <3>1, <3>2
    <2>2. g = [i \in 0 .. n |-> g[i]]
      BY <1>5 DEF StepsThrough
    <2> QED
      BY <2>1, <2>2
  <1>7. Rec(c)
    <2> HIDE DEF Rec
    <2> QED
      BY <1>6
  <1>8. c[0] = <<>> /\ \A i \in 1 .. n : c[i] = Goto(nodes, f, c[i - 1], t[i])
    <2> HIDE DEF c
    <2>1. 0 \in 0 .. n /\ \A i \in 1 .. n : i \in 0 .. n /\ i # 0
      BY <1>0
    <2> QED
      BY <1>7, <2>1
  <1> HIDE DEF c, Rec, step
  <1> DEFINE S == {i \in 0 .. n : LongestEnd(nodes, SubSeq(t, 1, i), c[i])}
  <1>9. 0 \in S
    <2>1. SubSeq(t, 1, 0) = <<>> /\ <<>> \in Seq(T) /\ Len(<<>>) = 0
      BY EmptySeq, SubSeqEmpty
    <2>2. TextEnds(<<>>, <<>>)
      BY <2>1, EndsBasics
    <2>3. \A y \in nodes : TextEnds(y, <<>>) => Len(y) <= Len(<<>>)
      BY DEF TextEnds
    <2>4. LongestEnd(nodes, <<>>, <<>>)
      BY <1>0, <2>2, <2>3 DEF LongestEnd
    <2>5. 0 \in 0 .. n
      BY <1>0
    <2> QED
      BY <1>8, <2>1, <2>4, <2>5
  <1>10. ASSUME NEW i \in 0 .. n, i + 1 \in 0 .. n, i \in S PROVE i + 1 \in S
    <2>1. i + 1 \in 1 .. n /\ (i + 1) - 1 = i /\ i \in 0 .. Len(t) /\ i + 1 \in 1 .. Len(t)
      BY <1>0, <1>10
    <2>2. c[i + 1] = Goto(nodes, f, c[i], t[i + 1])
      BY <1>8, <2>1
    <2> DEFINE s == SubSeq(t, 1, i)
    <2>3. s \in Seq(T)
      <3>1. \A j \in 1 .. i : t[j] \in T
        BY <1>0, <2>1
      <3>2. 1 \in Int /\ i \in Int
        BY <1>0
      <3> QED
        BY <3>1, <3>2, SubSeqProperties
    <2>4. SubSeq(t, 1, i + 1) = Append(s, t[i + 1])
      <3>1. 1 \in 1 .. Len(t) /\ i + 1 \in 1 .. Len(t) /\ (i + 1) - 1 = i
        BY <1>0, <2>1
      <3>2. SubSeq(t, 1, i + 1) = SubSeq(t, 1, (i + 1) - 1) \o <<t[i + 1]>>
        BY <3>1, SubSeqRecursiveSecond
      <3>3. Append(s, t[i + 1]) = s \o <<t[i + 1]>>
        BY <1>0, <2>1, <2>3, AppendIsConcat
      <3> QED
        BY <3>1, <3>2, <3>3
    <2> HIDE DEF s
    <2>5. LongestEnd(nodes, s, c[i])
      BY <1>10 DEF s
    <2>6. c[i] \in nodes /\ Len(c[i]) <= N /\ N \in 0 .. N
      BY <1>0, <2>5 DEF LongestEnd
    <2>7. t[i + 1] \in T
      BY <1>0, <2>1
    <2>8. LongestEnd(nodes, Append(s, t[i + 1]), Goto(nodes, f, c[i], t[i + 1]))
      BY <1>1, <1>3, <2>3, <2>5, <2>6, <2>7, GotoLongest
    <2> QED
      BY <1>10, <2>2, <2>4, <2>8
  <1>11. n \in S
    <2> HIDE DEF S
    <2>1. 0 .. n \subseteq S
      BY <1>0, <1>9, <1>10, RangeInduction
    <2> QED
      BY <1>0, <2>1
  <1> QED
    BY <1>2, <1>11 DEF nodes

\* A pattern that ends at a position of a text ends what comes up to there.
LEMMA OccursAsEnd ==
    ASSUME NEW T, NEW t \in Seq(T), NEW x \in Seq(T), x # <<>>, NEW n \in 1 .. Len(t)
    PROVE  n >= Len(x) /\ OccursAt(x, t, n - Len(x) + 1) <=> TextEnds(x, SubSeq(t, 1, n))
  <1> DEFINE s == SubSeq(t, 1, n)
  <1>0. Len(t) \in Nat /\ Len(x) \in Nat /\ Len(x) # 0 /\ n \in Nat
    BY EmptySeq, LenProperties
  <1>1. s \in Seq(T) /\ Len(s) = n /\ \A i \in 1 .. n : s[i] = t[i]
    <2>1. \A i \in 1 .. n : t[i] \in T
      BY <1>0, ElementOfSeq
    <2>2. 1 \in Int /\ n \in Int /\ 1 <= n /\ n - 1 + 1 = n /\ \A i \in 1 .. n : 1 + i - 1 = i
      BY <1>0
    <2>3. /\ s \in Seq(T) /\ Len(s) = IF 1 <= n THEN n - 1 + 1 ELSE 0
          /\ \A i \in 1 .. n - 1 + 1 : s[i] = t[1 + i - 1]
      BY <2>1, <2>2, SubSeqProperties
    <2> HIDE DEF s
    <2> QED
      BY <2>2, <2>3
  <1> HIDE DEF s
  <1>2. ASSUME n >= Len(x) PROVE SubSeq(t, n - Len(x) + 1, n) = x <=> TextEnds(x, s)
    <2> DEFINE from == n - Len(x) + 1
               u == SubSeq(t, from, n)
    <2>1. /\ from \in Int /\ from <= n /\ n - from + 1 = Len(x)
          /\ \A i \in 1 .. Len(x) : from + i - 1 = n - Len(x) + i /\ n - Len(x) + i \in 1 .. n
      BY <1>0, <1>2
    <2>2. \A i \in from .. n : t[i] \in T
      <3> TAKE i \in from .. n
      <3>1. i \in 1 .. Len(t)
        BY <1>0, <1>2
      <3> QED
        BY <3>1, ElementOfSeq
    <2>3. /\ u \in Seq(T) /\ Len(u) = IF from <= n THEN n - from + 1 ELSE 0
          /\ \A i \in 1 .. n - from + 1 : u[i] = t[from + i - 1]
      <3> HIDE DEF from
      <3>1. n \in Int
        BY <1>0
      <3> QED
        BY <2>1, <2>2, <3>1, SubSeqProperties
    <2> HIDE DEF from, u
    <2>4. Len(u) = Len(x) /\ \A i \in 1 .. Len(x) : u[i] = s[n - Len(x) + i]
      BY <1>1, <2>1, <2>3
    <2>5. u = x <=> \A i \in 1 .. Len(x) : x[i] = s[n - Len(x) + i]
      <3>1. ASSUME \A i \in 1 .. Len(x) : x[i] = s[n - Len(x) + i] PROVE u = x
        BY <2>3, <2>4, <3>1, SeqEqual
      <3> QED
        BY <2>4, <3>1
    <2>6. TextEnds(x, s) <=> \A i \in 1 .. Len(x) : x[i] = s[n - Len(x) + i]
      BY <1>1, <1>2 DEF TextEnds
    <2> QED
      BY <2>5, <2>6 DEF u, from
  <1>3. TextEnds(x, s) => n >= Len(x)
    BY <1>0, <1>1 DEF TextEnds
  <1>4. n >= Len(x) => (n - Len(x) + 1) + Len(x) - 1 = n /\ n <= Len(t)
    BY <1>0
  <1> QED
    BY <1>2, <1>3, <1>4 DEF OccursAt, s

\* The walk of the automaton answers where the first pattern ends.
LEMMA AutomatonAnswers ==
    ASSUME NEW T, NEW ps \in Seq(Seq(T)), NEW t \in Seq(T)
    PROVE  /\ EndsAt(ps, t) = {} => Automaton(ps, t) = 0
           /\ EndsAt(ps, t) # {} =>
                /\ Automaton(ps, t) # 0 /\ Min(EndsAt(ps, t)) \in EndsAt(ps, t)
                /\ Answers(ps, SubSeq(t, 1, Min(EndsAt(ps, t))), Automaton(ps, t))
  <1>0. /\ DOMAIN ps = 1 .. Len(ps) /\ Len(ps) \in Nat /\ Len(t) \in Nat
        /\ \A i \in DOMAIN ps : ps[i] \in Seq(T)
    BY LenProperties, ElementOfSeq
  <1>1. PICK N \in Nat : IsTrie(Nodes(ps), T, N) /\ \A i \in DOMAIN ps : ps[i] \in Nodes(ps)
    BY NodesAreTrie
  <1> DEFINE nodes == Nodes(ps)
             Reached(n) == NodeAfter(ps, t, n)
             A(n) == PatternAt(ps, Reached(n))
             E == EndsAt(ps, t)
  <1>2. ASSUME NEW n \in 1 .. Len(t)
        PROVE  Answers(ps, SubSeq(t, 1, n), A(n)) /\ (A(n) # 0 <=> n \in E)
    <2> DEFINE s == SubSeq(t, 1, n)
    <2>1. s \in Seq(T)
      <3>1. \A i \in 1 .. n : t[i] \in T
        BY <1>0, ElementOfSeq
      <3>2. 1 \in Int /\ n \in Int
        BY <1>0
      <3> QED
        BY <3>1, <3>2, SubSeqProperties
    <2>2. LongestEnd(nodes, s, Reached(n))
      <3>1. n \in 0 .. Len(t)
        BY <1>0
      <3> QED
        BY <1>1, <3>1, WalkIsLongest
    <2>3. Reached(n) \in nodes /\ Reached(n) \in Seq(T)
      BY <1>1, <2>2 DEF LongestEnd, IsTrie
    <2>4. Answers(ps, Reached(n), A(n))
      BY <1>1, <2>3, PatternAnswers
    <2> HIDE DEF s, Reached, A, nodes
    <2>5. ASSUME NEW i \in DOMAIN ps PROVE TextEnds(ps[i], s) <=> TextEnds(ps[i], Reached(n))
      <3>1. ps[i] \in Seq(T) /\ ps[i] \in nodes
        BY <1>0, <1>1 DEF nodes
      <3>2. TextEnds(Reached(n), s)
        BY <2>2 DEF LongestEnd
      <3>3. TextEnds(ps[i], Reached(n)) => TextEnds(ps[i], s)
        BY <2>1, <2>3, <3>1, <3>2, EndsBasics
      <3>4. ASSUME TextEnds(ps[i], s) PROVE TextEnds(ps[i], Reached(n))
        <4>1. Len(ps[i]) <= Len(Reached(n))
          BY <2>2, <3>1, <3>4 DEF LongestEnd
        <4> QED
          BY <2>1, <2>3, <3>1, <3>2, <3>4, <4>1, EndsNested
      <3> QED
        BY <3>3, <3>4
    <2>6. Answers(ps, s, A(n))
      BY <2>4, <2>5 DEF Answers
    <2>7. n \in E <=> \E i \in DOMAIN ps : ps[i] # <<>> /\ TextEnds(ps[i], s)
      <3>1. \A i \in DOMAIN ps : ps[i] # <<>> =>
               (n >= Len(ps[i]) /\ OccursAt(ps[i], t, n - Len(ps[i]) + 1) <=> TextEnds(ps[i], s))
        BY <1>0, OccursAsEnd DEF s
      <3> QED
        BY <3>1 DEF EndsAt
    <2>8. A(n) # 0 <=> \E i \in DOMAIN ps : ps[i] # <<>> /\ TextEnds(ps[i], s)
      BY <2>6 DEF Answers
    <2> QED
      BY <2>6, <2>7, <2>8 DEF s
  <1>3. E \in SUBSET (0 .. Len(t)) /\ E \subseteq 1 .. Len(t)
    <2>1. E \subseteq 1 .. Len(t)
      BY DEF EndsAt
    <2> QED
      BY <1>0, <2>1
  <1>4. {n \in 1 .. Len(t) : A(n) # 0} = E
    <2> HIDE DEF A, E
    <2> QED
      BY <1>2, <1>3
  <1>5. Automaton(ps, t) = IF E = {} THEN 0 ELSE A(Min(E))
    BY <1>4, Zenon DEF Automaton
  <1> HIDE DEF A, E
  <1>6. ASSUME E # {} PROVE Min(E) \in E /\ Min(E) \in 1 .. Len(t)
    BY <1>0, <1>3, <1>6, MinMember
  <1>7. ASSUME E # {}
        PROVE  A(Min(E)) # 0 /\ Answers(ps, SubSeq(t, 1, Min(E)), A(Min(E)))
    BY <1>2, <1>6, <1>7
  <1> QED
    BY <1>5, <1>6, <1>7 DEF E

\* The search in order finds a pattern when one ends somewhere.
LEMMA InOrderFinds ==
    ASSUME NEW T, NEW ps \in Seq(Seq(T)), NEW t \in Seq(T)
    PROVE  InOrder(ps, t) = 0 <=> EndsAt(ps, t) = {}
  <1>0. /\ DOMAIN ps = 1 .. Len(ps) /\ Len(ps) \in Nat /\ Len(t) \in Nat
        /\ \A i \in DOMAIN ps : ps[i] \in Seq(T) /\ Len(ps[i]) \in Nat
    BY LenProperties, ElementOfSeq
  <1> DEFINE I == {i \in 1 .. Len(ps) : ps[i] # <<>> /\ Occurs(ps[i], t)}
  <1>1. InOrder(ps, t) = IF I # {} THEN Min(I) ELSE 0
    BY DEF InOrder, SelectInSeq
  <1>2. I # {} => Min(I) \in I
    <2>1. I \in SUBSET (0 .. Len(ps))
      BY <1>0
    <2> HIDE DEF I
    <2> QED
      BY <1>0, <2>1, MinMember
  <1>3. InOrder(ps, t) = 0 <=> I = {}
    <2>1. \A i \in I : i # 0
      OBVIOUS
    <2> HIDE DEF I
    <2> QED
      BY <1>1, <1>2, <2>1
  <1>4. ASSUME NEW i \in I PROVE EndsAt(ps, t) # {}
    <2>1. PICK j \in 1 .. Len(t) : OccursAt(ps[i], t, j)
      BY DEF Occurs
    <2>2. Len(ps[i]) \in Nat /\ Len(ps[i]) # 0 /\ j + Len(ps[i]) - 1 <= Len(t) /\ i \in DOMAIN ps
      BY <1>0, <2>1, EmptySeq DEF OccursAt
    <2> DEFINE n == j + Len(ps[i]) - 1
    <2>3. n \in 1 .. Len(t) /\ n >= Len(ps[i]) /\ n - Len(ps[i]) + 1 = j
      BY <1>0, <2>2
    <2> HIDE DEF n
    <2>4. n \in EndsAt(ps, t)
      BY <1>4, <2>1, <2>2, <2>3 DEF EndsAt
    <2> QED
      BY <2>4
  <1>5. ASSUME NEW n \in EndsAt(ps, t) PROVE I # {}
    <2>1. /\ n \in 1 .. Len(t)
          /\ \E i \in DOMAIN ps : ps[i] # <<>> /\ n >= Len(ps[i]) /\ OccursAt(ps[i], t, n - Len(ps[i]) + 1)
      BY <1>5 DEF EndsAt
    <2>2. PICK i \in DOMAIN ps : ps[i] # <<>> /\ n >= Len(ps[i]) /\ OccursAt(ps[i], t, n - Len(ps[i]) + 1)
      BY <2>1
    <2>3. Len(ps[i]) \in Nat /\ Len(ps[i]) # 0
      BY <1>0, <2>2, EmptySeq
    <2>4. n - Len(ps[i]) + 1 \in 1 .. Len(t)
      BY <1>0, <2>1, <2>2, <2>3
    <2> QED
      BY <1>0, <2>2, <2>4 DEF Occurs
  <1> QED
    BY <1>3, <1>4, <1>5
-----------------------------------------------------------------------------
(* The trie of the verified bots. *)

\* The best name after the walks from the positions up to one: a name that
\* occurs, and no shorter than any that begins there.
Best(ps, t, best, from) ==
    /\ best # <<>> => best \in Range(ps) /\ Occurs(best, t)
    /\ \A i \in DOMAIN ps, j \in 1 .. Len(t) :
          j <= from /\ OccursAt(ps[i], t, j) => Len(ps[i]) <= Len(best)

LEMMA LongerIsBest ==
    ASSUME NEW T, NEW ps \in Seq(Seq(T)), NEW t \in Seq(T), NEW from \in 1 .. Len(t),
           NEW best \in Seq(T), Best(ps, t, best, from - 1)
    PROVE  Best(ps, t, Longer(ps, t, best, from), from)
  <1>0. /\ DOMAIN ps = 1 .. Len(ps) /\ Len(ps) \in Nat /\ Len(t) \in Nat /\ Len(best) \in Nat
        /\ \A i \in DOMAIN ps : ps[i] \in Seq(T) /\ Len(ps[i]) \in Nat
    BY LenProperties, ElementOfSeq
  <1> DEFINE ns == Terminals(ps, t, from)
             to == Longer(ps, t, best, from)
             found == SubSeq(t, from, from + Max(ns) - 1)
  <1>1. to = IF ns # {} /\ Max(ns) > Len(best) THEN found ELSE best
    BY DEF Longer
  <1>2. ASSUME ns # {}
        PROVE  /\ Max(ns) \in 1 .. Len(t) - from + 1 /\ found \in Range(ps) /\ Len(found) = Max(ns)
               /\ \A n \in ns : n <= Max(ns)
    <2>1. ns \in SUBSET (0 .. Len(t))
      BY <1>0 DEF Terminals
    <2>2. Max(ns) \in ns /\ \A n \in ns : n <= Max(ns)
      <3> HIDE DEF ns
      <3> QED
        BY <1>0, <1>2, <2>1, MaxMember
    <2>3. Max(ns) \in 1 .. Len(t) - from + 1 /\ found \in Range(ps)
      BY <2>2 DEF Terminals
    <2>4. Len(found) = Max(ns)
      <3> DEFINE k == Max(ns)
      <3> HIDE DEF k
      <3>1. k \in 1 .. Len(t) - from + 1
        BY <2>3 DEF k
      <3>2. /\ from \in Int /\ from + k - 1 \in Int /\ from <= from + k - 1
            /\ (from + k - 1) - from + 1 = k /\ \A j \in from .. from + k - 1 : j \in 1 .. Len(t)
        BY <1>0, <3>1
      <3>3. \A j \in from .. from + k - 1 : t[j] \in T
        BY <3>2, ElementOfSeq
      <3>4. Len(SubSeq(t, from, from + k - 1)) =
               IF from <= from + k - 1 THEN (from + k - 1) - from + 1 ELSE 0
        BY <3>2, <3>3, SubSeqProperties
      <3> QED
        BY <3>2, <3>4 DEF k
    <2> QED
      BY <2>2, <2>3, <2>4
  <1>3. ASSUME ns # {} PROVE Occurs(found, t)
    <2>1. Len(found) = Max(ns) /\ Max(ns) \in 1 .. Len(t) - from + 1
      BY <1>2, <1>3
    <2> DEFINE k == Max(ns)
    <2> HIDE DEF k
    <2>2. k \in 1 .. Len(t) - from + 1 /\ found = SubSeq(t, from, from + k - 1) /\ Len(found) = k
      BY <2>1 DEF k
    <2> HIDE DEF found, ns
    <2>3. from + Len(found) - 1 <= Len(t) /\ SubSeq(t, from, from + Len(found) - 1) = found
      BY <1>0, <2>2
    <2> QED
      BY <2>3 DEF Occurs, OccursAt
  <1>4. ASSUME NEW i \in DOMAIN ps, OccursAt(ps[i], t, from), ps[i] # <<>>
        PROVE  Len(ps[i]) \in ns
    <2>1. Len(ps[i]) \in Nat /\ Len(ps[i]) # 0
      BY <1>0, <1>4, EmptySeq
    <2>2. from + Len(ps[i]) - 1 <= Len(t) /\ SubSeq(t, from, from + Len(ps[i]) - 1) = ps[i]
      BY <1>4 DEF OccursAt
    <2>3. Len(ps[i]) \in 1 .. Len(t) - from + 1
      BY <1>0, <2>1, <2>2
    <2>4. ps[i] \in Range(ps)
      BY DEF Range
    <2> QED
      BY <2>2, <2>3, <2>4 DEF Terminals
  <1> HIDE DEF ns, to, found
  <1>5. Len(to) \in Nat /\ Len(to) >= Len(best) /\ \A n \in ns : n <= Len(to)
    <2>1. CASE ns # {} /\ Max(ns) > Len(best)
      BY <1>0, <1>1, <1>2, <2>1
    <2>2. CASE ns = {}
      BY <1>0, <1>1, <2>2
    <2>3. CASE ns # {} /\ ~ (Max(ns) > Len(best))
      <3>1. to = best
        BY <1>1, <2>3
      <3>2. Max(ns) \in Nat /\ Max(ns) <= Len(best) /\ \A n \in ns : n <= Max(ns)
        BY <1>0, <1>2, <2>3
      <3>3. ns \subseteq Nat
        BY DEF ns, Terminals
      <3> QED
        BY <1>0, <3>1, <3>2, <3>3
    <2> QED
      BY <2>1, <2>2, <2>3
  <1>6. to # <<>> => to \in Range(ps) /\ Occurs(to, t)
    <2>1. CASE ns # {} /\ Max(ns) > Len(best)
      BY <1>1, <1>2, <1>3, <2>1
    <2>2. CASE ~ (ns # {} /\ Max(ns) > Len(best))
      BY <1>1, <2>2 DEF Best
    <2> QED
      BY <2>1, <2>2
  <1>7. ASSUME NEW i \in DOMAIN ps, NEW j \in 1 .. Len(t), j <= from, OccursAt(ps[i], t, j)
        PROVE  Len(ps[i]) <= Len(to)
    <2>1. CASE ps[i] = <<>>
      BY <1>5, <2>1, EmptySeq
    <2>2. CASE ps[i] # <<>> /\ j = from
      BY <1>4, <1>5, <1>7, <2>2
    <2>3. CASE j # from
      <3>1. j <= from - 1
        BY <1>0, <1>7, <2>3
      <3>2. Len(ps[i]) <= Len(best)
        BY <1>7, <3>1 DEF Best
      <3> QED
        BY <1>0, <1>5, <3>2
    <2> QED
      BY <2>1, <2>2, <2>3
  <1> QED
    BY <1>6, <1>7 DEF Best, to

\* The walk over all positions ends with a longest name (bs_ua_classify).
LEMMA TrieIsBest ==
    ASSUME NEW T, NEW ps \in Seq(Seq(T)), NEW t \in Seq(T)
    PROVE  Best(ps, t, Trie(ps, t), Len(t))
  <1> DEFINE L == Len(t)
             Rec(b) == b = [from \in 0 .. L |-> IF from = 0 THEN <<>> ELSE Longer(ps, t, b[from - 1], from)]
             c == CHOOSE b : Rec(b)
             step == [from \in 1 .. L |-> [b \in Seq(T) |-> Longer(ps, t, b, from)]]
  <1>0. /\ L \in Nat /\ <<>> \in Seq(T) /\ DOMAIN ps = 1 .. Len(ps)
        /\ \A i \in DOMAIN ps : ps[i] \in Seq(T)
    BY EmptySeq, LenProperties, ElementOfSeq
  <1>1. Trie(ps, t) = c[L]
    BY DEF Trie
  <1> HIDE DEF L
  <1>2. ASSUME NEW from \in 1 .. L, NEW b \in Seq(T) PROVE Longer(ps, t, b, from) \in Seq(T)
    <2> DEFINE ns == Terminals(ps, t, from)
    <2>1. Longer(ps, t, b, from) =
             IF ns # {} /\ Max(ns) > Len(b) THEN SubSeq(t, from, from + Max(ns) - 1) ELSE b
      BY DEF Longer
    <2>2. ASSUME ns # {} PROVE SubSeq(t, from, from + Max(ns) - 1) \in Range(ps)
      <3>1. ns \in SUBSET (0 .. L)
        BY <1>0 DEF Terminals, L
      <3>2. Max(ns) \in ns
        <4> HIDE DEF ns
        <4> QED
          BY <1>0, <2>2, <3>1, MaxMember
      <3> QED
        BY <3>2 DEF Terminals
    <2>3. Range(ps) \subseteq Seq(T)
      BY <1>0 DEF Range
    <2> HIDE DEF ns
    <2> QED
      BY <2>1, <2>2, <2>3
  <1>3. PICK g : StepsThrough(g, L, Seq(T), <<>>, step)
    <2>1. step \in [1 .. L -> [Seq(T) -> Seq(T)]]
      BY <1>2
    <2> HIDE DEF step
    <2> QED
      BY <1>0, <2>1, RangeRecursion
  <1>4. Rec(g)
    <2>1. ASSUME NEW n \in 0 .. L PROVE g[n] = IF n = 0 THEN <<>> ELSE Longer(ps, t, g[n - 1], n)
      <3>1. CASE n = 0
        BY <1>3, <3>1 DEF StepsThrough
      <3>2. CASE n # 0
        <4>1. n \in 1 .. L /\ n - 1 \in 0 .. L
          BY <1>0, <3>2
        <4>2. g[n] = step[n][g[n - 1]] /\ g[n - 1] \in Seq(T)
          BY <1>3, <4>1 DEF StepsThrough
        <4> QED
          BY <3>2, <4>1, <4>2
      <3> QED
        BY <3>1, <3>2
    <2>2. g = [n \in 0 .. L |-> g[n]]
      BY <1>3 DEF StepsThrough
    <2> QED
      BY <2>1, <2>2
  <1>5. Rec(c)
    <2> HIDE DEF Rec
    <2> QED
      BY <1>4
  <1>6. c[0] = <<>> /\ \A n \in 1 .. L : c[n] = Longer(ps, t, c[n - 1], n)
    <2> HIDE DEF c
    <2>1. 0 \in 0 .. L /\ \A n \in 1 .. L : n \in 0 .. L /\ n # 0
      BY <1>0
    <2> QED
      BY <1>5, <2>1
  <1> HIDE DEF c, Rec, step
  <1> DEFINE S == {n \in 0 .. L : c[n] \in Seq(T) /\ Best(ps, t, c[n], n)}
  <1>7. 0 \in S
    <2>1. Best(ps, t, <<>>, 0)
      BY DEF Best
    <2>2. 0 \in 0 .. L
      BY <1>0
    <2> QED
      BY <1>0, <1>6, <2>1, <2>2
  <1>8. ASSUME NEW n \in 0 .. L, n + 1 \in 0 .. L, n \in S PROVE n + 1 \in S
    <2>1. n + 1 \in 1 .. L /\ (n + 1) - 1 = n /\ n + 1 \in 1 .. Len(t)
      BY <1>0, <1>8 DEF L
    <2>2. c[n + 1] = Longer(ps, t, c[n], n + 1)
      BY <1>6, <2>1
    <2>3. Best(ps, t, c[n], (n + 1) - 1) /\ c[n] \in Seq(T)
      BY <1>8, <2>1
    <2>4. Best(ps, t, c[n + 1], n + 1)
      <3> DEFINE m == n + 1
      <3> HIDE DEF m
      <3>1. m \in 1 .. Len(t) /\ Best(ps, t, c[n], m - 1) /\ c[m] = Longer(ps, t, c[n], m)
        BY <2>1, <2>2, <2>3 DEF m
      <3>2. Best(ps, t, c[m], m)
        BY <2>3, <3>1, LongerIsBest
      <3> QED
        BY <3>2 DEF m
    <2>5. c[n + 1] \in Seq(T)
      BY <1>2, <2>1, <2>2, <2>3
    <2> QED
      BY <1>8, <2>4, <2>5
  <1>9. L \in S
    <2> HIDE DEF S
    <2>1. 0 .. L \subseteq S
      BY <1>0, <1>7, <1>8, RangeInduction
    <2> QED
      BY <1>0, <2>1
  <1> QED
    BY <1>1, <1>9 DEF L

\* What the two matchers are given never changes; it is a list of patterns and
\* a text.
MatchInput == matched \in [patterns : MatchPatterns, text : MatchTexts]

LEMMA InputAgrees == MatchInput => MatchersAgree
  <1> SUFFICES ASSUME MatchInput PROVE MatchersAgree
    OBVIOUS
  <1> DEFINE ps == matched.patterns
             t == matched.text
             hit == Automaton(ps, t)
             E == EndsAt(ps, t)
             end == Min(E)
             ending == {i \in DOMAIN ps : ps[i] # <<>> /\ Len(ps[i]) <= end
                           /\ OccursAt(ps[i], t, end - Len(ps[i]) + 1)}
             best == Trie(ps, t)
  <1>1. ps \in Seq(Seq(STRING)) /\ t \in Seq(STRING)
    BY MatchAssumption DEF MatchInput
  <1> HIDE DEF ps, t
  <1>0. /\ DOMAIN ps = 1 .. Len(ps) /\ \A i \in DOMAIN ps : ps[i] \in Seq(STRING)
        /\ Len(t) \in Nat /\ \A i \in DOMAIN ps : Len(ps[i]) \in Nat
    BY <1>1, LenProperties, ElementOfSeq
  <1>2. /\ E = {} => hit = 0
        /\ E # {} => hit # 0 /\ end \in E /\ Answers(ps, SubSeq(t, 1, end), hit)
    BY <1>1, AutomatonAnswers
  <1>3. (hit = 0) <=> (InOrder(ps, t) = 0)
    BY <1>1, <1>2, InOrderFinds
  <1>4. ASSUME hit # 0
        PROVE  /\ hit \in ending
               /\ \A i \in ending : Len(ps[i]) <= Len(ps[hit]) /\ (ps[i] = ps[hit] => i >= hit)
    <2>1. end \in 1 .. Len(t) /\ Answers(ps, SubSeq(t, 1, end), hit)
      BY <1>2, <1>4 DEF EndsAt
    <2> HIDE DEF hit, end, E
    <2>2. ASSUME NEW i \in DOMAIN ps, ps[i] # <<>>
          PROVE  end >= Len(ps[i]) /\ OccursAt(ps[i], t, end - Len(ps[i]) + 1) <=> TextEnds(ps[i], SubSeq(t, 1, end))
      BY <1>0, <1>1, <2>1, <2>2, OccursAsEnd
    <2>3. end \in Int
      BY <1>0, <2>1
    <2>4. \A i \in DOMAIN ps : end >= Len(ps[i]) <=> Len(ps[i]) <= end
      BY <1>0, <2>3
    <2>5. ending = {i \in DOMAIN ps : ps[i] # <<>> /\ TextEnds(ps[i], SubSeq(t, 1, end))}
      BY <2>2, <2>4
    <2> HIDE DEF ending
    <2> QED
      BY <1>4, <2>1, <2>5 DEF Answers
  <1>5. Best(ps, t, best, Len(t))
    BY <1>1, TrieIsBest
  <1> HIDE DEF hit, best, ending, end, E
  <1>6. best # <<>> => best \in Range(ps) /\ Occurs(best, t)
    BY <1>5 DEF Best
  <1>7. \A i \in DOMAIN ps : Occurs(ps[i], t) => Len(ps[i]) <= Len(best)
    BY <1>0, <1>5 DEF Best, Occurs
  <1> QED
    BY <1>3, <1>4, <1>6, <1>7 DEF MatchersAgree, ps, t, hit, best, ending, end, E

\* The automaton, the search in order and the trie find what their comments
\* promise, for every list of patterns and every User-Agent
\* (bs_ua_is_known_bot, bs_known_bots_build_ac, bs_ua_classify).
THEOREM MatchersAlwaysAgree == MatchSpec => []MatchersAgree
  <1>1. MatchInit => MatchInput
    BY DEF MatchInit, MatchInput
  <1>2. MatchInput /\ [MatchNext]_matchVars => MatchInput'
    BY DEF MatchInput, MatchNext, ReloadTables, matchVars
  <1>3. MatchInput => MatchersAgree
    BY InputAgrees
  <1> QED
    BY <1>1, <1>2, <1>3, PTL DEF MatchSpec
=============================================================================
