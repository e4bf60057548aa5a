---------------------------- MODULE CaptchaLimits ----------------------------
(***************************************************************************)
(* The guards in front of a captcha provider, captcha.c: a limit of calls  *)
(* per address and minute, a limit of calls in flight at a time, and a     *)
(* throttle on the lines that log a refusal.  All three are words of the   *)
(* shared segment that every worker of every child reads and swaps without *)
(* a lock.                                                                 *)
(*                                                                         *)
(* A word of the two tables holds a minute and a count.  A caller reads    *)
(* the clock once, then tries a few times to read the word of its address  *)
(* and to swap in the next; it may be overtaken anywhere in between, even  *)
(* by the minute.  A child can die while it waits for the provider.        *)
(* Addresses are seen by the slot they hash to.                            *)
(***************************************************************************)
EXTENDS Integers, FiniteSets

CONSTANTS
    Callers,      \* requests that reach the guards at a time
    Slots,        \* slots of the rate and of the log table
    RateLimit,    \* BotShieldCaptchaRateLimit; 0 disables it
    InflightCap,  \* BotShieldCaptchaMaxInFlight, 1 .. 1024
    RateTries,    \* attempts on a word of the two tables: 4
    CapTries,     \* attempts on the in-flight count: 8
    LastMinute,   \* bound on the clock
    MaxCalls,     \* bound on the calls
    MaxDeaths     \* bound on the children that die

ASSUME LimitsAssumption ==
    /\ IsFiniteSet(Callers)
    /\ RateLimit \in Nat
    /\ InflightCap \in Nat \ {0}
    /\ RateTries \in Nat \ {0} /\ CapTries \in Nat \ {0}
    /\ LastMinute \in Nat \ {0} /\ MaxCalls \in Nat /\ MaxDeaths \in Nat

VARIABLES
    minute,    \* the clock, in minutes
    rate,      \* cv_rate_slots
    log,       \* cv_log_slots
    inflight,  \* cv_inflight
    call,      \* the call a worker is in
    calls,     \* calls so far
    leaked,    \* permits whose holder died
    admitted,  \* history: calls the rate word counted, per slot and minute
    lines,     \* history: lines the log word allowed, per slot and minute
    torn       \* history: slots and minutes whose count a late caller lost, or
               \* on which a caller gave up

limitHistory == <<admitted, lines, torn>>
limitVars == <<minute, rate, log, inflight, call, calls, leaked, limitHistory>>

Minutes == 0 .. LastMinute
Words == [win : Minutes, n : Nat]
NoWord == [win |-> 0, n |-> 0]
Steps == {"idle", "rate", "rateSwap", "cap", "capSwap", "provider", "log", "logSwap"}

NoCall == [at |-> "idle"]
\* A call: where it is, its slot, its minute, what it read, attempts made.
InCall(at, slot, min) ==
    [at |-> at, slot |-> slot, min |-> min, seen |-> NoWord, count |-> 0, tries |-> 0]
CallRecords ==
    {NoCall} \cup [at : Steps \ {"idle"}, slot : Slots, min : Minutes,
                   seen : Words, count : Nat, tries : Nat]

LimitTypeOK ==
    /\ minute \in Minutes
    /\ rate \in [Slots -> Words] /\ log \in [Slots -> Words]
    /\ inflight \in Nat
    /\ call \in [Callers -> CallRecords]
    /\ calls \in 0 .. MaxCalls /\ leaked \in 0 .. MaxDeaths
    /\ admitted \in [Slots \X Minutes -> Nat]
    /\ lines \in [Slots \X Minutes -> Nat]
    /\ torn \subseteq {"rate", "log"} \X Slots \X Minutes

LimitInit ==
    /\ minute = 1
    /\ rate = [s \in Slots |-> NoWord] /\ log = [s \in Slots |-> NoWord]
    /\ inflight = 0
    /\ call = [c \in Callers |-> NoCall]
    /\ calls = 0 /\ leaked = 0
    /\ admitted = [sm \in Slots \X Minutes |-> 0]
    /\ lines = [sm \in Slots \X Minutes |-> 0]
    /\ torn = {}
-----------------------------------------------------------------------------
(* One attempt on a word: a stale window rolls over, another counts up. *)

NextWord(word, min) == [win |-> min, n |-> IF word.win # min THEN 1 ELSE word.n + 1]

\* A swap takes only while the word, or the count, is what was read.
SwapTakesHalf(word, seen) == word.n = seen.n        \* mutant: half the word
SwapTakes(word, seen) == word = seen

CapTakesBlind(n, seen) == TRUE                      \* mutant: a plain store
CapTakes(n, seen) == n = seen

At(c, step) == call[c].at = step
Go(c, step) == call' = [call EXCEPT ![c].at = step]
\* To another loop, whose attempts and clock reading are its own.
Turn(c, step, min) == call' = [call EXCEPT ![c] = InCall(step, @.slot, min)]
Finish(c) == call' = [call EXCEPT ![c] = NoCall]
Place(c) == <<call[c].slot, call[c].min>>

\* A caller writes its older minute over a newer one, and whatever was counted
\* from then on may be counted again; a caller gives up.
Tear(table, slot, old, min) ==
    torn' = IF old.win > min THEN torn \cup {<<table, slot, m>> : m \in min .. old.win}
            ELSE torn
GiveUp(c, table) == torn' = torn \cup {<<table, call[c].slot, call[c].min>>}
-----------------------------------------------------------------------------
(* bs_captcha_siteverify_guarded. *)

\* A call starts with the clock of the rate check; a limit of zero skips it.
Call(c) ==
    /\ At(c, "idle") /\ calls < MaxCalls
    /\ \E slot \in Slots :
           call' = [call EXCEPT ![c] =
               InCall(IF RateLimit > 0 THEN "rate" ELSE "cap", slot, minute)]
    /\ calls' = calls + 1
    /\ UNCHANGED <<minute, rate, log, inflight, leaked, limitHistory>>

\* bs_cv_counter_bump reads the word: at the limit the call is refused.
AtLimit(word, min) == word.win = min /\ word.n >= RateLimit

RateRead(c) ==
    /\ At(c, "rate")
    /\ LET word == rate[call[c].slot] IN
       IF AtLimit(word, call[c].min)
       THEN Turn(c, "log", minute)
       ELSE call' = [call EXCEPT ![c].at = "rateSwap", ![c].seen = word]
    /\ UNCHANGED <<minute, rate, log, inflight, calls, leaked, limitHistory>>

RateSwap(c) ==
    /\ At(c, "rateSwap") /\ SwapTakes(rate[call[c].slot], call[c].seen)
    /\ rate' = [rate EXCEPT ![call[c].slot] = NextWord(@, call[c].min)]
    /\ admitted' = [admitted EXCEPT ![Place(c)] = @ + 1]
    /\ Tear("rate", call[c].slot, call[c].seen, call[c].min)
    /\ Turn(c, "cap", 0)
    /\ UNCHANGED <<minute, log, inflight, calls, leaked, lines>>

\* Overtaken: another attempt, and after the last one the call is let in.
RateOvertaken(c) ==
    /\ At(c, "rateSwap") /\ ~SwapTakes(rate[call[c].slot], call[c].seen)
    /\ IF call[c].tries + 1 < RateTries
       THEN /\ call' = [call EXCEPT ![c].at = "rate", ![c].tries = @ + 1]
            /\ UNCHANGED torn
       ELSE Turn(c, "cap", 0) /\ GiveUp(c, "rate")
    /\ UNCHANGED <<minute, rate, log, inflight, calls, leaked, admitted, lines>>

\* bs_captcha_inflight_acquire: at the cap the call is refused.
CapRead(c) ==
    /\ At(c, "cap")
    /\ IF inflight >= InflightCap
       THEN Turn(c, "log", minute)
       ELSE call' = [call EXCEPT ![c].at = "capSwap", ![c].count = inflight]
    /\ UNCHANGED <<minute, rate, log, inflight, calls, leaked, limitHistory>>

CapSwap(c) ==
    /\ At(c, "capSwap") /\ CapTakes(inflight, call[c].count)
    /\ inflight' = call[c].count + 1
    /\ Go(c, "provider")
    /\ UNCHANGED <<minute, rate, log, calls, leaked, limitHistory>>

\* Mutant: the same swap is tried again, on a count that is read once.
CapOvertakenSpins(c) ==
    /\ At(c, "capSwap") /\ inflight # call[c].count
    /\ UNCHANGED limitVars

\* Overtaken: another attempt, and after the last one the call is refused.
CapOvertaken(c) ==
    /\ At(c, "capSwap") /\ ~CapTakes(inflight, call[c].count)
    /\ IF call[c].tries + 1 < CapTries
       THEN call' = [call EXCEPT ![c].at = "cap", ![c].tries = @ + 1]
       ELSE Turn(c, "log", minute)
    /\ UNCHANGED <<minute, rate, log, inflight, calls, leaked, limitHistory>>

\* The provider answers or times out; every way back gives up the permit.
Release(c) ==
    /\ At(c, "provider")
    /\ inflight' = inflight - 1
    /\ Finish(c)
    /\ UNCHANGED <<minute, rate, log, calls, leaked, limitHistory>>
-----------------------------------------------------------------------------
(* bs_captcha_log_throttle: the first refusal of a window logs a line. *)

LogRead(c) ==
    /\ At(c, "log")
    /\ call' = [call EXCEPT ![c].at = "logSwap", ![c].seen = log[call[c].slot]]
    /\ UNCHANGED <<minute, rate, log, inflight, calls, leaked, limitHistory>>

LogSwap(c) ==
    /\ At(c, "logSwap") /\ SwapTakes(log[call[c].slot], call[c].seen)
    /\ log' = [log EXCEPT ![call[c].slot] = NextWord(@, call[c].min)]
    /\ lines' = IF call[c].seen.win # call[c].min
                THEN [lines EXCEPT ![Place(c)] = @ + 1] ELSE lines
    /\ Tear("log", call[c].slot, call[c].seen, call[c].min)
    /\ Finish(c)
    /\ UNCHANGED <<minute, rate, inflight, calls, leaked, admitted>>

\* After the last attempt the line is logged anyway.
LogOvertaken(c) ==
    /\ At(c, "logSwap") /\ ~SwapTakes(log[call[c].slot], call[c].seen)
    /\ IF call[c].tries + 1 < RateTries
       THEN /\ call' = [call EXCEPT ![c].at = "log", ![c].tries = @ + 1]
            /\ UNCHANGED torn
       ELSE Finish(c) /\ GiveUp(c, "log")
    /\ UNCHANGED <<minute, rate, log, inflight, calls, leaked, admitted, lines>>
-----------------------------------------------------------------------------
(* The environment. *)

MinutePasses ==
    /\ minute < LastMinute /\ minute' = minute + 1
    /\ UNCHANGED <<rate, log, inflight, call, calls, leaked, limitHistory>>

\* The child of a call dies: what the call holds is never given back.
CallerDies(c) ==
    /\ call[c] # NoCall /\ leaked < MaxDeaths
    /\ leaked' = IF At(c, "provider") THEN leaked + 1 ELSE leaked
    /\ Finish(c)
    /\ UNCHANGED <<minute, rate, log, inflight, calls, limitHistory>>

CallStep(c) ==
    \/ RateRead(c) \/ RateSwap(c) \/ RateOvertaken(c)
    \/ CapRead(c) \/ CapSwap(c) \/ CapOvertaken(c) \/ Release(c)
    \/ LogRead(c) \/ LogSwap(c) \/ LogOvertaken(c)

LimitNext ==
    \/ \E c \in Callers : Call(c) \/ CallStep(c) \/ CallerDies(c)
    \/ MinutePasses

LimitSpec == LimitInit /\ [][LimitNext]_limitVars

\* A worker keeps running, and the provider's answer has a timeout.
LimitFair == \A c \in Callers : WF_limitVars(CallStep(c))
-----------------------------------------------------------------------------
(* Properties. *)

Holders == {c \in Callers : At(c, "provider")}

\* The in-flight count is the number of calls that wait for a provider plus
\* the permits lost with a child, and it never exceeds the cap, however the
\* swaps of the callers interleave (bs_captcha_inflight_acquire, _release).
InflightExact ==
    /\ inflight = Cardinality(Holders) + leaked
    /\ inflight <= InflightCap

\* In a minute no slot lets more calls through than the limit, and logs no
\* more than one line, unless a caller gave up or wrote an older minute over a
\* newer one (bs_cv_counter_bump, bs_captcha_log_throttle).
RateKept ==
    \A slot \in Slots, min \in Minutes :
        /\ <<"rate", slot, min>> \notin torn => admitted[slot, min] <= RateLimit
        /\ <<"log", slot, min>> \notin torn => lines[slot, min] <= 1

\* A call ends whatever the other callers do: each loop has a last attempt,
\* and the answer of the provider a timeout (bs_captcha_siteverify_guarded).
\* Calls are bounded in number, so in the end none is under way.
CallsEnd == <>[](\A c \in Callers : call[c] = NoCall)
=============================================================================
