--------------------------- MODULE LoadHysteresis ---------------------------
(***************************************************************************)
(* The load state of load.c.  A watchdog samples once per interval: the    *)
(* share of busy workers, the load average, the mean request latency and   *)
(* a file in which an outside monitor can push a state.  The most severe   *)
(* of the four is the candidate; the published state follows it one level  *)
(* at a time, up after a few candidates above it in a row, down after more *)
(* of them below it in a row.                                              *)
(*                                                                         *)
(* The watchdog is one thread, so a tick is one step, except that the      *)
(* monitor can write its file between the stat and the read of the tick.   *)
(* A restart builds a new segment in the middle of anything.               *)
(*                                                                         *)
(* The counters behind the latency are seen by what a sample of them gives:*)
(* no opinion (no baseline yet, an idle interval, a recycled child) or a   *)
(* mean.  The telemetry files, which only the dashboard shows, and the     *)
(* history rings are left out.                                             *)
(***************************************************************************)
EXTENDS Integers, Sequences, FiniteSetsExt

CONSTANTS
    WarmRise,      \* load_warm_rise: candidates above normal that make it warm
    HotRise,       \* load_hot_rise: candidates above warm that make it hot
    NormalFall,    \* load_normal_fall: candidates below that lower it one level
    BusyPct,       \* values the scoreboard sample takes, in percent
    LoadAvg,       \* values of the load average per CPU, in hundredths
    LatencyMs,     \* mean request latencies, in milliseconds
    LatencyPeriod, \* BS_M_AP_PERIOD, in ticks
    LatencyGrace,  \* BS_M_AP_GRACE_SEC, in ticks
    Bodies,        \* words the monitor writes
    Mtimes,        \* modification times of the state file, enough to differ
    MaxRestarts    \* bound on the restarts

ASSUME LoadAssumption ==
    /\ WarmRise \in Nat \ {0} /\ HotRise \in Nat \ {0} /\ NormalFall \in Nat \ {0}
    /\ BusyPct \subseteq Nat /\ LoadAvg \subseteq Nat /\ LatencyMs \subseteq Nat
    /\ LatencyPeriod \in Nat \ {0} /\ LatencyGrace \in Nat
    /\ Mtimes \subseteq Nat \ {0} /\ Cardinality(Mtimes) >= 4
    /\ MaxRestarts \in Nat

Normal == 0
Warm   == 1
Hot    == 2
States == Normal .. Hot

Unknown == -1     \* a sample that has no opinion

VARIABLES
    load,    \* load_state and its two streaks in the segment
    file,    \* BotShieldLoadStateFile: what the monitor wrote last, and when
    ext,     \* load_external_cached and load_external_mtime
    lat,     \* ap_latency_us, its age in ticks, the grace left, ExtendedStatus
    statted, \* the mtime a tick has seen before it reads the file; 0: none
    starts,  \* restarts so far
    cand,    \* history: the candidate of the last tick
    trail    \* history: the candidates since the state last changed

loadHistory == <<cand, trail>>
loadVars == <<load, file, ext, lat, statted, starts, cand, trail>>

\* What a pushed word means; an unknown word reads as normal.
Parsed(body) == CASE body = "warm" -> Warm [] body = "hot" -> Hot [] OTHER -> Normal

LoadTypeOK ==
    /\ load \in [state : States, up : Nat, down : Nat]
    /\ file \in [mtime : Mtimes \cup {0}, body : Bodies \cup {"none"}]
    /\ ext \in [mtime : Mtimes \cup {0}, state : States]
    /\ lat \in [ms : LatencyMs \cup {0, Unknown}, age : 0 .. LatencyPeriod,
                grace : 0 .. LatencyGrace, extended : BOOLEAN]
    /\ statted \in Mtimes \cup {0}
    /\ starts \in 0 .. MaxRestarts
    /\ cand \in States \cup {Unknown}
    /\ trail \in Seq(States)

\* A new segment: everything zero, the first latency sample due at once; a
\* new configuration, which has read no file.
NewLoad == [state |-> Normal, up |-> 0, down |-> 0]
NewExt  == [mtime |-> 0, state |-> Normal]
NewLat(extended) == [ms |-> 0, age |-> LatencyPeriod, grace |-> LatencyGrace,
                     extended |-> extended]

LoadInit ==
    /\ load = NewLoad /\ ext = NewExt
    /\ \E extended \in BOOLEAN : lat = NewLat(extended)
    /\ file = [mtime |-> 0, body |-> "none"]
    /\ statted = 0 /\ starts = 0
    /\ cand = Unknown /\ trail = <<>>
-----------------------------------------------------------------------------
(* The candidate of a tick. *)

StateFromPct(pct, warm, hot) ==
    IF pct >= hot THEN Hot ELSE IF pct >= warm THEN Warm ELSE Normal

\* The signals with the thresholds of shm.h.
BusyState(pct) == StateFromPct(pct, 65, 85)
AvgState(avg)  == IF avg = Unknown THEN Normal ELSE StateFromPct(avg, 100, 150)
LatencyState(l) ==
    IF l.ms = Unknown \/ l.grace > 0 THEN Normal ELSE StateFromPct(l.ms, 250, 1000)

\* The latency after a tick: a sample is due once per period; one without an
\* opinion leaves the published mean as it is, a server without
\* ExtendedStatus publishes that there is none.
Sampled(l, mean) ==
    LET due == l.age >= LatencyPeriod IN
    [l EXCEPT !.ms    = IF ~due THEN @
                        ELSE IF ~l.extended THEN Unknown
                        ELSE IF mean = Unknown THEN @ ELSE mean,
              !.age   = IF due THEN 1 ELSE @ + 1,
              !.grace = IF @ > 0 THEN @ - 1 ELSE 0]

MostSevere(busy, pushed, avg, latency) ==
    Max({BusyState(busy), pushed, AvgState(avg), LatencyState(latency)})
-----------------------------------------------------------------------------
(* bs_load_apply_tick. *)

Need(s) == IF s = Normal THEN WarmRise ELSE HotRise

\* Mutants: a candidate at the state leaves the streaks; only a normal one
\* counts towards a fall.
AppliedKeepsStreaks(l, candidate) ==
    CASE candidate > l.state ->
           IF l.up + 1 >= Need(l.state)
           THEN [state |-> l.state + 1, up |-> 0, down |-> 0]
           ELSE [l EXCEPT !.up = @ + 1, !.down = 0]
      [] candidate < l.state ->
           IF l.down + 1 >= NormalFall
           THEN [state |-> l.state - 1, up |-> 0, down |-> 0]
           ELSE [l EXCEPT !.up = 0, !.down = @ + 1]
      [] OTHER -> l
AppliedFallsFromNormal(l, candidate) ==
    CASE candidate > l.state ->
           IF l.up + 1 >= Need(l.state)
           THEN [state |-> l.state + 1, up |-> 0, down |-> 0]
           ELSE [l EXCEPT !.up = @ + 1, !.down = 0]
      [] candidate = Normal /\ l.state > Normal ->
           IF l.down + 1 >= NormalFall
           THEN [state |-> l.state - 1, up |-> 0, down |-> 0]
           ELSE [l EXCEPT !.up = 0, !.down = @ + 1]
      [] OTHER -> [l EXCEPT !.up = 0, !.down = 0]

Applied(l, candidate) ==
    LET up == l.up + 1  down == l.down + 1 IN
    CASE candidate > l.state ->
           IF up >= Need(l.state)
           THEN [state |-> l.state + 1, up |-> 0, down |-> 0]
           ELSE [l EXCEPT !.up = up, !.down = 0]
      [] candidate < l.state ->
           IF down >= NormalFall
           THEN [state |-> l.state - 1, up |-> 0, down |-> 0]
           ELSE [l EXCEPT !.up = 0, !.down = down]
      [] OTHER -> [l EXCEPT !.up = 0, !.down = 0]

Longest == Max({WarmRise, HotRise, NormalFall})
LastOf(seq, n) == SubSeq(seq, Len(seq) - n + 1, Len(seq))

\* History: the candidates since the state last changed, the newest kept.
Trailed(seq, candidate) ==
    LET all == Append(seq, candidate) IN
    IF Len(all) > Longest THEN LastOf(all, Longest) ELSE all

Fold(busy, pushed, avg, mean) ==
    LET l == Sampled(lat, mean)
        c == MostSevere(busy, pushed, avg, l)
    IN  /\ lat' = l
        /\ load' = Applied(load, c)
        /\ cand' = c
        /\ trail' = IF load'.state # load.state THEN <<>> ELSE Trailed(trail, c)
-----------------------------------------------------------------------------
(* A tick of the watchdog. *)

\* The fold of any samples with the state the monitor has pushed.
FoldAny(pushed) ==
    \E busy \in BusyPct, avg \in LoadAvg \cup {Unknown}, mean \in LatencyMs \cup {Unknown} :
        Fold(busy, pushed, avg, mean)

\* The file is missing, cannot be opened or read, or has not changed: the
\* tick goes on with what the last good read produced.
TickOnCached ==
    /\ statted = 0
    /\ FoldAny(ext.state)
    /\ UNCHANGED <<file, ext, statted, starts>>

\* The file has changed: its mtime is taken first, ...
TickStat ==
    /\ statted = 0 /\ file.mtime \notin {0, ext.mtime}
    /\ statted' = file.mtime
    /\ UNCHANGED <<load, file, ext, lat, starts, loadHistory>>

\* ... then it is read, and what was read goes with the mtime taken before.
TickRead ==
    /\ statted # 0
    /\ ext' = [mtime |-> statted, state |-> Parsed(file.body)]
    /\ statted' = 0
    /\ FoldAny(Parsed(file.body))
    /\ UNCHANGED <<file, starts>>

\* A read that fails after the stat leaves the cache and its mtime alone.
TickReadFails ==
    /\ statted # 0
    /\ statted' = 0
    /\ FoldAny(ext.state)
    /\ UNCHANGED <<file, ext, starts>>

\* The monitor replaces the file; the new modification time is unlike any
\* that the watchdog still holds.
MonitorWrites ==
    /\ \E body \in Bodies :
           file' = [mtime |-> Min(Mtimes \ {file.mtime, ext.mtime, statted}), body |-> body]
    /\ UNCHANGED <<load, ext, lat, statted, starts, loadHistory>>

\* A restart, at any point of a tick.
LoadRestart ==
    /\ starts < MaxRestarts /\ starts' = starts + 1
    /\ load' = NewLoad /\ ext' = NewExt /\ lat' = NewLat(lat.extended)
    /\ statted' = 0
    /\ cand' = Unknown /\ trail' = <<>>
    /\ UNCHANGED file

LoadTick == TickOnCached \/ TickStat \/ TickRead \/ TickReadFails

LoadNext == LoadTick \/ MonitorWrites \/ LoadRestart

\* mod_watchdog runs the callback again and again, and a file that is there
\* and readable is read in the end although a read may fail.
LoadFair == WF_loadVars(LoadTick) /\ SF_loadVars(TickStat) /\ SF_loadVars(TickRead)

LoadSpec == LoadInit /\ [][LoadNext]_loadVars /\ LoadFair

-----------------------------------------------------------------------------
(* Properties. *)

\* The streaks are the candidates that have just come in a row: how many at
\* the end of the trail lie above the state and how many below it.
Above == {n \in 1 .. Len(trail) : \A i \in Len(trail) - n + 1 .. Len(trail) : trail[i] > load.state}
Below == {n \in 1 .. Len(trail) : \A i \in Len(trail) - n + 1 .. Len(trail) : trail[i] < load.state}

\* The published state is neither rash nor late.  It has moved only after the
\* whole row of candidates that its next move takes (a candidate on the
\* other side, or at the state itself, starts the row again), so samples
\* that swing around a threshold move nothing, and it has moved as soon as
\* the row was full (bs_load_apply_tick).
HysteresisKept ==
    /\ load.state < Hot    => load.up   = Cardinality(Above) /\ load.up < Need(load.state)
    /\ load.state > Normal => load.down = Cardinality(Below) /\ load.down < NormalFall

\* When the signals agree on one candidate from some time on, the state gets
\* there and stays: no streak is lost for ever and no level is skipped over.
LoadSettles ==
    <>[][cand' = cand]_loadVars => <>[](cand # Unknown => load.state = cand)
=============================================================================
