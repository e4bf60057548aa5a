------------------------------- MODULE HotSwap -------------------------------
(***************************************************************************)
(* A directory that is read from a file and re-read when the file changes: *)
(* robots.txt (robots.c), the bot directory (bot_directory.c) and the      *)
(* browser templates (browser_classifier.c).  They share one scheme.  The  *)
(* ranges of the verified bots (allowlist.c) are published and destroyed   *)
(* in the same way and read in another one: AllowRanges.                   *)
(*                                                                         *)
(* The active generation is a pointer of the process: each child has its   *)
(* own, a copy of what the parent loaded before the fork.  A tick of the   *)
(* watchdog stats the file, returns when the modification time is that of  *)
(* the active generation, else parses it into a pool of its own, stores    *)
(* the pointer, and destroys not the generation it displaced but the one   *)
(* displaced by the refresh before.  Requests read the pointer without a   *)
(* lock and use what it points to.  A watchdog registered as a singleton   *)
(* ticks in one child only, another one when that child ends.              *)
(***************************************************************************)
EXTENDS Integers, FiniteSets

CONSTANTS
    Children,   \* children of the server
    Readers,    \* requests that use the directory at a time
    PerChild,   \* registered with singleton = 0: every child ticks
    MaxEdits,   \* bound on the changes of the file
    MaxForks,   \* bound on the children that end and are replaced
    NoChild

ASSUME SwapAssumption ==
    /\ IsFiniteSet(Children) /\ Children # {} /\ NoChild \notin Children
    /\ PerChild \in BOOLEAN
    /\ MaxEdits \in Nat /\ MaxForks \in Nat

VARIABLES
    source,   \* the file: its modification time, and whether it parses
    active,   \* the generation the pointer of a child points to
    pending,  \* the generation displaced by the last refresh of a child
    tick,     \* where the watchdog of a child is
    freed,    \* generations whose pool a child destroyed
    holder,   \* the child in which a singleton ticks
    reader,   \* what a request holds
    forks     \* children replaced so far

swapVars == <<source, active, pending, tick, freed, holder, reader, forks>>

\* A generation: its place in the life of its child, the modification time
\* it is known by and the content it was parsed from.
Generation == [id : Nat, mtime : Nat, body : Nat]
ASSUME NoChildAssumption == NoChild \notin Generation

\* What the parent loaded: a generation, and for a directory with a built-in
\* table that table, displaced by the first load.
Loaded  == [id |-> 1, mtime |-> 0, body |-> 0]
BuiltIn == [id |-> 0, mtime |-> 0, body |-> 0]

Idle == [at |-> "idle"]
Statted(mtime) == [at |-> "statted", mtime |-> mtime]
Built(gen)     == [at |-> "built", gen |-> gen]
Stored(old)    == [at |-> "stored", old |-> old]

Free == [child |-> NoChild]
\* A request in its child; aged once a tick has ended since it took the pointer.
Holds(child, gen, aged) == [child |-> child, gen |-> gen, aged |-> aged]

SwapTypeOK ==
    /\ source \in [mtime : 0 .. MaxEdits, good : BOOLEAN]
    /\ active \in [Children -> Generation]
    /\ pending \in [Children -> Generation \cup {NoChild}]
    /\ tick \in [Children -> {Idle} \cup [at : {"statted"}, mtime : Nat]
                   \cup [at : {"built"}, gen : Generation]
                   \cup [at : {"stored"}, old : Generation]]
    /\ freed \in [Children -> SUBSET Nat]
    /\ holder \in Children
    /\ reader \in [Readers -> {Free} \cup
                      [child : Children, gen : Generation, aged : BOOLEAN]]
    /\ forks \in 0 .. MaxForks

SwapInit ==
    /\ source = [mtime |-> 0, good |-> TRUE]
    /\ active = [c \in Children |-> Loaded]
    /\ \E old \in {BuiltIn, NoChild} : pending = [c \in Children |-> old]
    /\ tick = [c \in Children |-> Idle]
    /\ freed = [c \in Children |-> {}]
    /\ holder \in Children
    /\ reader = [r \in Readers |-> Free]
    /\ forks = 0
-----------------------------------------------------------------------------
(* A tick of the watchdog of a child. *)

Ticks(c) == PerChild \/ holder = c
ReadersOf(c) == {r \in Readers : reader[r] # Free /\ reader[r].child = c}

\* The tick is over: the requests under way have seen one end.
EndTick(c) ==
    /\ tick' = [tick EXCEPT ![c] = Idle]
    /\ reader' = [r \in Readers |-> IF r \in ReadersOf(c)
                                    THEN Holds(c, reader[r].gen, TRUE)
                                    ELSE reader[r]]

\* Ticks of a child are an interval apart, and no request is assumed to use
\* the directory that long.
Grace(c) == \A r \in ReadersOf(c) : ~reader[r].aged

\* The modification time is taken; unchanged, it ends the tick.
Stat(c) ==
    /\ Ticks(c) /\ tick[c] = Idle /\ Grace(c)
    /\ source.mtime # active[c].mtime
    /\ tick' = [tick EXCEPT ![c] = Statted(source.mtime)]
    /\ UNCHANGED <<source, active, pending, freed, holder, reader, forks>>

\* The file, which may be another one by now, is parsed into a new pool; what
\* is recorded is the time taken before.
TimedAfter(c) ==      \* mutant: the content of before, the time of now
    [id |-> active[c].id + 1, mtime |-> source.mtime, body |-> tick[c].mtime]
Timed(c) == [id |-> active[c].id + 1, mtime |-> tick[c].mtime, body |-> source.mtime]

Parse(c) ==
    /\ tick[c].at = "statted" /\ source.good
    /\ tick' = [tick EXCEPT ![c] = Built(Timed(c))]
    /\ UNCHANGED <<source, active, pending, freed, holder, reader, forks>>

\* A file that cannot be read or parsed leaves the previous generation; its
\* time is not recorded, and the next tick tries again.
ParseFails(c) ==
    /\ tick[c].at = "statted" /\ ~source.good
    /\ EndTick(c)
    /\ UNCHANGED <<source, active, pending, freed, holder, forks>>

Store(c) ==
    /\ tick[c].at = "built"
    /\ active' = [active EXCEPT ![c] = tick[c].gen]
    /\ tick' = [tick EXCEPT ![c] = Stored(active[c])]
    /\ UNCHANGED <<source, pending, freed, holder, reader, forks>>

\* The pool a store retires: that of the generation displaced a refresh ago.
RetiredNow(c) == tick[c].old      \* mutant: the one this refresh displaced
Retired(c) == pending[c]

Destroy(c) ==
    /\ tick[c].at = "stored"
    /\ pending' = [pending EXCEPT ![c] = tick[c].old]
    /\ freed' = [freed EXCEPT ![c] =
           IF Retired(c) = NoChild THEN @ ELSE @ \cup {Retired(c).id}]
    /\ EndTick(c)
    /\ UNCHANGED <<source, active, holder, forks>>

Tick(c) == Stat(c) \/ Parse(c) \/ ParseFails(c) \/ Store(c) \/ Destroy(c)
-----------------------------------------------------------------------------
(* Requests, the operator and the parent. *)

Take(r) ==
    /\ reader[r] = Free
    /\ \E c \in Children : reader' = [reader EXCEPT ![r] = Holds(c, active[c], FALSE)]
    /\ UNCHANGED <<source, active, pending, tick, freed, holder, forks>>

Done(r) ==
    /\ reader[r] # Free
    /\ reader' = [reader EXCEPT ![r] = Free]
    /\ UNCHANGED <<source, active, pending, tick, freed, holder, forks>>

\* The operator writes a file, whole or broken; every write has its own time.
Edit ==
    /\ source.mtime < MaxEdits
    /\ \E good \in BOOLEAN : source' = [mtime |-> source.mtime + 1, good |-> good]
    /\ UNCHANGED <<active, pending, tick, freed, holder, reader, forks>>

\* A child ends with its requests; its successor starts from the parent's
\* memory.  A singleton moves to any child.
Fork(c) ==
    /\ forks < MaxForks /\ forks' = forks + 1
    /\ active' = [active EXCEPT ![c] = Loaded]
    /\ \E old \in {BuiltIn, NoChild} : pending' = [pending EXCEPT ![c] = old]
    /\ tick' = [tick EXCEPT ![c] = Idle]
    /\ freed' = [freed EXCEPT ![c] = {}]
    /\ reader' = [r \in Readers |-> IF r \in ReadersOf(c) THEN Free ELSE reader[r]]
    /\ IF holder = c THEN holder' \in Children ELSE UNCHANGED holder
    /\ UNCHANGED source

SwapNext ==
    \/ \E c \in Children : Tick(c) \/ Fork(c)
    \/ \E r \in Readers : Take(r) \/ Done(r)
    \/ Edit

SwapSpec == SwapInit /\ [][SwapNext]_swapVars

\* The watchdog of a child that has one keeps ticking, and requests end.
SwapFair ==
    /\ \A c \in Children : SF_swapVars(Tick(c))
    /\ \A r \in Readers : WF_swapVars(Done(r))
-----------------------------------------------------------------------------
(* Properties. *)

\* No request uses a generation whose pool is destroyed, as long as no
\* request outlives the interval between two ticks (bs_robots_load,
\* bs_known_bots_publish).
NoUseAfterFree ==
    \A r \in Readers : reader[r] # Free => reader[r].gen.id \notin freed[reader[r].child]

\* What the operator wrote last, if it parses, is what every child ends up
\* serving: the tick that reads a file while it changes is followed by one
\* that sees the change (docs/faq.md: "re-parsed by the watchdog on mtime
\* change").
RefreshReachesAll ==
    <>[](source.good => \A c \in Children : active[c].body = source.mtime)
=============================================================================
