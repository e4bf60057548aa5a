----------------------------- MODULE AllowRanges -----------------------------
(***************************************************************************)
(* The addresses of a verified bot (allowlist.c).  They come from the      *)
(* directive, or from a file that botshield-refresh.py keeps, and a        *)
(* sidecar next to it in which the operator adds addresses.  A watchdog    *)
(* rebuilds the table when a modification time has changed; requests whose *)
(* User-Agent names the bot are judged by the table.                       *)
(*                                                                         *)
(* A build reads the file, then takes its modification time, then looks at *)
(* the sidecar; the files may be replaced between any two of these steps.  *)
(* (The two stats that decide whether to build are one step: they change   *)
(* nothing.)  Publication and destruction are those of HotSwap.            *)
(*                                                                         *)
(* One bot stands for all: the tables of two bots share nothing.  A line   *)
(* of a file is the set of addresses it covers, or garbage.                *)
(***************************************************************************)
EXTENDS UaMatch

CONSTANTS
    Bot,          \* pattern of the verified bot
    Addresses,    \* client addresses
    Garbage,      \* a line that is no CIDR
    FileBodies,   \* what the file can hold
    SideBodies,   \* what the sidecar can hold
    SideAtStart,  \* what it holds at start-up
    Missing,      \* no such file
    Targets,      \* third arguments of BotShieldAllowBot
    ClassifyArgs, \* lists of deltas of BotShieldClassify
    MaxRewrites   \* bound on the changes of the two files

\* The bot has a name of its own: none that bs_retired_agents calls a fake by.
ASSUME RangesAssumption ==
    /\ MaxRewrites \in Nat /\ ClaimedRetired(Bot) = 0
    /\ SideAtStart \in SideBodies /\ Missing \notin FileBodies \cup SideBodies /\ Missing # {}

VARIABLES
    allowed,  \* the entry of the bot and the flags of BotShieldClassify
    files,    \* the file and the sidecar: modification time and lines
    ranges,   \* the active table: addresses or Missing, and the times recorded
    build,    \* where the watchdog is
    rewrites, \* changes so far; the first takes the time 2, the next 3
    verdict,  \* what the last request of a claimed bot was taken for
    held      \* history: the address lists the file and the sidecar have held

rangesVars == <<allowed, files, ranges, build, rewrites, verdict, held>>

Parts == {"file", "side"}

\* bs_set_allow_bot, by the form of its third argument: "*" trusts the name,
\* a path or nothing (and the built-in entry) names a file, anything with a
\* mask is a list.
Target(form, lines) == [form |-> form, lines |-> lines]
KindOf(target) ==
    CASE target.form = "star"              -> "any"
      [] target.form \in {"none", "path"}  -> "file"
      [] target.form = "cidrs"             -> "inline"

\* bs_allow_load_ranges and bs_allow_load_ranges_from_string: one bad line, or
\* no line at all, and there is no list.
Loaded1(lines) ==
    IF lines = <<>> \/ Garbage \in Range(lines) THEN Missing ELSE UNION Range(lines)

\* bs_allow_load_ranges_with_sidecar: a sidecar that cannot be loaded takes the
\* file with it.
WithSideLenient(list, side) == list \cup (IF side = Missing THEN {} ELSE side)     \* mutant
WithSide(list, side) == IF side = Missing THEN Missing ELSE list \cup side

Resting == [at |-> "rest"]
Table(list, cm, sm) == [list |-> list, file |-> cm, side |-> sm]
NoVerdict == [addr |-> Missing, label |-> "unknown", counted |-> "none"]

NowTimes == [p \in Parts |-> IF files[p].lines = Missing THEN 0 ELSE files[p].mtime]

RangesInit ==
    /\ \E target \in Targets, deltas \in ClassifyArgs :
           allowed = [kind |-> KindOf(target), lines |-> target.lines,
                      flags |-> FlagsOf(AllFlags, deltas)]
    /\ \E lines \in FileBodies :
           LET whole == Loaded1(lines) IN
           /\ files = [file |-> [mtime |-> 1, lines |-> lines],
                       side |-> [mtime |-> 1, lines |-> SideAtStart]]
           /\ ranges = CASE allowed.kind = "any"    -> Table(Missing, 0, 0)
                         [] allowed.kind = "inline" -> Table(Loaded1(allowed.lines), 0, 0)
                         [] OTHER -> IF whole = Missing THEN Table(Missing, 0, 0)
                                     ELSE Table(WithSide(whole, Loaded1(SideAtStart)), 1, 1)
           /\ held = [file |-> {whole} \ {Missing}, side |-> {Loaded1(SideAtStart)} \ {Missing}]
    /\ build = Resting /\ rewrites = 0 /\ verdict = NoVerdict
-----------------------------------------------------------------------------
(* The watchdog: bs_allow_ranges_watchdog_cb and bs_allow_ranges_build. *)

Publish(table) == ranges' = table /\ build' = Resting

Changed == NowTimes # [file |-> ranges.file, side |-> ranges.side]

StartBuild ==
    /\ allowed.kind = "file" /\ build = Resting /\ Changed
    /\ build' = [at |-> "read"]
    /\ UNCHANGED <<allowed, files, ranges, rewrites, verdict, held>>

\* A file that cannot be loaded leaves the bot without a list, and no time is
\* recorded of either file: the next tick builds again.
ReadFile ==
    /\ build.at = "read"
    /\ LET list == IF files.file.lines = Missing THEN Missing ELSE Loaded1(files.file.lines) IN
       IF list = Missing THEN Publish(Table(Missing, 0, 0))
       ELSE /\ build' = [at |-> "stat", list |-> list]
            /\ UNCHANGED ranges
    /\ UNCHANGED <<allowed, files, rewrites, verdict, held>>

StatFile ==
    /\ build.at = "stat"
    /\ build' = [at |-> "statside", list |-> build.list, file |-> NowTimes.file]
    /\ UNCHANGED <<allowed, files, ranges, rewrites, verdict, held>>

StatSide ==
    /\ build.at = "statside"
    /\ IF files.side.lines = Missing THEN Publish(Table(build.list, build.file, 0))
       ELSE /\ build' = [at |-> "readside", list |-> build.list, file |-> build.file,
                         side |-> files.side.mtime]
            /\ UNCHANGED ranges
    /\ UNCHANGED <<allowed, files, rewrites, verdict, held>>

ReadSide ==
    /\ build.at = "readside"
    /\ LET side == IF files.side.lines = Missing THEN Missing ELSE Loaded1(files.side.lines) IN
       Publish(Table(WithSide(build.list, side), build.file, build.side))
    /\ UNCHANGED <<allowed, files, rewrites, verdict, held>>
-----------------------------------------------------------------------------
(* Requests, botshield-refresh.py and the operator. *)

\* What the table says of an address: classify_verified and
\* bs_allow_ip_in_ranges.
Said(addr) ==
    CASE allowed.kind = "any" -> "any"
      [] allowed.kind # "any" /\ ranges.list = Missing -> "unranged"
      [] OTHER -> IF addr \in ranges.list THEN "in" ELSE "out"

\* bs_check_allow: the counter the request goes into.
CountedAs(label, said) ==
    CASE label = "verified" -> "allow"
      [] label = "fake"     -> "fake"
      [] OTHER -> IF said = "any" THEN "none" ELSE "unverified"

Judge(addr) ==
    /\ LET class == Classify(Bot, allowed.flags, tables, Trie(<<Bot>>, Bot), Said(addr)) IN
       verdict' = [addr |-> addr, label |-> class.label,
                   counted |-> CountedAs(class.label, Said(addr))]
    /\ UNCHANGED <<allowed, files, ranges, build, rewrites, held>>

\* A file is replaced as a whole, or removed.
Rewrite(p) ==
    /\ rewrites < MaxRewrites /\ rewrites' = rewrites + 1
    /\ \E lines \in {Missing} \cup (IF p = "file" THEN FileBodies ELSE SideBodies) :
           LET whole == IF lines # Missing THEN Loaded1(lines)
                        ELSE IF p = "side" THEN {} ELSE Missing
           IN /\ files' = [files EXCEPT ![p] = [mtime |-> rewrites + 2, lines |-> lines]]
              /\ held' = [held EXCEPT ![p] = @ \cup ({whole} \ {Missing})]
    /\ UNCHANGED <<allowed, ranges, build, verdict>>

RangesNext ==
    \/ StartBuild \/ ReadFile \/ StatFile \/ StatSide \/ ReadSide
    \/ \E addr \in Addresses : Judge(addr)
    \/ \E p \in Parts : Rewrite(p)

RangesSpec ==
    /\ MatchInit /\ RangesInit
    /\ [][\/ RangesNext /\ UNCHANGED matchVars
          \/ MatchNext /\ UNCHANGED rangesVars]_<<matchVars, rangesVars>>
-----------------------------------------------------------------------------
(* Properties. *)

Listed == IF allowed.kind = "inline" THEN {<<Loaded1(allowed.lines), {}>>}
          ELSE held.file \X held.side

\* Nobody is judged by half a list.  A client that names the bot is taken for
\* a fake one only if some whole file and some whole sidecar (or its absence)
\* were on disk that did not have its address, and for the verified one only
\* if one of them had it: a file that cannot be read, a line that cannot be
\* parsed and a table built from two moments cost the bot its credit, never
\* its name (bs_allow_load_ranges_with_sidecar, classify_verified).
JudgedByWholeFiles ==
    /\ verdict.label = "fake"     => \E l \in Listed : verdict.addr \notin l[1] \cup l[2]
    /\ verdict.label = "verified" => \E l \in Listed : verdict.addr \in l[1] \cup l[2]
=============================================================================
