------------------------------ MODULE RuleBlocks ------------------------------
(***************************************************************************)
(* How the blocks of a configuration become rules (triggers.c):            *)
(* <BotShieldMatch> names conditions, <BotShieldRule> holds conditions and *)
(* an action, at server scope or in a container, and <BotShieldFeedback>   *)
(* says what an event that the application signs writes.  A block is read  *)
(* into tokens, the sets it names are put in their place, and a setter     *)
(* goes over the tokens and pushes one entry, or one for each User-Agent.  *)
(* The first error refuses the configuration.                              *)
(*                                                                         *)
(* A line is its key, whether its value begins with '!', and what the      *)
(* value is made of.  Patterns are words, and a request says which of them *)
(* its texts match.  Messages and limits on lengths are left out.          *)
(***************************************************************************)
EXTENDS Integers, SequencesExt

CONSTANTS
    BlockFiles, \* configurations: sequences of blocks
    Visits,     \* requests: path, query, ua (the patterns each matches), bare
                \* (no User-Agent), label, group, scraper, net, inside, trait,
                \* reading, flags, scores, and cookies and env as triples of a
                \* name, a value and the words the value contains
    SessionOnly, \* BS_FLAGS_SESSION_ONLY
    RateSlots,  \* counters in the segment: BS_E21_RATE_SLOTS
    Crawled     \* known crawlers, each of which may get a counter of its own

ASSUME BlocksAssumption == RateSlots \in Nat /\ Crawled \in Nat

VARIABLES
    blocks,  \* the configuration
    readIn,  \* blocks read
    sets,    \* match_sets: the tokens of each
    serverRules,  \* request_triggers
    scopedRules,  \* the rules of the container
    feedbacks,  \* feedback_triggers
    refused, \* an error was reported
    counted, \* the rules of the server that got a counter
    wired    \* the counters were handed out

blockVars == <<blocks, readIn, sets, serverRules, scopedRules, feedbacks, refused, counted, wired>>

LineOf(key, words, nums) == [key |-> key, neg |-> FALSE, words |-> words, nums |-> nums, ops |-> <<>>]
BlockOf(kind, name, lines) == [kind |-> kind, name |-> name, lines |-> lines]
Unnamed == "-"
Waived == 0          \* BS_TRIGGER_STATUS_PASS

Word(t) == t.words[1]
Num(t) == t.nums[1]
-----------------------------------------------------------------------------
(* The keys. *)

Several == {"path", "ua", "ipspec"}       \* bs_section_key_repeats
YesNo == {"solved", "firstsight", "exists", "crawler"}
\* The lowest number each accepts.
Floors == [loadavgatleast |-> 0, latencyatleast |-> 1, busyworkersatleast |-> 1,
           fpmbusyatleast |-> 1, fpmqueueatleast |-> 1, dbrunningatleast |-> 1]
Budgets == {"delay", "rate"}
ByName == {"cookie", "env"}
Conditions == Several \cup YesNo \cup DOMAIN Floors \cup ByName
              \cup {"query", "acceptlanguage", "scoreatleast", "flagged", "bscookie", "cookies"}
FlagKeys == {"flagip", "flagsession"}
Labels == {"challenge", "redirect", "logas", "accesslog", "mode"} \cup FlagKeys
Retired == {"status", "tier", "log", "flag", "ttl", "penalty", "credit"}
\* The keys whose '!' the setter takes off and does not look at again.
Deaf == {"path", "query", "solved", "acceptlanguage", "scoreatleast", "firstsight"} \cup Budgets
-----------------------------------------------------------------------------
(* A block into tokens: bs_section_trigger. *)

GivenTwice(lines) ==
    \E i, j \in DOMAIN lines :
        i < j /\ lines[i].key = lines[j].key /\ lines[i].key \notin Several

\* Only the first line of a key has its '!' read; later it is a part of the
\* value, which the word "!" then stands for.
Token(lines, i) ==
    IF lines[i].neg /\ \E j \in 1 .. i - 1 : lines[j].key = lines[i].key
    THEN [lines[i] EXCEPT !.neg = FALSE, !.words = <<"!">>]
    ELSE lines[i]

\* A directive without a value goes to the front.
IsFlag(t) == t.key = "nochallenge"
Kvs(lines) == SelectSeq([i \in DOMAIN lines |-> Token(lines, i)], LAMBDA t : ~IsFlag(t))
FlagsOf(lines) == SelectSeq(lines, IsFlag)

NamesSet(t) == t.key = "matches" /\ ~t.neg
Expanded(kvs) == FlattenSeq([i \in DOMAIN kvs |->
                     IF NamesSet(kvs[i]) THEN sets[Word(kvs[i])] ELSE <<kvs[i]>>])

Readable(b) ==
    /\ b.lines # <<>>
    /\ ~GivenTwice(b.lines)
    /\ \A t \in ToSet(b.lines) : NamesSet(t) => Word(t) \in DOMAIN sets

Argv(b) == FlagsOf(b.lines) \o Expanded(Kvs(b.lines))

\* A block without a name gives its first token to the setter as the name.
TokensOf(b) == IF b.name = Unnamed THEN Tail(Argv(b)) ELSE Argv(b)
NameOf(b) == IF b.name = Unnamed THEN Head(Argv(b)).key ELSE b.name
NameIsValid(b) == b.name # Unnamed \/ IsFlag(Head(Argv(b)))
-----------------------------------------------------------------------------
(* What a setter refuses of a token. *)

Adds(t) == {t.ops[i].flag : i \in {j \in DOMAIN t.ops : t.ops[j].op # "-"}}
OpsUsed(t) == {t.ops[i].op : i \in DOMAIN t.ops}
FlagsUsed(t) == {t.ops[i].flag : i \in DOMAIN t.ops}

\* '-' and '=' only where the application asserts it; '=' never beside others.
FlagsAccepted(t, family) ==
    /\ t.ops # <<>>
    /\ "=" \in OpsUsed(t) => OpsUsed(t) = {"="}
    /\ family # "feedback" => OpsUsed(t) \subseteq {"+"}
    /\ t.key = "flagip" => FlagsUsed(t) \cap SessionOnly = {}

ActionAccepted(t, family) ==
    /\ ~t.neg
    /\ family = "feedback" => t.key \in {"logas", "accesslog", "mode", "challenge", "nochallenge"} \cup FlagKeys
    /\ \/ t.key \in {"nochallenge", "redirect", "score"}
       \/ t.key = "respond" /\ (t.words = <<"nochallenge">> \/ (t.words = <<>> /\ Num(t) \in 100 .. 599))
       \/ /\ t.key = "challenge" /\ Word(t) \in {"noninteractive", "interactive", "captcha"}
          /\ Len(t.words) = 2 => Word(t) = "captcha"
       \/ t.key = "logas" /\ Word(t) # "off"
       \/ t.key = "accesslog" /\ Word(t) \in {"on", "off"}
       \/ t.key = "mode" /\ Word(t) \in {"observe", "enforce"}
       \/ t.key \in FlagKeys /\ FlagsAccepted(t, family)

\* <name>, <name>=<value>, <name>!<value> and <name>~<value>; a '!' before
\* the name takes nothing after it.
NamedAccepted(t) ==
    /\ t.neg => Len(t.words) = 1
    /\ Len(t.words) = 3 => t.words[2] \in (IF t.key = "cookie" THEN {"=", "!", "~"} ELSE {"="})
    /\ t.key = "cookie" => Word(t) # "own"

ConditionAccepted(t) ==
    /\ t.neg => t.key \in Deaf \cup ByName
    /\ CASE t.key = "path" -> Word(t) # "!"
         [] t.key \in YesNo -> Word(t) \in {"yes", "no"}
         [] t.key = "acceptlanguage" -> Word(t) \in {"", "*"}
         [] t.key = "bscookie" -> Word(t) \in {"verified", "missing", "invalid", "unproven"}
         [] t.key = "cookies" -> Word(t) \in {"none", "any", "session"}
         [] t.key \in DOMAIN Floors -> Num(t) >= Floors[t.key]
         [] t.key \in ByName -> NamedAccepted(t)
         [] t.key = "rate" -> Num(t) >= 1 /\ t.nums[2] > 0
         [] OTHER -> TRUE

TokenAccepted(t) ==
    IF t.key \in Conditions \cup Budgets THEN ConditionAccepted(t) ELSE ActionAccepted(t, "request")
-----------------------------------------------------------------------------
(* The setter of a rule: bs_set_request_trigger. *)

NewEntry(name, from) ==
    [ok |-> TRUE, name |-> name, from |-> from, paths |-> {}, uas |-> <<>>, lastUa |-> <<"*">>,
     nets |-> <<>>, kept |-> {}, status |-> 403, explicit |-> FALSE, scores |-> <<>>]

\* One field for each key: a later token replaces an earlier one.
Keep(e, t) ==
    [e EXCEPT !.kept = {k \in @ : k.key # t.key} \cup {[t EXCEPT !.neg = @ /\ t.key \in ByName]}]

Responds(e, status) == [e EXCEPT !.status = status, !.explicit = TRUE]
\* Mutant: a score or a challenge takes the response of an earlier line away.
PassesAlways(e) == Responds(e, Waived)
PassesUnlessSaid(e) == IF e.explicit THEN e ELSE Responds(e, Waived)

Refusing(e) == [e EXCEPT !.ok = FALSE]
HasBudget(e) == \E k \in e.kept : k.key \in Budgets

Took(e, t) ==
    IF ~e.ok \/ ~TokenAccepted(t) \/ (t.key \in Budgets /\ HasBudget(e)) THEN Refusing(e)
    ELSE CASE t.key = "path"        -> [e EXCEPT !.paths = @ \cup {Word(t)}]
           [] t.key = "ua"          -> [e EXCEPT !.uas = @ \o t.words, !.lastUa = t.words]
           [] t.key = "ipspec"      -> [e EXCEPT !.nets = @ \o t.words]
           [] t.key = "nochallenge" -> Responds(e, Waived)
           [] t.key = "respond"     -> Responds(e, IF t.words = <<>> THEN Num(t) ELSE Waived)
           [] t.key = "challenge"   -> PassesUnlessSaid(Keep(e, t))
           [] t.key = "score" ->
                PassesUnlessSaid([e EXCEPT !.scores = Append(@, [words |-> t.words, nums |-> t.nums])])
           [] OTHER                 -> Keep(e, t)

KeptOf(e, keys) == {k \in e.kept : k.key \in keys}
AnyNet(e) == e.nets \in {<<>>, <<"*">>}
AnyUa(e) == e.lastUa = <<"*">>
HasCohort(e) == ~AnyUa(e) \/ ~AnyNet(e)

\* A rule may not renew the flag it looks for, and at server scope it needs
\* a condition.
RenewsItself(e) ==
    \E k \in KeptOf(e, {"flagged"}) : \E f \in KeptOf(e, FlagKeys) : Word(k) \in Adds(f)
NoCondition(e) == e.paths = {} /\ KeptOf(e, Conditions) = {} /\ ~HasCohort(e)

\* bs_finalize_trigger_action.
Redirects(e) == KeptOf(e, {"redirect"}) # {}
Final(e) == IF Redirects(e) /\ ~e.explicit THEN Responds(e, 302) ELSE e
Loadable(e, inside) ==
    /\ e.ok
    /\ ~RenewsItself(e)
    /\ inside \/ ~NoCondition(e)
    /\ Redirects(e) => Final(e).status \in 300 .. 399
    /\ AnyNet(e) \/ ToSet(e.nets) # {"*"}
    /\ Len(e.uas) > 1 /\ AnyNet(e) => "*" \notin ToSet(e.uas)

EntryOf(b) == FoldLeft(Took, NewEntry(<<NameOf(b), 1>>, readIn + 1), TokensOf(b))

\* One entry, or one for each User-Agent, named after their number.
Copies(e) ==
    IF Len(e.uas) > 1
    THEN [i \in DOMAIN e.uas |-> [Final(e) EXCEPT !.name[2] = i, !.lastUa = <<e.uas[i]>>]]
    ELSE <<Final(e)>>

\* A rule of the server replaces the one of its name, unless it has several
\* User-Agents.
PlaceOfName(name) == {i \in DOMAIN serverRules : serverRules[i].name = name}
PushedTo(ladder, e) ==
    IF Len(e.uas) <= 1 /\ PlaceOfName(e.name) # {}
    THEN [ladder EXCEPT ![CHOOSE i \in PlaceOfName(e.name) : \A j \in PlaceOfName(e.name) : i <= j] = Final(e)]
    ELSE ladder \o Copies(e)
-----------------------------------------------------------------------------
(* The setters of a set and of an event. *)

SetAccepted(b) ==
    /\ b.name \notin DOMAIN sets
    /\ \A t \in ToSet(Argv(b)) :
           t.neg \/ t.key \notin {"respond", "nochallenge"} \cup Labels \cup Retired

EventTaken(e, t) ==
    IF e.ok /\ t.key = "event" /\ ~t.neg THEN [e EXCEPT !.event = Word(t)]
    ELSE IF e.ok /\ ActionAccepted(t, "feedback") THEN Keep(e, t)
    ELSE Refusing(e)
EventOf(b) == FoldLeft(EventTaken, [ok |-> TRUE, event |-> "", kept |-> {}], TokensOf(b))
EventLoadable(e) == e.ok /\ e.event # "" /\ KeptOf(e, FlagKeys) # {}
-----------------------------------------------------------------------------
BlocksInit ==
    /\ blocks \in BlockFiles
    /\ readIn = 0
    /\ sets = <<>>
    /\ serverRules = <<>> /\ scopedRules = <<>> /\ feedbacks = <<>>
    /\ refused = FALSE /\ counted = {} /\ wired = FALSE

Reads(kinds) == ~refused /\ readIn < Len(blocks) /\ blocks[readIn + 1].kind \in kinds
Here == blocks[readIn + 1]

ReadSet ==
    /\ Reads({"set"}) /\ Readable(Here) /\ SetAccepted(Here)
    /\ sets' = [n \in DOMAIN sets \cup {Here.name} |-> IF n = Here.name THEN Argv(Here) ELSE sets[n]]
    /\ readIn' = readIn + 1
    /\ UNCHANGED <<blocks, counted, wired, serverRules, scopedRules, feedbacks, refused>>

ReadServerRule ==
    /\ Reads({"rule"}) /\ Readable(Here) /\ NameIsValid(Here) /\ Loadable(EntryOf(Here), FALSE)
    /\ serverRules' = PushedTo(serverRules, EntryOf(Here))
    /\ readIn' = readIn + 1
    /\ UNCHANGED <<blocks, counted, wired, sets, scopedRules, feedbacks, refused>>

ReadScopedRule ==
    /\ Reads({"inside"}) /\ Readable(Here) /\ NameIsValid(Here) /\ Loadable(EntryOf(Here), TRUE)
    /\ scopedRules' = scopedRules \o Copies(EntryOf(Here))
    /\ readIn' = readIn + 1
    /\ UNCHANGED <<blocks, counted, wired, sets, serverRules, feedbacks, refused>>

ReadFeedback ==
    /\ Reads({"feedback"}) /\ Readable(Here) /\ EventLoadable(EventOf(Here))
    /\ feedbacks' = Append(feedbacks, EventOf(Here))
    /\ readIn' = readIn + 1
    /\ UNCHANGED <<blocks, counted, wired, sets, serverRules, scopedRules, refused>>

Loads(b) ==
    /\ Readable(b)
    /\ CASE b.kind = "set"      -> SetAccepted(b)
         [] b.kind = "feedback" -> EventLoadable(EventOf(b))
         [] OTHER               -> NameIsValid(b) /\ Loadable(EntryOf(b), b.kind = "inside")

RefuseBlock ==
    /\ Reads({"set", "rule", "inside", "feedback"}) /\ ~Loads(Here)
    /\ refused' = TRUE
    /\ UNCHANGED <<blocks, counted, wired, readIn, sets, serverRules, scopedRules, feedbacks>>

Done == readIn = Len(blocks) /\ ~refused

\* bs_wire_rate_and_block_cohorts hands out the counters, one for a rule and
\* one for each crawler where each has its own, to the rules of the server.
ForEach(e) == \E k \in KeptOf(e, Budgets) : k.key = "delay" \/ k.words = <<"each">>
CountersOf(e) == IF ForEach(e) THEN 1 + Crawled ELSE 1
HandedOut ==
    LET Hand(given, i) ==
            IF ~HasBudget(serverRules[i]) \/ given.next >= RateSlots THEN given
            ELSE [next |-> given.next + CountersOf(serverRules[i]), to |-> given.to \cup {i}]
    IN  FoldLeft(Hand, [next |-> 0, to |-> {}], [i \in DOMAIN serverRules |-> i]).to

WireCounters ==
    /\ Done /\ ~wired
    /\ wired' = TRUE
    /\ counted' = HandedOut
    /\ UNCHANGED <<blocks, readIn, sets, serverRules, scopedRules, feedbacks, refused>>

BlocksNext ==
    ReadSet \/ ReadServerRule \/ ReadScopedRule \/ ReadFeedback \/ RefuseBlock \/ WireCounters
-----------------------------------------------------------------------------
(* When a rule holds for a request: the conditions of check_policy. *)

\* bs_cookie_pred_match, and the env condition.
HoldsNamed(t, held) ==
    LET mine == {p \in held : p[1] = Word(t)}
    IN  IF Len(t.words) = 1 THEN (mine # {}) # t.neg
        ELSE \E p \in mine : CASE t.words[2] = "=" -> p[2] = t.words[3]
                               [] t.words[2] = "!" -> p[2] # t.words[3]
                               [] OTHER            -> t.words[3] \in p[3]

HoldsCookies(kind, held) ==
    CASE kind = "none"    -> held = {}
      [] kind = "any"     -> held # {}
      [] kind = "session" -> \E p \in held : p[1] = "session"

\* A verdict not yet reached, a reading that is missing (-1) and an address
\* that cannot be told are no match.
HoldsToken(t, c) ==
    CASE t.key = "query" -> Word(t) \in c.query
      [] t.key \in YesNo \cup {"acceptlanguage"} -> c.trait[t.key] = Word(t)
      [] t.key = "bscookie" ->
           IF Word(t) = "unproven" THEN c.trait["bscookie"] \in {"missing", "invalid"}
           ELSE c.trait["bscookie"] = Word(t)
      [] t.key = "cookies" -> HoldsCookies(Word(t), c.cookies)
      [] t.key \in DOMAIN Floors -> c.reading[t.key] >= 0 /\ c.reading[t.key] >= Num(t)
      [] t.key = "flagged" -> Word(t) \in c.flags
      [] t.key = "scoreatleast" -> c.scores[Word(t)] >= Num(t)
      [] t.key = "cookie" -> HoldsNamed(t, c.cookies)
      [] t.key = "env" -> HoldsNamed(t, c.env)

\* bs_cohort_matches.
HoldsUa(w, c) ==
    CASE w = "*"            -> TRUE
      [] w = ""             -> c.bare
      [] w = "@bot"         -> c.label \in {"verified", "known", "unknown"}
      [] w = "@fake-bot"    -> c.label = "fake"
      [] w = "@verified-bot" -> c.label = "verified"
      [] w = "@scraper"     -> c.scraper
      [] OTHER              -> w = c.group \/ w \in c.ua

\* A list of networks with a word that is none never matches.
Garbled == {"*", "!"}
Holds(e, c) ==
    /\ e.paths # {} => e.paths \cap c.path # {}
    /\ \A k \in KeptOf(e, Conditions) : HoldsToken(k, c)
    /\ HoldsUa(e.lastUa[1], c)
    /\ AnyNet(e) \/ (ToSet(e.nets) \cap Garbled = {} /\ c.net \in ToSet(e.nets))

\* The walk: the container's rules come first.
LadderFor(c) == (IF c.inside THEN scopedRules ELSE <<>>) \o serverRules
Hits(c) == SelectSeq(LadderFor(c), LAMBDA e : Holds(e, c))
SayOf(e) == [status |-> e.status, scores |-> e.scores, does |-> KeptOf(e, Labels \cup Budgets)]

\* What each block that is met says, in the order of the walk.
FirstOfBlock(hits, i) == \A j \in 1 .. i - 1 : hits[j].from # hits[i].from
Walked(c) ==
    LET hits == Hits(c)
        firsts == SetToSortSeq({i \in DOMAIN hits : FirstOfBlock(hits, i)}, <)
    IN  [n \in DOMAIN firsts |-> SayOf(hits[firsts[n]])]
-----------------------------------------------------------------------------
(* The same configuration as its lines say it. *)

SetAt(name) == CHOOSE i \in DOMAIN blocks : blocks[i].kind = "set" /\ blocks[i].name = name
Bodies[i \in 1 .. Len(blocks)] ==
    FlattenSeq([n \in DOMAIN blocks[i].lines |->
        LET l == blocks[i].lines[n] IN IF l.key = "matches" THEN Bodies[SetAt(Word(l))] ELSE <<l>>])

WithKey(lines, keys) == {lines[n] : n \in {m \in DOMAIN lines : lines[m].key \in keys}}

LineHolds(l, c) ==
    CASE l.key = "path"   -> Word(l) \in c.path
      [] l.key = "ua"     -> \E w \in ToSet(l.words) : HoldsUa(w, c)
      [] l.key = "ipspec" -> \E w \in ToSet(l.words) : w \in {"*", c.net}
      [] OTHER            -> HoldsToken(l, c)

\* A repeatable key wants one of its lines, every other line has to hold.
Met(lines, c) ==
    /\ \A key \in Several : WithKey(lines, {key}) # {} => \E l \in WithKey(lines, {key}) : LineHolds(l, c)
    /\ \A l \in WithKey(lines, Conditions \ Several) : LineHolds(l, c)

\* A response is what BotShieldRespond says; without one, a rule that waives,
\* challenges or scores passes, one that redirects does so with 302, and any
\* other refuses with 403.
ResponseOf(lines) ==
    LET said == WithKey(lines, {"respond"})
    IN  IF said # {} THEN LET l == CHOOSE l \in said : TRUE IN IF l.words = <<>> THEN Num(l) ELSE Waived
        ELSE IF WithKey(lines, {"nochallenge", "challenge", "score"}) # {} THEN Waived
        ELSE IF WithKey(lines, {"redirect"}) # {} THEN 302 ELSE 403

Saying(lines) ==
    [status |-> ResponseOf(lines),
     scores |-> LET l == SelectSeq(lines, LAMBDA x : x.key = "score")
                IN  [n \in DOMAIN l |-> [words |-> l[n].words, nums |-> l[n].nums]],
     does |-> WithKey(lines, Labels \cup Budgets)]

\* The blocks of a kind; of a name that is given again at server scope the
\* last block counts, in the place of the first.
BlocksOf(kinds) == SetToSortSeq({i \in DOMAIN blocks : blocks[i].kind \in kinds}, <)
SameName(i) == {j \in DOMAIN blocks : blocks[j].kind = "rule" /\ blocks[j].name = blocks[i].name}
Lasting(i) == CHOOSE j \in SameName(i) : \A k \in SameName(i) : k <= j
ServerBlocks ==
    LET firsts == SelectSeq(BlocksOf({"rule"}), LAMBDA i : \A j \in SameName(i) : i <= j)
    IN  [n \in DOMAIN firsts |-> Lasting(firsts[n])]

Declared(c) ==
    LET ladder == (IF c.inside THEN BlocksOf({"inside"}) ELSE <<>>) \o ServerBlocks
        met == SelectSeq(ladder, LAMBDA i : Met(Bodies[i], c))
    IN  [n \in DOMAIN met |-> Saying(Bodies[met[n]])]

EventsNamed(event) ==
    SelectSeq(BlocksOf({"feedback"}), LAMBDA i : \E l \in WithKey(Bodies[i], {"event"}) : Word(l) = event)
-----------------------------------------------------------------------------
\* The files that mean what they say.  Left out are: a '!' on a key that does
\* not hear it, a key given by a set and again by its user, "*" among several
\* networks, a block without a name, and a rule with several User-Agents that
\* is given again.
UserAgentsOf(lines) ==
    FoldLeft(LAMBDA uas, l : IF l.key = "ua" THEN uas \o l.words ELSE uas, <<>>, lines)
Plain ==
    \A i \in DOMAIN blocks :
        /\ \A l \in ToSet(blocks[i].lines) : l.neg => l.key \in ByName
        /\ ~GivenTwice(Bodies[i])
        /\ \A l, m \in WithKey(Bodies[i], {"ipspec"}) : "*" \in ToSet(l.words) => l = m
        /\ blocks[i].name # Unnamed
        /\ blocks[i].kind = "rule" /\ Len(UserAgentsOf(Bodies[i])) > 1 => SameName(i) = {i}

\* What the loaded rules do with a request is what the blocks say, whatever
\* the order of the lines: the conditions of a block all hold, except that of
\* the paths, the User-Agents and the networks one is enough; the response is
\* the one it names; a rule given again takes the place of the first; rules of
\* the container come before those of the server.  The first block of an event
\* says what it writes.
RulesSayTheirBlocks ==
    Done /\ Plain =>
        /\ \A c \in Visits : Walked(c) = Declared(c)
        /\ \A n \in DOMAIN feedbacks :
               LET named == EventsNamed(feedbacks[n].event)
                   first == CHOOSE m \in DOMAIN feedbacks :
                                /\ feedbacks[m].event = feedbacks[n].event
                                /\ \A k \in 1 .. m - 1 : feedbacks[k].event # feedbacks[n].event
               IN  feedbacks[first].kept = WithKey(Bodies[named[1]], Labels)

\* A rule with a budget does not answer the first request that meets it: its
\* action is what exceeding the budget means (the comment where a request is
\* admitted).  A rule that has no counter admits nothing.
LetsOn(e) ==
    \/ e.status = Waived /\ (e.scores # <<>> \/ KeptOf(e, {"challenge"}) # {})
    \/ \E k \in KeptOf(e, {"mode"}) : Word(k) = "observe"
HasCounter(c, n) ==
    LET inner == Len(LadderFor(c)) - Len(serverRules) IN n > inner /\ n - inner \in counted
FirstAdmitted(c, n) == HasBudget(LadderFor(c)[n]) /\ HasCounter(c, n)
Reached(c, n) ==
    \A m \in 1 .. n - 1 :
        Holds(LadderFor(c)[m], c) => FirstAdmitted(c, m) \/ LetsOn(LadderFor(c)[m])
BudgetsSpareTheFirst ==
    wired => \A c \in Visits : \A n \in DOMAIN LadderFor(c) :
                 HasBudget(LadderFor(c)[n]) /\ Holds(LadderFor(c)[n], c) /\ Reached(c, n)
                     => FirstAdmitted(c, n) \/ LetsOn(LadderFor(c)[n])
=============================================================================
