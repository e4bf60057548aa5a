------------------------------- MODULE MCRequests -------------------------------
(* Small instances of the modules of what a request goes through: how its      *)
(* configuration was merged, the rules, robots.txt, the crawler budgets, the   *)
(* challenge and the safeguard, and the counters it leaves.  A behaviour has   *)
(* one subject; the others stand still.                                        *)
EXTENDS MetricsRing, BotRate, Safeguard, Visitor, Robots, PolicyWalk, ConfigMerge,
        RuleBlocks, TLC

CONSTANTS Subjects, Ka, Kb, Kc

VARIABLE subject

requestsVars == <<ringVars, botVars, safeguardVars, visitorVars, robotsVars, policyVars,
                  configVars, blockVars, subject>>

(* Safeguard: two of three addresses share a bucket. *)
MCHome == Ka :> 0 @@ Kb :> 0 @@ Kc :> 1

(* Visitor: embedded mode, with a captcha provider and without. *)
MCSites == {[captcha |-> b, embedded |-> TRUE] : b \in BOOLEAN}

(* Robots. *)
Pat(parts) == [parts |-> parts, anchored |-> FALSE]
NoA == Rule(Pat(<< <<"a">> >>), FALSE)
AThenB == Rule(Pat(<< <<"a">>, <<"b">> >>), TRUE)
MCTokens == [t1 |-> [len |-> 3, crawlers |-> {"c1", "c2"}], t2 |-> [len |-> 5, crawlers |-> {"c2"}]]
MCRobotsLines == {Agent("t1"), Agent("t2"), Agent(Star), NoA, AThenB, NoRule, Delay(0), Delay(2)}
MCInlines == {[NoGroup EXCEPT !.agents = <<"t2">>, !.rules = <<NoA>>, !.observe = TRUE, !.delay = 3]}
MCPaths == {<<"a">>, <<"a", "a", "b">>}

(* BotRate: every combination of three lists of robots.txt groups, four lists  *)
(* of rules, a wildcard and a total.                                           *)
MCBotgroupOf == "a" :> "ai" @@ "b" :> "search" @@ "z" :> "ai"
BotRule(kind, slugs, n, observe) ==
    [kind |-> kind, slugs |-> slugs, group |-> "", budget |-> n, observe |-> observe]
GroupRule(group, n) ==
    [kind |-> "group", slugs |-> {}, group |-> group, budget |-> n, observe |-> FALSE]
Tok(len, slugs) == [len |-> len, slugs |-> slugs]
DelayGroup(delay, tokens) == [delay |-> delay, tokens |-> tokens]
Limit(n) == [budget |-> n, observe |-> FALSE]

RobotsGroups ==
    { <<>>,
      <<DelayGroup(1, <<Tok(3, {"a", "b"})>>),
        DelayGroup(2, <<Tok(2, {"a"}), Tok(3, {"b"})>>)>>,
      <<DelayGroup(2, <<Tok(5, {"a"})>>), DelayGroup(1, <<Tok(3, {"a", "b"})>>),
        DelayGroup(0, <<Tok(4, {"b"})>>)>> }
MCBotRules ==
    { <<>>,
      <<BotRule("botgroup", {"a"}, 1, FALSE), GroupRule("ai", 1)>>,
      <<BotRule("each", {"a", "b"}, 1, FALSE), BotRule("each", {"b"}, 2, FALSE),
        BotRule("botgroup", {"b"}, 2, TRUE)>>,
      <<GroupRule("ai", 1), GroupRule("ai", 2), BotRule("each", {"a", "b"}, 2, TRUE)>> }
MCConfigs ==
    [off : BOOLEAN, robots : RobotsGroups, rules : MCBotRules,
     wildcard : {NoLimit, Limit(2)}, total : {NoLimit, Limit(1)}]
PlainConfig ==
    [off |-> TRUE, robots |-> <<>>, rules |-> <<>>, wildcard |-> NoLimit, total |-> NoLimit]

(* PolicyWalk. *)
AnyKind == [kinds |-> Kinds, flagged |-> {}, atLeast |-> -ScoreMax, budget |-> 0, escalate |-> FALSE,
            respond |-> Served, explicit |-> FALSE, floor |-> 0, scores |-> <<>>, flagIp |-> {},
            flagSession |-> {}, observe |-> FALSE]
Seen(r) == [r EXCEPT !.observe = TRUE]
OnlyOf(kind, r) == [r EXCEPT !.kinds = {kind}]
Block == [AnyKind EXCEPT !.respond = Blocked]
PassRule == [AnyKind EXCEPT !.explicit = TRUE]
Score(op, n) == [AnyKind EXCEPT !.scores = << [op |-> op, value |-> n] >>]
Budget == [AnyKind EXCEPT !.budget = 1]
Demand == [AnyKind EXCEPT !.floor = 1]
Ladder(rs, row) == [rules |-> rs, row |-> row]

DemandLadder ==
    Ladder(<<[OnlyOf("k1", Demand) EXCEPT !.explicit = TRUE, !.flagSession = {"human"}],
             [Block EXCEPT !.flagged = {"mark"}]>>, 9)
MCLadders ==
    { DemandLadder,
      Ladder(<<Seen(OnlyOf("k1", PassRule)),
               [OnlyOf("k1", Score("+", 1)) EXCEPT !.flagIp = {"mark"}],
               [Block EXCEPT !.atLeast = 2]>>, 1),
      Ladder(<<[Budget EXCEPT !.escalate = TRUE], Seen(OnlyOf("k1", Block)),
               [OnlyOf("k2", Block) EXCEPT !.flagged = {"rate_abuse"}]>>, 9),
      Ladder(<<Seen(Budget), Budget, OnlyOf("k2", PassRule),
               Seen(OnlyOf("k1", Score("+", 2)))>>, 2),
      Ladder(<<[Budget EXCEPT !.scores = << [op |-> "=", value |-> 1] >>],
               Seen([OnlyOf("k2", Score("+", 2)) EXCEPT !.flagSession = {"human"}]),
               [Block EXCEPT !.flagged = {"mark", "human"}, !.atLeast = 1]>>, 9),
      Ladder(<<OnlyOf("k1", Score("+", 1)), OnlyOf("k1", Score("+", 1)),
               [OnlyOf("k1", Score("-", 1)) EXCEPT !.flagged = {"mark"}],
               Seen([OnlyOf("k1", Score("+", 1)) EXCEPT !.floor = 1])>>, 2) }

Ops(add, del, replace) == [add |-> add, del |-> del, replace |-> replace]
MCEvents ==
    {[flagIp |-> Ops({"mark"}, {}, FALSE), flagSession |-> Ops({}, {}, FALSE), observe |-> o] :
        o \in BOOLEAN}
    \cup {[flagIp |-> Ops({}, {"mark"}, FALSE), flagSession |-> Ops({"human"}, {}, TRUE),
           observe |-> FALSE]}

(* ConfigMerge: a better value of every kind of line. *)
Say(kind, value) == [kind |-> kind, value |-> value]
MCDirectives ==
    {Say(k, v) : k \in {"knob", "secret", "rule", "row", "captcha"}, v \in {"a", "b"}}
    \cup {Say("none", "x"), Say("serverknob", "b")}
(* RuleBlocks: bodies of one and two lines of every key, in a container; of  *)
(* three about what a rule answers; and some files of several blocks.        *)
Bang(line) == [line EXCEPT !.neg = TRUE]
KeyWord(key, word) == LineOf(key, <<word>>, <<>>)
FlagOps(key, op, flag) == [LineOf(key, <<>>, <<>>) EXCEPT !.ops = << [op |-> op, flag |-> flag] >>]
PathA == KeyWord("path", "/a")
PathB == KeyWord("path", "/b")
Bot == KeyWord("ua", "@bot")
Net == KeyWord("ipspec", "net1")
RespondWith(code) == LineOf("respond", <<>>, <<code>>)
AnswerLines == {RespondWith(301), RespondWith(403), KeyWord("respond", "nochallenge"), LineOf("nochallenge", <<>>, <<>>),
                KeyWord("challenge", "interactive"), LineOf("score", <<"s", "+">>, <<1>>), KeyWord("redirect", "/x")}
ConditionLines ==
    {PathA, PathB, Bot, LineOf("ua", <<"@bot", "@search">>, <<>>), KeyWord("ua", ""), KeyWord("ua", "*"), KeyWord("ua", "Corp"),
     Net, KeyWord("ipspec", "*"), KeyWord("query", "q*"), KeyWord("solved", "no"), KeyWord("exists", "maybe"),
     KeyWord("acceptlanguage", ""), LineOf("scoreatleast", <<"s">>, <<1>>), LineOf("latencyatleast", <<>>, <<1>>),
     LineOf("loadavgatleast", <<>>, <<0>>), LineOf("fpmqueueatleast", <<>>, <<0>>), KeyWord("flagged", "mark"),
     KeyWord("bscookie", "unproven"), KeyWord("cookies", "session"), KeyWord("cookie", "own"), KeyWord("cookie", "session"),
     Bang(KeyWord("cookie", "session")), LineOf("cookie", <<"session", "!", "x">>, <<>>), LineOf("cookie", <<"session", "~", "x">>, <<>>),
     Bang(LineOf("env", <<"v", "=", "1">>, <<>>)), LineOf("env", <<"v", "=", "1">>, <<>>), LineOf("delay", <<>>, <<1>>),
     LineOf("rate", <<"each">>, <<2, 1>>), LineOf("rate", <<>>, <<2, 0>>), KeyWord("firstsight", "yes")}
LabelLines ==
    {KeyWord("logas", "off"), KeyWord("accesslog", "off"), KeyWord("mode", "observe"), FlagOps("flagip", "+", "mark"),
     FlagOps("flagip", "-", "mark"), FlagOps("flagip", "+", "human"), FlagOps("flagsession", "=", "human"),
     LineOf("challenge", <<"interactive", "hcaptcha">>, <<>>), KeyWord("tier", "captcha")}
RuleLines == AnswerLines \cup ConditionLines \cup LabelLines
Event == KeyWord("event", "seen")
EventLines == {Event, KeyWord("event", "heard"), FlagOps("flagip", "-", "mark"), FlagOps("flagip", "+", "human"),
               FlagOps("flagsession", "=", "human"), RespondWith(403), KeyWord("mode", "observe")}
RuleOf(name, lines) == BlockOf("rule", name, lines)
SetOf(name, lines) == BlockOf("set", name, lines)
UsesSet(name) == KeyWord("matches", name)
SetFiles ==
    {<<SetOf("s", <<PathA, Bang(KeyWord("cookie", "session"))>>), SetOf("t", <<UsesSet("s"), Net>>),
       RuleOf("r", <<Bot, UsesSet(n), RespondWith(410)>>)>> : n \in {"s", "t", "u"}}
    \cup {<<SetOf("s", <<PathA>>), SetOf(n, <<l>>), RuleOf("r", <<UsesSet("s"), PathB>>)>> :
             n \in {"s", "t"}, l \in {PathB, RespondWith(403), LineOf("nochallenge", <<>>, <<>>)}}
AgainFiles ==
    {<<RuleOf("r", <<PathA, RespondWith(410)>>), BlockOf("inside", "r", <<l, RespondWith(411)>>),
       RuleOf(n, <<PathB, l>>), RuleOf("r", <<m, KeyWord("challenge", "captcha")>>)>> :
        n \in {"q", "r"}, l \in {Net, Bot}, m \in {PathB, KeyWord("ua", "Corp")}}
MCBlockFiles ==
    {<<BlockOf("inside", "r", b)>> : b \in [1 .. 1 -> RuleLines] \cup [1 .. 2 -> RuleLines]}
    \cup {<<RuleOf("r", <<PathA, x, y>>)>> : x, y \in AnswerLines}
    \cup {<<RuleOf("r", <<x, y, RespondWith(403)>>)>> : x \in {PathA, Bot, Net}, y \in {Bang(PathB), Bang(Bot), Bang(Net)}}
    \cup {<<RuleOf("r", <<x, y>>)>> : x \in AnswerLines, y \in LabelLines}
    \cup {<<BlockOf("feedback", "f", b)>> : b \in [1 .. 2 -> EventLines]}
    \cup {<<BlockOf("feedback", "f", <<Event, x>>), BlockOf("feedback", "g", <<y, Event>>)>> : x, y \in EventLines}
    \cup {<<RuleOf(Unnamed, <<PathA, l>>)>> : l \in AnswerLines}
    \cup {<<RuleOf("r", <<>>)>>} \cup SetFiles \cup AgainFiles
AVisit == [path |-> {"/a"}, query |-> {}, ua |-> {"Corp"}, bare |-> FALSE, label |-> "known", group |-> "@search",
           scraper |-> FALSE, net |-> "net1", inside |-> TRUE, cookies |-> {<<"session", "x", {"x"}>>}, env |-> {<<"v", "1", {}>>},
           trait |-> [solved |-> "no", firstsight |-> "unknown", exists |-> "yes", crawler |-> "no", acceptlanguage |-> "*",
                      bscookie |-> "invalid"],
           reading |-> [loadavgatleast |-> 0, latencyatleast |-> -1, busyworkersatleast |-> 0, fpmbusyatleast |-> 0,
                        fpmqueueatleast |-> -1, dbrunningatleast |-> -1],
           flags |-> {}, scores |-> [s |-> 0]]
MCVisits ==
    {AVisit, [AVisit EXCEPT !.path = {"/b"}, !.flags = {"mark"}, !.query = {"q*"}, !.trait.bscookie = "unread", !.inside = FALSE],
     [AVisit EXCEPT !.path = {"/a", "/b"}, !.ua = {}, !.label = "fake", !.group = "-", !.cookies = {}, !.net = "net2"],
     [AVisit EXCEPT !.bare = TRUE, !.ua = {}, !.label = "human", !.group = "-", !.env = {}, !.scores.s = 1,
        !.reading.latencyatleast = 5, !.trait = [@ EXCEPT !.solved = "yes", !.acceptlanguage = "", !.firstsight = "yes"]]}
-----------------------------------------------------------------------------
RequestsInit ==
    /\ subject \in Subjects
    /\ RingInit /\ SafeguardInit /\ VisitorInit /\ RobotsInit /\ ConfigInit /\ BlocksInit
    /\ subject # "rules" => blocks = <<RuleOf("r", <<>>)>>
    /\ subject # "visitor" => site = CHOOSE s \in Sites : TRUE
    /\ IF subject = "bots" THEN BotInit
       ELSE config = PlainConfig /\ BotInit
    /\ PolicyInit /\ (subject # "policy" => ladder = DemandLadder)

Counting  == subject = "ring" /\ RingNext /\ UNCHANGED <<botVars, safeguardVars, visitorVars,
                 robotsVars, policyVars, configVars, blockVars, subject>>
Crawling  == subject = "bots" /\ BotNext /\ UNCHANGED <<ringVars, safeguardVars, visitorVars,
                 robotsVars, policyVars, configVars, blockVars, subject>>
Guarding  == subject = "safeguard" /\ SafeguardNext /\ UNCHANGED <<ringVars, botVars, visitorVars,
                 robotsVars, policyVars, configVars, blockVars, subject>>
Visiting  == subject = "visitor" /\ VisitorNext /\ UNCHANGED <<ringVars, botVars, safeguardVars,
                 robotsVars, policyVars, configVars, blockVars, subject>>
Obeying   == subject = "robots" /\ RobotsNext /\ UNCHANGED <<ringVars, botVars, safeguardVars,
                 visitorVars, policyVars, configVars, blockVars, subject>>
Judging   == subject = "policy" /\ PolicyNext /\ UNCHANGED <<ringVars, botVars, safeguardVars,
                 visitorVars, robotsVars, configVars, blockVars, subject>>
Merging   == subject = "config" /\ ConfigNext /\ UNCHANGED <<ringVars, botVars, safeguardVars,
                 visitorVars, robotsVars, policyVars, blockVars, subject>>
Reading   == subject = "rules" /\ BlocksNext /\ UNCHANGED <<ringVars, botVars, safeguardVars,
                 visitorVars, robotsVars, policyVars, configVars, subject>>

RequestsNext ==
    Counting \/ Crawling \/ Guarding \/ Visiting \/ Obeying \/ Judging \/ Merging
    \/ Reading

RequestsSpec == RequestsInit /\ [][RequestsNext]_requestsVars
=============================================================================
