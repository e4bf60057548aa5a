------------------------------- MODULE Robots -------------------------------
(***************************************************************************)
(* The robots.txt engine of robots.c: the parser that turns the lines of a *)
(* file into groups, the groups a <BotShieldRobots> container adds, the    *)
(* path matcher and the query a request asks of the result.                *)
(*                                                                         *)
(* A token is a member of Tokens, with the length the code compares and    *)
(* the crawlers it matches; "*" is the fallback.  A pattern is what its    *)
(* text says: the literal parts between the stars, and whether it ends     *)
(* with "$".  A path and a part are sequences of characters, a part shorter *)
(* than the buffer it is looked for with.                                  *)
(***************************************************************************)
EXTENDS Integers, Sequences, FiniteSets, FiniteSetsExt, SequencesExt

CONSTANTS
    RobotsLines,          \* what a line of the file may say
    Inlines,        \* the groups the configuration may add
    Tokens,         \* token |-> [len |-> 1 .., crawlers |-> whom it matches]
    Crawlers,       \* the user agents that ask
    Paths,          \* the paths they ask for
    MaxRobotsLines,       \* length of the file explored
    MaxGroups,      \* BOTSHIELD_ROBOTS_MAX_GROUPS
    MaxAgents,      \* BOTSHIELD_ROBOTS_MAX_UAS_PER_GROUP
    MaxRules        \* BOTSHIELD_ROBOTS_MAX_RULES_PER_GROUP

Star == "*"

NoGroup == [agents |-> <<>>, rules |-> <<>>, delay |-> 0, observe |-> FALSE,
            expectUa |-> FALSE, open |-> FALSE]

VARIABLES
    text,           \* the lines read so far (history)
    groups,         \* doc->groups
    cur,            \* the group being built
    parsed          \* the end of the file has been reached

robotsVars == <<text, groups, cur, parsed>>

Agent(t)        == [key |-> "agent", token |-> t]
Rule(p, allow)  == [key |-> "rule", pattern |-> p, allow |-> allow]
NoRule          == [key |-> "norule"]     \* an Allow or Disallow with no path
Delay(ms)       == [key |-> "delay", ms |-> ms]  \* ms = 0: not above zero

Chars    == STRING
Patterns == [parts : Seq(Seq(Chars)) \ {<<>>}, anchored : BOOLEAN]
Rules    == [key : {"rule"}, pattern : Patterns, allow : BOOLEAN]
Agents   == DOMAIN Tokens \cup {Star}

\* An empty token is no line; the text of a pattern has one part at least.
ASSUME RobotsAssumption ==
    /\ \A t \in DOMAIN Tokens : Tokens[t].len \in Nat \ {0}
    /\ \A line \in RobotsLines :
          \/ line.key = "agent" /\ line.token \in Agents
          \/ line.key = "rule" /\ line \in Rules
          \/ line.key = "norule"
          \/ line.key = "delay" /\ line.ms \in Nat
    /\ Inlines \subseteq [agents : Seq(Agents), rules : Seq(Rules), delay : Nat,
                         observe : BOOLEAN, expectUa : BOOLEAN, open : BOOLEAN]
    /\ Paths \subseteq Seq(Chars)
    /\ MaxAgents \in Nat \ {0} /\ MaxRules \in Nat /\ MaxGroups \in Nat

-----------------------------------------------------------------------------
(* Paths.                                                                  *)

At(path, i, part) ==
    i + Len(part) <= Len(path) /\ SubSeq(path, i + 1, i + Len(part)) = part

\* strstr: where the leftmost occurrence of part after position i ends.
Lost == -1
FindFrom(path, i, part) ==
    LET at == {j \in i .. Len(path) : At(path, j, part)}
    IN IF at = {} THEN Lost ELSE Min(at) + Len(part)

\* The end of the part that is looked for next: the first one where it
\* stands, a later one at its leftmost occurrence, an empty one nowhere.
AfterPart(path, i, part, first) ==
    IF i = Lost \/ part = <<>> THEN i
    ELSE IF first THEN IF At(path, i, part) THEN i + Len(part) ELSE Lost
    ELSE FindFrom(path, i, part)

EndOfParts(parts, path) ==
    LET end[k \in 0 .. Len(parts)] ==
          IF k = 0 THEN 0 ELSE AfterPart(path, end[k - 1], parts[k], k = 1)
    IN end[Len(parts)]

PathMatch(pattern, path) ==
    LET end == EndOfParts(pattern.parts, path)
    IN end # Lost /\ (pattern.anchored => end = Len(path))

LenOfParts(parts) ==
    LET len[k \in 0 .. Len(parts)] ==
          IF k = 0 THEN 0 ELSE len[k - 1] + Len(parts[k])
    IN len[Len(parts)]

PatternLen(pattern) ==
    LenOfParts(pattern.parts) + Len(pattern.parts) - 1
      + (IF pattern.anchored THEN 1 ELSE 0)

-----------------------------------------------------------------------------
(* The parser.                                                             *)

Closed(g) == [g EXCEPT !.expectUa = FALSE]

Flushed(gs, g) ==
    IF g.open /\ g.agents # <<>> /\ Len(gs) < MaxGroups THEN Append(gs, g)
    ELSE gs

\* bs_rb_add_ua, but for the flush.
ExtendAlways(g, t) ==
    LET base == IF g.open THEN g
                ELSE [NoGroup EXCEPT !.open = TRUE, !.expectUa = TRUE]
    IN IF Len(base.agents) < MaxAgents
       THEN [base EXCEPT !.agents = Append(@, t)] ELSE base

Extend(g, t) ==
    LET base == IF g.open /\ g.expectUa THEN g
                ELSE [NoGroup EXCEPT !.open = TRUE, !.expectUa = TRUE]
    IN IF Len(base.agents) < MaxAgents
       THEN [base EXCEPT !.agents = Append(@, t)] ELSE base

WithRule(g, line) ==
    IF Len(g.rules) >= MaxRules THEN Closed(g)
    ELSE Closed([g EXCEPT !.rules = Append(@, line)])

\* One line of the file: bs_rb_handle_line.
ReadAgent(line) ==
    /\ line.key = "agent"
    /\ groups' = IF cur.expectUa THEN groups ELSE Flushed(groups, cur)
    /\ cur' = Extend(cur, line.token)

ReadRule(line) ==
    /\ line.key = "rule"
    /\ cur' = IF cur.open THEN WithRule(cur, line) ELSE cur
    /\ groups' = groups

ReadNoRule(line) ==
    /\ line.key = "norule"
    /\ cur' = IF cur.open THEN Closed(cur) ELSE cur
    /\ groups' = groups

\* A delay that is not above zero returns before the list is closed.
ReadDelay(line) ==
    /\ line.key = "delay"
    /\ cur' = IF cur.open /\ line.ms > 0
              THEN Closed([cur EXCEPT !.delay = line.ms]) ELSE cur
    /\ groups' = groups

ReadLine ==
    /\ ~parsed
    /\ Len(text) < MaxRobotsLines
    /\ \E line \in RobotsLines :
          /\ text' = Append(text, line)
          /\ \/ ReadAgent(line)
             \/ ReadRule(line)
             \/ ReadNoRule(line)
             \/ ReadDelay(line)
    /\ UNCHANGED parsed

EndFile ==
    /\ ~parsed
    /\ parsed' = TRUE
    /\ groups' = Flushed(groups, cur)
    /\ cur' = NoGroup
    /\ UNCHANGED text

\* robots_doc_add_inline, for a group of the container (once each).
AddInline ==
    /\ parsed
    /\ Len(groups) < MaxGroups
    /\ \E g \in Inlines :
          /\ \A i \in DOMAIN groups : groups[i] # g
          /\ groups' = Append(groups, g)
    /\ UNCHANGED <<text, cur, parsed>>

-----------------------------------------------------------------------------
(* The query.                                                              *)

Named(tokens, c) == {t \in tokens : t # Star /\ c \in Tokens[t].crawlers}

\* The length of the longest token of the document that names the crawler.
BestLen(doc, c) ==
    LET lens == {Tokens[t].len :
                 t \in Named(UNION {ToSet(g.agents) : g \in ToSet(doc)}, c)}
    IN IF lens = {} THEN 0 ELSE Max(lens)

Qualifies(g, c, best) ==
    IF best = 0 THEN Star \in ToSet(g.agents)
    ELSE \E t \in Named(ToSet(g.agents), c) : Tokens[t].len = best

Relevant(doc, c) == {g \in ToSet(doc) : Qualifies(g, c, BestLen(doc, c))}

\* One rule against the best so far: the longer pattern, Allow on a tie.
Better(best, rule, path) ==
    LET len == PatternLen(rule.pattern)
    IN IF ~PathMatch(rule.pattern, path) THEN best
       ELSE IF len > best.len THEN [len |-> len, allow |-> rule.allow]
       ELSE IF len = best.len /\ rule.allow THEN [len |-> len, allow |-> TRUE]
       ELSE best

AfterRules(best, rules, path) ==
    LET after[k \in 0 .. Len(rules)] ==
          IF k = 0 THEN best ELSE Better(after[k - 1], rules[k], path)
    IN after[Len(rules)]

\* Over the groups of the document, but for those of others and observed ones.
Verdict(doc, c, path) ==
    LET relevant == Relevant(doc, c)
        after[n \in 0 .. Len(doc)] ==
          IF n = 0 THEN [len |-> Lost, allow |-> TRUE]
          ELSE IF doc[n] \notin relevant \/ doc[n].observe THEN after[n - 1]
          ELSE AfterRules(after[n - 1], doc[n].rules, path)
    IN after[Len(doc)]

\* robots_query: whether a group applies, by name or as the fallback, the
\* verdict of the enforcing groups, and the longest delay.  (What all groups
\* say when none enforces it is only logged.)
Query(doc, c, path) ==
    LET gs == Relevant(doc, c)
    IN [applies  |-> gs # {},
        wildcard |-> gs # {} /\ BestLen(doc, c) = 0,
        allowed  |-> Verdict(doc, c, path).allow,
        delay    |-> Max({0} \cup {g.delay : g \in gs})]

-----------------------------------------------------------------------------

RobotsInit ==
    /\ text = <<>>
    /\ groups = <<>>
    /\ cur = NoGroup
    /\ parsed = FALSE

RobotsNext == ReadLine \/ EndFile \/ AddInline

RobotsSpec == RobotsInit /\ [][RobotsNext]_robotsVars

-----------------------------------------------------------------------------
(* What RFC 9309 and the comments of robots.c say of a file, read from its *)
(* lines and not from the parser's state.                                  *)

\* An User-agent line that begins a group: the first, or one after a rule.
Closes(line) == line.key \in {"rule", "norule"}
                \/ (line.key = "delay" /\ line.ms > 0)

Begins(i) ==
    /\ text[i].key = "agent"
    /\ \/ \A j \in 1 .. i - 1 : text[j].key # "agent"
       \/ \E j \in 1 .. i - 1 :
             /\ Closes(text[j])
             /\ \A k \in j + 1 .. i - 1 : text[k].key # "agent"
             /\ \E k \in 1 .. j - 1 : text[k].key = "agent"

\* The number of the group a line belongs to; 0 before the first one.
GroupOf(i) == Cardinality({j \in 1 .. i : Begins(j)})

\* Whether a line is among the first n of its kind in its group.
AmongFirst(i, n) ==
    Cardinality({j \in 1 .. i : /\ text[j].key = text[i].key
                                /\ GroupOf(j) = GroupOf(i)}) <= n

AgentsOf(n) == {text[i].token : i \in {j \in DOMAIN text :
                   /\ text[j].key = "agent"
                   /\ GroupOf(j) = n
                   /\ AmongFirst(j, MaxAgents)}}

RulesOf(n) == {text[i] : i \in {j \in DOMAIN text :
                  /\ text[j].key = "rule"
                  /\ GroupOf(j) = n
                  /\ AmongFirst(j, MaxRules)}}

DelayOf(n) ==
    LET at == {j \in DOMAIN text : /\ text[j].key = "delay"
                                   /\ text[j].ms > 0
                                   /\ GroupOf(j) = n}
    IN IF at = {} THEN 0 ELSE text[Max(at)].ms

FileGroups ==
    1 .. Min({MaxGroups, Cardinality({i \in DOMAIN text : Begins(i)})})

\* The groups of the document: the file's, and those of the configuration.
Written ==
    {[agents |-> AgentsOf(n), rules |-> RulesOf(n), delay |-> DelayOf(n),
      observe |-> FALSE] : n \in FileGroups}
    \cup {[agents |-> ToSet(g.agents), rules |-> ToSet(g.rules),
           delay |-> g.delay, observe |-> g.observe] :
              g \in ToSet(groups) \cap Inlines}

\* The groups a crawler obeys: those that carry its longest token, or the
\* fallback's when no group names it.
Obeyed(written, c) ==
    LET named == UNION {Named(g.agents, c) : g \in written}
        best  == {t \in named :
                  \A u \in named : Tokens[u].len <= Tokens[t].len}
    IN IF named = {} THEN {g \in written : Star \in g.agents}
       ELSE {g \in written : g.agents \cap best # {}}

\* The meaning of a pattern: its parts stand in the path in their order, the
\* first at the beginning, and the last at the end when it is anchored.
Means(pattern, path) ==
    LET n == Len(pattern.parts)
    IN \E at \in [1 .. n -> 0 .. Len(path)] :
          /\ at[1] = 0
          /\ \A k \in 1 .. n : At(path, at[k], pattern.parts[k])
          /\ \A k \in 1 .. n - 1 :
                at[k] + Len(pattern.parts[k]) <= at[k + 1]
          /\ pattern.anchored => at[n] + Len(pattern.parts[n]) = Len(path)

RuleMatches(pattern, path) ==
    IF pattern.anchored THEN PathMatch(pattern, path)
    ELSE Means(pattern, path)

\* The path is refused: a Disallow of an obeyed group matches it, and every
\* Allow of an obeyed group that matches too is shorter; what a group that
\* only observes says does not count.
Disallowed(obeyed, path) ==
    LET rules == {r \in UNION {g.rules : g \in {h \in obeyed : ~h.observe}} :
                  RuleMatches(r.pattern, path)}
    IN \E d \in rules :
          /\ ~d.allow
          /\ \A a \in rules :
                a.allow => PatternLen(a.pattern) < PatternLen(d.pattern)

-----------------------------------------------------------------------------
(* Properties.                                                             *)

(* The rules a crawler is held to are those that were written for it:      *)
(* whatever the order of the lines, the groups bs_rb_add_ua,               *)
(* bs_rb_add_rule and bs_rb_flush_group build and the union robots_query   *)
(* walks refuse a path exactly when the longest rule of the crawler's own  *)
(* enforcing groups that means the path is a Disallow and no Allow ties    *)
(* with it, and the crawler's delay is the longest of its groups.          *)
ReadsAsWritten ==
    parsed =>
        LET written == Written
        IN \A c \in Crawlers :
            LET obeyed == Obeyed(written, c)
            IN \A path \in Paths :
                LET q == Query(groups, c, path)
                IN /\ q.applies = (obeyed # {})
                   /\ q.allowed = ~Disallowed(obeyed, path)
                   /\ q.delay = Max({0} \cup {g.delay : g \in obeyed})
=============================================================================
