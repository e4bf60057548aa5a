------------------------------- MODULE UaMatch -------------------------------
(***************************************************************************)
(* What a User-Agent is taken for (ua_class.c): a browser whose template   *)
(* is known, a bot of the directory, a bot whose addresses are published,  *)
(* or something that calls itself a bot.  Three tables are searched, each  *)
(* in its own way: the directory by an Aho-Corasick automaton              *)
(* (bot_directory.c), the verified bots by a trie (allowlist.c), the       *)
(* templates by equality after masking (browser_classifier.c).             *)
(*                                                                         *)
(* A User-Agent is a sequence of tokens.  The patterns match sequences of  *)
(* them; both matchers fold case, so a token stands for either case.  The  *)
(* masking only looks at the tokens named below.                           *)
(***************************************************************************)
EXTENDS Integers, SequencesExt, FiniteSetsExt

CONSTANTS
    MatchPatterns, \* lists of patterns the matchers are compared on
    MatchTexts,    \* User-Agents they are compared on
    Agents,        \* User-Agents of requests
    Directory,     \* the rows the built-in directory is generated from
    TemplateUas,   \* the User-Agents the templates are generated from
    RetiredAgents, \* names no crawler uses (bs_retired_agents)
    BotTokens      \* bs_unknown_bot_tokens

\* Patterns and User-Agents are sequences of tokens.
ASSUME MatchAssumption ==
    MatchPatterns \subseteq Seq(Seq(STRING)) /\ MatchTexts \subseteq Seq(STRING)

VARIABLES
    matched, \* the list of patterns and the text the matchers are given
    tables   \* the directory and the templates a request is matched with

matchVars == <<matched, tables>>
-----------------------------------------------------------------------------
(* Substrings. *)

OccursAt(p, t, i) == i + Len(p) - 1 <= Len(t) /\ SubSeq(t, i, i + Len(p) - 1) = p
Occurs(p, t) == \E i \in 1 .. Len(t) : OccursAt(p, t, i)
-----------------------------------------------------------------------------
(* The automaton of bot_directory.c.  A node is the text that leads to it  *)
(* from the root; its failure link goes to the longest end of that text    *)
(* that is a node too.                                                     *)

Nodes(ps) == {<<>>} \cup UNION {Prefixes(ps[i]) : i \in DOMAIN ps}

\* From a node along failure links to one with an edge for the token.
FallBack(nodes, failure, node, token) ==
    LET back[m \in nodes] ==
            IF m = <<>> \/ Append(m, token) \in nodes THEN m ELSE back[failure[m]]
    IN back[node]

Goto(nodes, failure, node, token) ==
    LET from == FallBack(nodes, failure, node, token) IN
    IF Append(from, token) \in nodes THEN Append(from, token) ELSE from

\* Breadth first: the links of the nodes of one length are made with those of
\* the shorter ones.
Failures(ps) ==
    LET nodes == Nodes(ps)
        longest == Max({Len(node) : node \in nodes})
        links[n \in 0 .. longest] ==
            IF n = 0 THEN [node \in nodes |-> <<>>]
            ELSE LET made == links[n - 1] IN
                 [node \in nodes |->
                     IF n > 1 /\ Len(node) = n THEN Goto(nodes, made, made[Front(node)], Last(node))
                     ELSE made[node]]
    IN links[longest]

\* The pattern a node answers: its own, the first of equal ones, else that of
\* the node its failure link leads to.
Own(ps, node) == {i \in DOMAIN ps : ps[i] # <<>> /\ ps[i] = node}

PatternAtOwn(ps, node) == IF Own(ps, node) # {} THEN Min(Own(ps, node)) ELSE 0     \* mutant
PatternAt(ps, node) ==
    LET failure == Failures(ps)
        pattern[m \in Nodes(ps)] ==
            IF Own(ps, m) # {} THEN Min(Own(ps, m))
            ELSE IF m = <<>> THEN 0 ELSE pattern[failure[m]]
    IN pattern[node]

NodeAfter(ps, t, n) ==
    LET node[i \in 0 .. n] ==
            IF i = 0 THEN <<>> ELSE Goto(Nodes(ps), Failures(ps), node[i - 1], t[i])
    IN node[n]

\* The walk ends at the first node that answers.  Without an automaton the
\* rows are tried in order.
Automaton(ps, t) ==
    LET answers == {n \in 1 .. Len(t) : PatternAt(ps, NodeAfter(ps, t, n)) # 0} IN
    IF answers = {} THEN 0 ELSE PatternAt(ps, NodeAfter(ps, t, Min(answers)))

InOrder(ps, t) == SelectInSeq(ps, LAMBDA p : p # <<>> /\ Occurs(p, t))

\* The rows a token of robots.txt or of a directive stands for: those whose
\* pattern contains it, those of its botgroup.
SlugsOf(rows, token) == {rows[i].slug : i \in {j \in DOMAIN rows : Occurs(token, rows[j].pattern)}}
SlugsIn(rows, group) == {rows[i].slug : i \in {j \in DOMAIN rows : rows[j].group = group}}
-----------------------------------------------------------------------------
(* The trie of allowlist.c: from every position the walk goes on while    *)
(* there is an edge and keeps the longest name seen so far.               *)

Terminals(ps, t, from) == {n \in 1 .. Len(t) - from + 1 : SubSeq(t, from, from + n - 1) \in Range(ps)}

Longer(ps, t, best, from) ==
    LET ns == Terminals(ps, t, from) IN
    IF ns # {} /\ Max(ns) > Len(best) THEN SubSeq(t, from, from + Max(ns) - 1) ELSE best

Trie(ps, t) ==
    LET best[from \in 0 .. Len(t)] ==
            IF from = 0 THEN <<>> ELSE Longer(ps, t, best[from - 1], from)
    IN best[Len(t)]
-----------------------------------------------------------------------------
(* The masking of browser_classifier.c. *)

Version == "9"          \* a byte of a version number
Masked  == "X"          \* what a run of them becomes
Droid   == "Android "   \* opens a device up to the closing parenthesis
Phone   == "Mobile/"    \* opens a build of letters and digits
Close   == ")"
Build   == "build"      \* letters of a build or of a device

MaskVersions(ua) ==
    LET put(out, token) ==
            IF token # Version THEN Append(out, token)
            ELSE IF out # <<>> /\ Last(out) = Masked THEN out ELSE Append(out, Masked)
    IN FoldLeft(put, <<>>, ua)

First(s, token) == SelectInSeq(s, LAMBDA x : x = token)
Tail2(s, n) == SubSeq(s, n, Len(s))

\* "Android X; <device>)" is one device; "Mobile/<build>" one build.
CollapseDroid(s) ==
    LET a == First(s, Droid) IN
    IF a = 0 \/ a = Len(s) \/ s[a + 1] # Masked THEN s
    ELSE LET close == First(Tail2(s, a + 2), Close) IN
         IF close < 2 THEN s
         ELSE SubSeq(s, 1, a + 1) \o <<"D">> \o Tail2(s, a + 1 + close)

CollapsePhone(s) ==
    LET m == First(s, Phone) IN
    IF m = 0 THEN s
    ELSE LET rest == Tail2(s, m + 1)
             stop == SelectInSeq(rest, LAMBDA x : x \notin {Masked, Build})
             n    == IF stop = 0 THEN Len(rest) ELSE stop - 1
         IN IF n = 0 THEN s ELSE SubSeq(s, 1, m) \o <<"B">> \o Tail2(s, m + 1 + n)

Normalized(ua) == CollapsePhone(CollapseDroid(MaskVersions(ua)))
-----------------------------------------------------------------------------
(* The tables.  What is compiled in is generated with the masking of the   *)
(* lookup and with botgroups; what botshield-refresh.py writes is masked   *)
(* by its own rule, and its rows carry no botgroup.                        *)

BuiltIns == [rows |-> Directory, templates |-> {Normalized(ua) : ua \in TemplateUas}]

RowRead(row) == [row EXCEPT !.group = ""]
Refreshed == [rows |-> [i \in DOMAIN Directory |-> RowRead(Directory[i])],
              templates |-> {MaskVersions(ua) : ua \in TemplateUas}]

Patterns(rows) == [i \in DOMAIN rows |-> rows[i].pattern]
-----------------------------------------------------------------------------
(* bs_classify_request_ua.  The address comes in as what the ranges of the *)
(* verified bot say of it: "in", "out", "unranged" or "any" (the operator's*)
(* `*`), for the name the trie finds.                                      *)

AllFlags == {"browsers", "known-bots", "verified-bots", "unknown-bots"}

NoClass == [label |-> "unknown", slug |-> "", group |-> "", name |-> <<>>]

\* BotShieldClassify: a starting set and deltas applied from left to right.
Delta(sign, flag) == [sign |-> sign, flag |-> flag]
FlagsOf(start, deltas) ==
    FoldLeft(LAMBDA flags, d : IF d.sign = "+" THEN flags \cup {d.flag} ELSE flags \ {d.flag},
             start, deltas)

ClaimedRetired(ua) == InOrder(RetiredAgents, ua)
CallsItselfBot(ua) == \E p \in BotTokens : Occurs(p, ua)

WithKnown(class, flags, ua, rows) ==
    LET i == Automaton(Patterns(rows), ua) IN
    IF "known-bots" \notin flags \/ i = 0 THEN class
    ELSE [class EXCEPT !.label = "known", !.slug = rows[i].slug, !.group = rows[i].group]

WithVerified(class, flags, name, said) ==
    IF name = <<>> THEN class
    ELSE [class EXCEPT !.name = name,
             !.label = IF "verified-bots" \notin flags \/ said \in {"any", "unranged"} THEN "known"
                       ELSE IF said = "in" THEN "verified" ELSE "fake"]

Classify(ua, flags, tabs, name, said) ==
    CASE ua = <<>> -> [NoClass EXCEPT !.label = "no-ua"]
      [] ua # <<>> /\ "browsers" \in flags /\ Normalized(ua) \in tabs.templates ->
            [NoClass EXCEPT !.label = "browser"]
      [] OTHER ->
            LET i == ClaimedRetired(ua) IN
            IF i # 0 THEN [NoClass EXCEPT !.label = "fake", !.name = RetiredAgents[i]]
            ELSE LET class == WithVerified(WithKnown(NoClass, flags, ua, tabs.rows), flags, name, said)
                 IN IF class.label = "unknown" /\ "unknown-bots" \in flags /\ CallsItselfBot(ua)
                    THEN [class EXCEPT !.label = "unknownbot"] ELSE class

\* Who is held to the wildcard group of robots.txt.
CrawlerCandidate(flags, class) == "browsers" \in flags /\ class.label # "browser"
-----------------------------------------------------------------------------
MatchInit ==
    /\ matched \in [patterns : MatchPatterns, text : MatchTexts]
    /\ tables = BuiltIns

\* botshield-refresh.py writes both files from the data the built-in tables
\* were generated from, and the watchdogs load them.
ReloadTables ==
    /\ tables = BuiltIns
    /\ tables' = Refreshed
    /\ UNCHANGED matched

MatchNext == ReloadTables

MatchSpec == MatchInit /\ [][MatchNext]_matchVars
-----------------------------------------------------------------------------
(* Properties. *)

EndsAt(ps, t) == {n \in 1 .. Len(t) : \E i \in DOMAIN ps : ps[i] # <<>>
                     /\ n >= Len(ps[i]) /\ OccursAt(ps[i], t, n - Len(ps[i]) + 1)}

\* The automaton finds a pattern exactly when the search in order does, and
\* what it finds is the longest of the patterns that end first in the text,
\* the first of equal ones; the trie finds a longest one
\* (bs_ua_is_known_bot, bs_known_bots_build_ac, bs_ua_classify).
MatchersAgree ==
    LET ps == matched.patterns  t == matched.text  hit == Automaton(ps, t) IN
    /\ (hit = 0) <=> (InOrder(ps, t) = 0)
    /\ hit # 0 =>
          LET end    == Min(EndsAt(ps, t))
              ending == {i \in DOMAIN ps : ps[i] # <<>> /\ Len(ps[i]) <= end
                            /\ OccursAt(ps[i], t, end - Len(ps[i]) + 1)}
          IN /\ hit \in ending
             /\ \A i \in ending : Len(ps[i]) <= Len(ps[hit]) /\ (ps[i] = ps[hit] => i >= hit)
    /\ LET best == Trie(ps, t) IN
          /\ best # <<>> => best \in Range(ps) /\ Occurs(best, t)
          /\ \A i \in DOMAIN ps : Occurs(ps[i], t) => Len(ps[i]) <= Len(best)

\* A refresh that brings the same data changes nothing: who was a browser, and
\* no candidate for the wildcard group of robots.txt, still is one, and rules
\* about a botgroup or a crawler token stand for the same bots
\* (bs_known_bots_load, bs_browser_templates_load).
RefreshKeepsClass ==
    /\ \A ua \in Agents :
           LET class(tabs) == Classify(ua, AllFlags, tabs, <<>>, "unranged") IN
           /\ class(tables) = class(BuiltIns)
           /\ CrawlerCandidate(AllFlags, class(tables)) <=> CrawlerCandidate(AllFlags, class(BuiltIns))
    /\ \A i \in DOMAIN Directory :
           /\ SlugsIn(tables.rows, Directory[i].group) = SlugsIn(Directory, Directory[i].group)
           /\ SlugsOf(tables.rows, Directory[i].pattern) = SlugsOf(Directory, Directory[i].pattern)
=============================================================================
