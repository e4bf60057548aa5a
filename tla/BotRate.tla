------------------------------- MODULE BotRate -------------------------------
(***************************************************************************)
(* The crawler budgets of bot_rate.c.  At start the rules of the           *)
(* configuration and the Crawl-delay groups of robots.txt are laid over    *)
(* the directory of known crawlers in passes, each of which takes counters *)
(* from a pool of limited size; the result is the counter of every slug.   *)
(* A request is charged to the counter of its slug, to that of its         *)
(* botgroup and to the total, by one of many workers at a time; the first  *)
(* of the three that refuses decides.                                      *)
(*                                                                         *)
(* A counter is seen within one window, where it admits up to its budget;  *)
(* windows and the swap that counts are in RateRule.  Names and tokens are *)
(* seen by the slugs they resolve to and the length of the token.          *)
(***************************************************************************)
EXTENDS Integers, SequencesExt, FiniteSetsExt

CONSTANTS
    Slugs,     \* the directory when the server started
    Late,      \* slugs a refresh of the directory adds while it runs
    BotgroupOf,   \* the botgroup of a slug
    Configs,   \* configurations: the rules and the robots.txt groups
    PoolSize,  \* counters the pool has left
    Workers,   \* requests under way at a time
    MaxAsks,   \* bound on the requests
    NoLimit

ASSUME BotRateAssumption ==
    /\ Slugs \cap Late = {} /\ NoLimit \notin Slugs \cup Late
    /\ NoLimit \notin [g : Nat, len : Nat]
    /\ IsFiniteSet(Slugs) /\ IsFiniteSet(Workers)
    /\ PoolSize \in Nat /\ MaxAsks \in Nat

\* What the directives and robots.txt parse to: the Crawl-delay groups, the
\* rules for slugs, for botgroups and for the sum of a botgroup, and the
\* wildcard and the total, if there are any.
RobotsTokens == [len : Nat, slugs : SUBSET Slugs]
DelayGroups  == [delay : Nat, tokens : Seq(RobotsTokens)]
BotRules     == [kind : {"each", "botgroup", "group"}, slugs : SUBSET Slugs, group : STRING,
                 budget : Nat, observe : BOOLEAN]
Limits       == {NoLimit} \cup [budget : Nat, observe : BOOLEAN]

ASSUME ConfigsAssumption ==
    \A c \in Configs : c \in [off : BOOLEAN, robots : Seq(DelayGroups), rules : Seq(BotRules),
                             wildcard : Limits, total : Limits]

VARIABLES
    config,    \* the configuration the server started with
    slots,     \* the counters taken from the pool, in order
    bySlug,    \* the counter of a slug; 0: none
    special,   \* the counters of the aggregates and of the total; 0: none
    spent,     \* requests a counter has admitted
    ask,       \* the request of a worker
    asks,      \* requests so far
    served,    \* history: crawler requests let through that an enforcing
               \* scope asked about
    blamed     \* history: refusals that marked the client, with what its own
               \* counter had admitted and its budget

botVars == <<config, slots, bySlug, special, spent, ask, asks, served, blamed>>
-----------------------------------------------------------------------------
(* bs_bot_rate_init: the passes.                                           *)
(*                                                                         *)
(* A rule: the slugs it names, what it shares, and its budget.  A group of *)
(* robots.txt: its tokens, each with the slugs it resolves to and its      *)
(* length, and its Crawl-delay; a delay of zero admits everything.         *)

Unlimited == 0

Names == {"unknown", "no-ua", "fake", "fallback", "total"} \cup {BotgroupOf[s] : s \in Slugs}

\* A layout: the counters taken, and the one that each slug and name has.
NoCounters == [slots |-> <<>>, by |-> [s \in Slugs \cup Late |-> 0], named |-> [x \in Names |-> 0]]

Counter(origin, budget, observe) ==
    [origin |-> origin, budget |-> budget, observe |-> observe, group |-> 0]

\* allocate_holder: the next counter of the pool, for a set of slugs or names.
Allocate(l, counter, slugs, names) ==
    IF Len(l.slots) >= PoolSize THEN l
    ELSE LET n == Len(l.slots) + 1 IN
         [slots |-> Append(l.slots, counter),
          by    |-> [s \in DOMAIN l.by |-> IF s \in slugs THEN n ELSE l.by[s]],
          named |-> [x \in DOMAIN l.named |-> IF x \in names THEN n ELSE l.named[x]]]

\* One counter for each of the slugs that has none, as long as the pool lasts.
AllocateEach(l, counter, slugs) ==
    LET left == SetToSeq({s \in slugs : l.by[s] = 0})
        n    == Len(l.slots)
        got  == {k \in DOMAIN left : n + k <= PoolSize}
        nth(s) == {k \in got : left[k] = s}
    IN  [slots |-> l.slots \o [k \in got |-> counter],
         by    |-> [s \in DOMAIN l.by |-> IF nth(s) = {} THEN l.by[s]
                                          ELSE n + (CHOOSE k \in nth(s) : TRUE)],
         named |-> l.named]

\* A pass is a sequence of orders for counters, carried out one by one.
OneForAll(counter, slugs)  == [kind |-> "all",  counter |-> counter, slugs |-> slugs]
OneEach(counter, slugs) == [kind |-> "each", counter |-> counter, slugs |-> slugs]
OneNamed(counter, name)  == [kind |-> "name", counter |-> counter, name |-> name]
NoOrder == [kind |-> "none"]

CarryOut(l, order) ==
    CASE order.kind = "all"  -> Allocate(l, order.counter, order.slugs, {})
      [] order.kind = "each" -> AllocateEach(l, order.counter, order.slugs)
      [] order.kind = "name" -> Allocate(l, order.counter, {}, {order.name})
      [] OTHER -> l

AfterPass(l, orders) ==
    LET after[k \in 0 .. Len(orders)] ==
            IF k = 0 THEN l ELSE CarryOut(after[k - 1], orders[k])
    IN  after[Len(orders)]

\* The robots.txt group that governs a slug: the walk over the tokens keeps
\* the longest one, and the longer delay when two are as long.
KeepsFirst(robots, claim, x) == claim.len >= x.tok.len     \* mutant: first of a tie
Keeps(robots, claim, x) ==
    \/ claim.len > x.tok.len
    \/ claim.len = x.tok.len /\ robots[x.g].delay <= robots[claim.g].delay

Claimed(robots, slug, claim, x) ==
    IF slug \notin x.tok.slugs THEN claim
    ELSE IF claim # NoLimit /\ Keeps(robots, claim, x) THEN claim
    ELSE [g |-> x.g, len |-> x.tok.len]

GroupClaims(robots, slug, claim, g) ==
    LET tokens == robots[g].tokens
        after[i \in 0 .. Len(tokens)] ==
            IF i = 0 THEN claim ELSE Claimed(robots, slug, after[i - 1], [g |-> g, tok |-> tokens[i]])
    IN  after[Len(tokens)]

Claims(robots, slug) ==
    LET after[g \in 0 .. Len(robots)] ==
            IF g = 0 THEN NoLimit ELSE GroupClaims(robots, slug, after[g - 1], g)
    IN  after[Len(robots)]

Won(robots, g) ==
    {s \in Slugs : Claims(robots, s) # NoLimit /\ Claims(robots, s).g = g}

\* Pass 0: a counter per robots.txt group that governs a slug.  A group
\* without a delay only matters when there is a wildcard to be exempt from.
RobotsOrders(c) ==
    IF c.off THEN <<>>
    ELSE [g \in DOMAIN c.robots |->
             IF Won(c.robots, g) = {} \/ (c.robots[g].delay = 0 /\ c.wildcard = NoLimit)
             THEN NoOrder
             ELSE OneForAll(Counter(<<"robots", g>>,
                                 IF c.robots[g].delay = 0 THEN Unlimited ELSE 1, FALSE),
                         Won(c.robots, g))]

RuleCounter(c, i) == Counter(<<"rule", i>>, c.rules[i].budget, c.rules[i].observe)

\* Pass 1: a counter per named rule, the last one to name a slug wins.
EachOrders(c) ==
    [i \in DOMAIN c.rules |->
        IF c.rules[i].kind = "each" THEN OneForAll(RuleCounter(c, i), c.rules[i].slugs) ELSE NoOrder]

\* Pass 2: a counter per slug of a botgroup that has none yet.
BotgroupOrders(c) ==
    [i \in DOMAIN c.rules |->
        IF c.rules[i].kind = "botgroup" THEN OneEach(RuleCounter(c, i), c.rules[i].slugs) ELSE NoOrder]

\* Pass 3: the wildcard gives every other slug a counter of its own, and
\* one to each of the four aggregates.
WildCounter(c) == Counter(<<"wildcard">>, c.wildcard.budget, c.wildcard.observe)

WildcardOrders(c) ==
    IF c.wildcard = NoLimit THEN <<>>
    ELSE <<OneEach(WildCounter(c), Slugs), OneNamed(WildCounter(c), "unknown"),
           OneNamed(WildCounter(c), "no-ua"), OneNamed(WildCounter(c), "fake"),
           OneNamed(WildCounter(c), "fallback")>>

\* A counter per scope=group rule; the first of a botgroup counts.
GroupOrders(c) ==
    [i \in DOMAIN c.rules |->
        IF /\ c.rules[i].kind = "group"
           /\ ~\E j \in 1 .. i - 1 : c.rules[j].kind = "group" /\ c.rules[j].group = c.rules[i].group
        THEN OneNamed(RuleCounter(c, i), c.rules[i].group) ELSE NoOrder]

TotalOrders(c) ==
    IF c.total = NoLimit THEN <<>>
    ELSE <<OneNamed(Counter(<<"total">>, c.total.budget, c.total.observe), "total")>>

SlugLayout(c) == AfterPass(AfterPass(AfterPass(NoCounters, RobotsOrders(c)), EachOrders(c)), BotgroupOrders(c))
FullLayout(c) == AfterPass(AfterPass(AfterPass(SlugLayout(c), WildcardOrders(c)), GroupOrders(c)), TotalOrders(c))

\* Every counter is wired to the group counter of its slugs; of slugs that
\* share a counter the one the walk over the hash reaches last decides.
HashOrders == {o \in [Slugs -> 1 .. Cardinality(Slugs)] : IsInjective(o)}

Wired(named, order, slugs) ==
    IF slugs = {} THEN 0
    ELSE named[BotgroupOf[CHOOSE s \in slugs : \A t \in slugs : order[t] <= order[s]]]

Configured(c) ==
    LET l == FullLayout(c)
        mine(n) == {s \in Slugs : l.by[s] = n}
    IN  /\ \E order \in HashOrders :
               slots = [n \in DOMAIN l.slots |->
                   [l.slots[n] EXCEPT !.group = Wired(l.named, order, mine(n))]]
        /\ bySlug = l.by
        /\ special = l.named
        /\ spent = [n \in DOMAIN l.slots |-> 0]
-----------------------------------------------------------------------------
(* bs_bot_rate_check: a request. *)

\* What the classification says of a client.
Client(known, verified, kind) == [known |-> known, verified |-> verified, kind |-> kind]

Clients ==
    {Client(s, NoLimit, "known") : s \in Slugs \cup Late}
    \cup {Client(NoLimit, s, "verified") : s \in Slugs}
    \cup {Client(NoLimit, NoLimit, k) : k \in {"unknown", "no-ua", "fake", "browser"}}

IsBot(cl) == cl.kind # "browser"

\* The counters a client is looked up under, in order; the fallback is for
\* a crawler whose slug has no counter.
Candidates(cl) ==
    << IF cl.known    = NoLimit THEN 0 ELSE bySlug[cl.known],
       IF cl.verified = NoLimit THEN 0 ELSE bySlug[cl.verified],
       IF cl.kind = "no-ua" THEN special["no-ua"] ELSE 0,
       IF cl.kind \in {"no-ua", "unknown"} THEN special["unknown"] ELSE 0,
       IF cl.kind = "fake" THEN special["fake"] ELSE 0,
       IF cl.kind \in {"known", "verified"} THEN special["fallback"] ELSE 0 >>

OwnSlot(cl) ==
    LET found == {k \in DOMAIN Candidates(cl) : Candidates(cl)[k] # 0}
    IN  IF found = {} THEN 0 ELSE Candidates(cl)[Min(found)]

\* The counters a request is charged to, the most specific first.
Tier(n) == IF n = 0 THEN <<>> ELSE <<n>>
TiersOf(own) == Tier(own) \o Tier(slots[own].group) \o Tier(special["total"])

NoAsk == [tiers |-> <<>>]
Charging(tiers, logOnly) ==
    [tiers |-> tiers, at |-> 1, tripped |-> 0, ownSpent |-> 0, logOnly |-> logOnly]

BotInit ==
    /\ config \in Configs
    /\ Configured(config)
    /\ ask = [w \in Workers |-> NoAsk]
    /\ asks = 0 /\ served = 0 /\ blamed = {}

\* A request comes in; without a counter it is let through.
Ask(w) ==
    /\ ask[w] = NoAsk /\ asks < MaxAsks /\ asks' = asks + 1
    /\ \E cl \in Clients, logOnly \in BOOLEAN :
           IF OwnSlot(cl) = 0
           THEN /\ served' = IF IsBot(cl) /\ ~logOnly THEN served + 1 ELSE served
                /\ UNCHANGED ask
           ELSE /\ ask' = [ask EXCEPT ![w] = Charging(TiersOf(OwnSlot(cl)), logOnly)]
                /\ UNCHANGED served
    /\ UNCHANGED <<config, slots, bySlug, special, spent, blamed>>

\* One counter is charged, whatever the ones before it said.
SlotAdmits(n) == spent[n] < slots[n].budget \/ slots[n].budget = Unlimited

GoesOn(a) == a.at <= Len(a.tiers)

Charged(a, n) ==
    [tiers    |-> a.tiers,
     at       |-> a.at + 1,
     tripped  |-> IF a.tripped = 0 /\ ~SlotAdmits(n) THEN a.at ELSE a.tripped,
     ownSpent |-> IF a.at = 1 THEN spent[n] ELSE a.ownSpent,
     logOnly  |-> a.logOnly]

Charge(w) ==
    /\ ask[w] # NoAsk /\ GoesOn(ask[w])
    /\ LET a == ask[w]  n == a.tiers[a.at] IN
       /\ spent' = IF SlotAdmits(n) /\ slots[n].budget # Unlimited
                   THEN [spent EXCEPT ![n] = @ + 1] ELSE spent
       /\ ask' = [ask EXCEPT ![w] = Charged(a, n)]
    /\ UNCHANGED <<config, slots, bySlug, special, asks, served, blamed>>

Finished(w) == ask[w] # NoAsk /\ ~GoesOn(ask[w])

\* The first refusal decides: it is only observed when the scope or its
\* rule says so.
TrippedSlot(a) == slots[a.tiers[a.tripped]]
Refuses(a) == a.tripped # 0 /\ ~a.logOnly /\ ~TrippedSlot(a).observe

\* The answer blames the client only when its own counter refused.
BlamesAny(a) == a.tripped # 0      \* mutant: a capacity refusal marks the client
Blames(a) == a.tripped = 1

Serve(w) ==
    /\ Finished(w) /\ ~Refuses(ask[w])
    /\ served' = IF ask[w].logOnly THEN served ELSE served + 1
    /\ ask' = [ask EXCEPT ![w] = NoAsk]
    /\ UNCHANGED <<config, slots, bySlug, special, spent, asks, blamed>>

Refuse(w) ==
    /\ Finished(w) /\ Refuses(ask[w])
    /\ blamed' = IF Blames(ask[w])
                 THEN blamed \cup {<<ask[w].ownSpent, slots[ask[w].tiers[1]].budget>>}
                 ELSE blamed
    /\ ask' = [ask EXCEPT ![w] = NoAsk]
    /\ UNCHANGED <<config, slots, bySlug, special, spent, asks, served>>

BotNext == \E w \in Workers : Ask(w) \/ Charge(w) \/ Serve(w) \/ Refuse(w)

BotSpec == BotInit /\ [][BotNext]_botVars
-----------------------------------------------------------------------------
(* Properties. *)

\* What an operator may expect of the passes, said per slug: the last rule
\* that names it, else the robots.txt group with the longest token, else
\* the first rule of its botgroup, else the wildcard, else nothing.
Naming(c, slug, kind) ==
    {i \in DOMAIN c.rules : c.rules[i].kind = kind /\ slug \in c.rules[i].slugs}
Resolved(c, g, slug) ==
    {i \in DOMAIN c.robots[g].tokens : slug \in c.robots[g].tokens[i].slugs}
Matching(c, slug) ==
    UNION {{<<g, i>> : i \in Resolved(c, g, slug)} : g \in DOMAIN c.robots}
Longest(c, slug) ==
    {m \in Matching(c, slug) : \A o \in Matching(c, slug) :
        c.robots[o[1]].tokens[o[2]].len <= c.robots[m[1]].tokens[m[2]].len}
Slowest(c, slug) ==
    {m[1] : m \in {m \in Longest(c, slug) : \A o \in Longest(c, slug) :
        c.robots[o[1]].delay <= c.robots[m[1]].delay}}
Governs(c, slug) ==
    LET each == Naming(c, slug, "each")
        group == Naming(c, slug, "botgroup")
        robots == IF c.off THEN {} ELSE Slowest(c, slug)
        counts == {g \in robots : c.robots[g].delay > 0 \/ c.wildcard # NoLimit}
    IN  CASE each # {}   -> {<<"rule", Max(each)>>}
          [] each = {} /\ counts # {} -> {<<"robots", Min(counts)>>}
          [] each = {} /\ counts = {} /\ group # {} -> {<<"rule", Min(group)>>}
          [] OTHER -> IF c.wildcard = NoLimit THEN {} ELSE {<<"wildcard">>}

\* Unless the pool has run out, every slug of the directory has the counter
\* of the rule that governs it, and a slug that none governs has no counter
\* (bs_bot_rate_init, register_robots_entries).
RightRule ==
    Len(slots) < PoolSize =>
        \A s \in Slugs :
            {slots[n].origin : n \in {bySlug[s]} \ {0}} = Governs(config, s)

Enforcing(c) ==
    /\ c.total # NoLimit /\ ~c.total.observe /\ c.total.budget # Unlimited
    /\ \A i \in DOMAIN c.rules : ~c.rules[i].observe
    /\ c.wildcard = NoLimit \/ ~c.wildcard.observe

\* With a wildcard, and counters for all, the total is a ceiling over every
\* crawler the server lets through, whatever tiers refuse the others; and
\* although a request is charged to every tier, a refusal marks the client
\* only if the counter of its own slot had admitted its whole budget, never
\* for a spike of others (bs_bot_rate_check).
CeilingHolds ==
    /\ Enforcing(config) /\ config.wildcard # NoLimit /\ Len(slots) < PoolSize
         => served <= config.total.budget
    /\ \A b \in blamed : b[1] >= b[2]
=============================================================================
