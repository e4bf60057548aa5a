------------------------------ MODULE PolicyWalk ------------------------------
(***************************************************************************)
(* The policy of a request: the walk over the rules (policy.c), what a     *)
(* rule that matches does (triggers.c), the stages after the walk, and the *)
(* marks an application reports with its response (bridge.c).              *)
(*                                                                         *)
(* A ladder is the rules of the containers followed by those of the        *)
(* server, and the score from which a challenge is asked.  A rule has      *)
(* conditions, possibly a budget, and an action.  The conditions on the    *)
(* request itself are seen by the kinds of request they hold for; those on *)
(* flags and scores read what rules further up wrote.  A rule in observe   *)
(* mode, or a request in a LogOnly scope, only reports.  One visitor, who  *)
(* has proved nothing, is seen in one window of the rules; counters,       *)
(* strikes and the flag table have modules of their own.                   *)
(*                                                                         *)
(* Every request is walked twice: for real, and by a twin that has no      *)
(* observed rules and takes no LogOnly scope into account.                 *)
(***************************************************************************)
EXTENDS Integers, SequencesExt

CONSTANTS
    Ladders,    \* configurations: [rules, row]; row is the score asked for
    Kinds,      \* kinds of request
    Events,     \* what the application reports: [flagIp, flagSession, observe]
    ScoreMax,   \* BS_NAMED_SCORE_MAX
    StrikesMax, \* strikes that escalate a rule
    MaxRequests \* bound on the requests and events

ASSUME PolicyAssumption ==
    /\ ScoreMax \in Nat /\ StrikesMax \in Nat \ {0} /\ MaxRequests \in Nat

VARIABLES
    ladder,   \* the configuration
    real,     \* what the server holds, and the request under way
    twin,     \* the same without what only observes
    kept,     \* what the twin held before a LogOnly request
    requests  \* requests and events so far

policyVars == <<ladder, real, twin, kept, requests>>

\* The outcomes, by bs_would_severity.
Served     == 0
Challenged == 2
Limited    == 3
Blocked == 4

\* A rule as RuleBlocks has accepted it; scores are operations in order.
LadderRule ==
    [kinds : SUBSET Kinds, flagged : SUBSET STRING, atLeast : Int, budget : Nat,
     escalate : BOOLEAN, respond : {Served, Limited, Blocked}, explicit : BOOLEAN,
     floor : Nat, scores : Seq([op : {"+", "-", "="}, value : 0 .. ScoreMax]),
     flagIp : SUBSET STRING, flagSession : SUBSET STRING, observe : BOOLEAN]

ASSUME LadderAssumption ==
    \A l \in Ladders : l.rules \in Seq(LadderRule) /\ l.row \in Int

\* Flags of an address and of the visitor's session, the spent budget and
\* the strikes of every rule.
NewWorld(rs) == [flags |-> {}, held |-> {}, spent |-> [i \in DOMAIN rs |-> 0],
                 strikes |-> [i \in DOMAIN rs |-> 0]]

NoEvent == [flagIp |-> [add |-> {}, del |-> {}, replace |-> FALSE],
            flagSession |-> [add |-> {}, del |-> {}, replace |-> FALSE],
            observe |-> TRUE]

\* A request: the rule it has come to (0: none under way), what it is and
\* what the stages after the walk will say of it; then what the walk found.
NoRequest == [at |-> 0]
Request(kind, logOnly, robots, overBotRate) ==
    [at |-> 1, kind |-> kind, logOnly |-> logOnly, robots |-> robots,
     overBotRate |-> overBotRate, score |-> 0, floor |-> 0, session |-> {},
     would |-> Served, outcome |-> Served, pass |-> FALSE]

rules == ladder.rules

PolicyInit ==
    /\ ladder \in Ladders
    /\ real = [world |-> NewWorld(ladder.rules), rq |-> NoRequest]
    /\ twin = real
    /\ kept = real.world
    /\ requests = 0
-----------------------------------------------------------------------------
(* Conditions. *)

Matches(rule, s) ==
    /\ s.rq.kind \in rule.kinds
    /\ rule.flagged # {} => rule.flagged \cap (s.world.flags \cup s.world.held) # {}
    /\ s.rq.score >= rule.atLeast
-----------------------------------------------------------------------------
(* Actions: bs_apply_trigger_action. *)

Clamp(n) == IF n > ScoreMax THEN ScoreMax ELSE IF n < -ScoreMax THEN -ScoreMax ELSE n

Moved(n, o) == CASE o.op = "+" -> n + o.value [] o.op = "-" -> n - o.value [] OTHER -> o.value

ScoreAfter(score, ops) == FoldLeft(LAMBDA n, o : Clamp(Moved(n, o)), score, ops)

Scored(rule, s) == [s EXCEPT !.rq.score = ScoreAfter(@, rule.scores)]
Flagged(flags, s) == [s EXCEPT !.world.flags = @ \cup flags]
Down(s) == [s EXCEPT !.rq.at = @ + 1]
Reported(outcome, s) == [s EXCEPT !.rq.would = IF outcome > @ THEN outcome ELSE @]

\* The walk ends behind the last rule: with a refusal, or with a pass that
\* leaves the stages after the walk to come.
Behind == Len(rules) + 1
Refused(outcome, s) == [s EXCEPT !.rq.at = Behind + 1, !.rq.outcome = outcome]
Passed(s) == [s EXCEPT !.rq.at = Behind, !.rq.pass = TRUE]

\* Marks and scores move before the rule decides; a pass that scores or
\* demands a tier lets the walk go on, a bare one ends it.
Acted(rule, s) ==
    LET marked == Scored(rule, Flagged(rule.flagIp, [s EXCEPT !.rq.session = @ \cup rule.flagSession]))
    IN  IF rule.respond # Served THEN Refused(rule.respond, marked)
        ELSE IF rule.floor = 0 /\ rule.scores = <<>> THEN Passed(marked)
        ELSE Down([marked EXCEPT !.rq.floor = IF rule.floor > @ THEN rule.floor ELSE @])
-----------------------------------------------------------------------------
(* A rule that matches. *)

Admits(rule, i, s) == s.world.spent[i] < rule.budget
Spent(i, s) == [s EXCEPT !.world.spent[i] = @ + 1]

\* What the rule says besides its budget: a status, a tier or a score.
SaysMore(rule) == rule.explicit \/ rule.floor > 0 \/ rule.scores # <<>>

Enforced(rule, i, s) ==
    LET struck == [Flagged({"rate_abuse"}, s) EXCEPT
                      !.world.strikes[i] = IF rule.escalate THEN @ + 1 ELSE @]
    IN  CASE rule.budget = 0 -> Acted(rule, s)
          [] rule.budget > 0 /\ rule.escalate /\ s.world.strikes[i] >= StrikesMax ->
               Refused(Blocked, Flagged({"rate_abuse"}, s))
          [] rule.budget > 0 /\ ~(rule.escalate /\ s.world.strikes[i] >= StrikesMax) ->
               IF Admits(rule, i, s) THEN Down(Spent(i, s))
               ELSE IF SaysMore(rule) THEN Acted(rule, struck)
               ELSE Refused(Limited, struck)

\* Only reported.  The rule's window is spent all the same; the scores move
\* when it is the scope that observes, and not the rule.
\* Mutant: an observed rule ends the walk like an enforced one.
ObservedShadows(rule, i, s) ==
    IF rule.budget > 0 THEN Down(s) ELSE Passed(Reported(rule.respond, s))
Observed(rule, i, s) ==
    IF rule.budget > 0
    THEN IF Admits(rule, i, s) THEN Down(Spent(i, s)) ELSE Down(Reported(Limited, s))
    ELSE Down(Reported(rule.respond, IF rule.observe THEN s ELSE Scored(rule, s)))

RuleStep(rule, i, s) ==
    IF ~Matches(rule, s) THEN Down(s)
    ELSE IF rule.observe \/ s.rq.logOnly THEN Observed(rule, i, s)
    ELSE Enforced(rule, i, s)

\* The twin's walk of the same rule.
TwinStep(rule, i, s) ==
    IF rule.observe \/ ~Matches(rule, s) THEN Down(s) ELSE Enforced(rule, i, s)
-----------------------------------------------------------------------------
(* bs_check_policy. *)

Walking(s) == s.rq.at \in 1 .. Len(rules)

\* A request comes in.  What robots.txt and the bot rate say of it is theirs.
\* Under LogOnly the twin sees the server as it really is.
Receive ==
    /\ real.rq.at = 0 /\ requests < MaxRequests
    /\ \E kind \in Kinds, logOnly \in BOOLEAN,
          robots \in {"allow", "deny", "observe"}, over \in BOOLEAN :
           /\ real' = [real EXCEPT !.rq = Request(kind, logOnly, robots, over)]
           /\ twin' = [world |-> IF logOnly THEN real.world ELSE twin.world,
                       rq |-> Request(kind, logOnly, robots, over)]
    /\ kept' = twin.world
    /\ requests' = requests + 1
    /\ UNCHANGED ladder

\* The next rule; both walks are at the same one, or one has ended.
WalkRule ==
    LET i == IF Walking(real) THEN real.rq.at ELSE twin.rq.at IN
    /\ Walking(real) \/ Walking(twin)
    /\ real' = IF Walking(real) THEN RuleStep(rules[i], i, real) ELSE real
    /\ twin' = IF Walking(twin) THEN TwinStep(rules[i], i, twin) ELSE twin
    /\ UNCHANGED <<ladder, kept, requests>>

\* robots.txt and then the bot rate, from neither of which a pass exempts.
RobotsStage(s, logOnly) ==
    CASE s.rq.at # Behind \/ s.rq.robots = "allow" -> s
      [] s.rq.at = Behind /\ s.rq.robots = "deny" /\ ~logOnly ->
           Refused(Blocked, Flagged({"robots_ignored"}, s))
      [] OTHER -> Reported(Blocked, s)

BotRateStage(s, logOnly) ==
    CASE s.rq.at # Behind \/ ~s.rq.overBotRate -> s
      [] s.rq.at = Behind /\ s.rq.overBotRate /\ ~logOnly ->
           Refused(Limited, Flagged({"rate_abuse"}, s))
      [] OTHER -> Reported(Limited, s)

\* The tier is decided for a request that was neither refused nor passed.
TierStage(s, logOnly) ==
    LET asked == s.rq.floor > 0 \/ s.rq.score >= ladder.row IN
    CASE s.rq.at # Behind \/ s.rq.pass \/ ~asked -> s
      [] s.rq.at = Behind /\ ~s.rq.pass /\ asked /\ ~logOnly -> Refused(Challenged, s)
      [] OTHER -> Reported(Challenged, s)

Decided(s, logOnly) == TierStage(BotRateStage(RobotsStage(s, logOnly), logOnly), logOnly)
-----------------------------------------------------------------------------
(* The response: bs_app_feedback_filter. *)

\* With a removal or a replacement only an entry that exists is written, and
\* what a mixed list adds is left out.
AddressAfter(flags, ops) ==
    IF ops.del = {} /\ ~ops.replace THEN flags \cup ops.add
    ELSE IF flags = {} THEN {}
    ELSE IF ops.replace THEN ops.add ELSE flags \ ops.del

SessionAfter(held, ops) == IF ops.replace THEN ops.add ELSE (held \cup ops.add) \ ops.del

\* The marks of the rules ride on the response first, then those of the
\* application's event, if neither the scope nor the trigger only observes.
Responded(s, e, logOnly) ==
    LET held == s.world.held \cup s.rq.session IN
    [world |-> IF e.observe \/ logOnly THEN [s.world EXCEPT !.held = held]
               ELSE [s.world EXCEPT !.flags = AddressAfter(@, e.flagIp),
                                    !.held = SessionAfter(held, e.flagSession)],
     rq |-> [s.rq EXCEPT !.at = 0]]

\* The stages after the walk and the response.  Only the application behind
\* a served request reports.  Of a LogOnly request the twin keeps nothing but
\* what it spent.
Answer ==
    LET r == Decided(real, real.rq.logOnly)
        t == Decided(twin, FALSE)
    IN
    /\ real.rq.at # 0 /\ ~Walking(real) /\ ~Walking(twin)
    /\ \E e \in Events \cup {NoEvent} :
         /\ e # NoEvent => r.rq.outcome = Served
         /\ real' = Responded(r, e, real.rq.logOnly)
         /\ twin' = IF real.rq.logOnly
                    THEN [world |-> [kept EXCEPT !.spent = real.world.spent],
                          rq |-> [t.rq EXCEPT !.at = 0]]
                    ELSE Responded(t, e, FALSE)
    /\ UNCHANGED <<ladder, kept, requests>>

PolicyNext == Receive \/ WalkRule \/ Answer

PolicySpec == PolicyInit /\ [][PolicyNext]_policyVars
-----------------------------------------------------------------------------
(* Properties. *)

AtRest == real.rq.at = 0 /\ requests > 0

\* What only observes might as well not be there: every request is answered,
\* and the address, the session, the enforced budgets and the strikes end up,
\* as if the observed rules did not exist and the LogOnly requests had come to
\* nothing but spent budgets.
ObservedIsAbsent ==
    /\ \A f \in {"flags", "held", "strikes"} : real.world[f] = twin.world[f]
    /\ \A i \in DOMAIN rules :
         ~rules[i].observe => real.world.spent[i] = twin.world.spent[i]
    /\ IF real.rq.logOnly
       THEN real.rq.outcome = Served /\ ~real.rq.pass
       ELSE \A f \in {"outcome", "pass", "score", "floor"} : real.rq[f] = twin.rq[f]

\* The ladders a dry run reproduces: what a budget or a rule writes is read by
\* no rule further down, a spent budget has no action of its own, and a
\* challenge is asked by a score and not by a rule.
Reproducible ==
    \A i \in DOMAIN rules : ~rules[i].observe =>
       /\ rules[i].floor = 0
       /\ rules[i].budget > 0 => ~SaysMore(rules[i]) /\ ~rules[i].escalate
       /\ \A j \in i + 1 .. Len(rules) :
            rules[j].flagged \cap (rules[i].flagIp \cup {"rate_abuse"}) = {}

DryRunTells == AtRest /\ real.rq.logOnly => real.rq.would >= twin.rq.outcome

\* Observing is faithful (the comment of bs_apply_trigger_action, "observed
\* rules never shadow enforced ones", and docs/directives.md on LogOnly): an
\* observed rule or scope changes nothing for anyone, whatever stands around
\* it in the ladder, and on the ladders a dry run can reproduce a LogOnly
\* request reports at least the outcome it would have had.
ObserveFaithful ==
    AtRest => /\ ObservedIsAbsent
              /\ Reproducible => DryRunTells
=============================================================================
