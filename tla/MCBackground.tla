------------------------------ MODULE MCBackground ------------------------------
(* Small instances of the modules of what runs beside the policy of a request. *)
(* A behaviour has one subject; the others stand still.                        *)
EXTENDS CaptchaLimits, HotSwap, LoadHysteresis, AllowRanges, FormCaptcha

CONSTANT Subjects

VARIABLE subject

(* A behaviour about something else keeps the first entry and its table. *)
RangesAtRest ==
    /\ allowed = [kind |-> "any", lines |-> <<>>, flags |-> AllFlags]
    /\ files = [p \in Parts |-> [mtime |-> 1, lines |-> SideAtStart]]
    /\ ranges = Table(Missing, 0, 0)
    /\ held = [p \in Parts |-> {}]
    /\ build = Resting /\ rewrites = 0 /\ verdict = NoVerdict

SomeChild == CHOOSE c \in Children : TRUE

backgroundVars == <<limitVars, swapVars, loadVars, matchVars, rangesVars, formVars, subject>>

(* UaMatch: every pair of short patterns and the triples over five that share *)
(* beginnings and ends; the User-Agents of a desktop, two phones and two bots. *)
Letters(n) == UNION {[1 .. k -> {"a", "b"}] : k \in 1 .. n}
Chained == {<<"b">>, <<"a", "b">>, <<"b", "b">>, <<"a", "b", "b">>, <<"b", "a", "b">>}
MCMatchPatterns == [1 .. 2 -> Letters(3)] \cup [1 .. 3 -> Chained] \cup {<< <<>>, <<"a">> >>}
MCMatchTexts == Letters(4)
MCBot == <<"Googlebot">>
MCDirectory == << [pattern |-> <<"GPT", "bot">>, slug |-> "gptbot", group |-> "ai"],
                  [pattern |-> <<"Mozilla", "Bing", "bot">>, slug |-> "bingbot", group |-> "search"] >>
Desktop == <<"Mozilla", Version, Version>>
Galaxy == <<"Mozilla", Droid, Version, "; ", Build, Close, Version>>
IPhone == <<"Mozilla", Phone, Version, Build>>
MCTemplateUas == {Desktop, Galaxy, IPhone}
MCAgents == MCTemplateUas \cup {<<>>, <<"Mozilla", "GPT", "bot">>, <<"some", "bot">>, <<"GPT", "Old">>}
MCRetired == << <<"Old">> >>
MCBotTokens == {<<"bot">>}

(* AllowRanges: a list and a sidecar of one line, of two, and with garbage. *)
MCFileBodies == {<<{1}>>, <<{1}, {2}>>, <<{1}, Garbage>>}
MCSideBodies == {<<{3}>>, <<Garbage>>}
MCSideAtStart == <<{3}>>
MCTargets == {Target("star", <<>>), Target("path", <<>>), Target("cidrs", <<{1}>>),
              Target("cidrs", <<{1}, Garbage>>)}
MCClassifyArgs == {<<>>, <<Delta("-", "verified-bots")>>,
                   <<Delta("-", "known-bots"), Delta("-", "verified-bots"), Delta("+", "verified-bots")>>}

(* FormCaptcha: a scope with two providers, one that binds host and action,  *)
(* one that observes, one without a secret, one whose forms are not guarded. *)
ABlock(name, kind) == [name |-> name, kind |-> kind, secret |-> TRUE,
                       host |-> "unset", action |-> "unset", minScore |-> 5]
AScope(blocks) == [blocks |-> blocks, formCaptcha |-> TRUE, observe |-> FALSE,
                   keys |-> {"new", "old"}, server |-> "site"]
Two == AScope(<<ABlock("turnstile", "plain"), ABlock("geetest", "geetest")>>)
Strict == AScope(<<[ABlock("v3", "v3") EXCEPT !.host = "shop", !.action = "login"]>>)
MCScopes == {Two, Strict, [Two EXCEPT !.observe = TRUE], [Two EXCEPT !.formCaptcha = FALSE],
             AScope(<<[ABlock("v3", "v3") EXCEPT !.secret = FALSE]>>)}
MCFormBodies ==
    {<<>>, <<Token("t1")>>, <<Token("t1"), Token("t2")>>, <<Piece("other"), Piece("newline"), Token("t2")>>,
     <<Token("t1"), Piece("nul"), Token("t2")>>, <<Piece("broken"), Token("t1")>>, <<Token("long")>>,
     <<Token("t1"), Piece("other"), Piece("other"), Piece("other")>>}
MCLongTokens == {"long"}
AnAnswer == [length |-> 2, ok |-> TRUE, says |-> "yes", host |-> "site", action |-> "botshield", score |-> 7]
MCProviderAnswers ==
    {AnAnswer, [AnAnswer EXCEPT !.host = "shop", !.action = "login"], [AnAnswer EXCEPT !.says = "no"],
     [AnAnswer EXCEPT !.host = "", !.action = "", !.score = -1], [AnAnswer EXCEPT !.host = "shop", !.action = "login", !.score = 4],
     [AnAnswer EXCEPT !.says = "odd", !.length = 0], [AnAnswer EXCEPT !.ok = FALSE], [AnAnswer EXCEPT !.length = 3]}
APending == [whole |-> TRUE, exp |-> 10, key |-> "old"]
MCPendings == {APending, [APending EXCEPT !.whole = FALSE], [APending EXCEPT !.exp = 9], [APending EXCEPT !.key = "other"]}
FormAtRest ==
    /\ post = [door |-> "form", scope |-> Two, type |-> "form", body |-> <<>>, pending |-> APending, named |-> "-"]
    /\ stage = "over" /\ taken = <<>> /\ asked = Unasked
    /\ outcome = Undecided /\ app = [pieces |-> <<>>, eos |-> FALSE]

BackgroundInit ==
    /\ subject \in Subjects
    /\ LimitInit /\ SwapInit /\ LoadInit
    /\ IF subject = "match" THEN MatchInit
       ELSE matched = [patterns |-> <<MCBot>>, text |-> MCBot] /\ tables = BuiltIns
    /\ IF subject = "ranges" THEN RangesInit ELSE RangesAtRest
    /\ IF subject = "form" THEN FormInit /\ (post.door # "endpoint" => post.pending = APending)
       ELSE FormAtRest
    /\ subject # "load" => lat.extended
    /\ subject # "swap" => holder = SomeChild /\ \A c \in Children : pending[c] = BuiltIn

Limits  == subject = "limits" /\ LimitNext
           /\ UNCHANGED <<swapVars, loadVars, matchVars, rangesVars, formVars, subject>>
Swap    == subject = "swap" /\ SwapNext
           /\ UNCHANGED <<limitVars, loadVars, matchVars, rangesVars, formVars, subject>>
Load    == subject = "load" /\ LoadNext
           /\ UNCHANGED <<limitVars, swapVars, matchVars, rangesVars, formVars, subject>>
Reload  == subject = "reload" /\ MatchNext
           /\ UNCHANGED <<limitVars, swapVars, loadVars, rangesVars, formVars, subject>>
Ranges  == subject = "ranges" /\ RangesNext
           /\ UNCHANGED <<limitVars, swapVars, loadVars, matchVars, formVars, subject>>
Form    == subject = "form" /\ FormNext
           /\ UNCHANGED <<limitVars, swapVars, loadVars, matchVars, rangesVars, subject>>

BackgroundNext == Limits \/ Swap \/ Load \/ Reload \/ Ranges \/ Form

BackgroundSpec ==
    /\ BackgroundInit /\ [][BackgroundNext]_backgroundVars
    /\ LimitFair /\ SwapFair /\ WF_loadVars(subject = "load" /\ LoadTick)
    /\ SF_loadVars(subject = "load" /\ TickStat) /\ SF_loadVars(subject = "load" /\ TickRead)
=============================================================================
