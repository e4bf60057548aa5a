------------------------------- MODULE Visitor -------------------------------
(***************************************************************************)
(* A visitor, the request handler (botshield.c) and the endpoints that     *)
(* take a solved challenge (non_interactive.c, captcha.c).                 *)
(*                                                                         *)
(* The server keeps nothing about a visitor but the nonces of redeemed     *)
(* challenges; what it knows comes back in a sealed cookie: whether it is  *)
(* a mere presence mark or the proof of a solve, until when it counts, the *)
(* challenges its holder has passed and a mark set by a rule or by the     *)
(* application.  A challenge carries the same block in an envelope of its  *)
(* own.  A visitor has one jar of cookies and several tabs: a request      *)
(* carries the cookie of the moment it is sent, an answer changes the jar  *)
(* at the moment it arrives, or is lost, and time passes in between.       *)
(*                                                                         *)
(* The visitor is a browser: it presents only cookies it was given.  The   *)
(* rules that demand a challenge are seen by the tier they demand; the     *)
(* safeguard by its redirect (its table is in Safeguard).                  *)
(***************************************************************************)
EXTENDS Integers, FiniteSetsExt

CONSTANTS
    Tabs,        \* tabs of the visitor
    CookieTtl,   \* BotShieldCookieTTL, in hours
    BootTtl,     \* life of a challenge from the bootstrap: 120 seconds
    PendingTtl,  \* life of the pending cookie of a captcha page
    Sites,       \* what a site can serve: [captcha, embedded]
    LastHour,    \* bound on the clock
    MaxPages,    \* bound on the page requests
    MaxLost,     \* bound on the answers lost
    NoCookie

ASSUME VisitorAssumption ==
    /\ CookieTtl \in Nat /\ BootTtl \in Nat /\ PendingTtl \in Nat
    /\ Sites \subseteq [captcha : BOOLEAN, embedded : BOOLEAN]
    /\ LastHour \in Nat \ {0} /\ MaxPages \in Nat /\ MaxLost \in Nat

VARIABLES
    site,     \* the configuration
    hour,     \* the clock
    jar,      \* the session cookie of the visitor
    pend,     \* the end of the pending cookie of a captcha; 0: none
    tab,      \* what a tab is doing
    redeemed, \* nonces the embedded nonce table has seen
    issued,   \* challenges issued so far
    pages,    \* page requests so far
    lost,     \* answers lost so far
    vouched   \* history: when a standing was last earned, or shown unexpired

visitorVars == <<site, hour, jar, pend, tab, redeemed, issued, pages, lost, vouched>>

\* The tiers, in order; a pass of a tier is named by the tier.
Pass           == 0
NonInteractive == 1
Interactive    == 2
Captcha        == 3
Tiers == Pass .. Captcha
Passes == NonInteractive .. Captcha

\* A cookie: the algorithm its counter has to satisfy and whether it does,
\* its end, its reputation, whether the challenge was an automatic one.
\* History: the highest tier its holder has solved for it.
Cookies == [alg : {"session", "pow", "captcha"}, ok : BOOLEAN, exp : Nat,
            passes : SUBSET Passes, marked : BOOLEAN, auto : BOOLEAN, proof : Tiers]

\* bs_should_carry_prior_rep: the reputation of a cookie counts while it has
\* not expired, even if its counter is not good.
CarriesStale(cookie) == cookie # NoCookie      \* mutant: an expired one too
Carries(cookie) == cookie # NoCookie /\ hour <= cookie.exp

ProofOf(cookie) == IF Carries(cookie) THEN cookie.proof ELSE Pass

\* What a page holds to be solved: a puzzle in its envelope, a captcha, or
\* the invisible widget of a provider.  tier is what was served.
Puzzle(id, exp, passes, marked, auto, tier) ==
    [kind |-> "pow", id |-> id, exp |-> exp, passes |-> passes, marked |-> marked,
     auto |-> auto, tier |-> tier]
Widget(kind, tier) ==
    [kind |-> kind, id |-> 0, exp |-> 0, passes |-> {}, marked |-> FALSE,
     auto |-> kind = "provider", tier |-> tier]
\* A page served in embedded mode, whose wrapper has yet to ask for a challenge.
Wrapper == Widget("wrapper", NonInteractive)
Sheets == [kind : {"pow", "captcha", "provider", "wrapper"}, id : Nat, exp : Nat,
           passes : SUBSET Passes, marked : BOOLEAN, auto : BOOLEAN, tier : Tiers]

ASSUME NoCookieAssumption == NoCookie \notin Cookies \cup Sheets

IdleTab == [at |-> "idle"]
Holding(sheet) == [at |-> "holding", sheet |-> sheet]
Sent(what, cookie, pending, sheet) ==
    [at |-> "sent", what |-> what, cookie |-> cookie, pending |-> pending, sheet |-> sheet]
\* An answer: the cookie it sets, if any, the end of the pending cookie it
\* sets, if any, and the page; the sheet it answers and the proof it knew of.
Reply(sent, set, pending, sheet) ==
    [at |-> "answered", what |-> sent.what, set |-> set, pending |-> pending,
     sheet |-> sheet, of |-> sent.sheet,
     proof |-> ProofOf(sent.cookie)]

VisitorTypeOK ==
    /\ site \in Sites /\ hour \in 1 .. LastHour
    /\ jar \in Cookies \cup {NoCookie} /\ pend \in Nat
    /\ \A t \in Tabs :
           /\ tab[t].at \in {"idle", "holding", "sent", "answered"}
           /\ tab[t].at # "idle" => tab[t].sheet \in Sheets \cup {NoCookie}
           /\ tab[t].at = "sent" => tab[t].cookie \in Cookies \cup {NoCookie}
           /\ tab[t].at = "answered" => tab[t].set \in Cookies \cup {NoCookie}
    /\ redeemed \subseteq 1 .. issued
    /\ pages \in 0 .. MaxPages /\ lost \in 0 .. MaxLost

VisitorInit ==
    /\ site \in Sites /\ hour = 1
    /\ jar = NoCookie /\ pend = 0
    /\ tab = [t \in Tabs |-> IdleTab]
    /\ redeemed = {} /\ issued = 0 /\ pages = 0 /\ lost = 0
    /\ vouched = [captcha |-> 0, mark |-> 0]
-----------------------------------------------------------------------------
(* The cookie. *)

\* bs_verify_cookie.
Verifies(cookie) == Carries(cookie) /\ cookie.ok

CarriedPasses(cookie) == IF Carries(cookie) THEN cookie.passes ELSE {}
CarriedMark(cookie)   == Carries(cookie) /\ cookie.marked
HasSolved(cookie) == CarriedPasses(cookie) # {}

Sealed(alg, exp, passes, marked, auto, proof) ==
    [alg |-> alg, ok |-> TRUE, exp |-> exp, passes |-> passes, marked |-> marked,
     auto |-> auto, proof |-> proof]

\* bs_maybe_mint_session.
Presence == Sealed("session", hour + CookieTtl, {}, FALSE, FALSE, Pass)

\* bs_amend_session_flags: the cookie the response leaves the client with is
\* sealed again, under the counter of a session, if the mark changes.
Amended(cookie, op) ==
    LET after == CASE op = "mark" -> TRUE [] op = "unmark" -> FALSE [] OTHER -> cookie.marked
    IN  [cookie EXCEPT !.marked = after,
                       !.ok = IF after = cookie.marked THEN @ ELSE cookie.alg # "pow"]

\* History: the captcha pass and the mark of a cookie that has not expired
\* are vouched for now.
Vouch(cookie, solved, op) ==
    LET good == cookie # NoCookie /\ hour <= cookie.exp IN
    vouched' = [captcha |-> IF solved = Captcha \/ (good /\ Captcha \in cookie.passes)
                            THEN hour ELSE vouched.captcha,
                mark    |-> IF op = "mark" \/ (good /\ cookie.marked)
                            THEN hour ELSE vouched.mark]
-----------------------------------------------------------------------------
(* bs_handler: a page request. *)

\* The tier a demand comes to: a captcha that cannot be served is an
\* interactive one, and one the cookie already proves is none.
Clamped(demand) == IF demand = Captcha /\ ~site.captcha THEN Interactive ELSE demand
ProvedTier(cookie) == Max(CarriedPasses(cookie) \cup {Pass})
TierFor(demand, cookie) ==
    IF ProvedTier(cookie) >= Clamped(demand) THEN Pass ELSE Clamped(demand)

\* The reputation that goes into the envelope of an interstitial: that of the
\* cookie, with the pass of the tier that cookie was served under, or else of
\* the tier about to be served.
NextPasses(cookie, tier) ==
    IF Carries(cookie)
    THEN cookie.passes \cup {IF cookie.auto THEN NonInteractive ELSE Interactive}
    ELSE {IF tier = NonInteractive THEN NonInteractive ELSE Interactive}
NextMark(cookie, op) ==
    CASE op = "mark" -> TRUE [] op = "unmark" -> FALSE [] OTHER -> CarriedMark(cookie)

Interstitial(cookie, tier, op) ==
    IF tier = Captcha THEN Widget("captcha", Captcha)
    ELSE Puzzle(issued + 1, hour + CookieTtl, NextPasses(cookie, tier),
                NextMark(cookie, op), tier = NonInteractive, tier)

\* The cookie a page response leaves behind: the one presented, or a fresh
\* presence, with the mark; sent only if it differs from the one presented.
Left(cookie, op) ==
    LET base == IF Verifies(cookie) THEN cookie ELSE Presence
        after == Amended(base, op)
    IN  IF after = cookie THEN NoCookie ELSE after

\* The scope and its rules decide on a tier and on the mark; the page is
\* then served, redirected by the safeguard, or kept behind a challenge.
ServePage(t) ==
    LET s == tab[t] IN
    /\ s.at = "sent" /\ s.what = "page"
    /\ \E demand \in Tiers, op \in {"keep", "mark", "unmark"} :
       LET tier == TierFor(demand, s.cookie)
           left == Left(s.cookie, op)
           served(sheet, pending) == tab' = [tab EXCEPT ![t] = Reply(s, left, pending, sheet)]
       IN /\ \/ served(NoCookie, 0) /\ UNCHANGED issued
             \/ /\ tier = NonInteractive /\ site.embedded
                /\ served(Wrapper, 0) /\ UNCHANGED issued
             \/ /\ tier # Pass
                /\ served(Interstitial(s.cookie, tier, op),
                          IF tier = Captcha THEN hour + PendingTtl ELSE 0)
                /\ issued' = IF tier = Captcha THEN issued ELSE issued + 1
          /\ Vouch(s.cookie, Pass, op)
    /\ UNCHANGED <<site, hour, jar, pend, redeemed, pages, lost>>

\* bs_embedded_bootstrap_handler: nothing for a holder of a solve, else the
\* provider's widget or a puzzle that knows nothing of the cookie.
ServeBootstrap(t) ==
    LET s == tab[t]
        answer(sheet) == tab' = [tab EXCEPT ![t] = Reply(s, NoCookie, 0, sheet)]
    IN
    /\ s.at = "sent" /\ s.what = "bootstrap"
    /\ IF Verifies(s.cookie) /\ HasSolved(s.cookie)
       THEN answer(NoCookie) /\ UNCHANGED issued
       ELSE IF site.captcha
       THEN answer(Widget("provider", NonInteractive)) /\ UNCHANGED issued
       ELSE /\ answer(Puzzle(issued + 1, hour + BootTtl, {}, FALSE, TRUE, NonInteractive))
            /\ issued' = issued + 1
    /\ UNCHANGED <<site, hour, jar, pend, redeemed, pages, lost, vouched>>
-----------------------------------------------------------------------------
(* The endpoints that take a solve. *)

Takes(t, kind) == tab[t].at = "sent" /\ tab[t].what = "solve" /\ tab[t].sheet.kind = kind

\* What the endpoint mints: the block of the cookie presented if it counts,
\* else that of the envelope, and the pass of what was solved.
\* Mutant: the pass is set before the block is carried over it.
WithPassFirst(cookie, own, pass) == IF Carries(cookie) THEN cookie.passes ELSE own \cup {pass}
WithPass(cookie, own, pass) == (IF Carries(cookie) THEN cookie.passes ELSE own) \cup {pass}

MarkOf(cookie, sheet) == IF Carries(cookie) THEN cookie.marked ELSE sheet.marked
NewProof(cookie, sheet) == Max({ProofOf(cookie), sheet.tier})

\* bs_embedded_verify_pow_gcm: the envelope has not expired and its nonce is
\* redeemed now; the cookie ends when the envelope would have.
RedeemPuzzle(t) ==
    LET s == tab[t]  p == tab[t].sheet IN
    /\ Takes(t, "pow")
    /\ hour <= p.exp /\ p.id \notin redeemed
    /\ redeemed' = redeemed \cup {p.id}
    /\ tab' = [tab EXCEPT ![t] = Reply(s,
           Sealed("pow", p.exp, WithPass(s.cookie, p.passes, NonInteractive),
                  MarkOf(s.cookie, p), p.auto, NewProof(s.cookie, p)), 0, NoCookie)]
    /\ Vouch(s.cookie, p.tier, "keep")
    /\ UNCHANGED <<site, hour, jar, pend, issued, pages, lost>>

\* bs_captcha_verify_handler: the pending cookie has not expired, the
\* provider accepts the token or cannot be reached.
\* bs_embedded_verify_provider: the same client behind it, but the pass is
\* that of the noninteractive tier and there is no pending cookie.
RedeemToken(t) ==
    LET s == tab[t]
        pass == IF s.sheet.kind = "captcha" THEN Captcha ELSE NonInteractive
    IN
    /\ Takes(t, "captcha") \/ Takes(t, "provider")
    /\ s.sheet.kind = "captcha" => hour <= s.pending
    /\ tab' = [tab EXCEPT ![t] = Reply(s,
           Sealed("captcha", hour + CookieTtl, WithPass(s.cookie, {}, pass),
                  CarriedMark(s.cookie), s.sheet.auto, NewProof(s.cookie, s.sheet)), 0, NoCookie)]
    /\ Vouch(s.cookie, s.sheet.tier, "keep")
    /\ UNCHANGED <<site, hour, jar, pend, redeemed, issued, pages, lost>>

\* Too fast, from another address, expired, redeemed before, over a limit
\* or not accepted by the provider: nothing is minted.
Rejected(t) ==
    LET s == tab[t] IN
    /\ s.at = "sent" /\ s.what = "solve"
    /\ tab' = [tab EXCEPT ![t] = Reply(s, NoCookie, 0, NoCookie)]
    /\ UNCHANGED <<site, hour, jar, pend, redeemed, issued, pages, lost, vouched>>
-----------------------------------------------------------------------------
(* The browser. *)

Send(t, what, sheet) == tab' = [tab EXCEPT ![t] = Sent(what, jar, pend, sheet)]

\* A page is opened in a tab, or one that is behind a challenge is left.
\* Tabs at rest are alike.
Open(t) ==
    /\ tab[t].at \in {"idle", "holding"}
    /\ tab[t] = IdleTab => t = CHOOSE u \in Tabs : tab[u] = IdleTab
    /\ pages < MaxPages /\ pages' = pages + 1
    /\ Send(t, "page", NoCookie)
    /\ UNCHANGED <<site, hour, jar, pend, redeemed, issued, lost, vouched>>

\* The wrapper asks for a challenge; a challenge is solved.
Respond(t) ==
    /\ tab[t].at = "holding"
    /\ IF tab[t].sheet = Wrapper THEN Send(t, "bootstrap", NoCookie)
       ELSE Send(t, "solve", tab[t].sheet)
    /\ UNCHANGED <<site, hour, jar, pend, redeemed, issued, pages, lost, vouched>>

\* An answer arrives: the cookies it sets replace those of the jar.  The
\* pending cookie is cleared by the captcha endpoint when it mints.
Arrive(t) ==
    LET a == tab[t] IN
    /\ a.at = "answered"
    /\ jar' = IF a.set = NoCookie THEN jar ELSE a.set
    /\ pend' = IF a.pending # 0 THEN a.pending
               ELSE IF a.set # NoCookie /\ a.of # NoCookie /\ a.of.kind = "captcha" THEN 0 ELSE pend
    /\ tab' = [tab EXCEPT ![t] = IF a.sheet = NoCookie THEN IdleTab ELSE Holding(a.sheet)]
    /\ UNCHANGED <<site, hour, redeemed, issued, pages, lost, vouched>>

\* The answer to a solve that was taken is lost, and the tab can send it
\* again.  (A page that is lost is one that was not asked for.)
Lose(t) ==
    LET a == tab[t] IN
    /\ a.at = "answered" /\ a.of # NoCookie /\ a.set # NoCookie
    /\ lost < MaxLost /\ lost' = lost + 1
    /\ tab' = [tab EXCEPT ![t] = Holding(a.of)]
    /\ UNCHANGED <<site, hour, jar, pend, redeemed, issued, pages, vouched>>

HourPasses ==
    /\ hour < LastHour /\ hour' = hour + 1
    /\ UNCHANGED <<site, jar, pend, tab, redeemed, issued, pages, lost, vouched>>

VisitorNext ==
    \/ \E t \in Tabs :
           \/ ServePage(t) \/ ServeBootstrap(t)
           \/ RedeemPuzzle(t) \/ RedeemToken(t) \/ Rejected(t)
           \/ Open(t) \/ Respond(t) \/ Arrive(t) \/ Lose(t)
    \/ HourPasses

VisitorSpec == VisitorInit /\ [][VisitorNext]_visitorVars
-----------------------------------------------------------------------------
(* Properties. *)

\* The life of a standing: of a cookie, or of a challenge from the bootstrap,
\* which is fixed and the longer one under a short BotShieldCookieTTL.
Lifetime == Max({CookieTtl, BootTtl})

\* A standing does not outlive its cookie: a captcha pass and a mark end at
\* most one lifetime after the visitor earned them or last showed them
\* unexpired, through any chain of solves, envelopes and renewals
\* (bs_should_carry_prior_rep: "TTL is the only mechanism preventing
\* indefinite reputation transfer across cookie generations").
StandingLapses ==
    jar # NoCookie =>
        /\ Captcha \in jar.passes => jar.exp <= vouched.captcha + Lifetime
        /\ jar.marked => jar.exp <= vouched.mark + Lifetime

Challenging(t) == tab[t].at = "answered" /\ tab[t].what = "page" /\ tab[t].sheet # NoCookie

\* Nobody is asked again for what a cookie they present already proves, up to
\* the tier that was solved for it, except for an interactive challenge
\* (the rule of the tier decision of botshield.c: only a demand above what was
\* passed is a new question).
SolvedNotAsked ==
    \A t \in Tabs :
        Challenging(t) /\ tab[t].sheet.tier # Interactive =>
            tab[t].sheet.tier > tab[t].proof

\* The same for every tier.
SolveEndsTheLoop ==
    \A t \in Tabs : Challenging(t) => tab[t].sheet.tier > tab[t].proof
=============================================================================
