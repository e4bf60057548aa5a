---------------------------- MODULE RequestsProofs ----------------------------
(***************************************************************************)
(* Theorems of Visitor, Safeguard, MetricsRing and PolicyWalk.  Of a       *)
(* visitor, for any number of tabs, pages and lost answers and any         *)
(* lifetimes.  Of the safeguard, for any number of keys, slots, requests   *)
(* and seconds, any probe and any threshold, window and grant.  Of the     *)
(* rings of metrics, for any number of slots, writers, events and deaths.  *)
(* Of the policy, for ladders of any length, any rules and any events.     *)
(***************************************************************************)
EXTENDS Safeguard, Visitor, MetricsRing, PolicyWalk, LeastIndex
-----------------------------------------------------------------------------
(* What a visitor's cookies and sheets say. *)

\* What is true of a cookie, at hour h and with the history v: it ends within
\* a lifetime, the captcha pass and the mark within one of their vouching,
\* and whoever solved something for it holds a pass.
CookieKept(c, h, v) ==
    c # NoCookie =>
        /\ c.exp <= h + Lifetime
        /\ Captcha \in c.passes => c.exp <= v.captcha + Lifetime
        /\ c.marked => c.exp <= v.mark + Lifetime
        /\ c.proof # Pass => c.passes # {}
        /\ c.proof = Captcha => Captcha \in c.passes

\* What is true of a sheet when n challenges were issued: a puzzle stands for
\* the cookie it will become, and every kind is served under its own tiers.
SheetKept(p, h, v, n) ==
    p # NoCookie =>
        /\ p.kind = "pow" =>
               /\ p.id \in 1 .. n
               /\ p.tier \in {NonInteractive, Interactive}
               /\ p.exp <= h + Lifetime
               /\ Captcha \in p.passes => p.exp <= v.captcha + Lifetime
               /\ p.marked => p.exp <= v.mark + Lifetime
        /\ p.kind = "captcha" => p.tier = Captcha
        /\ p.kind \in {"provider", "wrapper"} => p.tier = NonInteractive

TabKept(x, h, v, n) ==
    /\ x.at = "holding" => SheetKept(x.sheet, h, v, n)
    /\ x.at = "sent" =>
           /\ CookieKept(x.cookie, h, v) /\ SheetKept(x.sheet, h, v, n)
           /\ x.what = "solve" => x.sheet \in Sheets
    /\ x.at = "answered" =>
           /\ CookieKept(x.set, h, v)
           /\ SheetKept(x.sheet, h, v, n) /\ SheetKept(x.of, h, v, n)
           /\ x.what = "page" /\ x.sheet # NoCookie /\ x.sheet.tier # Interactive =>
                  x.sheet.tier > x.proof

MaybeCookie == Cookies \cup {NoCookie}
MaybeSheet == Sheets \cup {NoCookie}
Requested == {"page", "bootstrap", "solve"}
TabStates ==
    {IdleTab} \cup [at : {"holding"}, sheet : Sheets]
    \cup [at : {"sent"}, what : Requested, cookie : MaybeCookie, pending : Nat, sheet : MaybeSheet]
    \cup [at : {"answered"}, what : Requested, set : MaybeCookie, pending : Nat,
          sheet : MaybeSheet, of : MaybeSheet, proof : Tiers]
Vouchings == [captcha : Nat, mark : Nat]

VisitorInv ==
    /\ site \in Sites /\ hour \in 1 .. LastHour /\ jar \in MaybeCookie /\ pend \in Nat
    /\ tab \in [Tabs -> TabStates]
    /\ issued \in Nat /\ redeemed \subseteq 1 .. issued
    /\ pages \in 0 .. MaxPages /\ lost \in 0 .. MaxLost
    /\ vouched \in Vouchings /\ vouched.captcha <= hour /\ vouched.mark <= hour
    /\ CookieKept(jar, hour, vouched)
    /\ \A t \in Tabs : TabKept(tab[t], hour, vouched, issued)

\* The larger of two numbers.
LEMMA MaxOfTwo ==
    ASSUME NEW a \in Int, NEW b \in Int
    PROVE  Max({a, b}) \in {a, b} /\ Max({a, b}) >= a /\ Max({a, b}) >= b
  <1> DEFINE P(x) == x \in {a, b} /\ \A y \in {a, b} : x >= y
  <1>1. \E x : P(x)
    <2>1. CASE a >= b
      BY <2>1
    <2>2. CASE b >= a
      BY <2>2
    <2> QED
      BY <2>1, <2>2
  <1>2. Max({a, b}) = CHOOSE x : P(x)
    BY DEF Max
  <1> QED
    BY <1>1, <1>2

\* The highest of some tiers.
LEMMA MaxTier ==
    ASSUME NEW S \in SUBSET Tiers, S # {}
    PROVE  Max(S) \in S /\ \A y \in S : Max(S) >= y
  <1> USE DEF Tiers, Pass, Captcha
  <1>1. \E x \in S : \A y \in S : x >= y
    <2>1. CASE 3 \in S
      BY <2>1
    <2>2. CASE 3 \notin S /\ 2 \in S
      BY <2>2
    <2>3. CASE 3 \notin S /\ 2 \notin S /\ 1 \in S
      BY <2>3
    <2>4. CASE 3 \notin S /\ 2 \notin S /\ 1 \notin S
      <3>1. ASSUME NEW x \in S PROVE x = 0
        <4>1. x \in 0 .. 3 /\ x # 1 /\ x # 2 /\ x # 3
          BY <2>4
        <4> QED
          BY <4>1
      <3>2. PICK x \in S : TRUE
        OBVIOUS
      <3> QED
        BY <3>1, <3>2
    <2> QED
      BY <2>1, <2>2, <2>3, <2>4
  <1> QED
    BY <1>1 DEF Max

\* A lifetime is as long as either of the two.
LEMMA LifetimeBounds == Lifetime \in Nat /\ CookieTtl <= Lifetime /\ BootTtl <= Lifetime
  BY MaxOfTwo, VisitorAssumption DEF Lifetime
-----------------------------------------------------------------------------
(* What an action may do. *)

Mono(v, w) == v.captcha <= w.captcha /\ v.mark <= w.mark

\* Time and the history only grow, and so what was true of a tab stays true.
LEMMA TabStaysKept ==
    ASSUME NEW x \in TabStates, NEW h \in Nat, NEW h2 \in Nat, h <= h2,
           NEW v \in Vouchings, NEW w \in Vouchings, Mono(v, w),
           NEW n \in Nat, NEW m \in Nat, n <= m, TabKept(x, h, v, n)
    PROVE  TabKept(x, h2, w, m)
  <1>1. \A c \in MaybeCookie : CookieKept(c, h, v) => CookieKept(c, h2, w)
    BY LifetimeBounds DEF MaybeCookie, Cookies, CookieKept, Vouchings, Mono
  <1>2. \A p \in MaybeSheet : SheetKept(p, h, v, n) => SheetKept(p, h2, w, m)
    BY LifetimeBounds DEF MaybeSheet, Sheets, SheetKept, Vouchings, Mono
  <1>3. /\ x.at = "holding" => x.sheet \in MaybeSheet
        /\ x.at = "sent" => x.cookie \in MaybeCookie /\ x.sheet \in MaybeSheet
        /\ x.at = "answered" => x.set \in MaybeCookie /\ x.sheet \in MaybeSheet /\ x.of \in MaybeSheet
    BY DEF TabStates, MaybeSheet, IdleTab
  <1> QED
    BY <1>1, <1>2, <1>3 DEF TabKept

\* The same of the jar.
LEMMA JarStaysKept ==
    ASSUME NEW c \in MaybeCookie, NEW h \in Nat, NEW h2 \in Nat, h <= h2,
           NEW v \in Vouchings, NEW w \in Vouchings, Mono(v, w), CookieKept(c, h, v)
    PROVE  CookieKept(c, h2, w)
  BY LifetimeBounds DEF MaybeCookie, Cookies, CookieKept, Vouchings, Mono

\* A step that changes one tab keeps the invariant, if what it puts there is
\* kept and the clock, the history and the counters do not go back.
LEMMA OneTabChanges ==
    ASSUME VisitorInv, NEW t \in Tabs, NEW x \in TabStates, tab' = [tab EXCEPT ![t] = x],
           site' = site, hour' = hour, pend' \in Nat, jar' \in MaybeCookie,
           issued' \in Nat, issued <= issued', redeemed' \subseteq 1 .. issued',
           pages' \in 0 .. MaxPages, lost' \in 0 .. MaxLost,
           vouched' \in Vouchings, Mono(vouched, vouched'),
           vouched'.captcha <= hour, vouched'.mark <= hour,
           CookieKept(jar', hour, vouched'), TabKept(x, hour, vouched', issued')
    PROVE  VisitorInv'
  <1> hour \in Nat
    BY VisitorAssumption DEF VisitorInv
  <1>1. tab' \in [Tabs -> TabStates]
    BY DEF VisitorInv
  <1>2. ASSUME NEW u \in Tabs PROVE TabKept(tab'[u], hour, vouched', issued')
    <2>1. CASE u = t
      BY <2>1 DEF VisitorInv
    <2>2. CASE u # t
      <3>1. tab'[u] = tab[u] /\ tab[u] \in TabStates /\ TabKept(tab[u], hour, vouched, issued)
        BY <2>2 DEF VisitorInv
      <3> QED
        BY <3>1, TabStaysKept DEF VisitorInv
    <2> QED
      BY <2>1, <2>2
  <1> QED
    BY <1>1, <1>2 DEF VisitorInv

\* What vouching does.
LEMMA VouchSays ==
    ASSUME VisitorInv, NEW c \in MaybeCookie, NEW solved, NEW op, Vouch(c, solved, op)
    PROVE  /\ vouched' \in Vouchings /\ Mono(vouched, vouched')
           /\ vouched'.captcha <= hour /\ vouched'.mark <= hour
           /\ solved = Captcha => vouched'.captcha = hour
           /\ op = "mark" => vouched'.mark = hour
           /\ Carries(c) /\ Captcha \in c.passes => vouched'.captcha = hour
           /\ Carries(c) /\ c.marked => vouched'.mark = hour
  <1>1. hour \in Nat /\ vouched.captcha \in Nat /\ vouched.mark \in Nat
    BY VisitorAssumption DEF VisitorInv, Vouchings
  <1> QED
    BY <1>1 DEF Vouch, VisitorInv, Vouchings, Mono, Carries

\* What a tab at each step holds.
LEMMA TabForm ==
    ASSUME VisitorInv, NEW t \in Tabs
    PROVE  /\ tab[t].at = "holding" => tab[t].sheet \in Sheets
           /\ tab[t].at = "sent" =>
                  /\ tab[t].what \in Requested /\ tab[t].cookie \in MaybeCookie
                  /\ tab[t].pending \in Nat /\ tab[t].sheet \in MaybeSheet
           /\ tab[t].at = "answered" =>
                  /\ tab[t].what \in Requested /\ tab[t].set \in MaybeCookie
                  /\ tab[t].pending \in Nat /\ tab[t].sheet \in MaybeSheet
                  /\ tab[t].of \in MaybeSheet /\ tab[t].proof \in Tiers
           /\ TabKept(tab[t], hour, vouched, issued)
  <1>1. tab[t] \in TabStates
    BY DEF VisitorInv
  <1> QED
    BY <1>1 DEF VisitorInv, TabStates, IdleTab

\* The proof a cookie stands for is a tier, backed by its passes.
LEMMA ProofBacked ==
    ASSUME NEW c \in MaybeCookie, NEW h, NEW v, CookieKept(c, h, v)
    PROVE  /\ ProofOf(c) \in Tiers
           /\ CarriedPasses(c) \in SUBSET Passes
           /\ ProofOf(c) # Pass => Carries(c) /\ CarriedPasses(c) # {}
           /\ ProofOf(c) = Captcha => Captcha \in CarriedPasses(c)
  BY DEF MaybeCookie, Cookies, CookieKept, ProofOf, CarriedPasses, Carries, Tiers, Pass, Captcha

\* An answer without cookies and sheet is kept.
LEMMA ReplyForm ==
    ASSUME VisitorInv, NEW t \in Tabs, tab[t].at = "sent",
           NEW c \in MaybeCookie, NEW n \in Nat, NEW p \in MaybeSheet
    PROVE  /\ Reply(tab[t], c, n, p) \in TabStates
           /\ Reply(tab[t], c, n, p).at = "answered"
           /\ Reply(tab[t], c, n, p).what = tab[t].what
           /\ Reply(tab[t], c, n, p).set = c
           /\ Reply(tab[t], c, n, p).sheet = p
           /\ Reply(tab[t], c, n, p).of = tab[t].sheet
           /\ Reply(tab[t], c, n, p).proof = ProofOf(tab[t].cookie)
  <1>1. tab[t].what \in Requested /\ tab[t].sheet \in MaybeSheet /\ tab[t].cookie \in MaybeCookie
    BY TabForm
  <1>2. CookieKept(tab[t].cookie, hour, vouched)
    BY TabForm DEF TabKept
  <1>3. ProofOf(tab[t].cookie) \in Tiers
    BY <1>1, <1>2, ProofBacked
  <1> QED
    BY <1>1, <1>3 DEF Reply, TabStates

-----------------------------------------------------------------------------
(* The pages. *)

\* The cookie a page response leaves behind is kept.
LEMMA LeftKept ==
    ASSUME VisitorInv, NEW c \in MaybeCookie, CookieKept(c, hour, vouched),
           NEW op, Vouch(c, Pass, op)
    PROVE  Left(c, op) \in MaybeCookie /\ CookieKept(Left(c, op), hour, vouched')
  <1> DEFINE base == IF Verifies(c) THEN c ELSE Presence
             after == Amended(base, op)
  <1>0. hour \in Nat
    BY VisitorAssumption DEF VisitorInv
  <1>1. base \in Cookies
    <2>1. CASE Verifies(c)
      BY <2>1 DEF Verifies, Carries, MaybeCookie
    <2>2. CASE ~Verifies(c)
      BY <2>2, <1>0, VisitorAssumption DEF Presence, Sealed, Cookies, Tiers, Pass, Captcha
    <2> QED
      BY <2>1, <2>2
  <1>2. /\ base.exp <= hour + Lifetime
        /\ Captcha \in base.passes => base.exp <= vouched'.captcha + Lifetime
        /\ base.marked => base.exp <= vouched'.mark + Lifetime
        /\ base.proof # Pass => base.passes # {}
        /\ base.proof = Captcha => Captcha \in base.passes
    <2>1. CASE Verifies(c)
      <3>1. c # NoCookie /\ Carries(c) /\ c \in Cookies /\ c.exp \in Nat
        BY <2>1 DEF Verifies, Carries, MaybeCookie, Cookies
      <3> QED
        BY <2>1, <3>1, VouchSays DEF CookieKept
    <2>2. CASE ~Verifies(c)
      BY <2>2, <1>0, LifetimeBounds, VisitorAssumption DEF Presence, Sealed, Pass, Captcha
    <2> QED
      BY <2>1, <2>2
  <1>3. /\ after \in Cookies /\ after.exp = base.exp /\ after.passes = base.passes
        /\ after.proof = base.proof
        /\ after.marked = CASE op = "mark" -> TRUE [] op = "unmark" -> FALSE [] OTHER -> base.marked
    <2> HIDE DEF base
    <2>1. PICK b \in Cookies : b = base
      BY <1>1
    <2>2. after = Amended(b, op)
      BY <2>1
    <2>3. Amended(b, op) \in Cookies /\ Amended(b, op).exp = b.exp
          /\ Amended(b, op).passes = b.passes /\ Amended(b, op).proof = b.proof
          /\ Amended(b, op).marked =
                 CASE op = "mark" -> TRUE [] op = "unmark" -> FALSE [] OTHER -> b.marked
      BY DEF Amended, Cookies
    <2> QED
      BY <2>1, <2>2, <2>3
  <1>4. after.marked => after.exp <= vouched'.mark + Lifetime
    <2>1. CASE op = "mark"
      BY <1>2, <1>3, <2>1, VouchSays
    <2>2. CASE op # "mark"
      BY <1>2, <1>3, <2>2
    <2> QED
      BY <2>1, <2>2
  <1>5. CookieKept(after, hour, vouched')
    BY <1>2, <1>3, <1>4 DEF CookieKept
  <1>6. Left(c, op) = IF after = c THEN NoCookie ELSE after
    BY DEF Left
  <1> HIDE DEF after
  <1> QED
    BY <1>3, <1>5, <1>6 DEF MaybeCookie, CookieKept

\* A demanded tier is above what the cookie proves, but for Interactive.
LEMMA TierAsked ==
    ASSUME NEW c \in MaybeCookie, CookieKept(c, hour, vouched), NEW demand \in Tiers
    PROVE  /\ TierFor(demand, c) \in Tiers
           /\ TierFor(demand, c) # Pass /\ TierFor(demand, c) # Interactive =>
                  TierFor(demand, c) > ProofOf(c)
  <1>1. /\ ProofOf(c) \in Tiers
        /\ CarriedPasses(c) \in SUBSET Passes
        /\ ProofOf(c) # Pass => CarriedPasses(c) # {}
        /\ ProofOf(c) = Captcha => Captcha \in CarriedPasses(c)
    BY ProofBacked
  <1> DEFINE S == CarriedPasses(c) \cup {Pass}
  <1>2. S \in SUBSET Tiers /\ S # {}
    BY <1>1 DEF Tiers, Passes, Pass, NonInteractive, Captcha
  <1>3. ProvedTier(c) \in S /\ \A y \in S : ProvedTier(c) >= y
    <2> HIDE DEF S
    <2>1. Max(S) \in S /\ \A y \in S : Max(S) >= y
      BY <1>2, MaxTier
    <2>2. ProvedTier(c) = Max(S)
      BY DEF ProvedTier, S
    <2> QED
      BY <2>1, <2>2
  <1>4. ProvedTier(c) \in Tiers
    BY <1>2, <1>3
  <1>5. Clamped(demand) \in Tiers
    BY DEF Clamped, Tiers, Pass, Captcha, Interactive
  <1>6. TierFor(demand, c) \in Tiers
    BY <1>5 DEF TierFor, Tiers, Pass, Captcha
  <1>7. ASSUME TierFor(demand, c) # Pass, TierFor(demand, c) # Interactive
        PROVE  TierFor(demand, c) > ProofOf(c)
    <2>1. TierFor(demand, c) > ProvedTier(c)
      BY <1>4, <1>5, <1>7 DEF TierFor, Tiers, Pass, Captcha
    <2>2. CASE TierFor(demand, c) = Captcha
      <3>1. Captcha \notin CarriedPasses(c)
        BY <1>3, <1>4, <2>1, <2>2 DEF Tiers, Pass, Captcha
      <3> QED
        BY <1>1, <2>2, <3>1 DEF Tiers, Pass, Captcha
    <2>3. CASE TierFor(demand, c) = NonInteractive
      <3>1. CarriedPasses(c) = {}
        <4>1. ASSUME NEW y \in CarriedPasses(c) PROVE FALSE
          <5>1. y \in Nat /\ y >= 1
            BY <1>1 DEF Passes, NonInteractive, Captcha
          <5>2. ProvedTier(c) >= y
            BY <1>3
          <5> QED
            BY <5>1, <5>2, <1>4, <2>1, <2>3 DEF Tiers, Pass, Captcha, NonInteractive
        <4> QED
          BY <4>1
      <3> QED
        BY <1>1, <2>3, <3>1 DEF Pass, NonInteractive
    <2> QED
      BY <1>6, <1>7, <2>2, <2>3 DEF Tiers, Pass, NonInteractive, Interactive, Captcha
  <1> QED
    BY <1>6, <1>7

\* An interstitial is kept: its envelope stands for the cookie it will become.
LEMMA InterstitialKept ==
    ASSUME VisitorInv, NEW c \in MaybeCookie, CookieKept(c, hour, vouched),
           NEW op, Vouch(c, Pass, op),
           NEW tier \in Tiers, tier # Pass
    PROVE  /\ Interstitial(c, tier, op) \in Sheets
           /\ SheetKept(Interstitial(c, tier, op), hour, vouched', issued + 1)
           /\ tier = Captcha => SheetKept(Interstitial(c, tier, op), hour, vouched', issued)
           /\ Interstitial(c, tier, op).tier = tier
  <1>0. hour \in Nat /\ issued \in Nat /\ CookieTtl \in Nat
    BY VisitorAssumption DEF VisitorInv
  <1>1. CASE tier = Captcha
    BY <1>1 DEF Interstitial, Widget, Sheets, SheetKept, Tiers, Pass, Captcha
  <1>2. CASE tier # Captcha
    <2>1. NextPasses(c, tier) \in SUBSET Passes
      BY DEF NextPasses, Carries, MaybeCookie, Cookies, Passes, NonInteractive, Interactive, Captcha
    <2>2. Captcha \in NextPasses(c, tier) => vouched'.captcha = hour
      BY VouchSays DEF NextPasses, NonInteractive, Interactive, Captcha
    <2>3. NextMark(c, op) \in BOOLEAN /\ (NextMark(c, op) => vouched'.mark = hour)
      <3>1. CarriedMark(c) \in BOOLEAN
        BY DEF CarriedMark, Carries, MaybeCookie, Cookies
      <3> QED
        BY <3>1, VouchSays DEF NextMark, CarriedMark
    <2>4. tier \in {NonInteractive, Interactive}
      BY <1>2 DEF Tiers, Pass, Captcha, NonInteractive, Interactive
    <2>5. Interstitial(c, tier, op) =
              Puzzle(issued + 1, hour + CookieTtl, NextPasses(c, tier), NextMark(c, op),
                     tier = NonInteractive, tier)
      BY <1>2 DEF Interstitial
    <2>6. PICK ps \in SUBSET Passes, mk \in BOOLEAN :
              ps = NextPasses(c, tier) /\ mk = NextMark(c, op)
      BY <2>1, <2>3
    <2>7. Puzzle(issued + 1, hour + CookieTtl, ps, mk, tier = NonInteractive, tier) \in Sheets
      BY <1>0 DEF Puzzle, Sheets
    <2>8. SheetKept(Puzzle(issued + 1, hour + CookieTtl, ps, mk, tier = NonInteractive, tier),
                    hour, vouched', issued + 1)
      BY <1>0, <2>2, <2>3, <2>4, <2>6, LifetimeBounds DEF Puzzle, SheetKept
    <2>9. Puzzle(issued + 1, hour + CookieTtl, ps, mk, tier = NonInteractive, tier).tier = tier
      BY DEF Puzzle
    <2> QED
      BY <1>2, <2>5, <2>6, <2>7, <2>8, <2>9
  <1> QED
    BY <1>1, <1>2

\* Serving a page keeps the invariant.
LEMMA ServePageKeeps == ASSUME VisitorInv, NEW t \in Tabs, ServePage(t) PROVE VisitorInv'
  <1>1. PICK demand \in Tiers, op \in {"keep", "mark", "unmark"} :
            LET s == tab[t]
                tier == TierFor(demand, s.cookie)
                left == Left(s.cookie, op)
                served(sheet, pending) == tab' = [tab EXCEPT ![t] = Reply(s, left, pending, sheet)]
            IN /\ \/ served(NoCookie, 0) /\ UNCHANGED issued
                  \/ /\ tier = NonInteractive /\ site.embedded
                     /\ served(Wrapper, 0) /\ UNCHANGED issued
                  \/ /\ tier # Pass
                     /\ served(Interstitial(s.cookie, tier, op),
                               IF tier = Captcha THEN hour + PendingTtl ELSE 0)
                     /\ issued' = IF tier = Captcha THEN issued ELSE issued + 1
               /\ Vouch(s.cookie, Pass, op)
    BY Zenon DEF ServePage
  <1>2. PICK c \in MaybeCookie : c = tab[t].cookie
    BY TabForm DEF ServePage
  <1>3. tab[t].at = "sent" /\ tab[t].what = "page" /\ UNCHANGED <<site, hour, jar, pend, redeemed, pages, lost>>
    BY DEF ServePage
  <1>4. CookieKept(c, hour, vouched) /\ SheetKept(tab[t].sheet, hour, vouched, issued)
        /\ tab[t].sheet \in MaybeSheet
    BY <1>2, <1>3, TabForm DEF TabKept
  <1> DEFINE tier == TierFor(demand, c)
             left == Left(c, op)
  <1>5. PICK pending \in Nat, sheet \in MaybeSheet :
            /\ tab' = [tab EXCEPT ![t] = Reply(tab[t], left, pending, sheet)]
            /\ \/ sheet = NoCookie /\ issued' = issued
               \/ sheet = Wrapper /\ tier = NonInteractive /\ issued' = issued
               \/ /\ tier # Pass /\ sheet = Interstitial(c, tier, op)
                  /\ issued' = IF tier = Captcha THEN issued ELSE issued + 1
    <2>1. CASE tab' = [tab EXCEPT ![t] = Reply(tab[t], left, 0, NoCookie)] /\ issued' = issued
      BY <2>1 DEF MaybeSheet
    <2>2. CASE /\ tab' = [tab EXCEPT ![t] = Reply(tab[t], left, 0, Wrapper)] /\ issued' = issued
               /\ tier = NonInteractive
      <3>1. Wrapper \in MaybeSheet
        BY DEF Wrapper, Widget, MaybeSheet, Sheets, Tiers, Pass, Captcha, NonInteractive
      <3> QED
        BY <2>2, <3>1
    <2>3. CASE /\ tier # Pass
               /\ tab' = [tab EXCEPT ![t] = Reply(tab[t], left,
                             IF tier = Captcha THEN hour + PendingTtl ELSE 0, Interstitial(c, tier, op))]
               /\ issued' = IF tier = Captcha THEN issued ELSE issued + 1
      <3>1. Interstitial(c, tier, op) \in MaybeSheet
        <4>1. tier \in Tiers
          BY <1>4, TierAsked
        <4>2. Vouch(c, Pass, op)
          BY <1>1, <1>2
        <4> QED
          BY <1>4, <2>3, <4>1, <4>2, InterstitialKept DEF MaybeSheet
      <3>2. (IF tier = Captcha THEN hour + PendingTtl ELSE 0) \in Nat
        BY VisitorAssumption DEF VisitorInv
      <3> QED
        BY <2>3, <3>1, <3>2
    <2> QED
      BY <1>1, <1>2, <2>1, <2>2, <2>3
  <1>6. Vouch(c, Pass, op)
    BY <1>1, <1>2
  <1>7. /\ vouched' \in Vouchings /\ Mono(vouched, vouched')
        /\ vouched'.captcha <= hour /\ vouched'.mark <= hour
    BY <1>6, VouchSays
  <1>8. left \in MaybeCookie /\ CookieKept(left, hour, vouched')
    BY <1>4, <1>6, LeftKept
  <1>9. issued' \in Nat /\ issued <= issued'
    BY <1>5 DEF VisitorInv
  <1>10. /\ SheetKept(sheet, hour, vouched', issued')
         /\ sheet # NoCookie /\ sheet.tier # Interactive => sheet.tier > ProofOf(c)
    <2>1. /\ tier \in Tiers
          /\ tier # Pass /\ tier # Interactive => tier > ProofOf(c)
      BY <1>4, TierAsked
    <2>2. CASE sheet = NoCookie
      BY <2>2 DEF SheetKept
    <2>3. CASE sheet = Wrapper /\ tier = NonInteractive
      <3>1. sheet.kind = "wrapper" /\ sheet.tier = NonInteractive
        BY <2>3 DEF Wrapper, Widget
      <3> QED
        BY <2>1, <2>3, <3>1 DEF SheetKept, Pass, NonInteractive, Interactive
    <2>4. CASE /\ tier # Pass /\ sheet = Interstitial(c, tier, op)
               /\ issued' = IF tier = Captcha THEN issued ELSE issued + 1
      <3> HIDE DEF tier
      <3>1. /\ SheetKept(sheet, hour, vouched', issued + 1)
            /\ tier = Captcha => SheetKept(sheet, hour, vouched', issued)
            /\ sheet.tier = tier
        BY <1>4, <1>6, <2>1, <2>4, InterstitialKept
      <3> QED
        BY <2>1, <2>4, <3>1
    <2> QED
      BY <1>5, <2>2, <2>3, <2>4
  <1> HIDE DEF left
  <1> DEFINE x == Reply(tab[t], left, pending, sheet)
  <1>11. /\ x \in TabStates /\ x.at = "answered" /\ x.what = "page" /\ x.set = left /\ x.sheet = sheet
         /\ x.of = tab[t].sheet /\ x.proof = ProofOf(c)
    BY <1>2, <1>3, <1>8, ReplyForm
  <1>12. SheetKept(tab[t].sheet, hour, vouched', issued')
    BY <1>4, <1>7, <1>9, LifetimeBounds DEF SheetKept, MaybeSheet, Sheets, Mono, Vouchings, VisitorInv
  <1> HIDE DEF x
  <1>13. TabKept(x, hour, vouched', issued')
    BY <1>8, <1>10, <1>11, <1>12 DEF TabKept
  <1>14. CookieKept(jar', hour, vouched')
    BY <1>3, <1>7, JarStaysKept, VisitorAssumption DEF VisitorInv
  <1>15. tab' = [tab EXCEPT ![t] = x]
    BY <1>5 DEF x
  <1>16. redeemed' \subseteq 1 .. issued'
    BY <1>3, <1>9 DEF VisitorInv
  <1> QED
    BY <1>3, <1>7, <1>9, <1>11, <1>13, <1>14, <1>15, <1>16, OneTabChanges DEF VisitorInv

\* An answer that was given for a sheet sent, with a cookie and a sheet that
\* are kept, keeps the invariant: every endpoint but the page handler.
LEMMA AnswerKeeps ==
    ASSUME VisitorInv, NEW t \in Tabs, tab[t].at = "sent", tab[t].what # "page",
           NEW c \in MaybeCookie, NEW p \in MaybeSheet,
           tab' = [tab EXCEPT ![t] = Reply(tab[t], c, 0, p)],
           UNCHANGED <<site, hour, jar, pend, pages, lost>>,
           issued' \in Nat, issued <= issued', redeemed' \subseteq 1 .. issued',
           vouched' \in Vouchings, Mono(vouched, vouched'),
           vouched'.captcha <= hour, vouched'.mark <= hour,
           CookieKept(c, hour, vouched'), SheetKept(p, hour, vouched', issued')
    PROVE  VisitorInv'
  <1> DEFINE x == Reply(tab[t], c, 0, p)
  <1>1. tab[t].sheet \in MaybeSheet /\ SheetKept(tab[t].sheet, hour, vouched, issued)
    BY TabForm DEF TabKept
  <1>2. SheetKept(tab[t].sheet, hour, vouched', issued')
    BY <1>1, LifetimeBounds DEF SheetKept, MaybeSheet, Sheets, Mono, Vouchings, VisitorInv
  <1>3. /\ x \in TabStates /\ x.at = "answered" /\ x.what = tab[t].what /\ x.set = c /\ x.sheet = p
        /\ x.of = tab[t].sheet
    BY ReplyForm
  <1> HIDE DEF x
  <1>4. TabKept(x, hour, vouched', issued')
    BY <1>2, <1>3 DEF TabKept
  <1>5. CookieKept(jar', hour, vouched')
    BY JarStaysKept, VisitorAssumption DEF VisitorInv
  <1>6. tab' = [tab EXCEPT ![t] = x]
    BY DEF x
  <1> QED
    BY <1>3, <1>4, <1>5, <1>6, OneTabChanges DEF VisitorInv

\* The bootstrap keeps the invariant.
LEMMA ServeBootstrapKeeps == ASSUME VisitorInv, NEW t \in Tabs, ServeBootstrap(t) PROVE VisitorInv'
  <1>1. /\ tab[t].at = "sent" /\ tab[t].what # "page"
        /\ UNCHANGED <<site, hour, jar, pend, redeemed, pages, lost, vouched>>
    BY DEF ServeBootstrap
  <1>2. issued \in Nat /\ hour \in Nat
    BY VisitorAssumption DEF VisitorInv
  <1>3. PICK p \in MaybeSheet :
            /\ tab' = [tab EXCEPT ![t] = Reply(tab[t], NoCookie, 0, p)]
            /\ issued' \in Nat /\ issued <= issued' /\ SheetKept(p, hour, vouched, issued')
    <2> DEFINE q == Puzzle(issued + 1, hour + BootTtl, {}, FALSE, TRUE, NonInteractive)
               d == Widget("provider", NonInteractive)
    <2>1. /\ NoCookie \in MaybeSheet /\ SheetKept(NoCookie, hour, vouched, issued)
          /\ d \in MaybeSheet /\ SheetKept(d, hour, vouched, issued)
      BY DEF Widget, MaybeSheet, Sheets, SheetKept, Tiers, Pass, Captcha, NonInteractive
    <2>2. q \in Sheets /\ q \in MaybeSheet
      BY <1>2, VisitorAssumption DEF Puzzle, MaybeSheet, Sheets, Tiers, Pass, Captcha, NonInteractive
    <2>3. SheetKept(q, hour, vouched, issued + 1)
      BY <1>2, LifetimeBounds, VisitorAssumption DEF Puzzle, SheetKept
    <2>4. d # q /\ NoCookie # q
      BY <2>2, NoCookieAssumption DEF Widget, Puzzle
    <2>5. PICK p \in {NoCookie, d, q} :
              /\ tab' = [tab EXCEPT ![t] = Reply(tab[t], NoCookie, 0, p)]
              /\ issued' = IF p = q THEN issued + 1 ELSE issued
      <3>2. \/ tab' = [tab EXCEPT ![t] = Reply(tab[t], NoCookie, 0, NoCookie)] /\ issued' = issued
            \/ tab' = [tab EXCEPT ![t] = Reply(tab[t], NoCookie, 0, d)] /\ issued' = issued
            \/ tab' = [tab EXCEPT ![t] = Reply(tab[t], NoCookie, 0, q)] /\ issued' = issued + 1
        BY DEF ServeBootstrap
      <3> HIDE DEF d, q
      <3> QED
        BY <2>4, <3>2
    <2> HIDE DEF d, q
    <2>6. CASE p = q
      <3>1. issued' = issued + 1
        BY <2>5, <2>6
      <3>2. SheetKept(q, hour, vouched, issued')
        BY <2>3, <3>1, Zenon
      <3>3. SheetKept(p, hour, vouched, issued')
        BY <2>6, <3>2, Zenon
      <3>4. p \in MaybeSheet /\ issued' \in Nat /\ issued <= issued'
        BY <1>2, <2>2, <2>6, <3>1
      <3> QED
        BY <2>5, <3>3, <3>4, Zenon
    <2>7. CASE p # q
      <3>1. issued' = issued
        BY <2>5, <2>7
      <3>2. SheetKept(p, hour, vouched, issued)
        BY <2>1, <2>5, <2>7
      <3>3. SheetKept(p, hour, vouched, issued')
        BY <3>1, <3>2, Zenon
      <3>4. p \in MaybeSheet /\ issued' \in Nat /\ issued <= issued'
        BY <1>2, <2>1, <2>5, <2>7, <3>1
      <3> QED
        BY <2>5, <3>3, <3>4, Zenon
    <2> QED
      BY <2>6, <2>7
  <1>4. /\ vouched \in Vouchings /\ Mono(vouched, vouched)
        /\ vouched.captcha <= hour /\ vouched.mark <= hour
    BY DEF VisitorInv, Mono, Vouchings
  <1>5. NoCookie \in MaybeCookie /\ CookieKept(NoCookie, hour, vouched)
    BY DEF MaybeCookie, CookieKept
  <1>6. redeemed' \subseteq 1 .. issued'
    BY <1>1, <1>2, <1>3 DEF VisitorInv
  <1> QED
    BY <1>1, <1>3, <1>4, <1>5, <1>6, AnswerKeeps

\* Nothing minted, nothing changed.
LEMMA RejectedKeeps == ASSUME VisitorInv, NEW t \in Tabs, Rejected(t) PROVE VisitorInv'
  <1>1. /\ tab[t].at = "sent" /\ tab[t].what # "page"
        /\ tab' = [tab EXCEPT ![t] = Reply(tab[t], NoCookie, 0, NoCookie)]
        /\ UNCHANGED <<site, hour, jar, pend, redeemed, issued, pages, lost, vouched>>
    BY DEF Rejected
  <1>2. /\ NoCookie \in MaybeCookie /\ NoCookie \in MaybeSheet
        /\ CookieKept(NoCookie, hour, vouched') /\ SheetKept(NoCookie, hour, vouched', issued')
    BY DEF MaybeCookie, MaybeSheet, CookieKept, SheetKept
  <1>3. /\ issued' \in Nat /\ issued <= issued' /\ redeemed' \subseteq 1 .. issued'
        /\ vouched' \in Vouchings /\ Mono(vouched, vouched')
        /\ vouched'.captcha <= hour /\ vouched'.mark <= hour
    BY <1>1 DEF VisitorInv, Mono, Vouchings
  <1> QED
    BY <1>1, <1>2, <1>3, AnswerKeeps

\* The cookie an endpoint mints is kept: the pass that was earned is in it,
\* and what it carries was vouched for at this hour.
LEMMA MintedKept ==
    ASSUME VisitorInv, NEW c \in MaybeCookie, CookieKept(c, hour, vouched),
           NEW p \in Sheets, Vouch(c, p.tier, "keep"),
           NEW alg \in {"session", "pow", "captcha"}, NEW exp \in Nat, exp <= hour + Lifetime,
           NEW own \in SUBSET Passes, NEW mark \in BOOLEAN,
           NEW pass \in Passes, p.tier = Captcha => pass = Captcha,
           pass = Captcha => p.tier = Captcha,
           Captcha \in own => exp <= vouched'.captcha + Lifetime,
           mark => exp <= vouched'.mark + Lifetime,
           NEW cookie,
           cookie = Sealed(alg, exp, WithPass(c, own, pass), mark, p.auto, NewProof(c, p))
    PROVE  cookie \in MaybeCookie /\ CookieKept(cookie, hour, vouched')
  <1>0. hour \in Nat
    BY VisitorAssumption DEF VisitorInv
  <1>1. /\ ProofOf(c) \in Tiers
        /\ CarriedPasses(c) \in SUBSET Passes
        /\ ProofOf(c) # Pass => Carries(c) /\ CarriedPasses(c) # {}
        /\ ProofOf(c) = Captcha => Captcha \in CarriedPasses(c)
    BY ProofBacked
  <1>2. WithPass(c, own, pass) \in SUBSET Passes /\ pass \in WithPass(c, own, pass)
    BY DEF WithPass, Carries, MaybeCookie, Cookies
  <1>3. NewProof(c, p) \in {ProofOf(c), p.tier}
    <2>1. ProofOf(c) \in Int /\ p.tier \in Int
      BY <1>1 DEF Sheets, Tiers, Pass, Captcha
    <2> QED
      BY <2>1, MaxOfTwo DEF NewProof
  <1>4. NewProof(c, p) \in Tiers
    BY <1>1, <1>3 DEF Sheets
  <1>5. NewProof(c, p) = Captcha => Captcha \in WithPass(c, own, pass)
    <2>1. ProofOf(c) = Captcha => Captcha \in WithPass(c, own, pass)
      BY <1>1 DEF WithPass, CarriedPasses, Pass, Captcha
    <2> QED
      BY <1>2, <1>3, <2>1
  <1>6. Captcha \in WithPass(c, own, pass) => exp <= vouched'.captcha + Lifetime
    BY <1>0, VouchSays, LifetimeBounds DEF WithPass
  <1>7. cookie \in Cookies
    BY <1>2, <1>4 DEF Sealed, Cookies, Sheets
  <1>8. /\ cookie.exp = exp /\ cookie.passes = WithPass(c, own, pass) /\ cookie.marked = mark
        /\ cookie.proof = NewProof(c, p)
    BY DEF Sealed
  <1> QED
    BY <1>2, <1>5, <1>6, <1>7, <1>8 DEF MaybeCookie, CookieKept

\* A redeemed puzzle keeps the invariant.
LEMMA RedeemPuzzleKeeps == ASSUME VisitorInv, NEW t \in Tabs, RedeemPuzzle(t) PROVE VisitorInv'
  <1>1. /\ tab[t].at = "sent" /\ tab[t].what = "solve" /\ tab[t].sheet.kind = "pow"
        /\ hour <= tab[t].sheet.exp /\ redeemed' = redeemed \cup {tab[t].sheet.id}
        /\ UNCHANGED <<site, hour, jar, pend, issued, pages, lost>>
    BY DEF RedeemPuzzle, Takes
  <1>2. PICK c \in MaybeCookie, p \in Sheets :
            c = tab[t].cookie /\ p = tab[t].sheet
    BY <1>1, TabForm DEF TabKept
  <1>3. /\ CookieKept(c, hour, vouched)
        /\ SheetKept(p, hour, vouched, issued)
    BY <1>1, <1>2, TabForm DEF TabKept
  <1>4. Vouch(c, p.tier, "keep")
    BY <1>2 DEF RedeemPuzzle
  <1> DEFINE cookie == Sealed("pow", p.exp, WithPass(c, p.passes, NonInteractive), MarkOf(c, p),
                              p.auto, NewProof(c, p))
  <1>5. tab' = [tab EXCEPT ![t] = Reply(tab[t], cookie, 0, NoCookie)]
    BY <1>2 DEF RedeemPuzzle
  <1>6. /\ p.id \in 1 .. issued /\ p.tier \in {NonInteractive, Interactive}
        /\ p.exp <= hour + Lifetime
        /\ Captcha \in p.passes => p.exp <= vouched.captcha + Lifetime
        /\ p.marked => p.exp <= vouched.mark + Lifetime
    <2>1. p # NoCookie
      BY NoCookieAssumption
    <2> QED
      BY <1>1, <1>2, <1>3, <2>1 DEF SheetKept
  <1>7. /\ p.exp \in Nat /\ p.passes \in SUBSET Passes /\ MarkOf(c, p) \in BOOLEAN
    BY DEF Sheets, MarkOf, Carries, MaybeCookie, Cookies
  <1>8. /\ vouched' \in Vouchings /\ Mono(vouched, vouched')
        /\ vouched'.captcha <= hour /\ vouched'.mark <= hour
        /\ Carries(c) /\ c.marked => vouched'.mark = hour
    BY <1>4, VouchSays
  <1>9. MarkOf(c, p) => p.exp <= vouched'.mark + Lifetime
    BY <1>6, <1>7, <1>8, LifetimeBounds DEF MarkOf, Mono, Vouchings, VisitorInv
  <1>10. Captcha \in p.passes => p.exp <= vouched'.captcha + Lifetime
    BY <1>6, <1>7, <1>8, LifetimeBounds DEF Mono, Vouchings, VisitorInv
  <1>11. cookie \in MaybeCookie /\ CookieKept(cookie, hour, vouched')
    <2>1. NonInteractive \in Passes /\ NonInteractive # Captcha /\ p.tier # Captcha
      BY <1>6 DEF Passes, NonInteractive, Interactive, Captcha
    <2> HIDE DEF cookie
    <2>2. cookie = Sealed("pow", p.exp, WithPass(c, p.passes, NonInteractive), MarkOf(c, p),
                          p.auto, NewProof(c, p))
      BY DEF cookie
    <2> QED
      BY <1>3, <1>4, <1>6, <1>7, <1>9, <1>10, <2>1, <2>2, MintedKept
  <1> HIDE DEF cookie
  <1>12. redeemed' \subseteq 1 .. issued' /\ issued' \in Nat /\ issued <= issued'
    <2>1. tab[t].sheet.id \in 1 .. issued
      BY <1>2, <1>6
    <2>2. issued' = issued /\ redeemed' = redeemed \cup {tab[t].sheet.id} /\ redeemed \subseteq 1 .. issued
          /\ issued \in Nat
      BY <1>1 DEF VisitorInv
    <2>3. redeemed' \subseteq 1 .. issued'
      BY <2>1, <2>2, Zenon
    <2> QED
      BY <2>2, <2>3
  <1>13. NoCookie \in MaybeSheet /\ SheetKept(NoCookie, hour, vouched', issued')
    BY DEF MaybeSheet, SheetKept
  <1> QED
    BY <1>1, <1>5, <1>8, <1>11, <1>12, <1>13, AnswerKeeps

\* A redeemed token keeps the invariant.
LEMMA RedeemTokenKeeps == ASSUME VisitorInv, NEW t \in Tabs, RedeemToken(t) PROVE VisitorInv'
  <1>1. /\ tab[t].at = "sent" /\ tab[t].what = "solve"
        /\ tab[t].sheet.kind \in {"captcha", "provider"}
        /\ UNCHANGED <<site, hour, jar, pend, redeemed, issued, pages, lost>>
    BY DEF RedeemToken, Takes
  <1>2. PICK c \in MaybeCookie, p \in Sheets :
            c = tab[t].cookie /\ p = tab[t].sheet
    BY <1>1, TabForm DEF TabKept
  <1>3. /\ CookieKept(c, hour, vouched)
        /\ SheetKept(p, hour, vouched, issued)
    BY <1>1, <1>2, TabForm DEF TabKept
  <1>4. Vouch(c, p.tier, "keep")
    BY <1>2 DEF RedeemToken
  <1> DEFINE pass == IF p.kind = "captcha" THEN Captcha ELSE NonInteractive
             cookie == Sealed("captcha", hour + CookieTtl, WithPass(c, {}, pass), CarriedMark(c),
                              p.auto, NewProof(c, p))
  <1>5. tab' = [tab EXCEPT ![t] = Reply(tab[t], cookie, 0, NoCookie)]
    BY <1>2 DEF RedeemToken
  <1>6. /\ p.kind = "captcha" => p.tier = Captcha
        /\ p.kind = "provider" => p.tier = NonInteractive
    BY <1>3, NoCookieAssumption DEF SheetKept
  <1>7. /\ hour + CookieTtl \in Nat /\ hour + CookieTtl <= hour + Lifetime
        /\ CarriedMark(c) \in BOOLEAN
    BY VisitorAssumption, LifetimeBounds DEF VisitorInv, CarriedMark, Carries, MaybeCookie, Cookies
  <1>8. /\ vouched' \in Vouchings /\ Mono(vouched, vouched')
        /\ vouched'.captcha <= hour /\ vouched'.mark <= hour
        /\ Carries(c) /\ c.marked => vouched'.mark = hour
    BY <1>4, VouchSays
  <1>9. cookie \in MaybeCookie /\ CookieKept(cookie, hour, vouched')
    <2>1. /\ pass \in Passes
          /\ pass = Captcha => p.tier = Captcha
          /\ p.tier = Captcha => pass = Captcha
      BY <1>1, <1>2, <1>6 DEF Passes, NonInteractive, Captcha
    <2>2. CarriedMark(c) => hour + CookieTtl <= vouched'.mark + Lifetime
      BY <1>7, <1>8 DEF CarriedMark
    <2> HIDE DEF cookie, pass
    <2>3. cookie = Sealed("captcha", hour + CookieTtl, WithPass(c, {}, pass), CarriedMark(c),
                          p.auto, NewProof(c, p))
      BY DEF cookie
    <2> QED
      BY <1>3, <1>4, <1>7, <2>1, <2>2, <2>3, MintedKept
  <1> HIDE DEF cookie
  <1>10. redeemed' \subseteq 1 .. issued' /\ issued' \in Nat /\ issued <= issued'
    BY <1>1 DEF VisitorInv
  <1>11. NoCookie \in MaybeSheet /\ SheetKept(NoCookie, hour, vouched', issued')
    BY DEF MaybeSheet, SheetKept
  <1> QED
    BY <1>1, <1>5, <1>8, <1>9, <1>10, <1>11, AnswerKeeps

-----------------------------------------------------------------------------
(* The browser. *)

\* A tab that changes without an answer changes no more than the jar.
LEMMA TabMoves ==
    ASSUME VisitorInv, NEW t \in Tabs, NEW x \in TabStates, TabKept(x, hour, vouched, issued),
           tab' = [tab EXCEPT ![t] = x], UNCHANGED <<site, hour, redeemed, issued, vouched>>,
           pend' \in Nat, jar' \in MaybeCookie, CookieKept(jar', hour, vouched),
           pages' \in 0 .. MaxPages, lost' \in 0 .. MaxLost
    PROVE  VisitorInv'
  <1>1. /\ vouched' \in Vouchings /\ Mono(vouched, vouched')
        /\ vouched'.captcha <= hour /\ vouched'.mark <= hour
        /\ issued' \in Nat /\ issued <= issued' /\ redeemed' \subseteq 1 .. issued'
    BY DEF VisitorInv, Mono, Vouchings
  <1>2. CookieKept(jar', hour, vouched') /\ TabKept(x, hour, vouched', issued')
    BY Zenon
  <1> QED
    BY <1>1, <1>2, OneTabChanges

\* The browser's steps keep the invariant.
LEMMA BrowserKeeps ==
    ASSUME VisitorInv, NEW t \in Tabs, Open(t) \/ Respond(t) \/ Arrive(t) \/ Lose(t)
    PROVE  VisitorInv'
  <1>1. /\ pend \in Nat /\ jar \in MaybeCookie /\ CookieKept(jar, hour, vouched)
        /\ pages \in 0 .. MaxPages /\ lost \in 0 .. MaxLost
    BY DEF VisitorInv
  <1>2. NoCookie \in MaybeSheet /\ SheetKept(NoCookie, hour, vouched, issued)
    BY DEF MaybeSheet, SheetKept
  <1>3. ASSUME NEW what \in Requested, NEW p \in MaybeSheet, SheetKept(p, hour, vouched, issued),
               what = "solve" => p \in Sheets
        PROVE  /\ Sent(what, jar, pend, p) \in TabStates
               /\ TabKept(Sent(what, jar, pend, p), hour, vouched, issued)
    <2>1. Sent(what, jar, pend, p) \in TabStates
      BY <1>1 DEF Sent, TabStates
    <2>2. /\ Sent(what, jar, pend, p).at = "sent" /\ Sent(what, jar, pend, p).what = what
          /\ Sent(what, jar, pend, p).cookie = jar /\ Sent(what, jar, pend, p).sheet = p
      BY DEF Sent
    <2> QED
      BY <1>1, <1>3, <2>1, <2>2 DEF TabKept
  <1>4. ASSUME NEW p \in Sheets, SheetKept(p, hour, vouched, issued)
        PROVE  Holding(p) \in TabStates /\ TabKept(Holding(p), hour, vouched, issued)
    BY <1>4 DEF Holding, TabStates, TabKept
  <1>5. IdleTab \in TabStates /\ TabKept(IdleTab, hour, vouched, issued)
    BY DEF IdleTab, TabStates, TabKept
  <1>6. CASE Open(t)
    <2>1. /\ tab' = [tab EXCEPT ![t] = Sent("page", jar, pend, NoCookie)]
          /\ pages' \in 0 .. MaxPages
          /\ UNCHANGED <<site, hour, jar, pend, redeemed, issued, lost, vouched>>
      BY <1>1, <1>6, VisitorAssumption DEF Open, Send
    <2>2. "page" \in Requested /\ "page" # "solve"
      BY DEF Requested
    <2> QED
      BY <1>1, <1>2, <1>3, <2>1, <2>2, TabMoves
  <1>7. CASE Respond(t)
    <2>1. tab[t].sheet \in Sheets /\ SheetKept(tab[t].sheet, hour, vouched, issued)
      BY <1>7, TabForm DEF Respond, TabKept
    <2>2. PICK what \in {"bootstrap", "solve"}, p \in {NoCookie, tab[t].sheet} :
              /\ tab' = [tab EXCEPT ![t] = Sent(what, jar, pend, p)]
              /\ what = "solve" => p = tab[t].sheet
      BY <1>7 DEF Respond, Send
    <2>3. what \in Requested /\ p \in MaybeSheet /\ SheetKept(p, hour, vouched, issued)
          /\ (what = "solve" => p \in Sheets)
      BY <1>2, <2>1, <2>2 DEF Requested, MaybeSheet
    <2>4. UNCHANGED <<site, hour, jar, pend, redeemed, issued, pages, lost, vouched>>
      BY <1>7 DEF Respond
    <2> QED
      BY <1>1, <1>3, <2>2, <2>3, <2>4, TabMoves
  <1>8. CASE Arrive(t)
    <2>1. /\ tab[t].at = "answered"
          /\ UNCHANGED <<site, hour, redeemed, issued, pages, lost, vouched>>
          /\ jar' = IF tab[t].set = NoCookie THEN jar ELSE tab[t].set
      BY <1>8 DEF Arrive
    <2>2. /\ tab[t].set \in MaybeCookie /\ tab[t].sheet \in MaybeSheet /\ tab[t].pending \in Nat
          /\ CookieKept(tab[t].set, hour, vouched)
          /\ SheetKept(tab[t].sheet, hour, vouched, issued)
      BY <2>1, TabForm DEF TabKept
    <2>3. jar' \in MaybeCookie /\ CookieKept(jar', hour, vouched)
      BY <1>1, <2>1, <2>2
    <2>4. pend' \in Nat
      BY <1>1, <1>8, <2>2 DEF Arrive
    <2>5. PICK x : /\ tab' = [tab EXCEPT ![t] = x]
                   /\ x = IF tab[t].sheet = NoCookie THEN IdleTab ELSE Holding(tab[t].sheet)
      BY <1>8, Zenon DEF Arrive
    <2>6. x \in TabStates /\ TabKept(x, hour, vouched, issued)
      BY <1>4, <1>5, <2>2, <2>5 DEF MaybeSheet
    <2> QED
      BY <1>1, <2>1, <2>3, <2>4, <2>5, <2>6, TabMoves
  <1>9. CASE Lose(t)
    <2>1. /\ tab[t].at = "answered" /\ tab[t].of # NoCookie
          /\ UNCHANGED <<site, hour, jar, pend, redeemed, issued, pages, vouched>>
          /\ lost' \in 0 .. MaxLost
          /\ tab' = [tab EXCEPT ![t] = Holding(tab[t].of)]
      BY <1>1, <1>9, VisitorAssumption DEF Lose
    <2>2. tab[t].of \in Sheets /\ SheetKept(tab[t].of, hour, vouched, issued)
      BY <2>1, TabForm DEF TabKept, MaybeSheet
    <2>3. Holding(tab[t].of) \in TabStates /\ TabKept(Holding(tab[t].of), hour, vouched, issued)
      BY <1>4, <2>2
    <2> QED
      BY <1>1, <2>1, <2>3, TabMoves
  <1> QED
    BY <1>6, <1>7, <1>8, <1>9

\* An hour that passes keeps it: every end is still within a lifetime.
LEMMA HourPassesKeeps == ASSUME VisitorInv, HourPasses PROVE VisitorInv'
  <1>1. /\ hour \in Nat /\ hour' \in 1 .. LastHour /\ hour <= hour' /\ hour' \in Nat
        /\ UNCHANGED <<site, jar, pend, tab, redeemed, issued, pages, lost, vouched>>
    BY VisitorAssumption DEF VisitorInv, HourPasses
  <1>2. Mono(vouched, vouched)
    BY DEF VisitorInv, Mono, Vouchings
  <1>3. CookieKept(jar, hour', vouched)
    BY <1>1, <1>2, JarStaysKept DEF VisitorInv
  <1>4. ASSUME NEW t \in Tabs PROVE TabKept(tab[t], hour', vouched, issued)
    <2>1. tab[t] \in TabStates /\ TabKept(tab[t], hour, vouched, issued)
      BY DEF VisitorInv
    <2> QED
      BY <1>1, <1>2, <2>1, TabStaysKept DEF VisitorInv
  <1>5. vouched.captcha <= hour' /\ vouched.mark <= hour'
    BY <1>1 DEF VisitorInv, Vouchings
  <1> QED
    BY <1>1, <1>3, <1>4, <1>5 DEF VisitorInv

\* Every reachable state satisfies the invariant.
THEOREM VisitorInvariant == VisitorSpec => []VisitorInv
  <1>1. VisitorInit => VisitorInv
    <2> SUFFICES ASSUME VisitorInit PROVE VisitorInv
      OBVIOUS
    <2>1. 1 \in 1 .. LastHour
      BY VisitorAssumption
    <2>2. \A t \in Tabs : tab[t] = IdleTab
      BY DEF VisitorInit
    <2>3. ASSUME NEW t \in Tabs PROVE TabKept(tab[t], hour, vouched, issued)
      BY <2>2 DEF IdleTab, TabKept
    <2>4. tab \in [Tabs -> TabStates]
      BY DEF VisitorInit, TabStates
    <2> QED
      BY <2>1, <2>3, <2>4, VisitorAssumption
         DEF VisitorInit, VisitorInv, CookieKept, MaybeCookie, Vouchings
  <1>2. VisitorInv /\ [VisitorNext]_visitorVars => VisitorInv'
    <2> SUFFICES ASSUME VisitorInv, [VisitorNext]_visitorVars PROVE VisitorInv'
      OBVIOUS
    <2>1. ASSUME NEW t \in Tabs, ServePage(t) PROVE VisitorInv'
      BY <2>1, ServePageKeeps
    <2>2. ASSUME NEW t \in Tabs, ServeBootstrap(t) PROVE VisitorInv'
      BY <2>2, ServeBootstrapKeeps
    <2>3. ASSUME NEW t \in Tabs, RedeemPuzzle(t) PROVE VisitorInv'
      BY <2>3, RedeemPuzzleKeeps
    <2>4. ASSUME NEW t \in Tabs, RedeemToken(t) PROVE VisitorInv'
      BY <2>4, RedeemTokenKeeps
    <2>5. ASSUME NEW t \in Tabs, Rejected(t) PROVE VisitorInv'
      BY <2>5, RejectedKeeps
    <2>6. ASSUME NEW t \in Tabs, Open(t) \/ Respond(t) \/ Arrive(t) \/ Lose(t) PROVE VisitorInv'
      BY <2>6, BrowserKeeps
    <2>7. ASSUME HourPasses PROVE VisitorInv'
      BY <2>7, HourPassesKeeps
    <2>8. ASSUME UNCHANGED visitorVars PROVE VisitorInv'
      BY <2>8 DEF visitorVars, VisitorInv
    <2> QED
      BY <2>1, <2>2, <2>3, <2>4, <2>5, <2>6, <2>7, <2>8 DEF VisitorNext
  <1> QED
    BY <1>1, <1>2, PTL DEF VisitorSpec

\* A standing ends at most one lifetime after it was earned or last shown
\* unexpired, through any chain of solves, envelopes and renewals.
THEOREM StandingsLapse == VisitorSpec => []StandingLapses
  <1>1. VisitorInv => StandingLapses
    BY DEF VisitorInv, CookieKept, StandingLapses
  <1> QED
    BY <1>1, VisitorInvariant, PTL

\* Nobody is asked again for a tier their cookie proves, but Interactive.
THEOREM SolvedIsNotAsked == VisitorSpec => []SolvedNotAsked
  <1>1. VisitorInv => SolvedNotAsked
    BY DEF VisitorInv, TabKept, SolvedNotAsked, Challenging
  <1> QED
    BY <1>1, VisitorInvariant, PTL
-----------------------------------------------------------------------------
(* The sum over a span of seconds. *)

\* What second t adds to a total.
Adds(times, from, to, t) == IF t \in from .. to THEN times[t] ELSE 0

\* The running sums of a total exist: they are the recursive function of it.
LEMMA TotalSums ==
    ASSUME NEW times \in [Seconds -> Nat], NEW from \in Int, NEW to \in Int
    PROVE  \E g \in [0 .. LastSecond -> Nat] :
               /\ g[0] = 0
               /\ \A t \in Seconds : g[t] = g[t - 1] + Adds(times, from, to, t)
               /\ Total(times, from, to) = g[LastSecond]
  <1> DEFINE N == LastSecond
             Sums(g, n) == /\ g \in [0 .. n -> Nat] /\ g[0] = 0
                           /\ \A t \in 1 .. n : g[t] = g[t - 1] + Adds(times, from, to, t)
             S == {n \in 0 .. N : \E g : Sums(g, n)}
  <1>0. N \in Nat /\ N # 0 /\ Seconds = 1 .. N
    BY SafeguardAssumption DEF Seconds
  <1>1. \A t \in Seconds : Adds(times, from, to, t) \in Nat
    BY DEF Adds
  <1>2. 0 \in S
    <2>1. Sums([t \in 0 .. 0 |-> 0], 0)
      OBVIOUS
    <2>2. 0 \in 0 .. N
      BY <1>0
    <2> HIDE DEF Sums
    <2> QED
      BY <2>1, <2>2
  <1>3. ASSUME NEW n \in 0 .. N, n + 1 \in 0 .. N, n \in S PROVE n + 1 \in S
    <2>1. PICK g : Sums(g, n)
      BY <1>3
    <2> DEFINE h == [t \in 0 .. n + 1 |-> IF t = n + 1 THEN g[n] + Adds(times, from, to, n + 1)
                                          ELSE g[t]]
    <2>2. n \in Nat /\ n + 1 \in Seconds
      BY <1>0, <1>3
    <2>3. h \in [0 .. n + 1 -> Nat] /\ h[0] = 0
      BY <1>1, <2>1, <2>2
    <2>4. ASSUME NEW t \in 1 .. n + 1 PROVE h[t] = h[t - 1] + Adds(times, from, to, t)
      <3>1. CASE t = n + 1
        BY <2>2, <3>1
      <3>2. CASE t # n + 1
        <4>1. t \in 1 .. n /\ t - 1 \in 0 .. n + 1 /\ t - 1 # n + 1 /\ t \in 0 .. n + 1
          BY <2>2, <3>2
        <4>2. h[t] = g[t] /\ h[t - 1] = g[t - 1]
          BY <3>2, <4>1
        <4> QED
          BY <2>1, <4>1, <4>2
      <3> QED
        BY <3>1, <3>2
    <2>5. Sums(h, n + 1)
      BY <2>3, <2>4
    <2> QED
      BY <1>3, <2>5
  <1>4. N \in S
    <2> HIDE DEF S
    <2>1. \A n \in 0 .. N : n + 1 \in 0 .. N /\ n \in S => n + 1 \in S
      BY <1>3
    <2>2. 0 .. N \subseteq S
      BY <1>0, <1>2, <2>1, RangeInduction
    <2> QED
      BY <1>0, <2>2
  <1>5. PICK g : Sums(g, N)
    BY <1>4
  <1> DEFINE Rec(f) == f = [t \in 0 .. LastSecond |->
                 IF t = 0 THEN 0 ELSE f[t - 1] + IF t \in from .. to THEN times[t] ELSE 0]
             c == CHOOSE f : Rec(f)
  <1>6. Rec(g)
    <2>1. ASSUME NEW t \in 0 .. N
          PROVE  g[t] = IF t = 0 THEN 0 ELSE g[t - 1] + IF t \in from .. to THEN times[t] ELSE 0
      BY <1>0, <1>5, <2>1 DEF Adds
    <2>2. g = [t \in 0 .. N |-> g[t]]
      BY <1>5
    <2> QED
      BY <2>1, <2>2
  <1>7. Rec(c)
    <2> HIDE DEF Rec
    <2> QED
      BY <1>6
  <1>8. Total(times, from, to) = c[LastSecond]
    BY DEF Total
  <1>9. c[0] = 0 /\ \A t \in 1 .. N : c[t] = c[t - 1] + Adds(times, from, to, t)
    <2> HIDE DEF c
    <2> QED
      BY <1>0, <1>7 DEF Adds
  <1>10. c = g
    <2> DEFINE E == {t \in 0 .. N : c[t] = g[t]}
    <2> HIDE DEF c
    <2>1. 0 \in E
      BY <1>0, <1>5, <1>9
    <2>2. ASSUME NEW t \in 0 .. N, t + 1 \in 0 .. N, t \in E PROVE t + 1 \in E
      <3>1. t + 1 \in 1 .. N /\ (t + 1) - 1 = t
        BY <1>0, <2>2
      <3>2. c[t + 1] = c[t] + Adds(times, from, to, t + 1)
        BY <1>9, <3>1
      <3>3. g[t + 1] = g[t] + Adds(times, from, to, t + 1)
        BY <1>5, <3>1
      <3> QED
        BY <2>2, <3>2, <3>3
    <2>3. 0 .. N \subseteq E
      <3> HIDE DEF E
      <3> QED
        BY <1>0, <2>1, <2>2, RangeInduction
    <2>4. \A t \in 0 .. N : c[t] = g[t]
      BY <2>3
    <2>5. c = [t \in 0 .. N |-> c[t]]
      BY <1>7
    <2>6. g = [t \in 0 .. N |-> g[t]]
      BY <1>5
    <2> QED
      BY <2>4, <2>5, <2>6
  <1> HIDE DEF c
  <1> QED
    BY <1>0, <1>5, <1>8, <1>10

\* A total is a natural number.
LEMMA TotalNat ==
    ASSUME NEW a \in [Seconds -> Nat], NEW from \in Int, NEW to \in Int
    PROVE  Total(a, from, to) \in Nat
  <1>1. LastSecond \in 0 .. LastSecond
    BY SafeguardAssumption
  <1> QED
    BY <1>1, TotalSums

\* A total grows with what every second adds.
LEMMA TotalMono ==
    ASSUME NEW a \in [Seconds -> Nat], NEW b \in [Seconds -> Nat],
           NEW f1 \in Int, NEW t1 \in Int, NEW f2 \in Int, NEW t2 \in Int,
           \A t \in Seconds : Adds(a, f1, t1, t) <= Adds(b, f2, t2, t)
    PROVE  Total(a, f1, t1) <= Total(b, f2, t2)
  <1>0. LastSecond \in Nat /\ LastSecond \in 0 .. LastSecond /\ Seconds = 1 .. LastSecond
    BY SafeguardAssumption DEF Seconds
  <1>1. PICK g \in [0 .. LastSecond -> Nat] :
            /\ g[0] = 0
            /\ \A t \in Seconds : g[t] = g[t - 1] + Adds(a, f1, t1, t)
            /\ Total(a, f1, t1) = g[LastSecond]
    BY TotalSums
  <1>2. PICK h \in [0 .. LastSecond -> Nat] :
            /\ h[0] = 0
            /\ \A t \in Seconds : h[t] = h[t - 1] + Adds(b, f2, t2, t)
            /\ Total(b, f2, t2) = h[LastSecond]
    BY TotalSums
  <1>3. \A t \in Seconds : Adds(a, f1, t1, t) \in Nat /\ Adds(b, f2, t2, t) \in Nat
    BY DEF Adds
  <1> DEFINE E == {t \in 0 .. LastSecond : g[t] <= h[t]}
  <1>4. 0 \in E
    BY <1>0, <1>1, <1>2
  <1>5. ASSUME NEW t \in 0 .. LastSecond, t + 1 \in 0 .. LastSecond, t \in E PROVE t + 1 \in E
    <2>1. t + 1 \in Seconds /\ (t + 1) - 1 = t
      BY <1>0, <1>5
    <2>2. g[t + 1] = g[t] + Adds(a, f1, t1, t + 1) /\ h[t + 1] = h[t] + Adds(b, f2, t2, t + 1)
      BY <1>1, <1>2, <2>1
    <2>3. g[t] \in Nat /\ h[t] \in Nat /\ g[t] <= h[t]
      BY <1>1, <1>2, <1>5
    <2>4. /\ Adds(a, f1, t1, t + 1) \in Nat /\ Adds(b, f2, t2, t + 1) \in Nat
          /\ Adds(a, f1, t1, t + 1) <= Adds(b, f2, t2, t + 1)
      BY <1>3, <2>1
    <2> QED
      BY <1>5, <2>2, <2>3, <2>4
  <1>6. LastSecond \in E
    <2> HIDE DEF E
    <2>1. \A t \in 0 .. LastSecond : t + 1 \in 0 .. LastSecond /\ t \in E => t + 1 \in E
      BY <1>5
    <2>2. 0 .. LastSecond \subseteq E
      BY <1>0, <1>4, <2>1, RangeInduction
    <2> QED
      BY <1>0, <2>2
  <1> QED
    BY <1>1, <1>2, <1>6

\* One more in one second of the span is one more in the total.
LEMMA TotalOneMore ==
    ASSUME NEW a \in [Seconds -> Nat], NEW b \in [Seconds -> Nat],
           NEW from \in Int, NEW to \in Int, NEW s \in Seconds, s \in from .. to,
           b = [a EXCEPT ![s] = @ + 1]
    PROVE  Total(b, from, to) = Total(a, from, to) + 1
  <1>0. LastSecond \in Nat /\ LastSecond \in 0 .. LastSecond /\ Seconds = 1 .. LastSecond
    BY SafeguardAssumption DEF Seconds
  <1>1. PICK g \in [0 .. LastSecond -> Nat] :
            /\ g[0] = 0
            /\ \A t \in Seconds : g[t] = g[t - 1] + Adds(a, from, to, t)
            /\ Total(a, from, to) = g[LastSecond]
    BY TotalSums
  <1>2. PICK h \in [0 .. LastSecond -> Nat] :
            /\ h[0] = 0
            /\ \A t \in Seconds : h[t] = h[t - 1] + Adds(b, from, to, t)
            /\ Total(b, from, to) = h[LastSecond]
    BY TotalSums
  <1>3. \A t \in Seconds : /\ Adds(a, from, to, t) \in Nat
                          /\ Adds(b, from, to, t) = Adds(a, from, to, t) + IF t = s THEN 1 ELSE 0
    BY DEF Adds
  <1> DEFINE E == {t \in 0 .. LastSecond : h[t] = g[t] + IF t >= s THEN 1 ELSE 0}
  <1>4. 0 \in E
    BY <1>0, <1>1, <1>2
  <1>5. ASSUME NEW t \in 0 .. LastSecond, t + 1 \in 0 .. LastSecond, t \in E PROVE t + 1 \in E
    <2>1. t + 1 \in Seconds /\ (t + 1) - 1 = t
      BY <1>0, <1>5
    <2>2. g[t + 1] = g[t] + Adds(a, from, to, t + 1) /\ h[t + 1] = h[t] + Adds(b, from, to, t + 1)
      BY <1>1, <1>2, <2>1
    <2>3. g[t] \in Nat /\ h[t] \in Nat /\ h[t] = g[t] + IF t >= s THEN 1 ELSE 0
      BY <1>1, <1>2, <1>5
    <2>4. /\ Adds(a, from, to, t + 1) \in Nat
          /\ Adds(b, from, to, t + 1) = Adds(a, from, to, t + 1) + IF t + 1 = s THEN 1 ELSE 0
      BY <1>3, <2>1
    <2>5. h[t + 1] = g[t + 1] + IF t + 1 >= s THEN 1 ELSE 0
      <3>1. s \in Int /\ t \in Int
        BY <1>0
      <3> QED
        BY <2>2, <2>3, <2>4, <3>1
    <2> QED
      BY <1>5, <2>5
  <1>6. LastSecond \in E
    <2> HIDE DEF E
    <2>1. \A t \in 0 .. LastSecond : t + 1 \in 0 .. LastSecond /\ t \in E => t + 1 \in E
      BY <1>5
    <2>2. 0 .. LastSecond \subseteq E
      BY <1>0, <1>4, <2>1, RangeInduction
    <2> QED
      BY <1>0, <2>2
  <1> QED
    BY <1>0, <1>1, <1>2, <1>6

\* A span in which nothing was counted adds up to nothing.
LEMMA TotalZero ==
    ASSUME NEW a \in [Seconds -> Nat], NEW from \in Int, NEW to \in Int,
           \A t \in Seconds : t \in from .. to => a[t] = 0
    PROVE  Total(a, from, to) = 0
  <1>0. LastSecond \in Nat /\ LastSecond \in 0 .. LastSecond /\ Seconds = 1 .. LastSecond
    BY SafeguardAssumption DEF Seconds
  <1>1. PICK g \in [0 .. LastSecond -> Nat] :
            /\ g[0] = 0
            /\ \A t \in Seconds : g[t] = g[t - 1] + Adds(a, from, to, t)
            /\ Total(a, from, to) = g[LastSecond]
    BY TotalSums
  <1>2. \A t \in Seconds : Adds(a, from, to, t) = 0
    BY DEF Adds
  <1> DEFINE E == {t \in 0 .. LastSecond : g[t] = 0}
  <1>3. \A t \in 0 .. LastSecond : t + 1 \in 0 .. LastSecond /\ t \in E => t + 1 \in E
    <2> SUFFICES ASSUME NEW t \in 0 .. LastSecond, t + 1 \in 0 .. LastSecond, t \in E
                 PROVE  t + 1 \in E
      OBVIOUS
    <2>1. t + 1 \in Seconds /\ (t + 1) - 1 = t
      BY <1>0
    <2> QED
      BY <1>1, <1>2, <2>1
  <1>4. 0 .. LastSecond \subseteq E
    <2>1. 0 \in E
      BY <1>0, <1>1
    <2> HIDE DEF E
    <2> QED
      BY <1>0, <1>3, <2>1, RangeInduction
  <1> QED
    BY <1>0, <1>1, <1>4
-----------------------------------------------------------------------------
(* The slots of the safeguard. *)

InProbe(i, k) == \E d \in 1 .. ProbeLimit : Probe(k)[d] = i

\* A key owns one slot at most, in its probe.
OwnedOnce ==
    /\ \A i \in Indexes, k \in Keys : Owned(i, k) => InProbe(i, k)
    /\ \A i, j \in Indexes, k \in Keys : Owned(i, k) /\ Owned(j, k) => i = j

\* What a slot says is backed by the presentations recorded, second by
\* second: its count by those of its window, its grant by a window that
\* reached the threshold no earlier than a grant ago.
SlotEarned(s, times) ==
    /\ s.start \in Seconds
    /\ s.count <= Total(times, s.start, s.start + Window - 1)
    /\ s.until > 0 =>
           \E last \in Seconds :
               /\ times[last] > 0 /\ last + Grant >= s.until
               /\ Total(times, last - Window + 1, last) >= Threshold

ValveInv ==
    /\ SafeguardTypeOK /\ OwnedOnce
    /\ \A w \in Guards : guard[w] # NoVisit => guard[w].now <= second
    /\ \A i \in Indexes : valve[i] # NoKey =>
           valve[i].start <= second /\ SlotEarned(valve[i], recorded[valve[i].key])
    /\ \A k \in Keys : \A t \in Seconds : recorded[k][t] > 0 => t <= second

\* The first of some places of a probe is one of them.
LEMMA FirstPlace ==
    ASSUME NEW D \in SUBSET (1 .. ProbeLimit), D # {}
    PROVE  Min(D) \in D
  <1>1. ProbeLimit \in Nat /\ D \in SUBSET (0 .. ProbeLimit)
    BY SafeguardAssumption
  <1>2. \E d \in D : \A e \in D : d <= e
    BY <1>1, LeastExists
  <1> QED
    BY <1>2 DEF Min

\* A probe stays in the table.
LEMMA ProbeInTable ==
    ASSUME NEW k \in Keys, NEW d \in 1 .. ProbeLimit
    PROVE  Probe(k)[d] \in Indexes
  <1>1. Home[k] \in Nat /\ d \in Nat /\ d >= 1 /\ Capacity \in Nat /\ Capacity > 0
    BY SafeguardAssumption
  <1>2. Home[k] + d - 1 \in Nat
    BY <1>1
  <1>3. (Home[k] + d - 1) % Capacity \in 0 .. Capacity - 1
    BY <1>1, <1>2
  <1> QED
    BY <1>3 DEF Probe, Indexes

\* The first place of a probe is the home bucket.
LEMMA HomeInProbe == ASSUME NEW k \in Keys PROVE Home[k] \in Indexes /\ InProbe(Home[k], k)
  <1>1. Home[k] \in 0 .. Capacity - 1 /\ Capacity \in Nat /\ Capacity > 0 /\ 1 \in 1 .. ProbeLimit
    BY SafeguardAssumption
  <1>2. (Home[k] + 1 - 1) % Capacity = Home[k]
    BY <1>1
  <1> QED
    BY <1>1, <1>2 DEF Probe, Indexes, InProbe

\* A lookup finds the slot of a key, if it has one.
LEMMA LookupFinds ==
    ASSUME OwnedOnce, NEW k \in Keys
    PROVE  /\ SlotOf(k) # NoKey => SlotOf(k) \in Indexes /\ Owned(SlotOf(k), k)
           /\ SlotOf(k) = NoKey => \A i \in Indexes : ~Owned(i, k)
           /\ \A i \in Indexes : Owned(i, k) => SlotOf(k) = i
  <1> DEFINE found == {d \in 1 .. ProbeLimit : Owned(Probe(k)[d], k)}
  <1>1. SlotOf(k) = IF found = {} THEN NoKey ELSE Probe(k)[Min(found)]
    BY DEF SlotOf, FirstSlot
  <1>2. found # {} => Min(found) \in found
    <2>1. found \in SUBSET (1 .. ProbeLimit)
      OBVIOUS
    <2> HIDE DEF found
    <2> QED
      BY <2>1, FirstPlace
  <1>3. found # {} => SlotOf(k) \in Indexes /\ Owned(SlotOf(k), k) /\ SlotOf(k) # NoKey
    BY <1>1, <1>2, ProbeInTable, NoKeyAssumption
  <1>4. \A i \in Indexes : Owned(i, k) => found # {}
    BY DEF OwnedOnce, InProbe
  <1> HIDE DEF found
  <1> QED
    BY <1>1, <1>3, <1>4 DEF OwnedOnce

\* A record goes to a slot of the probe, the key's own if it has one.
LEMMA TargetFits ==
    ASSUME OwnedOnce, NEW k \in Keys, NEW now
    PROVE  /\ Target(k, now) \in Indexes /\ InProbe(Target(k, now), k)
           /\ \A i \in Indexes : Owned(i, k) => i = Target(k, now)
  <1> DEFINE found == {d \in 1 .. ProbeLimit :
                         valve[Probe(k)[d]] = NoKey \/ Dead(valve[Probe(k)[d]], now, Window)}
             free == IF found = {} THEN NoKey ELSE Probe(k)[Min(found)]
  <1>1. Target(k, now) =
            CASE SlotOf(k) # NoKey -> SlotOf(k)
              [] SlotOf(k) = NoKey /\ free # NoKey -> free
              [] OTHER -> Home[k]
    BY DEF Target, FirstSlot
  <1>2. free # NoKey => free \in Indexes /\ InProbe(free, k)
    <2>1. found \in SUBSET (1 .. ProbeLimit)
      OBVIOUS
    <2>2. found # {} => Min(found) \in 1 .. ProbeLimit
      <3> HIDE DEF found
      <3> QED
        BY <2>1, FirstPlace
    <2> HIDE DEF found
    <2> QED
      BY <2>2, ProbeInTable DEF InProbe
  <1> HIDE DEF free
  <1>3. CASE SlotOf(k) # NoKey
    <2>1. Target(k, now) = SlotOf(k)
      BY <1>1, <1>3
    <2> QED
      BY <1>3, <2>1, LookupFinds DEF OwnedOnce
  <1>4. CASE SlotOf(k) = NoKey /\ free # NoKey
    <2>1. Target(k, now) = free
      BY <1>1, <1>4
    <2> QED
      BY <1>2, <1>4, <2>1, LookupFinds
  <1>5. CASE SlotOf(k) = NoKey /\ free = NoKey
    <2>1. Target(k, now) = Home[k]
      BY <1>1, <1>5
    <2> QED
      BY <1>5, <2>1, LookupFinds, HomeInProbe
  <1> QED
    BY <1>3, <1>4, <1>5

\* The slot a record writes: the window runs on or starts anew, the grant
\* starts at the threshold.
PresentedIs(new, slot, k, now) ==
    /\ new \in SlotRecords /\ new # NoKey /\ new.key = k /\ new.count > 0
    /\ \/ /\ slot # NoKey /\ slot.key = k
          /\ slot.start <= now /\ now < slot.start + Window
          /\ new.start = slot.start /\ new.count = slot.count + 1
       \/ /\ new.start = now /\ new.count = 1
          /\ slot # NoKey /\ slot.key = k =>
                 now < slot.start \/ slot.start + Window <= now
    /\ new.count >= Threshold => new.until = now + Grant
    /\ new.count < Threshold =>
           \/ new.until = 0
           \/ slot # NoKey /\ slot.key = k /\ new.until = slot.until

\* What a record writes is a presentation of its key.
LEMMA PresentedSays ==
    ASSUME NEW slot \in SlotRecords \cup {NoKey}, NEW k \in Keys, NEW now \in Seconds, NEW new,
           new = Presented(slot, k, now)
    PROVE  PresentedIs(new, slot, k, now)
  <1> DEFINE base == IF slot = NoKey \/ slot.key # k THEN Taken(slot, k, now)
                     ELSE IF Rolled(slot.start, now, Window)
                     THEN [slot EXCEPT !.start = now, !.count = 1]
                     ELSE [slot EXCEPT !.count = @ + 1]
  <1>0. now \in Nat /\ Threshold \in Nat /\ Grant \in Nat /\ Window \in Nat
    BY SafeguardAssumption DEF Seconds
  <1>1. /\ base \in SlotRecords /\ base.key = k /\ base.count > 0
        /\ \/ /\ slot # NoKey /\ slot.key = k
              /\ slot.start <= now /\ now < slot.start + Window
              /\ base.start = slot.start /\ base.count = slot.count + 1
           \/ /\ base.start = now /\ base.count = 1
              /\ slot # NoKey /\ slot.key = k => now < slot.start \/ slot.start + Window <= now
        /\ \/ base.until = 0
           \/ slot # NoKey /\ slot.key = k /\ base.until = slot.until
    <2>1. CASE slot = NoKey \/ slot.key # k
      BY <1>0, <2>1 DEF Taken, Fresh, SlotRecords
    <2>2. CASE slot # NoKey /\ slot.key = k
      <3>1. slot \in SlotRecords /\ slot.start \in Nat /\ slot.count \in Nat /\ slot.until \in Nat
        BY <2>2 DEF SlotRecords
      <3>2. CASE Rolled(slot.start, now, Window)
        <4>1. base = [slot EXCEPT !.start = now, !.count = 1]
          BY <2>2, <3>2
        <4>2. now < slot.start \/ slot.start + Window <= now
          BY <1>0, <3>1, <3>2 DEF Rolled
        <4> HIDE DEF base
        <4>3. /\ base \in SlotRecords /\ base.key = slot.key /\ base.start = now /\ base.count = 1
              /\ base.until = slot.until
          BY <1>0, <3>1, <4>1 DEF SlotRecords
        <4> QED
          BY <2>2, <4>2, <4>3
      <3>3. CASE ~Rolled(slot.start, now, Window)
        <4>1. base = [slot EXCEPT !.count = slot.count + 1]
          BY <2>2, <3>3
        <4>2. slot.start <= now /\ now < slot.start + Window
          BY <1>0, <3>1, <3>3 DEF Rolled
        <4> HIDE DEF base
        <4>3. /\ base \in SlotRecords /\ base.key = slot.key /\ base.start = slot.start
              /\ base.count = slot.count + 1 /\ base.until = slot.until
          BY <1>0, <3>1, <4>1 DEF SlotRecords
        <4> QED
          BY <2>2, <3>1, <4>2, <4>3
      <3> QED
        BY <3>2, <3>3
    <2> QED
      BY <2>1, <2>2
  <1>2. new = Turned(base, now)
    BY DEF Presented
  <1> HIDE DEF base
  <1>3. base.count \in Nat /\ base.until \in Nat
    BY <1>1 DEF SlotRecords
  <1>4. CASE base.count >= Threshold
    <2>1. new = [base EXCEPT !.until = now + Grant]
      BY <1>2, <1>4 DEF Turned
    <2>2. /\ new \in SlotRecords /\ new.key = base.key /\ new.start = base.start
          /\ new.count = base.count /\ new.until = now + Grant
      BY <1>0, <1>1, <2>1 DEF SlotRecords
    <2> QED
      BY <1>0, <1>1, <1>3, <1>4, <2>2, NoKeyAssumption DEF PresentedIs
  <1>5. CASE ~(base.count >= Threshold)
    <2>1. new = base
      BY <1>2, <1>5 DEF Turned
    <2> QED
      BY <1>0, <1>1, <1>3, <1>5, <2>1, NoKeyAssumption DEF PresentedIs
  <1> QED
    BY <1>4, <1>5

\* One more presentation of a key in a second.
LEMMA OneMoreSays ==
    ASSUME NEW f \in [Keys -> [Seconds -> Nat]], NEW k \in Keys, NEW s \in Seconds,
           NEW g, g = [f EXCEPT ![k][s] = @ + 1]
    PROVE  /\ g \in [Keys -> [Seconds -> Nat]]
           /\ g[k] = [f[k] EXCEPT ![s] = @ + 1]
           /\ \A j \in Keys : j # k => g[j] = f[j]
           /\ g[k][s] = f[k][s] + 1
           /\ \A t \in Seconds : t # s => g[k][t] = f[k][t]
  <1> DEFINE row == [f[k] EXCEPT ![s] = f[k][s] + 1]
  <1>1. g = [f EXCEPT ![k] = row]
    BY Zenon
  <1>2. row \in [Seconds -> Nat] /\ row[s] = f[k][s] + 1 /\ \A t \in Seconds : t # s => row[t] = f[k][t]
    BY SMT
  <1>3. row = [f[k] EXCEPT ![s] = @ + 1]
    BY Zenon
  <1> HIDE DEF row
  <1> QED
    BY <1>1, <1>2, <1>3

\* A total only grows with one more presentation.
LEMMA OneMoreTotal ==
    ASSUME NEW a \in [Seconds -> Nat], NEW b \in [Seconds -> Nat],
           NEW s \in Seconds, b = [a EXCEPT ![s] = @ + 1], NEW from \in Int, NEW to \in Int
    PROVE  Total(a, from, to) <= Total(b, from, to)
  <1>1. \A t \in Seconds : Adds(a, from, to, t) <= Adds(b, from, to, t)
    <2> SUFFICES ASSUME NEW t \in Seconds PROVE Adds(a, from, to, t) <= Adds(b, from, to, t)
      OBVIOUS
    <2>1. a[t] \in Nat /\ b[t] \in Nat /\ a[t] <= b[t]
      OBVIOUS
    <2> QED
      BY <2>1 DEF Adds
  <1> QED
    BY <1>1, TotalMono

\* What backs a slot still does after one more presentation of its key.
LEMMA EarnedStays ==
    ASSUME NEW slot \in SlotRecords, NEW a \in [Seconds -> Nat], NEW b \in [Seconds -> Nat],
           NEW s \in Seconds, b = [a EXCEPT ![s] = @ + 1], SlotEarned(slot, a)
    PROVE  SlotEarned(slot, b)
  <1>1. slot.start \in Int /\ slot.start + Window - 1 \in Int /\ slot.count \in Nat
    BY SafeguardAssumption DEF SlotRecords
  <1>2. slot.count <= Total(b, slot.start, slot.start + Window - 1)
    <2>1. Total(a, slot.start, slot.start + Window - 1) <= Total(b, slot.start, slot.start + Window - 1)
      BY <1>1, OneMoreTotal
    <2>2. /\ Total(a, slot.start, slot.start + Window - 1) \in Nat
          /\ Total(b, slot.start, slot.start + Window - 1) \in Nat
      BY <1>1, TotalNat
    <2> QED
      BY <1>1, <2>1, <2>2 DEF SlotEarned
  <1>3. ASSUME slot.until > 0
        PROVE  \E last \in Seconds :
                   /\ b[last] > 0 /\ last + Grant >= slot.until
                   /\ Total(b, last - Window + 1, last) >= Threshold
    <2>1. PICK last \in Seconds :
              /\ a[last] > 0 /\ last + Grant >= slot.until
              /\ Total(a, last - Window + 1, last) >= Threshold
      BY <1>3 DEF SlotEarned
    <2>2. last \in Int /\ last - Window + 1 \in Int
      BY SafeguardAssumption DEF Seconds
    <2>3. Total(a, last - Window + 1, last) <= Total(b, last - Window + 1, last)
      BY <2>2, OneMoreTotal
    <2>4. Total(a, last - Window + 1, last) \in Nat /\ Total(b, last - Window + 1, last) \in Nat
      BY <2>2, TotalNat
    <2>5. Total(b, last - Window + 1, last) >= Threshold
      BY <2>1, <2>3, <2>4, SafeguardAssumption
    <2>6. b[last] > 0
      BY <2>1
    <2> QED
      BY <2>1, <2>5, <2>6
  <1> QED
    BY <1>2, <1>3 DEF SlotEarned

\* A count that reaches the threshold has a last presentation in its window,
\* and the window that ends there holds all of them.
LEMMA LastOfWindow ==
    ASSUME NEW a \in [Seconds -> Nat], NEW start \in Seconds, NEW now \in Seconds,
           start <= now, now < start + Window, a[now] > 0,
           Total(a, start, start + Window - 1) >= Threshold
    PROVE  \E last \in Seconds :
               /\ a[last] > 0 /\ now <= last
               /\ Total(a, last - Window + 1, last) >= Threshold
  <1>0. /\ Window \in Nat /\ Threshold \in Nat /\ LastSecond \in Nat /\ Seconds = 1 .. LastSecond
        /\ start \in Nat /\ now \in Nat
    BY SafeguardAssumption DEF Seconds
  <1> DEFINE In == {t \in Seconds : a[t] > 0 /\ start <= t /\ t < start + Window}
             Back == {d \in 0 .. LastSecond : LastSecond - d \in In}
  <1>1. Back \in SUBSET (0 .. LastSecond) /\ Back # {}
    <2>1. LastSecond - now \in 0 .. LastSecond /\ LastSecond - (LastSecond - now) = now
      BY <1>0
    <2>2. now \in In
      OBVIOUS
    <2> HIDE DEF In
    <2> QED
      BY <2>1, <2>2
  <1>2. PICK d \in Back : \A e \in Back : d <= e
    <2> HIDE DEF Back
    <2> QED
      BY <1>0, <1>1, LeastExists
  <1> DEFINE last == LastSecond - d
  <1>3. last \in In
    OBVIOUS
  <1>4. \A t \in In : t <= last
    <2> SUFFICES ASSUME NEW t \in In PROVE t <= last
      OBVIOUS
    <2>1. LastSecond - t \in 0 .. LastSecond /\ LastSecond - (LastSecond - t) = t
      BY <1>0
    <2>2. LastSecond - t \in Back
      BY <2>1
    <2>3. d \in 0 .. LastSecond /\ t \in Nat
      BY <1>0
    <2>4. d <= LastSecond - t
      <3> HIDE DEF Back
      <3> QED
        BY <1>2, <2>2
    <2> QED
      BY <1>0, <2>3, <2>4
  <1>5. now <= last /\ last \in Seconds /\ a[last] > 0 /\ start <= last /\ last < start + Window
    BY <1>3, <1>4
  <1> HIDE DEF last
  <1>6. \A t \in Seconds :
            Adds(a, start, start + Window - 1, t) <= Adds(a, last - Window + 1, last, t)
    <2> SUFFICES ASSUME NEW t \in Seconds
                 PROVE  Adds(a, start, start + Window - 1, t) <= Adds(a, last - Window + 1, last, t)
      OBVIOUS
    <2>0. a[t] \in Nat /\ t \in Nat /\ last \in Nat
      BY <1>0, <1>5
    <2>1. CASE t \in start .. start + Window - 1 /\ a[t] > 0
      <3>1. t <= last
        BY <1>0, <1>4, <2>0, <2>1
      <3>2. t \in last - Window + 1 .. last
        BY <1>0, <1>5, <2>0, <2>1, <3>1
      <3> QED
        BY <2>0, <2>1, <3>2 DEF Adds
    <2>2. CASE ~(t \in start .. start + Window - 1 /\ a[t] > 0)
      BY <2>0, <2>2 DEF Adds
    <2> QED
      BY <2>1, <2>2
  <1>7. /\ start \in Int /\ start + Window - 1 \in Int
        /\ last - Window + 1 \in Int /\ last \in Int
    BY <1>0, <1>5
  <1>8. Total(a, start, start + Window - 1) <= Total(a, last - Window + 1, last)
    BY <1>6, <1>7, TotalMono
  <1>9. Total(a, start, start + Window - 1) \in Nat /\ Total(a, last - Window + 1, last) \in Nat
    BY <1>7, TotalNat
  <1> QED
    BY <1>0, <1>5, <1>8, <1>9

-----------------------------------------------------------------------------
(* The valve is earned. *)

\* A record writes the slot of its key and nothing else of the table.
LEMMA RecordSays ==
    ASSUME SafeguardTypeOK, OwnedOnce, NEW w \in Guards, Record(w)
    PROVE  \E k \in Keys, now \in Seconds, i \in Indexes :
               /\ guard[w].at = "record" /\ guard[w].key = k /\ guard[w].now = now
               /\ guard[w] # NoVisit
               /\ i = Target(k, now) /\ InProbe(i, k)
               /\ \A j \in Indexes : Owned(j, k) => j = i
               /\ valve'[i] = Presented(valve[i], k, now)
               /\ \A j \in Indexes : j # i => valve'[j] = valve[j]
               /\ valve' \in [Indexes -> SlotRecords \cup {NoKey}]
               /\ recorded' = [recorded EXCEPT ![k][now] = @ + 1]
               /\ shown' = [shown EXCEPT ![k][now] = @ + 1]
               /\ excused' = excused \cup Losers(i, k, now)
               /\ guard' = [guard EXCEPT ![w] = NoVisit]
               /\ UNCHANGED <<second, visits>>
  <1>1. guard[w].at = "record"
    BY DEF Record
  <1>2. guard[w] # NoVisit /\ guard[w].key \in Keys /\ guard[w].now \in Seconds
    <2>1. guard[w] \in {NoVisit} \cup [at : VisitSteps, key : Keys, now : Seconds]
      BY DEF SafeguardTypeOK
    <2> QED
      BY <1>1, <2>1 DEF NoVisit
  <1>3. PICK k \in Keys, now \in Seconds : k = guard[w].key /\ now = guard[w].now
    BY <1>2
  <1>4. PICK i \in Indexes : i = Target(k, now)
    BY TargetFits
  <1>5. InProbe(i, k) /\ \A j \in Indexes : Owned(j, k) => j = i
    BY <1>4, TargetFits
  <1>6. /\ valve' = [valve EXCEPT ![i] = Presented(@, k, now)]
        /\ recorded' = [recorded EXCEPT ![k][now] = @ + 1]
        /\ shown' = [shown EXCEPT ![k][now] = @ + 1]
        /\ excused' = excused \cup Losers(i, k, now)
        /\ guard' = [guard EXCEPT ![w] = NoVisit]
        /\ UNCHANGED <<second, visits>>
    BY <1>3, <1>4, Zenon DEF Record
  <1>7. PICK new : new = Presented(valve[i], k, now)
    OBVIOUS
  <1>8. new \in SlotRecords
    BY <1>7, PresentedSays DEF SafeguardTypeOK, PresentedIs
  <1>9. valve' = [valve EXCEPT ![i] = new]
    BY <1>6, <1>7, Zenon
  <1>10. /\ valve'[i] = new /\ valve' \in [Indexes -> SlotRecords \cup {NoKey}]
         /\ \A j \in Indexes : j # i => valve'[j] = valve[j]
    BY <1>8, <1>9 DEF SafeguardTypeOK
  <1>11. valve'[i] = Presented(valve[i], k, now)
    BY <1>7, <1>10, Zenon
  <1> QED
    <2> WITNESS k \in Keys, now \in Seconds, i \in Indexes
    <2> QED
      BY <1>1, <1>2, <1>3, <1>4, <1>5, <1>6, <1>10, <1>11, Zenon

\* The slot written is backed by the presentations recorded.
LEMMA PresentedEarned ==
    ASSUME NEW slot \in SlotRecords \cup {NoKey}, NEW k \in Keys, NEW now \in Seconds,
           NEW new, new = Presented(slot, k, now),
           NEW a \in [Seconds -> Nat], NEW b \in [Seconds -> Nat], b = [a EXCEPT ![now] = @ + 1],
           slot # NoKey /\ slot.key = k => SlotEarned(slot, a)
    PROVE  SlotEarned(new, b)
  <1>0. /\ Window \in Nat \ {0} /\ Threshold \in Nat \ {0} /\ Grant \in Nat /\ now \in Nat
    BY SafeguardAssumption DEF Seconds
  <1>1. /\ new \in SlotRecords /\ new.key = k
        /\ \/ /\ slot # NoKey /\ slot.key = k
              /\ slot.start <= now /\ now < slot.start + Window
              /\ new.start = slot.start /\ new.count = slot.count + 1
           \/ new.start = now /\ new.count = 1
        /\ new.count >= Threshold => new.until = now + Grant
        /\ new.count < Threshold =>
               \/ new.until = 0
               \/ slot # NoKey /\ slot.key = k /\ new.until = slot.until
    <2>1. /\ new \in SlotRecords /\ new # NoKey /\ new.key = k /\ new.count > 0
          /\ \/ /\ slot # NoKey /\ slot.key = k
                /\ slot.start <= now /\ now < slot.start + Window
                /\ new.start = slot.start /\ new.count = slot.count + 1
             \/ /\ new.start = now /\ new.count = 1
                /\ slot # NoKey /\ slot.key = k =>
                       now < slot.start \/ slot.start + Window <= now
          /\ new.count >= Threshold => new.until = now + Grant
          /\ new.count < Threshold =>
                 \/ new.until = 0
                 \/ slot # NoKey /\ slot.key = k /\ new.until = slot.until
      <3>1. slot \in SlotRecords \cup {NoKey} /\ k \in Keys /\ now \in Seconds /\ new = Presented(slot, k, now)
        OBVIOUS
      <3>2. PresentedIs(new, slot, k, now)
        BY <3>1, PresentedSays, Zenon
      <3> QED
        BY <3>2 DEF PresentedIs
    <2> QED
      BY <2>1
  <1>2. new.count \in Nat /\ new.until \in Nat /\ new.start \in Nat
    BY <1>1 DEF SlotRecords
  <1>3. b[now] > 0
    OBVIOUS
  <1>4. /\ new.start \in Seconds /\ new.start <= now /\ now < new.start + Window
        /\ new.count <= Total(b, new.start, new.start + Window - 1)
    <2>1. CASE /\ slot # NoKey /\ slot.key = k
               /\ slot.start <= now /\ now < slot.start + Window
               /\ new.start = slot.start /\ new.count = slot.count + 1
      <3>1. /\ slot.start \in Seconds /\ slot.count \in Nat
            /\ slot.count <= Total(a, slot.start, slot.start + Window - 1)
        BY <2>1 DEF SlotEarned, SlotRecords
      <3>2. slot.start \in Int /\ slot.start + Window - 1 \in Int
        BY <1>0, <3>1 DEF Seconds
      <3>3. now \in slot.start .. slot.start + Window - 1
        BY <1>0, <2>1, <3>2
      <3>4. Total(b, slot.start, slot.start + Window - 1) = Total(a, slot.start, slot.start + Window - 1) + 1
        BY ZenonT(30), <3>2, <3>3, TotalOneMore
      <3>5. Total(a, slot.start, slot.start + Window - 1) \in Nat
        BY <3>2, TotalNat
      <3> QED
        BY <2>1, <3>1, <3>4, <3>5
    <2>2. CASE new.start = now /\ new.count = 1
      <3>1. now \in Int /\ now + Window - 1 \in Int /\ now \in now .. now + Window - 1
        BY <1>0
      <3>2. Total(b, now, now + Window - 1) = Total(a, now, now + Window - 1) + 1
        BY ZenonT(30), <3>1, TotalOneMore
      <3>3. Total(a, now, now + Window - 1) \in Nat
        BY <3>1, TotalNat
      <3> QED
        BY <1>0, <2>2, <3>2, <3>3
    <2> QED
      BY <1>1, <2>1, <2>2
  <1>5. ASSUME new.until > 0
        PROVE  \E last \in Seconds :
                   /\ b[last] > 0 /\ last + Grant >= new.until
                   /\ Total(b, last - Window + 1, last) >= Threshold
    <2>1. CASE new.count >= Threshold
      <3>1. new.start + Window - 1 \in Int /\ new.start \in Int
        BY <1>0, <1>2
      <3>2. Total(b, new.start, new.start + Window - 1) \in Nat
        BY <3>1, TotalNat
      <3>3. Total(b, new.start, new.start + Window - 1) >= Threshold
        BY <1>0, <1>2, <1>4, <2>1, <3>2
      <3>4. PICK last \in Seconds :
                /\ b[last] > 0 /\ now <= last
                /\ Total(b, last - Window + 1, last) >= Threshold
        BY <1>3, <1>4, <3>3, LastOfWindow
      <3>5. last + Grant >= new.until
        BY <1>0, <1>1, <2>1, <3>4 DEF Seconds
      <3> QED
        BY <3>4, <3>5
    <2>2. CASE new.count < Threshold
      <3>1. slot # NoKey /\ slot.key = k /\ new.until = slot.until /\ slot \in SlotRecords
        BY <1>1, <1>5, <2>2
      <3>2. SlotEarned(slot, b)
        BY <3>1, EarnedStays
      <3> QED
        BY <1>5, <3>1, <3>2 DEF SlotEarned
    <2>3. new.count >= Threshold \/ new.count < Threshold
      BY <1>0, <1>2
    <2> QED
      BY <2>1, <2>2, <2>3, Zenon
  <1> QED
    BY <1>4, <1>5 DEF SlotEarned

\* A record keeps the slots earned.
LEMMA RecordKeepsValve == ASSUME ValveInv, NEW w \in Guards, Record(w) PROVE ValveInv'
  <1>0. SafeguardTypeOK /\ OwnedOnce
    BY DEF ValveInv
  <1>1. PICK k \in Keys, now \in Seconds, i \in Indexes :
            /\ guard[w].at = "record" /\ guard[w].key = k /\ guard[w].now = now
            /\ guard[w] # NoVisit
            /\ i = Target(k, now) /\ InProbe(i, k)
            /\ \A j \in Indexes : Owned(j, k) => j = i
            /\ valve'[i] = Presented(valve[i], k, now)
            /\ \A j \in Indexes : j # i => valve'[j] = valve[j]
            /\ valve' \in [Indexes -> SlotRecords \cup {NoKey}]
            /\ recorded' = [recorded EXCEPT ![k][now] = @ + 1]
            /\ shown' = [shown EXCEPT ![k][now] = @ + 1]
            /\ excused' = excused \cup Losers(i, k, now)
            /\ guard' = [guard EXCEPT ![w] = NoVisit]
            /\ UNCHANGED <<second, visits>>
    BY <1>0, RecordSays
  <1>2. /\ recorded \in [Keys -> [Seconds -> Nat]] /\ shown \in [Keys -> [Seconds -> Nat]]
        /\ second \in Seconds /\ now <= second
    BY <1>1 DEF ValveInv, SafeguardTypeOK
  <1>3. /\ recorded' \in [Keys -> [Seconds -> Nat]]
        /\ recorded'[k] = [recorded[k] EXCEPT ![now] = @ + 1]
        /\ \A j \in Keys : j # k => recorded'[j] = recorded[j]
        /\ recorded'[k][now] = recorded[k][now] + 1
        /\ \A t \in Seconds : t # now => recorded'[k][t] = recorded[k][t]
        /\ shown' \in [Keys -> [Seconds -> Nat]]
    BY <1>1, <1>2, OneMoreSays
  <1>4. PICK slot \in SlotRecords \cup {NoKey}, new \in {valve'[i]} :
            slot = valve[i] /\ new = Presented(slot, k, now) /\ valve'[i] = new
    BY <1>0, <1>1 DEF SafeguardTypeOK
  <1>5. new \in SlotRecords /\ new # NoKey /\ new.key = k
        /\ \/ new.start = now
           \/ slot # NoKey /\ slot.key = k /\ new.start = slot.start
    <2>1. PICK x : x = new /\ x = Presented(slot, k, now)
      BY <1>4
    <2>2. /\ x \in SlotRecords /\ x # NoKey /\ x.key = k
          /\ \/ /\ slot # NoKey /\ slot.key = k
                /\ slot.start <= now /\ now < slot.start + Window
                /\ x.start = slot.start /\ x.count = slot.count + 1
             \/ x.start = now /\ x.count = 1
      BY <2>1, PresentedSays DEF PresentedIs
    <2> QED
      BY <2>1, <2>2
  <1>6. SafeguardTypeOK'
    <2>1. guard' \in [Guards -> {NoVisit} \cup [at : VisitSteps, key : Keys, now : Seconds]]
      BY <1>0, <1>1 DEF SafeguardTypeOK
    <2>2. Losers(i, k, now) \subseteq Keys
      BY <1>0 DEF Losers, SafeguardTypeOK, SlotRecords
    <2> QED
      BY <1>0, <1>1, <1>3, <2>1, <2>2 DEF SafeguardTypeOK
  <1>7. OwnedOnce'
    <2>1. \A j \in Indexes, l \in Keys :
              (valve'[j] # NoKey /\ valve'[j].key = l) =>
                  \/ j = i /\ l = k
                  \/ j # i /\ l # k /\ Owned(j, l)
      BY <1>1, <1>4, <1>5 DEF Owned
    <2> QED
      BY <1>0, <1>1, <2>1 DEF OwnedOnce, Owned, InProbe, Probe
  <1>8. \A g \in Guards : guard'[g] # NoVisit => guard'[g].now <= second'
    BY <1>0, <1>1 DEF ValveInv, SafeguardTypeOK
  <1>9. ASSUME NEW j \in Indexes, valve'[j] # NoKey
        PROVE  valve'[j].start <= second' /\ SlotEarned(valve'[j], recorded'[valve'[j].key])
    <2>1. CASE j = i
      <3>1. slot # NoKey => slot.start <= second /\ SlotEarned(slot, recorded[slot.key])
        BY <1>4 DEF ValveInv
      <3>2. recorded[k] \in [Seconds -> Nat] /\ recorded'[k] \in [Seconds -> Nat]
        BY <1>2, <1>3
      <3>3. SlotEarned(new, recorded'[k])
        <4>1. PICK a \in [Seconds -> Nat], b \in [Seconds -> Nat] : a = recorded[k] /\ b = recorded'[k]
          BY <3>2
        <4>2. b = [a EXCEPT ![now] = @ + 1]
          BY <1>3, <4>1, Zenon
        <4>3. SlotEarned(new, b)
          BY <1>4, <3>1, <4>1, <4>2, PresentedEarned
        <4> QED
          BY <4>1, <4>3, Zenon
      <3>4. new.start <= second
        BY <1>2, <1>5, <3>1
      <3> QED
        BY <1>1, <1>4, <1>5, <2>1, <3>3, <3>4
    <2>2. CASE j # i
      <3>1. valve'[j] = valve[j] /\ valve[j] # NoKey /\ valve[j].key # k /\ valve[j].key \in Keys
        BY <1>0, <1>1, <1>9, <2>2 DEF Owned, SafeguardTypeOK, SlotRecords
      <3>2. recorded'[valve[j].key] = recorded[valve[j].key]
        BY <1>3, <3>1
      <3> QED
        BY <1>1, <3>1, <3>2 DEF ValveInv
    <2> QED
      BY <2>1, <2>2
  <1>10. ASSUME NEW l \in Keys, NEW t \in Seconds, recorded'[l][t] > 0 PROVE t <= second'
    <2>1. CASE l = k /\ t = now
      BY <1>1, <1>2, <2>1
    <2>2. CASE ~(l = k /\ t = now)
      <3>1. recorded'[l][t] = recorded[l][t]
        BY <1>3, <2>2
      <3> QED
        BY <1>1, <1>10, <3>1 DEF ValveInv
    <2> QED
      BY <2>1, <2>2
  <1> QED
    BY <1>6, <1>7, <1>8, <1>9, <1>10 DEF ValveInv

\* A step that frees some slots, forgets the presentations of their keys or
\* of none, and ends a visit, keeps the slots earned.
LEMMA FreeingKeepsValve ==
    ASSUME ValveInv, SafeguardTypeOK', second' = second,
           \A j \in Indexes : valve'[j] = NoKey \/ valve'[j] = valve[j],
           \A w \in Guards : guard'[w] = NoVisit \/ guard'[w] = guard[w] \/ guard'[w].now = second,
           \A j \in Indexes : valve'[j] # NoKey => recorded'[valve[j].key] = recorded[valve[j].key],
           \A k \in Keys : recorded'[k] = recorded[k] \/ recorded'[k] = NoTimes
    PROVE  ValveInv'
  <1>1. OwnedOnce'
    <2>1. \A j \in Indexes, l \in Keys : (valve'[j] # NoKey /\ valve'[j].key = l) => Owned(j, l)
      BY DEF Owned
    <2> QED
      BY <2>1 DEF ValveInv, OwnedOnce, Owned, InProbe, Probe
  <1>2. \A w \in Guards : guard'[w] # NoVisit => guard'[w].now <= second'
    <2>1. second \in Nat
      BY DEF ValveInv, SafeguardTypeOK, Seconds
    <2> QED
      BY <2>1 DEF ValveInv
  <1>3. \A j \in Indexes : valve'[j] # NoKey =>
            valve'[j].start <= second' /\ SlotEarned(valve'[j], recorded'[valve'[j].key])
    <2> SUFFICES ASSUME NEW j \in Indexes, valve'[j] # NoKey
                 PROVE  valve'[j].start <= second' /\ SlotEarned(valve'[j], recorded'[valve'[j].key])
      OBVIOUS
    <2>1. valve'[j] = valve[j] /\ recorded'[valve[j].key] = recorded[valve[j].key]
      OBVIOUS
    <2>2. valve[j].start <= second /\ SlotEarned(valve[j], recorded[valve[j].key])
      BY <2>1 DEF ValveInv
    <2> QED
      BY <2>1, <2>2, Zenon
  <1>4. ASSUME NEW k \in Keys, NEW t \in Seconds, recorded'[k][t] > 0 PROVE t <= second'
    <2>1. NoTimes[t] = 0
      BY DEF NoTimes
    <2>2. recorded'[k] = recorded[k]
      BY <1>4, <2>1
    <2> QED
      BY <1>4, <2>2 DEF ValveInv
  <1> QED
    BY <1>1, <1>2, <1>3, <1>4 DEF ValveInv

\* The visit of a worker, by its step.
LEMMA VisitForm ==
    ASSUME SafeguardTypeOK, NEW w \in Guards, guard[w].at \in {"record", "clear"}
    PROVE  guard[w] # NoVisit /\ guard[w].key \in Keys /\ guard[w].now \in Seconds
  <1>1. guard[w] \in {NoVisit} \cup [at : VisitSteps, key : Keys, now : Seconds]
    BY DEF SafeguardTypeOK
  <1> QED
    BY <1>1 DEF NoVisit

\* What is recorded and shown of a key may be forgotten.
LEMMA Forgetting ==
    ASSUME NEW f \in [Keys -> [Seconds -> Nat]], NEW k \in Keys, NEW g, g = [f EXCEPT ![k] = NoTimes]
    PROVE  /\ g \in [Keys -> [Seconds -> Nat]] /\ g[k] = NoTimes
           /\ \A j \in Keys : j # k => g[j] = f[j]
  <1>1. NoTimes \in [Seconds -> Nat]
    BY DEF NoTimes
  <1> QED
    BY <1>1

\* A visit that ends leaves the types of the visits.
LEMMA VisitEnds ==
    ASSUME SafeguardTypeOK, NEW w \in Guards, guard' = [guard EXCEPT ![w] = NoVisit]
    PROVE  /\ guard' \in [Guards -> {NoVisit} \cup [at : VisitSteps, key : Keys, now : Seconds]]
           /\ \A g \in Guards : guard'[g] = NoVisit \/ guard'[g] = guard[g]
           /\ guard'[w] = NoVisit /\ \A g \in Guards : g # w => guard'[g] = guard[g]
  BY DEF SafeguardTypeOK

\* A clear frees the slot of its key.
LEMMA ClearSays ==
    ASSUME SafeguardTypeOK, OwnedOnce, NEW w \in Guards, Clear(w)
    PROVE  \E k \in Keys :
               /\ guard[w].at = "clear" /\ guard[w].key = k
               /\ \A j \in Indexes : valve'[j] = IF Owned(j, k) THEN NoKey ELSE valve[j]
               /\ valve' \in [Indexes -> SlotRecords \cup {NoKey}]
               /\ recorded' = [recorded EXCEPT ![k] = NoTimes]
               /\ shown' = [shown EXCEPT ![k] = NoTimes]
               /\ excused' = excused \ {k}
               /\ guard' = [guard EXCEPT ![w] = NoVisit]
               /\ UNCHANGED <<second, visits>>
  <1>1. guard[w].at = "clear" /\ guard[w].key \in Keys
    BY VisitForm DEF Clear
  <1>2. PICK k \in Keys : k = guard[w].key
    BY <1>1
  <1>3. \A j \in Indexes : j = SlotOf(k) <=> Owned(j, k)
    BY LookupFinds, NoKeyAssumption
  <1>4. valve' = [i \in Indexes |-> IF i = SlotOf(k) THEN NoKey ELSE valve[i]]
    BY <1>2 DEF Clear
  <1>5. /\ \A j \in Indexes : valve'[j] = IF Owned(j, k) THEN NoKey ELSE valve[j]
        /\ valve' \in [Indexes -> SlotRecords \cup {NoKey}]
    BY <1>3, <1>4 DEF SafeguardTypeOK
  <1>6. /\ recorded' = [recorded EXCEPT ![k] = NoTimes]
        /\ shown' = [shown EXCEPT ![k] = NoTimes]
        /\ excused' = excused \ {k}
        /\ guard' = [guard EXCEPT ![w] = NoVisit]
        /\ UNCHANGED <<second, visits>>
    BY <1>2, Zenon DEF Clear
  <1> QED
    BY <1>1, <1>2, <1>5, <1>6, Zenon

\* A record or a clear that is dropped.
LEMMA DroppedSays ==
    ASSUME SafeguardTypeOK, NEW w \in Guards, RecordDropped(w) \/ ClearDropped(w)
    PROVE  \E k \in Keys, now \in Seconds :
               /\ guard[w].key = k /\ guard[w].now = now
               /\ \/ /\ shown' = [shown EXCEPT ![k][now] = @ + 1]
                     /\ excused' = excused \cup {k}
                  \/ /\ shown' = [shown EXCEPT ![k] = NoTimes]
                     /\ excused' = excused
               /\ guard' = [guard EXCEPT ![w] = NoVisit]
               /\ UNCHANGED <<second, visits, valve, recorded>>
  <1>1. guard[w].key \in Keys /\ guard[w].now \in Seconds
    BY VisitForm DEF RecordDropped, ClearDropped
  <1>2. PICK k \in Keys, now \in Seconds : k = guard[w].key /\ now = guard[w].now
    BY <1>1
  <1>3. /\ \/ /\ shown' = [shown EXCEPT ![k][now] = @ + 1]
              /\ excused' = excused \cup {k}
           \/ /\ shown' = [shown EXCEPT ![k] = NoTimes]
              /\ excused' = excused
        /\ guard' = [guard EXCEPT ![w] = NoVisit]
        /\ UNCHANGED <<second, visits, valve, recorded>>
    BY <1>2, Zenon DEF RecordDropped, ClearDropped
  <1> QED
    BY <1>2, <1>3, Zenon

\* A request takes the clock, and goes on to record or to clear.
LEMMA VisitStarts ==
    ASSUME SafeguardTypeOK, NEW w \in Guards, ChallengeSent(w) \/ Solved(w)
    PROVE  \E k \in Keys, at \in VisitSteps :
               /\ guard[w] = NoVisit /\ (at = "record" => ~Granted(k, second))
               /\ guard' = [guard EXCEPT ![w] = Visit(at, k, second)]
               /\ visits' \in 0 .. MaxVisits /\ UNCHANGED <<second, valve, safeguardHistory>>
  <1>1. guard[w] = NoVisit /\ UNCHANGED <<second, valve, safeguardHistory>>
    BY DEF ChallengeSent, Solved
  <1>2. visits' \in 0 .. MaxVisits
    BY SafeguardAssumption DEF ChallengeSent, Solved, SafeguardTypeOK
  <1>3. CASE ChallengeSent(w)
    <2>1. PICK k \in Keys :
              guard' = [guard EXCEPT ![w] =
                           Visit(IF Granted(k, second) THEN "clear" ELSE "record", k, second)]
      BY <1>3, Zenon DEF ChallengeSent
    <2>2. PICK at \in VisitSteps : at = IF Granted(k, second) THEN "clear" ELSE "record"
      BY DEF VisitSteps
    <2>3. at = "record" => ~Granted(k, second)
      BY <2>2
    <2>4. guard' = [guard EXCEPT ![w] = Visit(at, k, second)]
      BY <2>1, <2>2, Zenon
    <2> QED
      BY <1>1, <1>2, <2>3, <2>4, Zenon
  <1>4. CASE Solved(w)
    <2>1. PICK k \in Keys : guard' = [guard EXCEPT ![w] = Visit("clear", k, second)]
      BY <1>4, Zenon DEF Solved
    <2>2. PICK at \in VisitSteps : at = "clear"
      BY DEF VisitSteps
    <2>3. guard' = [guard EXCEPT ![w] = Visit(at, k, second)] /\ at # "record"
      BY <2>1, <2>2
    <2> QED
      BY <1>1, <1>2, <2>3, Zenon
  <1> QED
    BY <1>3, <1>4

\* What a visit that starts leaves of the visits.
LEMMA VisitStartsForm ==
    ASSUME SafeguardTypeOK, NEW w \in Guards, NEW k \in Keys, NEW at \in VisitSteps,
           guard' = [guard EXCEPT ![w] = Visit(at, k, second)]
    PROVE  /\ guard' \in [Guards -> {NoVisit} \cup [at : VisitSteps, key : Keys, now : Seconds]]
           /\ guard'[w].at = at /\ guard'[w].key = k /\ guard'[w].now = second
           /\ \A g \in Guards : g # w => guard'[g] = guard[g]
  <1>1. PICK v \in [at : VisitSteps, key : Keys, now : Seconds] :
            v = Visit(at, k, second) /\ v.at = at /\ v.key = k /\ v.now = second
    BY DEF Visit, SafeguardTypeOK
  <1>2. guard' = [guard EXCEPT ![w] = v]
    BY <1>1, Zenon
  <1> QED
    BY <1>1, <1>2 DEF SafeguardTypeOK

\* What a sweep frees was dead by the default window.
LEMMA SweepSays ==
    ASSUME SafeguardTypeOK, Sweep
    PROVE  /\ \A j \in Indexes :
                  \/ valve'[j] = valve[j]
                  \/ /\ valve'[j] = NoKey /\ valve[j] # NoKey
                     /\ Dead(valve[j], second, FallbackSpan)
                     /\ \A w \in Guards : guard[w].at = "record" /\ guard[w].key = valve[j].key =>
                            valve[j].key \in excused'
           /\ valve' \in [Indexes -> SlotRecords \cup {NoKey}]
           /\ excused \subseteq excused' /\ excused' \subseteq Keys
           /\ UNCHANGED <<second, guard, visits, recorded, shown>>
  <1> DEFINE swept(i) == valve[i] # NoKey /\ Dead(valve[i], second, FallbackSpan)
             recording(k) == \E w \in Guards : guard[w].at = "record" /\ guard[w].key = k
  <1>1. /\ valve' = [i \in Indexes |-> IF swept(i) THEN NoKey ELSE valve[i]]
        /\ excused' = excused \cup
               {k \in Keys : recording(k) /\ \E i \in Indexes : swept(i) /\ valve[i].key = k}
        /\ UNCHANGED <<second, guard, visits, recorded, shown>>
    BY Zenon DEF Sweep
  <1>2. excused \subseteq excused' /\ excused' \subseteq Keys
    BY <1>1 DEF SafeguardTypeOK
  <1>3. ASSUME NEW j \in Indexes, swept(j), NEW w \in Guards, guard[w].at = "record",
               guard[w].key = valve[j].key
        PROVE  valve[j].key \in excused'
    <2>1. valve[j].key \in Keys
      BY <1>3, VisitForm
    <2> HIDE DEF swept
    <2> QED
      BY <1>1, <1>3, <2>1
  <1>4. valve' \in [Indexes -> SlotRecords \cup {NoKey}]
    BY <1>1 DEF SafeguardTypeOK
  <1>5. ASSUME NEW j \in Indexes
        PROVE  \/ valve'[j] = valve[j]
               \/ swept(j) /\ valve'[j] = NoKey
    BY <1>1
  <1> QED
    BY <1>1, <1>2, <1>3, <1>4, <1>5

\* The other steps keep the slots earned.
LEMMA OthersKeepValve ==
    ASSUME ValveInv,
           \/ \E w \in Guards : RecordDropped(w) \/ ClearDropped(w) \/ Clear(w)
                                 \/ ChallengeSent(w) \/ Solved(w)
           \/ Sweep
           \/ SecondPasses
           \/ UNCHANGED safeguardVars
    PROVE  ValveInv'
  <1>0. SafeguardTypeOK /\ OwnedOnce
    BY DEF ValveInv
  <1>1. ASSUME NEW w \in Guards, RecordDropped(w) \/ ClearDropped(w) PROVE ValveInv'
    <2>1. PICK k \in Keys, now \in Seconds :
              /\ \/ /\ shown' = [shown EXCEPT ![k][now] = @ + 1]
                    /\ excused' = excused \cup {k}
                 \/ /\ shown' = [shown EXCEPT ![k] = NoTimes]
                    /\ excused' = excused
              /\ guard' = [guard EXCEPT ![w] = NoVisit]
              /\ UNCHANGED <<second, visits, valve, recorded>>
      BY <1>0, <1>1, DroppedSays
    <2>2. shown \in [Keys -> [Seconds -> Nat]]
      BY <1>0 DEF SafeguardTypeOK
    <2>3. shown' \in [Keys -> [Seconds -> Nat]]
      <3>1. CASE shown' = [shown EXCEPT ![k][now] = @ + 1]
        BY <2>2, <3>1, OneMoreSays
      <3>2. CASE shown' = [shown EXCEPT ![k] = NoTimes]
        BY <2>2, <3>2, Forgetting
      <3> QED
        BY <2>1, <3>1, <3>2
    <2>4. excused' \subseteq Keys
      BY <1>0, <2>1 DEF SafeguardTypeOK
    <2>5. /\ guard' \in [Guards -> {NoVisit} \cup [at : VisitSteps, key : Keys, now : Seconds]]
          /\ \A g \in Guards : guard'[g] = NoVisit \/ guard'[g] = guard[g]
      BY <1>0, <2>1, VisitEnds
    <2>6. SafeguardTypeOK'
      BY <1>0, <2>1, <2>3, <2>4, <2>5 DEF SafeguardTypeOK
    <2> QED
      BY <2>1, <2>5, <2>6, FreeingKeepsValve
  <1>2. ASSUME NEW w \in Guards, Clear(w) PROVE ValveInv'
    <2>1. PICK k \in Keys :
              /\ \A j \in Indexes : valve'[j] = IF Owned(j, k) THEN NoKey ELSE valve[j]
              /\ valve' \in [Indexes -> SlotRecords \cup {NoKey}]
              /\ recorded' = [recorded EXCEPT ![k] = NoTimes]
              /\ shown' = [shown EXCEPT ![k] = NoTimes]
              /\ excused' = excused \ {k}
              /\ guard' = [guard EXCEPT ![w] = NoVisit]
              /\ UNCHANGED <<second, visits>>
      BY <1>0, <1>2, ClearSays
    <2>2. shown \in [Keys -> [Seconds -> Nat]] /\ recorded \in [Keys -> [Seconds -> Nat]]
      BY <1>0 DEF SafeguardTypeOK
    <2>3. /\ shown' \in [Keys -> [Seconds -> Nat]] /\ recorded' \in [Keys -> [Seconds -> Nat]]
          /\ recorded'[k] = NoTimes /\ \A j \in Keys : j # k => recorded'[j] = recorded[j]
      BY <2>1, <2>2, Forgetting
    <2>4. /\ guard' \in [Guards -> {NoVisit} \cup [at : VisitSteps, key : Keys, now : Seconds]]
          /\ \A g \in Guards : guard'[g] = NoVisit \/ guard'[g] = guard[g]
      BY <1>0, <2>1, VisitEnds
    <2>5. SafeguardTypeOK'
      BY <1>0, <2>1, <2>3, <2>4 DEF SafeguardTypeOK
    <2>6. \A j \in Indexes : valve'[j] # NoKey => valve[j].key \in Keys /\ valve[j].key # k
      BY <1>0, <2>1 DEF SafeguardTypeOK, SlotRecords, Owned
    <2> QED
      BY <2>1, <2>3, <2>4, <2>5, <2>6, FreeingKeepsValve
  <1>3. ASSUME NEW w \in Guards, ChallengeSent(w) \/ Solved(w) PROVE ValveInv'
    <2>1. PICK k \in Keys, at \in VisitSteps :
              /\ guard' = [guard EXCEPT ![w] = Visit(at, k, second)]
              /\ visits' \in 0 .. MaxVisits /\ UNCHANGED <<second, valve, safeguardHistory>>
      BY <1>0, <1>3, VisitStarts
    <2>2. /\ guard' \in [Guards -> {NoVisit} \cup [at : VisitSteps, key : Keys, now : Seconds]]
          /\ guard'[w].now = second /\ \A g \in Guards : g # w => guard'[g] = guard[g]
      BY <1>0, <2>1, VisitStartsForm
    <2>3. SafeguardTypeOK'
      BY <1>0, <2>1, <2>2 DEF SafeguardTypeOK, safeguardHistory
    <2> QED
      BY <2>1, <2>2, <2>3, FreeingKeepsValve DEF safeguardHistory
  <1>4. ASSUME Sweep PROVE ValveInv'
    <2>1. /\ \A j \in Indexes : valve'[j] = NoKey \/ valve'[j] = valve[j]
          /\ valve' \in [Indexes -> SlotRecords \cup {NoKey}]
          /\ excused' \subseteq Keys
          /\ UNCHANGED <<second, guard, visits, recorded, shown>>
      BY <1>0, <1>4, SweepSays, Zenon DEF Sweep
    <2>2. SafeguardTypeOK'
      BY <1>0, <2>1 DEF SafeguardTypeOK
    <2> QED
      BY <2>1, <2>2, FreeingKeepsValve
  <1>5. ASSUME SecondPasses PROVE ValveInv'
    <2>1. second' = second + 1 /\ second' \in Seconds /\ second \in Nat
          /\ UNCHANGED <<valve, guard, visits, recorded, shown, excused>>
      BY <1>0, <1>5, SafeguardAssumption DEF SecondPasses, SafeguardTypeOK, Seconds, safeguardHistory
    <2>2. SafeguardTypeOK' /\ OwnedOnce'
      BY <1>0, <2>1 DEF SafeguardTypeOK, OwnedOnce, Owned, InProbe, Probe
    <2>3. \A w \in Guards : guard[w] # NoVisit => guard[w].now \in Nat
      BY <1>0 DEF SafeguardTypeOK, Seconds
    <2>4. \A i \in Indexes : valve[i] # NoKey => valve[i].start \in Nat
      BY <1>0 DEF SafeguardTypeOK, SlotRecords
    <2>5. \A w \in Guards : guard'[w] # NoVisit => guard'[w].now <= second'
      BY <2>1, <2>3 DEF ValveInv
    <2>6. \A i \in Indexes : valve'[i] # NoKey =>
              valve'[i].start <= second' /\ SlotEarned(valve'[i], recorded'[valve'[i].key])
      <3>1. \A i \in Indexes : valve[i] # NoKey =>
                valve[i].start <= second' /\ SlotEarned(valve[i], recorded[valve[i].key])
        BY <2>1, <2>4 DEF ValveInv
      <3> QED
        BY <2>1, <3>1, Zenon
    <2>7. \A k \in Keys : \A t \in Seconds : recorded'[k][t] > 0 => t <= second'
      BY <2>1 DEF ValveInv, Seconds
    <2> QED
      BY <2>2, <2>5, <2>6, <2>7 DEF ValveInv
  <1>6. ASSUME UNCHANGED safeguardVars PROVE ValveInv'
    <2>1. UNCHANGED <<second, valve, guard, visits, recorded, shown, excused>>
      BY <1>6 DEF safeguardVars, safeguardHistory
    <2>2. SafeguardTypeOK'
      BY <1>0, <2>1 DEF SafeguardTypeOK
    <2> QED
      BY <2>1, <2>2, FreeingKeepsValve
  <1> QED
    BY <1>1, <1>2, <1>3, <1>4, <1>5, <1>6

\* The slots are earned at the start.
LEMMA ValveInit == SafeguardInit => ValveInv
  <1> SUFFICES ASSUME SafeguardInit PROVE ValveInv
    OBVIOUS
  <1>1. SafeguardTypeOK
    <2>1. NoTimes \in [Seconds -> Nat] /\ second \in Seconds
      BY SafeguardAssumption DEF NoTimes, SafeguardInit, Seconds
    <2> QED
      BY <2>1, SafeguardAssumption DEF SafeguardInit, SafeguardTypeOK
  <1>2. /\ \A i \in Indexes : valve[i] = NoKey
        /\ \A w \in Guards : guard[w] = NoVisit
        /\ \A k \in Keys : \A t \in Seconds : recorded[k][t] = 0
    BY DEF SafeguardInit, NoTimes
  <1>3. OwnedOnce
    BY <1>2 DEF OwnedOnce, Owned
  <1> QED
    BY <1>1, <1>2, <1>3 DEF ValveInv

\* Every step keeps the slots earned.
LEMMA ValveStep == ASSUME ValveInv, [SafeguardNext]_safeguardVars PROVE ValveInv'
  BY RecordKeepsValve, OthersKeepValve DEF SafeguardNext

\* The types of the safeguard, and what backs its slots.
THEOREM SafeguardInvariant == SafeguardSpec => []ValveInv
  <1>1. ValveInv /\ [SafeguardNext]_safeguardVars => ValveInv'
    BY ValveStep
  <1> QED
    BY <1>1, ValveInit, PTL DEF SafeguardSpec

\* A redirect and the embedded fallback are earned by the presentations of
\* the key itself, whatever slots were taken over, rolled, freed or cleared.
LEMMA EarnedFollows == ASSUME ValveInv PROVE ValveEarned
  <1>0. SafeguardTypeOK /\ OwnedOnce /\ second \in Nat
    BY DEF ValveInv, SafeguardTypeOK, Seconds
  <1> SUFFICES ASSUME NEW k \in Keys
               PROVE  /\ Granted(k, second) =>
                             \E last \in Seconds :
                                 /\ recorded[k][last] > 0 /\ last + Grant > second
                                 /\ Total(recorded[k], last - Window + 1, last) >= Threshold
                      /\ PresentCount(k, second) <=
                             Total(recorded[k], second - FallbackSpan + 1, second)
    BY DEF ValveEarned
  <1>1. SlotOf(k) # NoKey =>
            /\ SlotOf(k) \in Indexes /\ valve[SlotOf(k)] \in SlotRecords
            /\ valve[SlotOf(k)].start <= second /\ SlotEarned(valve[SlotOf(k)], recorded[k])
    BY <1>0, LookupFinds DEF ValveInv, SafeguardTypeOK, Owned
  <1>2. ASSUME Granted(k, second)
        PROVE  \E last \in Seconds :
                   /\ recorded[k][last] > 0 /\ last + Grant > second
                   /\ Total(recorded[k], last - Window + 1, last) >= Threshold
    <2>1. PICK slot \in SlotRecords :
              slot.until > second /\ SlotEarned(slot, recorded[k])
      BY <1>1, <1>2 DEF Granted
    <2>2. slot.until \in Nat /\ slot.until > 0
      BY <1>0, <2>1 DEF SlotRecords
    <2>3. PICK last \in Seconds :
              /\ recorded[k][last] > 0 /\ last + Grant >= slot.until
              /\ Total(recorded[k], last - Window + 1, last) >= Threshold
      BY <2>1, <2>2 DEF SlotEarned
    <2>4. last + Grant > second
      BY <1>0, <2>1, <2>2, <2>3, SafeguardAssumption DEF Seconds
    <2> QED
      BY <2>3, <2>4
  <1>3. PresentCount(k, second) <= Total(recorded[k], second - FallbackSpan + 1, second)
    <2>1. recorded[k] \in [Seconds -> Nat]
      BY <1>0 DEF SafeguardTypeOK
    <2>2. second - FallbackSpan + 1 \in Int /\ second \in Int /\ FallbackSpan \in Nat /\ Window \in Nat
      BY <1>0, SafeguardAssumption
    <2>3. Total(recorded[k], second - FallbackSpan + 1, second) \in Nat
      BY <2>1, <2>2, TotalNat
    <2>4. CASE SlotOf(k) = NoKey \/ Rolled(valve[SlotOf(k)].start, second, FallbackSpan)
      BY <2>3, <2>4 DEF PresentCount
    <2>5. CASE SlotOf(k) # NoKey /\ ~Rolled(valve[SlotOf(k)].start, second, FallbackSpan)
      <3>1. PICK slot \in SlotRecords :
                /\ slot = valve[SlotOf(k)] /\ slot.start <= second /\ SlotEarned(slot, recorded[k])
                /\ PresentCount(k, second) = slot.count
        BY <1>1, <2>5 DEF PresentCount
      <3>2. slot.start \in Nat /\ slot.count \in Nat /\ second < slot.start + FallbackSpan
        BY <1>0, <2>2, <2>5, <3>1 DEF SlotRecords, Rolled
      <3>3. slot.start \in Int /\ slot.start + Window - 1 \in Int
        BY <2>2, <3>2
      <3>4. \A t \in Seconds : Adds(recorded[k], slot.start, slot.start + Window - 1, t)
                                <= Adds(recorded[k], second - FallbackSpan + 1, second, t)
        <4> SUFFICES ASSUME NEW t \in Seconds
                     PROVE  Adds(recorded[k], slot.start, slot.start + Window - 1, t)
                                <= Adds(recorded[k], second - FallbackSpan + 1, second, t)
          OBVIOUS
        <4>1. recorded[k][t] \in Nat /\ (recorded[k][t] > 0 => t <= second) /\ t \in Nat
          <5>1. recorded[k][t] \in Nat
            BY <2>1
          <5>2. recorded[k][t] > 0 => t <= second
            BY DEF ValveInv
          <5>3. t \in Nat
            BY DEF Seconds
          <5> QED
            BY <5>1, <5>2, <5>3
        <4>2. t \in slot.start .. slot.start + Window - 1 /\ recorded[k][t] > 0 =>
                  t \in second - FallbackSpan + 1 .. second
          BY <2>2, <3>2, <3>3, <4>1
        <4> QED
          BY <4>1, <4>2 DEF Adds
      <3>5. Total(recorded[k], slot.start, slot.start + Window - 1)
                <= Total(recorded[k], second - FallbackSpan + 1, second)
        BY <2>1, <2>2, <3>3, <3>4, TotalMono
      <3>6. Total(recorded[k], slot.start, slot.start + Window - 1) \in Nat
        BY <2>1, <3>3, TotalNat
      <3> QED
        BY <2>3, <3>1, <3>2, <3>5, <3>6 DEF SlotEarned
    <2> QED
      BY <2>4, <2>5
  <1> QED
    BY <1>2, <1>3

\* The valve opens only for whom the table counted enough challenges.
THEOREM ValveIsEarned == SafeguardSpec => []ValveEarned
  BY SafeguardInvariant, EarnedFollows, PTL
-----------------------------------------------------------------------------
(* The loop is broken. *)

\* The requests that are past the check and would still count in a window.
LateIn(g, k, start) ==
    {w \in Guards : /\ g[w].at = "record" /\ g[w].key = k
                    /\ start <= g[w].now /\ g[w].now < start + Window}

\* A slot that reached the threshold is granted until its window is over,
\* and leaves no count for more than the requests that were past the check.
SlotBounded(s, g) ==
    s.count >= Threshold =>
        /\ s.until >= s.start + Grant
        /\ s.count + Cardinality(LateIn(g, s.key, s.start)) <= Threshold + Cardinality(Guards) - 1

\* A slot counts every challenge shown since the start of its window.
ShownIn(s, times) ==
    /\ Total(times, s.start, LastSecond) <= s.count
    /\ \A t \in Seconds : times[t] > 0 => t < s.start + Window

\* Without a slot, nothing was shown that a request still to record could
\* count in the window it starts.
Settled(times, k, g, now) ==
    \A t \in Seconds : times[t] > 0 =>
        /\ t < now
        /\ \A w \in Guards : g[w].at = "record" /\ g[w].key = k => t < g[w].now

KeyCounted(k) ==
    /\ \A i \in Indexes : Owned(i, k) => ShownIn(valve[i], shown[k])
    /\ (\A i \in Indexes : ~Owned(i, k)) => Settled(shown[k], k, guard, second)

SlotsBounded == \A i \in Indexes : valve[i] # NoKey => SlotBounded(valve[i], guard)
KeysCounted == \A k \in Keys \ excused : KeyCounted(k)

LoopInv ==
    /\ ValveInv
    /\ Grant >= Window => SlotsBounded
    /\ FallbackSpan >= Window => KeysCounted

\* The requests past the check are no more than the workers.
LEMMA LateCount ==
    ASSUME NEW g, NEW k, NEW start
    PROVE  /\ IsFiniteSet(LateIn(g, k, start)) /\ Cardinality(LateIn(g, k, start)) \in Nat
           /\ Cardinality(Guards) \in Nat
  <1>1. LateIn(g, k, start) \subseteq Guards
    BY DEF LateIn
  <1>2. IsFiniteSet(LateIn(g, k, start))
    BY <1>1, FS_Subset, SafeguardAssumption
  <1> QED
    BY <1>2, FS_CardinalityType, SafeguardAssumption

\* Fewer requests past the check leave a slot bounded.
LEMMA FewerLate ==
    ASSUME NEW s \in SlotRecords, NEW g, NEW h, SlotBounded(s, g),
           s.count >= Threshold => LateIn(h, s.key, s.start) \subseteq LateIn(g, s.key, s.start)
    PROVE  SlotBounded(s, h)
  <1>1. CASE s.count >= Threshold
    <2> DEFINE a == LateIn(g, s.key, s.start)
               b == LateIn(h, s.key, s.start)
    <2>1. IsFiniteSet(a) /\ Cardinality(a) \in Nat /\ Cardinality(b) \in Nat /\ Cardinality(Guards) \in Nat
      BY LateCount
    <2>2. b \subseteq a
      BY <1>1
    <2>3. /\ s.until >= s.start + Grant
          /\ s.count + Cardinality(a) <= Threshold + Cardinality(Guards) - 1
      BY <1>1 DEF SlotBounded
    <2> HIDE DEF a, b
    <2>4. Cardinality(b) <= Cardinality(a)
      BY <2>1, <2>2, FS_Subset
    <2>5. s.count \in Nat /\ Threshold \in Nat
      BY SafeguardAssumption DEF SlotRecords
    <2>6. s.count + Cardinality(b) <= Threshold + Cardinality(Guards) - 1
      BY <2>1, <2>3, <2>4, <2>5
    <2> QED
      BY <2>3, <2>6 DEF SlotBounded, b
  <1>2. CASE ~(s.count >= Threshold)
    BY <1>2 DEF SlotBounded
  <1> QED
    BY <1>1, <1>2

\* A visit that ends is no longer past the check.
LEMMA EndedLate ==
    ASSUME NEW g, NEW h, NEW w \in Guards, NEW k, NEW start,
           h[w] = NoVisit, \A u \in Guards : u # w => h[u] = g[u]
    PROVE  /\ LateIn(h, k, start) = LateIn(g, k, start) \ {w}
           /\ Cardinality(LateIn(h, k, start)) <= Cardinality(Guards) - 1
           /\ w \in LateIn(g, k, start) =>
                  Cardinality(LateIn(h, k, start)) = Cardinality(LateIn(g, k, start)) - 1
  <1> DEFINE a == LateIn(g, k, start)
             b == LateIn(h, k, start)
  <1>0. NoVisit.at # "record"
    BY DEF NoVisit
  <1>1. b = a \ {w}
    <2>1. w \notin b
      BY <1>0 DEF LateIn
    <2>2. ASSUME NEW u, u # w PROVE u \in b <=> u \in a
      BY <2>2 DEF LateIn
    <2> HIDE DEF a, b
    <2>3. \A u : u \in b <=> (u \in a /\ u # w)
      BY <2>1, <2>2
    <2> QED
      BY <2>3
  <1>2. IsFiniteSet(a) /\ IsFiniteSet(Guards) /\ Cardinality(Guards) \in Nat /\ a \subseteq Guards
    <2>1. a \subseteq Guards
      BY DEF LateIn
    <2> QED
      BY <2>1, LateCount, SafeguardAssumption
  <1> HIDE DEF a, b
  <1>3. w \in a => Cardinality(b) = Cardinality(a) - 1
    BY <1>1, <1>2, FS_RemoveElement
  <1>4. Cardinality(b) <= Cardinality(Guards) - 1
    <2>1. IsFiniteSet(Guards \ {w}) /\ Cardinality(Guards \ {w}) = Cardinality(Guards) - 1
      BY <1>2, FS_RemoveElement
    <2>2. b \subseteq Guards \ {w}
      BY <1>1, <1>2
    <2> QED
      BY <2>1, <2>2, FS_Subset
  <1> QED
    BY <1>1, <1>3, <1>4 DEF a, b

\* A presentation leaves its slot bounded.
LEMMA PresentedBounded ==
    ASSUME NEW slot \in SlotRecords \cup {NoKey}, NEW k \in Keys, NEW now \in Seconds, NEW new,
           new = Presented(slot, k, now), slot # NoKey => slot.start \in Seconds,
           NEW w \in Guards, NEW g, NEW h,
           g[w].at = "record", g[w].key = k, g[w].now = now,
           h[w] = NoVisit, \A u \in Guards : u # w => h[u] = g[u],
           slot # NoKey => SlotBounded(slot, g)
    PROVE  SlotBounded(new, h)
  <1>0. /\ now \in Nat /\ Threshold \in Nat /\ Threshold > 0 /\ Grant \in Nat /\ Window \in Nat
        /\ Cardinality(Guards) \in Nat
    BY SafeguardAssumption, LateCount DEF Seconds
  <1>1. /\ new \in SlotRecords /\ new.key = k
        /\ \/ /\ slot # NoKey /\ slot.key = k
              /\ slot.start <= now /\ now < slot.start + Window
              /\ new.start = slot.start /\ new.count = slot.count + 1
           \/ new.start = now /\ new.count = 1
        /\ new.count >= Threshold => new.until = now + Grant
    <2>1. /\ new \in SlotRecords /\ new # NoKey /\ new.key = k /\ new.count > 0
          /\ \/ /\ slot # NoKey /\ slot.key = k
                /\ slot.start <= now /\ now < slot.start + Window
                /\ new.start = slot.start /\ new.count = slot.count + 1
             \/ /\ new.start = now /\ new.count = 1
                /\ slot # NoKey /\ slot.key = k =>
                       now < slot.start \/ slot.start + Window <= now
          /\ new.count >= Threshold => new.until = now + Grant
      BY PresentedSays DEF PresentedIs
    <2> QED
      BY <2>1
  <1>2. new.count \in Nat /\ new.until \in Nat /\ new.start \in Nat
    BY <1>1 DEF SlotRecords
  <1> SUFFICES ASSUME new.count >= Threshold PROVE SlotBounded(new, h)
    BY DEF SlotBounded
  <1>3. new.until >= new.start + Grant
    BY <1>0, <1>1, <1>2
  <1>4. PICK late \in Nat : late = Cardinality(LateIn(h, k, new.start))
    BY LateCount
  <1>5. late <= Cardinality(Guards) - 1
    BY <1>4, EndedLate
  <1>6. new.count + late <= Threshold + Cardinality(Guards) - 1
    <2>1. CASE new.count = Threshold
      BY <1>0, <1>5, <2>1
    <2>2. CASE new.count # Threshold
      <3>1. /\ slot # NoKey /\ slot.key = k
            /\ slot.start <= now /\ now < slot.start + Window
            /\ new.start = slot.start /\ new.count = slot.count + 1
        BY <1>0, <1>1, <1>2, <2>2
      <3>2. slot.count \in Nat
        BY <3>1 DEF SlotRecords
      <3>3. slot.count >= Threshold
        BY <1>0, <1>2, <2>2, <3>1, <3>2
      <3>4. PICK before \in Nat : before = Cardinality(LateIn(g, k, slot.start))
        BY LateCount
      <3>5. slot.count + before <= Threshold + Cardinality(Guards) - 1
        BY <3>1, <3>3, <3>4 DEF SlotBounded
      <3>6. w \in LateIn(g, k, slot.start)
        BY <3>1 DEF LateIn
      <3>7. late = before - 1
        BY <1>4, <3>1, <3>4, <3>6, EndedLate
      <3> QED
        BY <1>0, <3>1, <3>2, <3>5, <3>7
    <2> QED
      BY <2>1, <2>2
  <1> QED
    BY <1>1, <1>3, <1>4, <1>6 DEF SlotBounded

\* A key whose slot and showings are as they were stays counted.
LEMMA KeyKept ==
    ASSUME ValveInv, ValveInv', NEW k \in Keys, KeyCounted(k),
           shown'[k] = shown[k], second <= second',
           \A i \in Indexes : valve'[i] # NoKey /\ valve'[i].key = k <=> Owned(i, k),
           \A i \in Indexes : Owned(i, k) => valve'[i] = valve[i],
           \A w \in Guards : guard'[w].at = "record" /\ guard'[w].key = k =>
               \/ guard'[w].now = second
               \/ guard[w].at = "record" /\ guard[w].key = k /\ guard'[w].now = guard[w].now
    PROVE  KeyCounted(k)'
  <1>0. second \in Nat /\ second' \in Nat
    BY DEF ValveInv, SafeguardTypeOK, Seconds
  <1>1. ASSUME NEW i \in Indexes, Owned(i, k)' PROVE ShownIn(valve[i], shown[k])'
    <2>1. Owned(i, k) /\ valve'[i] = valve[i]
      BY <1>1 DEF Owned
    <2>2. ShownIn(valve[i], shown[k])
      BY <2>1 DEF KeyCounted
    <2> QED
      BY <2>1, <2>2 DEF ShownIn
  <1>2. ASSUME \A i \in Indexes : ~Owned(i, k)' PROVE Settled(shown[k], k, guard, second)'
    <2>1. \A i \in Indexes : ~Owned(i, k)
      BY <1>2 DEF Owned
    <2>2. Settled(shown[k], k, guard, second)
      BY <2>1 DEF KeyCounted
    <2> SUFFICES ASSUME NEW t \in Seconds, shown'[k][t] > 0
                 PROVE  /\ t < second'
                        /\ \A w \in Guards : guard'[w].at = "record" /\ guard'[w].key = k => t < guard'[w].now
      BY DEF Settled
    <2>3. /\ t < second /\ t \in Nat
          /\ \A w \in Guards : guard[w].at = "record" /\ guard[w].key = k => t < guard[w].now
      BY <2>2 DEF Settled, Seconds
    <2> QED
      BY <1>0, <2>3
  <1> QED
    BY <1>1, <1>2 DEF KeyCounted

\* A key of which nothing is shown is counted.
LEMMA NothingShown ==
    ASSUME ValveInv, NEW k \in Keys, shown[k] = NoTimes
    PROVE  KeyCounted(k)
  <1>1. \A t \in Seconds : shown[k][t] = 0
    BY DEF NoTimes
  <1>2. Settled(shown[k], k, guard, second)
    BY <1>1 DEF Settled
  <1>3. ASSUME NEW i \in Indexes, Owned(i, k) PROVE ShownIn(valve[i], shown[k])
    <2>1. valve[i].start \in Nat /\ valve[i].count \in Nat
      BY <1>3 DEF ValveInv, SafeguardTypeOK, SlotRecords, Owned
    <2>2. shown[k] \in [Seconds -> Nat] /\ LastSecond \in Int
      BY SafeguardAssumption DEF ValveInv, SafeguardTypeOK
    <2>3. Total(shown[k], valve[i].start, LastSecond) = 0
      BY <1>1, <2>1, <2>2, TotalZero
    <2> QED
      BY <1>1, <2>1, <2>3 DEF ShownIn
  <1> QED
    BY <1>2, <1>3 DEF KeyCounted

\* The same after a step.
LEMMA NothingShownAfter ==
    ASSUME ValveInv', NEW k \in Keys, shown'[k] = NoTimes
    PROVE  KeyCounted(k)'
  <1>1. (ValveInv /\ shown[k] = NoTimes => KeyCounted(k))'
    BY NothingShown, PTL
  <1> QED
    BY <1>1

\* What was shown before a presentation: in the window of the slot of its
\* key, or, without one, before the clock of the request.
ShownBefore(slot, k, now, times) ==
    IF slot # NoKey /\ slot.key = k THEN slot.start <= now /\ ShownIn(slot, times)
    ELSE \A t \in Seconds : times[t] > 0 => t < now

\* A presentation of a key counts what its window has shown.
LEMMA PresentedCounts ==
    ASSUME NEW slot \in SlotRecords \cup {NoKey}, NEW k \in Keys, NEW now \in Seconds, NEW new,
           new = Presented(slot, k, now),
           NEW a \in [Seconds -> Nat], NEW b \in [Seconds -> Nat], b = [a EXCEPT ![now] = @ + 1],
           ShownBefore(slot, k, now, a)
    PROVE  ShownIn(new, b)
  <1>0. /\ now \in Nat /\ Window \in Nat /\ Window > 0 /\ LastSecond \in Nat /\ now <= LastSecond
    BY SafeguardAssumption DEF Seconds
  <1>1. /\ new \in SlotRecords /\ new # NoKey /\ new.key = k /\ new.count > 0
        /\ \/ /\ slot # NoKey /\ slot.key = k
              /\ slot.start <= now /\ now < slot.start + Window
              /\ new.start = slot.start /\ new.count = slot.count + 1
           \/ /\ new.start = now /\ new.count = 1
              /\ slot # NoKey /\ slot.key = k => now < slot.start \/ slot.start + Window <= now
    <2>1. /\ new \in SlotRecords /\ new # NoKey /\ new.key = k /\ new.count > 0
          /\ \/ /\ slot # NoKey /\ slot.key = k
                /\ slot.start <= now /\ now < slot.start + Window
                /\ new.start = slot.start /\ new.count = slot.count + 1
             \/ /\ new.start = now /\ new.count = 1
                /\ slot # NoKey /\ slot.key = k =>
                       now < slot.start \/ slot.start + Window <= now
          /\ new.count >= Threshold => new.until = now + Grant
          /\ new.count < Threshold =>
                 \/ new.until = 0
                 \/ slot # NoKey /\ slot.key = k /\ new.until = slot.until
      BY PresentedSays DEF PresentedIs
    <2> QED
      BY <2>1
  <1>2. slot # NoKey => slot.start \in Nat /\ slot.count \in Nat
    BY DEF SlotRecords
  <1>3. CASE /\ slot # NoKey /\ slot.key = k
             /\ slot.start <= now /\ now < slot.start + Window
             /\ new.start = slot.start /\ new.count = slot.count + 1
    <2>1. ShownIn(slot, a)
      BY <1>3 DEF ShownBefore
    <2>2. slot.start \in Int /\ LastSecond \in Int /\ now \in slot.start .. LastSecond
      BY <1>0, <1>2, <1>3
    <2>3. Total(b, slot.start, LastSecond) = Total(a, slot.start, LastSecond) + 1
      BY ZenonT(30), <2>2, TotalOneMore
    <2>4. Total(a, slot.start, LastSecond) \in Nat
      BY <2>2, TotalNat
    <2>5. Total(b, new.start, LastSecond) <= new.count
      BY <1>2, <1>3, <2>1, <2>3, <2>4 DEF ShownIn
    <2>6. \A t \in Seconds : b[t] > 0 => t < new.start + Window
      BY <1>3, <2>1 DEF ShownIn
    <2> QED
      BY <2>5, <2>6 DEF ShownIn
  <1>4. CASE /\ new.start = now /\ new.count = 1
             /\ slot # NoKey /\ slot.key = k => now < slot.start \/ slot.start + Window <= now
    <2>1. \A t \in Seconds : a[t] > 0 => t < now
      <3>1. CASE slot # NoKey /\ slot.key = k
        <4>1. slot.start + Window <= now
          BY <1>0, <1>2, <1>4, <3>1 DEF ShownBefore
        <4>2. \A t \in Seconds : a[t] > 0 => t < slot.start + Window
          BY <3>1 DEF ShownIn, ShownBefore
        <4> QED
          BY <1>0, <1>2, <3>1, <4>1, <4>2 DEF Seconds
      <3>2. CASE ~(slot # NoKey /\ slot.key = k)
        BY <3>2 DEF ShownBefore
      <3> QED
        BY <3>1, <3>2
    <2>2. now \in Int /\ LastSecond \in Int /\ now \in now .. LastSecond
      BY <1>0
    <2>3. \A t \in Seconds : t \in now .. LastSecond => a[t] = 0
      BY <1>0, <2>1 DEF Seconds
    <2>4. Total(a, now, LastSecond) = 0
      BY <2>2, <2>3, TotalZero
    <2>5. Total(b, now, LastSecond) = Total(a, now, LastSecond) + 1
      BY ZenonT(30), <2>2, TotalOneMore
    <2>6. \A t \in Seconds : b[t] > 0 => t < now + Window
      BY <1>0, <2>1 DEF Seconds
    <2> QED
      BY <1>4, <2>4, <2>5, <2>6 DEF ShownIn
  <1> QED
    BY <1>1, <1>3, <1>4

\* A slot that is kept, under the same requests past the check or fewer,
\* stays bounded.
LEMMA BoundedFrame ==
    ASSUME ValveInv, ValveInv', SlotsBounded,
           \A i \in Indexes : valve'[i] = NoKey \/ valve'[i] = valve[i],
           \A i \in Indexes : valve'[i] = valve[i] /\ valve[i] # NoKey /\ valve[i].count >= Threshold =>
               LateIn(guard', valve[i].key, valve[i].start) \subseteq LateIn(guard, valve[i].key, valve[i].start)
    PROVE  SlotsBounded'
  <1> SUFFICES ASSUME NEW i \in Indexes, valve'[i] # NoKey PROVE SlotBounded(valve'[i], guard')
    BY DEF SlotsBounded
  <1>1. valve'[i] = valve[i]
    OBVIOUS
  <1>2. PICK s \in SlotRecords : s = valve[i]
    BY <1>1 DEF ValveInv, SafeguardTypeOK
  <1>3. SlotBounded(s, guard)
    BY <1>1, <1>2 DEF SlotsBounded
  <1>4. s.count >= Threshold => LateIn(guard', s.key, s.start) \subseteq LateIn(guard, s.key, s.start)
    BY <1>1, <1>2
  <1>5. SlotBounded(s, guard')
    BY <1>3, <1>4, FewerLate
  <1> QED
    BY <1>1, <1>2, <1>5

\* A visit that ends, or none, leaves no more requests past the check.
LEMMA LateFrame ==
    ASSUME \A u \in Guards : guard'[u] = NoVisit \/ guard'[u] = guard[u], NEW k, NEW start
    PROVE  LateIn(guard', k, start) \subseteq LateIn(guard, k, start)
  <1>1. NoVisit.at # "record"
    BY DEF NoVisit
  <1> QED
    BY <1>1 DEF LateIn

\* Every step keeps the slots bounded: a client of a slot that reached the
\* threshold is redirected until the window is over.
LEMMA BoundedStep ==
    ASSUME ValveInv, ValveInv', SlotsBounded, Grant >= Window, [SafeguardNext]_safeguardVars
    PROVE  SlotsBounded'
  <1>0. SafeguardTypeOK /\ OwnedOnce
    BY DEF ValveInv
  <1>1. ASSUME NEW w \in Guards, Record(w) PROVE SlotsBounded'
    <2>1. PICK k \in Keys, now \in Seconds, i \in Indexes :
              /\ guard[w].at = "record" /\ guard[w].key = k /\ guard[w].now = now
              /\ valve'[i] = Presented(valve[i], k, now)
              /\ \A j \in Indexes : j # i => valve'[j] = valve[j]
              /\ guard' = [guard EXCEPT ![w] = NoVisit]
      BY <1>0, <1>1, RecordSays
    <2>2. guard'[w] = NoVisit /\ \A u \in Guards : u # w => guard'[u] = guard[u]
      BY <1>0, <2>1, VisitEnds
    <2>3. PICK slot \in SlotRecords \cup {NoKey} : slot = valve[i]
      BY <1>0 DEF SafeguardTypeOK
    <2>4. slot # NoKey => slot.start \in Seconds /\ SlotBounded(slot, guard)
      BY <2>3 DEF ValveInv, SlotEarned, SlotsBounded
    <2>5. PICK new : new = Presented(slot, k, now)
      OBVIOUS
    <2>6. PICK g, h : g = guard /\ h = guard'
      OBVIOUS
    <2>7. SlotBounded(new, h)
      <3>1. /\ g[w].at = "record" /\ g[w].key = k /\ g[w].now = now
            /\ h[w] = NoVisit /\ \A u \in Guards : u # w => h[u] = g[u]
        BY <2>1, <2>2, <2>6
      <3>2. slot # NoKey => slot.start \in Seconds /\ SlotBounded(slot, g)
        BY <2>4, <2>6
      <3> QED
        BY <2>5, <3>1, <3>2, PresentedBounded
    <2>8. SlotBounded(valve'[i], guard')
      BY <2>1, <2>3, <2>5, <2>6, <2>7
    <2>9. ASSUME NEW j \in Indexes, j # i, valve'[j] # NoKey PROVE SlotBounded(valve'[j], guard')
      <3>1. PICK s \in SlotRecords : s = valve[j] /\ s = valve'[j]
        BY <1>0, <2>1, <2>9 DEF SafeguardTypeOK
      <3>2. SlotBounded(s, guard)
        BY <2>1, <2>9, <3>1 DEF SlotsBounded
      <3>3. LateIn(guard', s.key, s.start) \subseteq LateIn(guard, s.key, s.start)
        BY <2>2, LateFrame
      <3>4. SlotBounded(s, guard')
        BY <3>2, <3>3, FewerLate
      <3> QED
        BY <3>1, <3>4
    <2> QED
      BY <2>8, <2>9 DEF SlotsBounded
  <1>2. ASSUME NEW w \in Guards, RecordDropped(w) \/ ClearDropped(w) PROVE SlotsBounded'
    <2>1. guard' = [guard EXCEPT ![w] = NoVisit] /\ valve' = valve
      BY <1>2 DEF RecordDropped, ClearDropped
    <2>2. \A u \in Guards : guard'[u] = NoVisit \/ guard'[u] = guard[u]
      BY <1>0, <2>1, VisitEnds
    <2> QED
      BY <2>1, <2>2, LateFrame, BoundedFrame
  <1>3. ASSUME NEW w \in Guards, Clear(w) PROVE SlotsBounded'
    <2>1. PICK k \in Keys :
              /\ \A j \in Indexes : valve'[j] = IF Owned(j, k) THEN NoKey ELSE valve[j]
              /\ guard' = [guard EXCEPT ![w] = NoVisit]
      BY <1>0, <1>3, ClearSays
    <2>2. \A u \in Guards : guard'[u] = NoVisit \/ guard'[u] = guard[u]
      BY <1>0, <2>1, VisitEnds
    <2>3. \A j \in Indexes : valve'[j] = NoKey \/ valve'[j] = valve[j]
      BY <2>1
    <2> QED
      BY <2>2, <2>3, LateFrame, BoundedFrame
  <1>4. ASSUME NEW w \in Guards, ChallengeSent(w) \/ Solved(w) PROVE SlotsBounded'
    <2>1. PICK k \in Keys, at \in VisitSteps :
              /\ guard[w] = NoVisit /\ (at = "record" => ~Granted(k, second))
              /\ guard' = [guard EXCEPT ![w] = Visit(at, k, second)]
              /\ UNCHANGED valve
      BY <1>0, <1>4, VisitStarts
    <2>2. /\ guard'[w].at = at /\ guard'[w].key = k /\ guard'[w].now = second
          /\ \A u \in Guards : u # w => guard'[u] = guard[u]
      <3>1. /\ guard' \in [Guards -> {NoVisit} \cup [at : VisitSteps, key : Keys, now : Seconds]]
            /\ guard'[w].at = at /\ guard'[w].key = k /\ guard'[w].now = second
            /\ \A g \in Guards : g # w => guard'[g] = guard[g]
        BY <1>0, <2>1, VisitStartsForm
      <3> QED
        BY <3>1
    <2>3. ASSUME NEW i \in Indexes, valve[i] # NoKey, valve[i].count >= Threshold
          PROVE  LateIn(guard', valve[i].key, valve[i].start) \subseteq LateIn(guard, valve[i].key, valve[i].start)
      <3>1. PICK s \in SlotRecords : s = valve[i]
        BY <1>0, <2>3 DEF SafeguardTypeOK
      <3>2. s.start \in Nat /\ s.until \in Nat /\ Grant \in Nat /\ Window \in Nat /\ second \in Nat
        BY <1>0, SafeguardAssumption DEF SlotRecords, SafeguardTypeOK, Seconds
      <3>3. s.until >= s.start + Grant
        BY <2>3, <3>1 DEF SlotsBounded, SlotBounded
      <3>4. w \notin LateIn(guard', s.key, s.start)
        <4> SUFFICES ASSUME at = "record", s.key = k, second < s.start + Window PROVE FALSE
          BY <2>2 DEF LateIn
        <4>1. Owned(i, k)
          BY <2>3, <3>1 DEF Owned
        <4>2. SlotOf(k) = i /\ i # NoKey
          BY <1>0, <4>1, LookupFinds, NoKeyAssumption
        <4>3. s.until > second
          BY <3>2, <3>3
        <4>4. valve[SlotOf(k)].until > second
          BY <3>1, <4>2, <4>3
        <4>5. Granted(k, second)
          BY <4>2, <4>4 DEF Granted
        <4> QED
          BY <2>1, <4>5, Zenon
      <3>5. \A u \in Guards : u \in LateIn(guard', s.key, s.start) => u \in LateIn(guard, s.key, s.start)
        BY <2>2, <3>4 DEF LateIn
      <3> QED
        BY <3>1, <3>5 DEF LateIn
    <2> QED
      BY <2>1, <2>3, BoundedFrame
  <1>5. ASSUME Sweep PROVE SlotsBounded'
    <2>1. /\ \A j \in Indexes : valve'[j] = NoKey \/ valve'[j] = valve[j]
          /\ guard' = guard
      BY <1>0, <1>5, SweepSays, Zenon
    <2> QED
      BY <2>1, BoundedFrame
  <1>6. ASSUME SecondPasses \/ UNCHANGED safeguardVars PROVE SlotsBounded'
    <2>1. valve' = valve /\ guard' = guard
      BY <1>6 DEF SecondPasses, safeguardVars
    <2> QED
      BY <2>1, BoundedFrame
  <1> QED
    BY <1>1, <1>2, <1>3, <1>4, <1>5, <1>6 DEF SafeguardNext

\* Every step keeps the keys counted.
LEMMA CountedStep ==
    ASSUME ValveInv, ValveInv', KeysCounted, FallbackSpan >= Window, [SafeguardNext]_safeguardVars
    PROVE  KeysCounted'
  <1>0. /\ SafeguardTypeOK /\ OwnedOnce /\ second \in Nat /\ excused \subseteq Keys
        /\ shown \in [Keys -> [Seconds -> Nat]]
    BY DEF ValveInv, SafeguardTypeOK, Seconds
  <1>1. ASSUME NEW w \in Guards, Record(w) PROVE KeysCounted'
    <2>1. PICK k \in Keys, now \in Seconds, i \in Indexes :
              /\ guard[w].at = "record" /\ guard[w].key = k /\ guard[w].now = now
              /\ guard[w] # NoVisit
              /\ i = Target(k, now) /\ InProbe(i, k)
              /\ \A j \in Indexes : Owned(j, k) => j = i
              /\ valve'[i] = Presented(valve[i], k, now)
              /\ \A j \in Indexes : j # i => valve'[j] = valve[j]
              /\ valve' \in [Indexes -> SlotRecords \cup {NoKey}]
              /\ recorded' = [recorded EXCEPT ![k][now] = @ + 1]
              /\ shown' = [shown EXCEPT ![k][now] = @ + 1]
              /\ excused' = excused \cup Losers(i, k, now)
              /\ guard' = [guard EXCEPT ![w] = NoVisit]
              /\ UNCHANGED <<second, visits>>
      BY <1>0, <1>1, RecordSays
    <2>2. \A u \in Guards : guard'[u] = NoVisit \/ guard'[u] = guard[u]
      BY <1>0, <2>1, VisitEnds
    <2>3. /\ shown'[k] = [shown[k] EXCEPT ![now] = @ + 1] /\ shown'[k] \in [Seconds -> Nat]
          /\ \A j \in Keys : j # k => shown'[j] = shown[j]
      BY <1>0, <2>1, OneMoreSays
    <2>4. PICK slot \in SlotRecords \cup {NoKey} : slot = valve[i]
      BY <1>0 DEF SafeguardTypeOK
    <2>5. PICK new : new = Presented(slot, k, now)
      OBVIOUS
    <2>6. new \in SlotRecords /\ new # NoKey /\ new.key = k
      BY <2>5, PresentedSays DEF PresentedIs
    <2>7. valve'[i] = new
      BY <2>1, <2>4, <2>5
    <2>8. ASSUME NEW j \in Keys \ excused', j # k PROVE KeyCounted(j)'
      <3>1. KeyCounted(j)
        BY <2>1, <2>8 DEF KeysCounted
      <3>2. ~Owned(i, j)
        BY <2>1, <2>8 DEF Owned, Losers
      <3>3. \A m \in Indexes : valve'[m] # NoKey /\ valve'[m].key = j <=> Owned(m, j)
        BY <2>1, <2>6, <2>7, <2>8, <3>2 DEF Owned
      <3>4. \A m \in Indexes : Owned(m, j) => valve'[m] = valve[m]
        BY <2>1, <3>2
      <3>5. \A u \in Guards : guard'[u].at = "record" /\ guard'[u].key = j =>
                \/ guard'[u].now = second
                \/ guard[u].at = "record" /\ guard[u].key = j /\ guard'[u].now = guard[u].now
        BY <2>2 DEF NoVisit
      <3>6. shown'[j] = shown[j] /\ second <= second'
        BY <1>0, <2>1, <2>3, <2>8
      <3> QED
        BY <2>8, <3>1, <3>3, <3>4, <3>5, <3>6, KeyKept
    <2>9. ASSUME k \notin excused' PROVE KeyCounted(k)'
      <3>1. KeyCounted(k)
        BY <2>1, <2>9 DEF KeysCounted
      <3>0. PICK a \in [Seconds -> Nat], b \in [Seconds -> Nat] : a = shown[k] /\ b = shown'[k]
        BY <1>0, <2>3
      <3>2. b = [a EXCEPT ![now] = @ + 1]
        BY <2>3, <3>0, Zenon
      <3>3. ShownBefore(slot, k, now, a)
        <4>1. CASE slot # NoKey /\ slot.key = k
          <5>1. Owned(i, k) /\ ShownIn(slot, a)
            BY <2>4, <3>0, <3>1, <4>1 DEF Owned, KeyCounted
          <5>2. ~(now < slot.start)
            BY <2>1, <2>4, <2>9, <4>1 DEF Losers
          <5>3. slot.start \in Nat /\ now \in Nat
            BY <4>1 DEF SlotRecords, Seconds
          <5>4. slot.start <= now
            BY <5>2, <5>3
          <5> QED
            BY <4>1, <5>1, <5>4 DEF ShownBefore
        <4>2. CASE ~(slot # NoKey /\ slot.key = k)
          <5>1. \A j \in Indexes : ~Owned(j, k)
            BY <2>1, <2>4, <4>2 DEF Owned
          <5>2. Settled(shown[k], k, guard, second)
            BY <3>1, <5>1 DEF KeyCounted
          <5>3. \A t \in Seconds : a[t] > 0 => t < now
            BY <2>1, <3>0, <5>2 DEF Settled
          <5> QED
            BY <4>2, <5>3 DEF ShownBefore
        <4> QED
          BY <4>1, <4>2
      <3>4. ShownIn(new, b)
        BY <2>5, <3>2, <3>3, PresentedCounts
      <3>5. ASSUME NEW j \in Indexes, Owned(j, k)' PROVE ShownIn(valve[j], shown[k])'
        <4>1. j = i
          BY <2>1, <3>5 DEF Owned
        <4> QED
          BY <2>7, <3>0, <3>4, <4>1 DEF ShownIn
      <3>6. Owned(i, k)'
        BY <2>6, <2>7 DEF Owned
      <3> QED
        BY <3>5, <3>6 DEF KeyCounted
    <2> QED
      BY <2>8, <2>9 DEF KeysCounted
  <1>2. ASSUME NEW w \in Guards, RecordDropped(w) \/ ClearDropped(w) PROVE KeysCounted'
    <2>1. PICK k \in Keys, now \in Seconds :
              /\ \/ /\ shown' = [shown EXCEPT ![k][now] = @ + 1]
                    /\ excused' = excused \cup {k}
                 \/ /\ shown' = [shown EXCEPT ![k] = NoTimes]
                    /\ excused' = excused
              /\ guard' = [guard EXCEPT ![w] = NoVisit]
              /\ UNCHANGED <<second, visits, valve, recorded>>
      BY <1>0, <1>2, DroppedSays
    <2>2. \A u \in Guards : guard'[u] = NoVisit \/ guard'[u] = guard[u]
      BY <1>0, <2>1, VisitEnds
    <2>3. /\ \A j \in Keys : j # k => shown'[j] = shown[j]
          /\ k \in excused' \/ shown'[k] = NoTimes
          /\ excused \subseteq excused'
      <3>1. CASE /\ shown' = [shown EXCEPT ![k][now] = @ + 1]
                 /\ excused' = excused \cup {k}
        BY <1>0, <3>1, OneMoreSays
      <3>2. CASE /\ shown' = [shown EXCEPT ![k] = NoTimes]
                 /\ excused' = excused
        BY <1>0, <3>2, Forgetting
      <3> QED
        BY <2>1, <3>1, <3>2
    <2>4. ASSUME NEW j \in Keys \ excused', j # k PROVE KeyCounted(j)'
      <3>1. KeyCounted(j)
        BY <2>3, <2>4 DEF KeysCounted
      <3>2. \A m \in Indexes : valve'[m] # NoKey /\ valve'[m].key = j <=> Owned(m, j)
        BY <2>1 DEF Owned
      <3>3. \A u \in Guards : guard'[u].at = "record" /\ guard'[u].key = j =>
                \/ guard'[u].now = second
                \/ guard[u].at = "record" /\ guard[u].key = j /\ guard'[u].now = guard[u].now
        BY <2>2 DEF NoVisit
      <3>4. /\ shown'[j] = shown[j] /\ second <= second'
            /\ \A m \in Indexes : Owned(m, j) => valve'[m] = valve[m]
        BY <1>0, <2>1, <2>3, <2>4
      <3> QED
        BY <2>4, <3>1, <3>2, <3>3, <3>4, KeyKept
    <2>5. ASSUME k \notin excused' PROVE KeyCounted(k)'
      BY <2>3, <2>5, NothingShownAfter
    <2> QED
      BY <2>4, <2>5 DEF KeysCounted
  <1>3. ASSUME NEW w \in Guards, Clear(w) PROVE KeysCounted'
    <2>1. PICK k \in Keys :
              /\ \A j \in Indexes : valve'[j] = IF Owned(j, k) THEN NoKey ELSE valve[j]
              /\ shown' = [shown EXCEPT ![k] = NoTimes]
              /\ excused' = excused \ {k}
              /\ guard' = [guard EXCEPT ![w] = NoVisit]
              /\ second' = second
      BY <1>0, <1>3, ClearSays
    <2>2. \A u \in Guards : guard'[u] = NoVisit \/ guard'[u] = guard[u]
      BY <1>0, <2>1, VisitEnds
    <2>3. shown'[k] = NoTimes /\ \A j \in Keys : j # k => shown'[j] = shown[j]
      BY <1>0, <2>1, Forgetting
    <2>4. ASSUME NEW j \in Keys \ excused', j # k PROVE KeyCounted(j)'
      <3>1. KeyCounted(j)
        BY <2>1, <2>4 DEF KeysCounted
      <3>2. \A m \in Indexes : Owned(m, j) => ~Owned(m, k)
        BY <2>4 DEF Owned
      <3>3. \A m \in Indexes : valve'[m] # NoKey /\ valve'[m].key = j <=> Owned(m, j)
        BY <2>1, <2>4 DEF Owned
      <3>4. \A u \in Guards : guard'[u].at = "record" /\ guard'[u].key = j =>
                \/ guard'[u].now = second
                \/ guard[u].at = "record" /\ guard[u].key = j /\ guard'[u].now = guard[u].now
        BY <2>2 DEF NoVisit
      <3>5. /\ shown'[j] = shown[j] /\ second <= second'
            /\ \A m \in Indexes : Owned(m, j) => valve'[m] = valve[m]
        BY <1>0, <2>1, <2>3, <2>4, <3>2
      <3> QED
        BY <2>4, <3>1, <3>3, <3>4, <3>5, KeyKept
    <2>5. KeyCounted(k)'
      BY <2>3, NothingShownAfter
    <2> QED
      BY <2>4, <2>5 DEF KeysCounted
  <1>4. ASSUME NEW w \in Guards, ChallengeSent(w) \/ Solved(w) PROVE KeysCounted'
    <2>1. PICK k \in Keys, at \in VisitSteps :
              /\ guard' = [guard EXCEPT ![w] = Visit(at, k, second)]
              /\ UNCHANGED <<second, valve, safeguardHistory>>
      BY <1>0, <1>4, VisitStarts
    <2>2. /\ guard' \in [Guards -> {NoVisit} \cup [at : VisitSteps, key : Keys, now : Seconds]]
          /\ guard'[w].at = at /\ guard'[w].key = k /\ guard'[w].now = second
          /\ \A g \in Guards : g # w => guard'[g] = guard[g]
      BY <1>0, <2>1, VisitStartsForm
    <2>3. ASSUME NEW j \in Keys \ excused' PROVE KeyCounted(j)'
      <3>1. KeyCounted(j)
        BY <2>1 DEF KeysCounted, safeguardHistory
      <3>2. \A m \in Indexes : valve'[m] # NoKey /\ valve'[m].key = j <=> Owned(m, j)
        BY <2>1 DEF Owned
      <3>3. \A u \in Guards : guard'[u].at = "record" /\ guard'[u].key = j =>
                \/ guard'[u].now = second
                \/ guard[u].at = "record" /\ guard[u].key = j /\ guard'[u].now = guard[u].now
        BY <2>2
      <3>4. shown'[j] = shown[j] /\ second <= second' /\ valve' = valve
        BY <1>0, <2>1 DEF safeguardHistory
      <3> QED
        BY <2>3, <3>1, <3>2, <3>3, <3>4, KeyKept
    <2> QED
      BY <2>3 DEF KeysCounted
  <1>5. ASSUME Sweep PROVE KeysCounted'
    <2>1. /\ \A j \in Indexes :
                 \/ valve'[j] = valve[j]
                 \/ /\ valve'[j] = NoKey /\ valve[j] # NoKey
                    /\ Dead(valve[j], second, FallbackSpan)
                    /\ \A w \in Guards : guard[w].at = "record" /\ guard[w].key = valve[j].key =>
                           valve[j].key \in excused'
          /\ excused \subseteq excused'
          /\ UNCHANGED <<second, guard, visits, recorded, shown>>
      BY <1>0, <1>5, SweepSays
    <2>2. ASSUME NEW k \in Keys \ excused' PROVE KeyCounted(k)'
      <3>1. KeyCounted(k)
        BY <2>1, <2>2 DEF KeysCounted
      <3>2. CASE \A i \in Indexes : Owned(i, k) => valve'[i] = valve[i]
        <4>1. \A m \in Indexes : valve'[m] # NoKey /\ valve'[m].key = k <=> Owned(m, k)
          BY <2>1, <3>2 DEF Owned
        <4>2. shown'[k] = shown[k] /\ second <= second' /\ guard' = guard
          BY <1>0, <2>1
        <4> QED
          BY <3>1, <3>2, <4>1, <4>2, KeyKept
      <3>3. CASE \E i \in Indexes : Owned(i, k) /\ valve'[i] # valve[i]
        <4>1. PICK i \in Indexes : Owned(i, k) /\ valve'[i] # valve[i]
          BY <3>3
        <4>2. /\ valve'[i] = NoKey /\ valve[i] # NoKey /\ valve[i].key = k
              /\ Dead(valve[i], second, FallbackSpan)
              /\ \A w \in Guards : ~(guard[w].at = "record" /\ guard[w].key = k)
          BY <2>1, <2>2, <4>1 DEF Owned
        <4>3. /\ valve[i].start \in Nat /\ valve[i].start <= second
              /\ FallbackSpan \in Nat /\ Window \in Nat
          BY <1>0, <4>2, SafeguardAssumption DEF ValveInv, SafeguardTypeOK, SlotRecords
        <4>4. valve[i].start + Window <= second
          BY <1>0, <4>2, <4>3 DEF Dead, Rolled
        <4>5. \A t \in Seconds : shown[k][t] > 0 => t < second
          <5>1. \A t \in Seconds : shown[k][t] > 0 => t < valve[i].start + Window
            BY <3>1, <4>1 DEF KeyCounted, ShownIn
          <5> QED
            BY <1>0, <4>3, <4>4, <5>1 DEF Seconds
        <4>6. \A j \in Indexes : ~Owned(j, k)'
          BY <1>0, <2>1, <4>1, <4>2 DEF Owned, OwnedOnce
        <4>7. Settled(shown[k], k, guard, second)'
          BY <2>1, <4>2, <4>5 DEF Settled
        <4> QED
          BY <4>6, <4>7 DEF KeyCounted
      <3> QED
        BY <3>2, <3>3
    <2> QED
      BY <2>2 DEF KeysCounted
  <1>6. ASSUME SecondPasses \/ UNCHANGED safeguardVars PROVE KeysCounted'
    <2>1. valve' = valve /\ guard' = guard /\ shown' = shown /\ excused' = excused /\ second <= second'
      BY <1>0, <1>6 DEF SecondPasses, safeguardVars, safeguardHistory
    <2>2. ASSUME NEW j \in Keys \ excused' PROVE KeyCounted(j)'
      <3>1. KeyCounted(j)
        BY <2>1 DEF KeysCounted
      <3>2. \A m \in Indexes : valve'[m] # NoKey /\ valve'[m].key = j <=> Owned(m, j)
        BY <2>1 DEF Owned
      <3> QED
        BY <2>1, <2>2, <3>1, <3>2, KeyKept
    <2> QED
      BY <2>2 DEF KeysCounted
  <1> QED
    BY <1>1, <1>2, <1>3, <1>4, <1>5, <1>6 DEF SafeguardNext

\* The slots are bounded and the keys counted at the start.
LEMMA LoopInit == SafeguardInit => LoopInv
  <1> SUFFICES ASSUME SafeguardInit PROVE LoopInv
    OBVIOUS
  <1>1. ValveInv
    BY ValveInit
  <1>2. SlotsBounded
    BY DEF SafeguardInit, SlotsBounded
  <1>3. KeysCounted
    <2> SUFFICES ASSUME NEW k \in Keys PROVE KeyCounted(k)
      BY DEF KeysCounted
    <2>1. shown[k] = NoTimes
      BY DEF SafeguardInit
    <2> QED
      BY <1>1, <2>1, NothingShown
  <1> QED
    BY <1>1, <1>2, <1>3 DEF LoopInv

\* Bounded slots and counted keys break the loop.
LEMMA LoopFollows == LoopInv => LoopBroken
  <1> SUFFICES ASSUME LoopInv, Grant >= Window, FallbackSpan >= Window,
                      NEW k \in Keys \ excused, SlotOf(k) # NoKey
               PROVE  Total(shown[k], valve[SlotOf(k)].start, LastSecond)
                          <= Threshold + Cardinality(Guards) - 1
    BY DEF LoopBroken
  <1>1. PICK i \in Indexes : i = SlotOf(k) /\ Owned(i, k)
    BY LookupFinds DEF LoopInv, ValveInv
  <1>2. PICK s \in SlotRecords : s = valve[i]
    BY <1>1 DEF LoopInv, ValveInv, SafeguardTypeOK, Owned
  <1>3. SlotBounded(s, guard) /\ ShownIn(s, shown[k])
    BY <1>1, <1>2 DEF LoopInv, SlotsBounded, KeysCounted, KeyCounted, Owned
  <1>4. PICK late \in Nat : late = Cardinality(LateIn(guard, s.key, s.start))
    BY LateCount
  <1>5. Cardinality(Guards) \in Nat /\ s.count \in Nat /\ Threshold \in Nat
    BY LateCount, SafeguardAssumption DEF SlotRecords
  <1>6. s.count <= Threshold + Cardinality(Guards) - 1
    BY <1>3, <1>4, <1>5 DEF SlotBounded
  <1>7. Total(shown[k], s.start, LastSecond) \in Nat
    <2>1. shown[k] \in [Seconds -> Nat] /\ s.start \in Int /\ LastSecond \in Int
      BY SafeguardAssumption DEF LoopInv, ValveInv, SafeguardTypeOK, SlotRecords
    <2> QED
      BY <2>1, TotalNat
  <1> QED
    BY <1>1, <1>2, <1>3, <1>5, <1>6, <1>7 DEF ShownIn

\* No loop of challenges: a window shows a client no more than the threshold
\* and what was past the check when it was reached.
THEOREM LoopIsBroken == SafeguardSpec => []LoopBroken
  <1>1. LoopInv /\ [SafeguardNext]_safeguardVars => LoopInv'
    BY ValveStep, BoundedStep, CountedStep, SafeguardAssumption DEF LoopInv
  <1> QED
    BY <1>1, LoopInit, LoopFollows, PTL DEF SafeguardSpec

-----------------------------------------------------------------------------
(* The rings of metrics. *)

Slots == 0 .. RingSize - 1
PlaceRecords == [epoch : Epochs, count : [Counters -> Nat]]
WriterRecords == [pc : {"rest", "look", "claim", "zero", "add"}, field : Counters,
                  minute : 1 .. LastRingMinute, ring : Rings, seen : Epochs, zeroed : 0 .. 2]
Histories == [Rings -> [Epochs -> [Counters -> Nat]]]

RingTypeOK ==
    /\ clock \in 1 .. LastRingMinute
    /\ places \in [Rings -> [Slots -> PlaceRecords]]
    /\ writer \in [Writers -> WriterRecords]
    /\ events \in Nat /\ dead \in Nat
    /\ added \in Histories /\ early \in Histories
    /\ unswept \subseteq Rings \X Slots


\* A writer has a slot of a ring for an epoch, and one that zeroes it has
\* counters left to zero.
At(w, r, i) == writer[w].ring = r /\ MySlot(w) = i
ZeroesAt(w, r, i) == writer[w].pc = "zero" /\ At(w, r, i)
ToZero(w) == IF writer[w].zeroed = 0 THEN Counters ELSE {"req"}

\* A writer is within one turn of the ring of the clock.
WritersNear ==
    \A w \in Writers : writer[w].pc # "rest" =>
        writer[w].minute <= clock /\ clock < writer[w].minute + RingSize

\* A slot holds an epoch of its own, and none to come.
SlotsFit ==
    \A r \in Rings, i \in Slots : places[r][i].epoch # 0 =>
        places[r][i].epoch <= Epoch(r, clock) /\ PlaceOf(r, places[r][i].epoch) = i

\* Who zeroes a slot or adds to it has it for the epoch at hand; who is to
\* claim it finds it as it was, or claimed for that epoch; one zeroes it.
SlotsClaimed ==
    /\ \A w \in Writers :
           LET e == places[writer[w].ring][MySlot(w)].epoch IN
           /\ writer[w].pc \in {"zero", "add"} => e = MyEpoch(w)
           /\ writer[w].pc = "claim" =>
                  writer[w].seen # MyEpoch(w) /\ e \in {writer[w].seen, MyEpoch(w)}
           /\ writer[w].pc = "zero" => writer[w].zeroed \in {0, 1}
    /\ \A v, w \in Writers, r \in Rings, i \in Slots : ZeroesAt(v, r, i) /\ ZeroesAt(w, r, i) => v = w

\* An epoch something was added to has had its slot.
NothingBefore ==
    \A r \in Rings, e \in Epochs, f \in Counters :
        /\ early[r][e][f] <= added[r][e][f]
        /\ added[r][e][f] > 0 => places[r][PlaceOf(r, e)].epoch >= e

\* A counter holds what was added in its epoch, but for what was added early;
\* one that is still to be zeroed has only had such additions.
Holds(s, a, b, f) ==
    s.count[f] <= a[s.epoch][f] /\ a[s.epoch][f] <= s.count[f] + b[s.epoch][f]
SlotCounts(r, i, f) ==
    /\ \A w \in Writers : ZeroesAt(w, r, i) =>
           IF f \in ToZero(w)
           THEN added[r][places[r][i].epoch][f] <= early[r][places[r][i].epoch][f]
           ELSE Holds(places[r][i], added[r], early[r], f)
    /\ ~Zeroing(r, i) /\ <<r, i>> \notin unswept => Holds(places[r][i], added[r], early[r], f)
SlotsCount ==
    \A r \in Rings, i \in Slots, f \in Counters : places[r][i].epoch # 0 => SlotCounts(r, i, f)

RingInv ==
    RingTypeOK /\ WritersNear /\ SlotsFit /\ SlotsClaimed /\ NothingBefore /\ SlotsCount

\* Division and remainder by a positive number.
LEMMA Divides ==
    ASSUME NEW a \in Nat, NEW h \in Nat \ {0}
    PROVE  /\ a \div h \in Nat /\ h * (a \div h) <= a /\ a < h * (a \div h) + h
           /\ a % h \in 0 .. h - 1 /\ a = h * (a \div h) + (a % h)
  OBVIOUS

\* Multiples of a positive number are that number apart.
LEMMA NextMultiple ==
    ASSUME NEW h \in Nat \ {0}, NEW p \in Int, NEW q \in Int, p < q PROVE h * p + h <= h * q
  <1>1. h * (q - p) >= h
    OBVIOUS
  <1>2. h * q = h * p + h * (q - p)
    OBVIOUS
  <1>3. h * p \in Int /\ h * q \in Int /\ h * (q - p) \in Int
    OBVIOUS
  <1> QED
    BY <1>1, <1>2, <1>3

\* A later number has no lesser quotient, and one greater by at most the
\* number of steps.
LEMMA QuotientGrows ==
    ASSUME NEW h \in Nat \ {0}, NEW a \in Nat, NEW b \in Nat, a <= b
    PROVE  a \div h <= b \div h /\ (b \div h) - (a \div h) <= b - a
  <1>1. PICK p \in Nat, q \in Nat : p = a \div h /\ q = b \div h
    BY Divides
  <1>2. h * p <= a /\ a < h * p + h /\ h * q <= b /\ b < h * q + h
    BY <1>1, Divides
  <1>3. h * p \in Nat /\ h * q \in Nat
    OBVIOUS
  <1>4. p <= q
    <2> SUFFICES ASSUME q < p PROVE FALSE
      OBVIOUS
    <2>1. h * q + h <= h * p
      BY NextMultiple
    <2> QED
      BY <1>2, <1>3, <2>1
  <1>5. q - p <= b - a
    <2>1. CASE p = q
      BY <2>1
    <2>2. CASE p < q
      <3>1. h * (p + 1) + h * (q - p - 1) = h * q
        OBVIOUS
      <3>2. h * (q - p - 1) >= q - p - 1
        BY <2>2
      <3>3. h * (p + 1) = h * p + h
        OBVIOUS
      <3>4. h * (q - p - 1) \in Int
        OBVIOUS
      <3> QED
        BY <1>2, <1>3, <3>1, <3>2, <3>3, <3>4
    <2> QED
      BY <1>4, <2>1, <2>2
  <1> QED
    BY <1>1, <1>4, <1>5

\* The epoch of a minute is one of the epochs, and not 0.
LEMMA EpochSays ==
    ASSUME NEW r \in Rings, NEW m \in 1 .. LastRingMinute
    PROVE  Epoch(r, m) \in 1 .. LastRingMinute + 1 /\ Epoch(r, m) \in Epochs /\ Epoch(r, m) \in Nat \ {0}
  <1>1. m \in Nat /\ 0 <= m /\ LastRingMinute \in Nat
    BY RingAssumption
  <1>2. m \div HourMinutes \in Nat /\ 0 \div HourMinutes = 0
    BY <1>1, RingAssumption, Divides
  <1>3. (m \div HourMinutes) - (0 \div HourMinutes) <= m - 0
    BY <1>1, RingAssumption, QuotientGrows
  <1> QED
    BY <1>1, <1>2, <1>3 DEF Epoch, Epochs

\* A later minute has no earlier epoch, and no more epochs pass than minutes.
LEMMA EpochGrows ==
    ASSUME NEW r \in Rings, NEW m \in 1 .. LastRingMinute, NEW n \in 1 .. LastRingMinute, m <= n
    PROVE  Epoch(r, m) <= Epoch(r, n) /\ Epoch(r, n) - Epoch(r, m) <= n - m
  <1>1. m \in Nat /\ n \in Nat
    OBVIOUS
  <1>2. m \div HourMinutes \in Nat /\ n \div HourMinutes \in Nat
    BY <1>1, RingAssumption, Divides
  <1>3. m \div HourMinutes <= n \div HourMinutes
        /\ (n \div HourMinutes) - (m \div HourMinutes) <= n - m
    BY <1>1, RingAssumption, QuotientGrows
  <1> QED
    BY <1>1, <1>2, <1>3 DEF Epoch

\* Every epoch has a slot in the ring.
LEMMA PlaceSays == ASSUME NEW r, NEW e \in Nat PROVE PlaceOf(r, e) \in Slots
  BY RingAssumption, Divides DEF PlaceOf, Slots

\* Two epochs that share a slot are a turn of the ring apart.
LEMMA TurnApart ==
    ASSUME NEW r, NEW a \in Nat, NEW b \in Nat, a < b, PlaceOf(r, a) = PlaceOf(r, b)
    PROVE  a + RingSize <= b
  <1>1. PICK R \in Nat \ {0} : R = RingSize
    BY RingAssumption
  <1>2. PICK p \in Nat, q \in Nat : p = a \div R /\ q = b \div R
    BY Divides
  <1>3. PICK m \in 0 .. R - 1 : m = a % R /\ m = b % R
    BY <1>1, Divides DEF PlaceOf
  <1>4. a = R * p + m /\ b = R * q + m
    BY <1>2, <1>3, Divides
  <1>5. R * p \in Nat /\ R * q \in Nat
    OBVIOUS
  <1>6. p < q
    <2> SUFFICES ASSUME q <= p PROVE FALSE
      OBVIOUS
    <2>1. CASE q = p
      BY <1>4, <1>5, <2>1
    <2>2. CASE q < p
      <3>1. R * q + R <= R * p
        BY <2>2, NextMultiple
      <3> QED
        BY <1>4, <1>5, <3>1
    <2> QED
      BY <2>1, <2>2
  <1>7. R * p + R <= R * q
    BY <1>6, NextMultiple
  <1> QED
    BY <1>1, <1>4, <1>5, <1>7

\* What a writer that is at work has: an epoch within one turn of the ring of
\* the present one, and a slot.
LEMMA AtWork ==
    ASSUME RingTypeOK, WritersNear, NEW w \in Writers, writer[w].pc # "rest"
    PROVE  /\ writer[w].ring \in Rings /\ MyEpoch(w) \in Epochs /\ MyEpoch(w) \in Nat \ {0}
           /\ MySlot(w) \in Slots
           /\ MyEpoch(w) <= Epoch(writer[w].ring, clock)
           /\ Epoch(writer[w].ring, clock) < MyEpoch(w) + RingSize
  <1>1. /\ writer[w].ring \in Rings /\ writer[w].minute \in 1 .. LastRingMinute
        /\ clock \in 1 .. LastRingMinute
    BY DEF RingTypeOK, WriterRecords
  <1>2. writer[w].minute <= clock /\ clock < writer[w].minute + RingSize
    BY DEF WritersNear
  <1>3. PICK r \in Rings, m \in 1 .. LastRingMinute : r = writer[w].ring /\ m = writer[w].minute
    BY <1>1
  <1>4. Epoch(r, m) <= Epoch(r, clock) /\ Epoch(r, clock) - Epoch(r, m) <= clock - m
    BY <1>1, <1>2, <1>3, EpochGrows
  <1>5. Epoch(r, m) \in Nat \ {0} /\ Epoch(r, m) \in Epochs /\ Epoch(r, clock) \in Nat
    BY <1>1, EpochSays
  <1>6. PlaceOf(r, Epoch(r, m)) \in Slots
    BY <1>5, PlaceSays
  <1>7. clock - m < RingSize /\ RingSize \in Nat
    BY <1>1, <1>2, <1>3, RingAssumption
  <1>8. MyEpoch(w) = Epoch(r, m) /\ MySlot(w) = PlaceOf(r, Epoch(r, m))
    BY <1>3 DEF MyEpoch, MySlot, Held
  <1>9. PICK a \in Nat \ {0}, b \in Nat : a = Epoch(r, m) /\ b = Epoch(r, clock)
    BY <1>5
  <1>10. a <= b /\ b < a + RingSize
    BY <1>1, <1>3, <1>4, <1>7, <1>9
  <1> QED
    BY <1>1, <1>3, <1>5, <1>6, <1>8, <1>9, <1>10

\* Two writers at work on one slot have the same epoch.
LEMMA SameEpoch ==
    ASSUME RingTypeOK, WritersNear, NEW v \in Writers, NEW w \in Writers,
           writer[v].pc # "rest", writer[w].pc # "rest",
           writer[v].ring = writer[w].ring, MySlot(v) = MySlot(w)
    PROVE  MyEpoch(v) = MyEpoch(w)
  <1>1. PICK r \in Rings, a \in Nat, b \in Nat, now \in Nat :
            /\ r = writer[v].ring /\ a = MyEpoch(v) /\ b = MyEpoch(w) /\ now = Epoch(r, clock)
    <2>1. clock \in 1 .. LastRingMinute
      BY DEF RingTypeOK
    <2>2. writer[v].ring \in Rings /\ Epoch(writer[v].ring, clock) \in Nat
      BY <2>1, AtWork, EpochSays
    <2> QED
      BY <2>2, AtWork, Zenon
  <1>2. a <= now /\ now < a + RingSize /\ b <= now /\ now < b + RingSize
    BY <1>1, AtWork
  <1>3. PlaceOf(r, a) = PlaceOf(r, b)
    BY <1>1 DEF MySlot, Held
  <1>4. ~(a < b) /\ ~(b < a)
    BY <1>2, <1>3, TurnApart, RingAssumption
  <1> QED
    BY <1>1, <1>4

\* The slot of a writer at work holds its epoch or one before it.
LEMMA SlotNoLater ==
    ASSUME RingTypeOK, WritersNear, SlotsFit, NEW w \in Writers, writer[w].pc # "rest"
    PROVE  places[writer[w].ring][MySlot(w)].epoch <= MyEpoch(w)
  <1>1. PICK r \in Rings, i \in Slots : r = writer[w].ring /\ i = MySlot(w)
    BY AtWork
  <1>2. PICK e \in Nat, now \in Nat, s \in Nat :
            e = MyEpoch(w) /\ now = Epoch(r, clock) /\ s = places[r][i].epoch
    <2>1. clock \in 1 .. LastRingMinute /\ places[r][i] \in PlaceRecords
      BY DEF RingTypeOK
    <2>2. Epoch(r, clock) \in Nat /\ places[r][i].epoch \in Nat /\ MyEpoch(w) \in Nat
      BY <2>1, AtWork, EpochSays DEF PlaceRecords, Epochs
    <2> QED
      BY <2>2, Zenon
  <1>3. e <= now /\ now < e + RingSize /\ PlaceOf(r, e) = i
    BY <1>1, <1>2, AtWork DEF MySlot, Held
  <1>4. s # 0 => s <= now /\ PlaceOf(r, s) = i
    BY <1>2 DEF SlotsFit
  <1>5. ~(e < s)
    BY <1>3, <1>4, TurnApart, RingAssumption
  <1> QED
    BY <1>1, <1>2, <1>5

\* What an action changes: one writer, and nothing of the others.
OthersStay(w) ==
    /\ writer' \in [Writers -> WriterRecords]
    /\ \A v \in Writers : v # w => writer'[v] = writer[v]
Stays(w) ==
    /\ writer'[w].ring = writer[w].ring /\ writer'[w].minute = writer[w].minute
    /\ writer'[w].field = writer[w].field

\* A writer with the same ring and minute has the same epoch and slot.
LEMMA StaysPut ==
    ASSUME NEW v, writer'[v].ring = writer[v].ring, writer'[v].minute = writer[v].minute
    PROVE  MyEpoch(v)' = MyEpoch(v) /\ MySlot(v)' = MySlot(v)
  BY DEF MyEpoch, MySlot, Held

\* A writer that does not change has what it had.
LEMMA OthersPut ==
    ASSUME NEW v, writer'[v] = writer[v]
    PROVE  /\ MyEpoch(v)' = MyEpoch(v) /\ MySlot(v)' = MySlot(v) /\ ToZero(v)' = ToZero(v)
           /\ \A r, i : ZeroesAt(v, r, i)' <=> ZeroesAt(v, r, i)
  BY DEF MyEpoch, MySlot, Held, ToZero, ZeroesAt, At

\* Zeroing, as seen by those who zero.
LEMMA ZeroingSays ==
    ASSUME NEW r, NEW i
    PROVE  /\ Zeroing(r, i) <=> \E v \in Writers : ZeroesAt(v, r, i)
           /\ Zeroing(r, i)' <=> \E v \in Writers : ZeroesAt(v, r, i)'
  BY DEF Zeroing, ZeroesAt, At, Held

\* A writer that neither zeroed nor zeroes leaves what is zeroed.
LEMMA NobodyZeroes ==
    ASSUME NEW w \in Writers, OthersStay(w), writer[w].pc # "zero", writer'[w].pc # "zero"
    PROVE  /\ \A v \in Writers, r \in Rings, i \in Slots :
                  ZeroesAt(v, r, i)' => v # w /\ ZeroesAt(v, r, i) /\ ToZero(v)' = ToZero(v)
           /\ \A r \in Rings, i \in Slots : Zeroing(r, i)' <=> Zeroing(r, i)
  <1>1. \A r, i : ~ZeroesAt(w, r, i)' /\ ~ZeroesAt(w, r, i)
    BY DEF ZeroesAt
  <1>2. \A v \in Writers : v # w =>
            /\ ToZero(v)' = ToZero(v)
            /\ \A r, i : ZeroesAt(v, r, i)' <=> ZeroesAt(v, r, i)
    BY OthersPut DEF OthersStay
  <1>3. ASSUME NEW r \in Rings, NEW i \in Slots PROVE Zeroing(r, i)' <=> Zeroing(r, i)
    BY <1>1, <1>2, ZeroingSays
  <1> QED
    BY <1>1, <1>2, <1>3

\* A step of one writer that leaves the slots and the histories, and neither
\* starts nor ends to zero.
LEMMA QuietKeeps ==
    ASSUME RingInv, NEW w \in Writers, OthersStay(w), events' \in Nat,
           UNCHANGED <<clock, places, dead, added, early, unswept>>,
           writer[w].pc # "zero", writer'[w].pc # "zero",
           writer'[w].pc # "rest" =>
               writer'[w].minute <= clock /\ clock < writer'[w].minute + RingSize,
           writer'[w].pc = "add" => places[writer'[w].ring][MySlot(w)'].epoch = MyEpoch(w)',
           writer'[w].pc = "claim" =>
               /\ writer'[w].seen # MyEpoch(w)'
               /\ places[writer'[w].ring][MySlot(w)'].epoch \in {writer'[w].seen, MyEpoch(w)'}
    PROVE  RingInv'
  <1>0. RingTypeOK /\ WritersNear /\ SlotsFit /\ SlotsClaimed /\ NothingBefore /\ SlotsCount
    BY DEF RingInv
  <1>1. RingTypeOK'
    BY <1>0 DEF RingTypeOK, OthersStay
  <1>2. WritersNear'
    BY <1>0 DEF WritersNear, OthersStay
  <1>3. SlotsFit' /\ NothingBefore'
    BY <1>0 DEF SlotsFit, NothingBefore
  <1>4. SlotsClaimed'
    <2>1. ASSUME NEW v \in Writers
          PROVE  LET e == places[writer'[v].ring][MySlot(v)'].epoch IN
                 /\ writer'[v].pc \in {"zero", "add"} => e = MyEpoch(v)'
                 /\ writer'[v].pc = "claim" =>
                        writer'[v].seen # MyEpoch(v)' /\ e \in {writer'[v].seen, MyEpoch(v)'}
                 /\ writer'[v].pc = "zero" => writer'[v].zeroed \in {0, 1}
      <3>1. CASE v = w
        BY <3>1
      <3>2. CASE v # w
        <4>1. writer'[v] = writer[v] /\ MyEpoch(v)' = MyEpoch(v) /\ MySlot(v)' = MySlot(v)
          BY <3>2, OthersPut DEF OthersStay
        <4> QED
          BY <1>0, <4>1 DEF SlotsClaimed
      <3> QED
        BY <3>1, <3>2
    <2>2. ASSUME NEW v \in Writers, NEW x \in Writers, NEW r \in Rings, NEW i \in Slots,
                 ZeroesAt(v, r, i)', ZeroesAt(x, r, i)'
          PROVE  v = x
      <3>1. ZeroesAt(v, r, i) /\ ZeroesAt(x, r, i)
        BY <2>2, NobodyZeroes
      <3> QED
        BY <1>0, <3>1 DEF SlotsClaimed
    <2> QED
      BY <2>1, <2>2 DEF SlotsClaimed
  <1>5. SlotsCount'
    <2> SUFFICES ASSUME NEW r \in Rings, NEW i \in Slots, NEW f \in Counters, places[r][i].epoch # 0
                 PROVE  SlotCounts(r, i, f)'
      BY DEF SlotsCount
    <2>1. SlotCounts(r, i, f)
      BY <1>0 DEF SlotsCount
    <2>2. \A v \in Writers : ZeroesAt(v, r, i)' => ZeroesAt(v, r, i) /\ ToZero(v)' = ToZero(v)
      BY NobodyZeroes
    <2>3. Zeroing(r, i)' <=> Zeroing(r, i)
      BY NobodyZeroes
    <2> QED
      BY <2>1, <2>2, <2>3 DEF SlotCounts, Holds
  <1> QED
    BY <1>1, <1>2, <1>3, <1>4, <1>5 DEF RingInv

\* A request comes to be counted.
LEMMA CountKeeps == ASSUME RingInv, NEW w \in Writers, Count(w) PROVE RingInv'
  <1>0. RingTypeOK
    BY DEF RingInv
  <1>1. PICK f \in Counters :
            writer' = [writer EXCEPT ![w] = [Resting EXCEPT !.pc = "look", !.field = f, !.minute = clock]]
    BY DEF Count
  <1>2. PICK x : x = [Resting EXCEPT !.pc = "look", !.field = f, !.minute = clock]
    OBVIOUS
  <1>3. x \in WriterRecords /\ x.pc = "look" /\ x.minute = clock
    <2>1. x = [pc |-> "look", field |-> f, minute |-> clock, ring |-> "min", seen |-> 0, zeroed |-> 0]
      BY <1>2 DEF Resting
    <2>2. clock \in 1 .. LastRingMinute /\ 0 \in Epochs /\ "min" \in Rings
      BY <1>0, RingAssumption DEF RingTypeOK, Rings, Epochs
    <2> QED
      BY <2>1, <2>2 DEF WriterRecords
  <1>4. OthersStay(w) /\ writer'[w] = x
    BY <1>0, <1>1, <1>2, <1>3 DEF OthersStay, RingTypeOK
  <1>5. clock \in Nat /\ clock < clock + RingSize
    BY <1>0, RingAssumption DEF RingTypeOK
  <1>6. writer[w].pc = "rest" /\ events' \in Nat /\ UNCHANGED <<clock, places, dead, added, early, unswept>>
    BY <1>0 DEF Count, Held, RingTypeOK
  <1> QED
    BY <1>3, <1>4, <1>5, <1>6, QuietKeeps

\* A writer finds the slot its own, or has to claim it.
LEMMA LookKeeps == ASSUME RingInv, NEW w \in Writers, Look(w) PROVE RingInv'
  <1>0. RingTypeOK /\ WritersNear
    BY DEF RingInv
  <1>1. PICK e : e = places[writer[w].ring][MySlot(w)].epoch
    OBVIOUS
  <1>2. PICK pc : pc = IF e = MyEpoch(w) THEN "add" ELSE "claim"
    OBVIOUS
  <1>3. writer[w].pc = "look" /\ UNCHANGED <<clock, places, events, dead, added, early, unswept>>
    BY DEF Look, Held
  <1>4. e \in Epochs
    BY <1>0, <1>1, <1>3, AtWork DEF RingTypeOK, PlaceRecords
  <1>5. OthersStay(w) /\ Stays(w) /\ writer'[w].seen = e /\ writer'[w].pc = pc
    BY SMTT(30), <1>0, <1>1, <1>2, <1>4 DEF Look, Held, OthersStay, Stays, RingTypeOK, WriterRecords
  <1>6. MyEpoch(w)' = MyEpoch(w) /\ MySlot(w)' = MySlot(w)
    BY <1>5, StaysPut DEF Stays
  <1>7. writer[w].minute <= clock /\ clock < writer[w].minute + RingSize
    BY <1>0, <1>3 DEF WritersNear
  <1>8. events' \in Nat
    BY <1>0, <1>3 DEF RingTypeOK
  <1> QED
    BY <1>1, <1>2, <1>3, <1>5, <1>6, <1>7, <1>8, QuietKeeps DEF Stays

\* A writer goes on in its work on a slot.
LEMMA WriterGoesOn ==
    ASSUME RingTypeOK, NEW w \in Writers, NEW pc \in {"rest", "look", "claim", "zero", "add"},
           NEW n \in 0 .. 2, writer' = [writer EXCEPT ![w].pc = pc, ![w].zeroed = n]
    PROVE  OthersStay(w) /\ Stays(w) /\ writer'[w].pc = pc /\ writer'[w].zeroed = n
  <1>1. PICK y \in WriterRecords : y = writer[w]
    BY DEF RingTypeOK
  <1>2. PICK z : z = [y EXCEPT !.pc = pc]
    OBVIOUS
  <1>3. z \in WriterRecords /\ z.pc = pc /\ z.ring = y.ring /\ z.minute = y.minute /\ z.field = y.field
    BY <1>2 DEF WriterRecords
  <1>4. PICK x : x = [z EXCEPT !.zeroed = n]
    OBVIOUS
  <1>5. /\ x \in WriterRecords /\ x.pc = pc /\ x.zeroed = n
        /\ x.ring = y.ring /\ x.minute = y.minute /\ x.field = y.field
    BY <1>3, <1>4 DEF WriterRecords
  <1>6. writer' = [writer EXCEPT ![w] = x]
    BY <1>1, <1>2, <1>4
  <1> QED
    BY <1>1, <1>5, <1>6 DEF OthersStay, Stays, RingTypeOK

\* A claim that comes too late finds the slot claimed for its own epoch.
LEMMA ClaimLostKeeps ==
    ASSUME RingInv, NEW w \in Writers, Claim(w),
           places[writer[w].ring][MySlot(w)].epoch # writer[w].seen
    PROVE  RingInv'
  <1>0. RingTypeOK /\ WritersNear /\ SlotsClaimed
    BY DEF RingInv
  <1>1. writer[w].pc = "claim" /\ UNCHANGED <<clock, places, events, dead, added, early, unswept>>
    BY DEF Claim, Held
  <1>2. OthersStay(w) /\ Stays(w) /\ writer'[w].pc = "add"
    <2>1. writer' = [writer EXCEPT ![w].pc = "add", ![w].zeroed = 0]
      BY DEF Claim, Held
    <2>2. "add" \in {"rest", "look", "claim", "zero", "add"} /\ 0 \in 0 .. 2
      OBVIOUS
    <2> QED
      BY <1>0, <2>1, <2>2, WriterGoesOn, Zenon
  <1>3. MyEpoch(w)' = MyEpoch(w) /\ MySlot(w)' = MySlot(w)
    BY <1>2, StaysPut DEF Stays
  <1>4. places[writer[w].ring][MySlot(w)].epoch = MyEpoch(w)
    BY <1>0, <1>1 DEF SlotsClaimed
  <1>5. writer[w].minute <= clock /\ clock < writer[w].minute + RingSize
    BY <1>0, <1>1 DEF WritersNear
  <1>6. events' \in Nat
    BY <1>0, <1>1 DEF RingTypeOK
  <1> QED
    BY <1>1, <1>2, <1>3, <1>4, <1>5, <1>6, QuietKeeps DEF Stays

\* Who wins a claim has a slot in which nothing of its epoch is counted, and
\* nobody else is at work there who has claimed it.
LEMMA ClaimFresh ==
    ASSUME RingInv, NEW w \in Writers, writer[w].pc = "claim",
           NEW r \in Rings, NEW i \in Slots, r = writer[w].ring, i = MySlot(w),
           places[r][i].epoch = writer[w].seen
    PROVE  /\ places[r][i].epoch < MyEpoch(w)
           /\ \A f \in Counters : added[r][MyEpoch(w)][f] = 0 /\ early[r][MyEpoch(w)][f] = 0
           /\ \A v \in Writers : writer[v].pc \in {"zero", "add"} => ~At(v, r, i)
  <1>0. RingTypeOK /\ WritersNear /\ SlotsFit /\ SlotsClaimed /\ NothingBefore
    BY DEF RingInv
  <1>1. PICK e \in Epochs, s \in Epochs : e = MyEpoch(w) /\ s = places[r][i].epoch
    BY <1>0, AtWork, Zenon DEF RingTypeOK, PlaceRecords
  <1>2. e \in Nat /\ s \in Nat
    BY DEF Epochs
  <1>3. s <= e
    BY <1>0, <1>1, SlotNoLater
  <1>4. s # e
    BY <1>0, <1>1 DEF SlotsClaimed
  <1>5. s < e
    BY <1>2, <1>3, <1>4
  <1>6. PlaceOf(r, e) = i
    BY <1>1 DEF MySlot, Held
  <1>7. ASSUME NEW f \in Counters PROVE added[r][e][f] = 0 /\ early[r][e][f] = 0
    <2>1. added[r][e][f] \in Nat /\ early[r][e][f] \in Nat
      BY <1>0 DEF RingTypeOK, Histories
    <2>2. added[r][e][f] > 0 => s >= e
      BY <1>0, <1>1, <1>6 DEF NothingBefore
    <2>3. early[r][e][f] <= added[r][e][f]
      BY <1>0 DEF NothingBefore
    <2> QED
      BY <1>2, <1>5, <2>1, <2>2, <2>3
  <1>8. ASSUME NEW v \in Writers, writer[v].pc \in {"zero", "add"}, At(v, r, i) PROVE FALSE
    <2>1. MyEpoch(v) = s
      BY <1>0, <1>1, <1>8 DEF SlotsClaimed, At
    <2>2. MyEpoch(v) = e
      BY <1>0, <1>1, <1>8, SameEpoch DEF At
    <2> QED
      BY <1>4, <2>1, <2>2
  <1> QED
    BY <1>1, <1>5, <1>7, <1>8

\* The winner of a claim has a slot of its epoch, of which nothing is zeroed.
LEMMA ClaimWonKeeps ==
    ASSUME RingInv, NEW w \in Writers, Claim(w),
           places[writer[w].ring][MySlot(w)].epoch = writer[w].seen
    PROVE  RingInv'
  <1>0. RingTypeOK /\ WritersNear /\ SlotsFit /\ SlotsClaimed /\ NothingBefore /\ SlotsCount
    BY DEF RingInv
  <1>1. writer[w].pc = "claim" /\ UNCHANGED <<clock, events, dead, added, early, unswept>>
    BY DEF Claim, Held
  <1>2. PICK r \in Rings, i \in Slots, e \in Epochs :
            r = writer[w].ring /\ i = MySlot(w) /\ e = MyEpoch(w)
    BY <1>0, <1>1, AtWork, Zenon
  <1>3. e \in Nat \ {0} /\ e <= Epoch(r, clock) /\ PlaceOf(r, e) = i
    BY <1>0, <1>1, <1>2, AtWork DEF MySlot, Held
  <1>4. OthersStay(w) /\ Stays(w) /\ writer'[w].pc = "zero" /\ writer'[w].zeroed = 0
    <2>1. writer' = [writer EXCEPT ![w].pc = "zero", ![w].zeroed = 0]
      BY DEF Claim, Held
    <2>2. "zero" \in {"rest", "look", "claim", "zero", "add"} /\ 0 \in 0 .. 2
      OBVIOUS
    <2> QED
      BY <1>0, <2>1, <2>2, WriterGoesOn, Zenon
  <1>5. MyEpoch(w)' = e /\ MySlot(w)' = i /\ writer'[w].ring = r /\ ToZero(w)' = Counters
    BY <1>2, <1>4, StaysPut DEF Stays, ToZero
  <1>6. /\ places' \in [Rings -> [Slots -> PlaceRecords]]
        /\ places'[r][i].epoch = e /\ places'[r][i].count = places[r][i].count
        /\ \A q \in Rings, j \in Slots : ~(q = r /\ j = i) => places'[q][j] = places[q][j]
    <2>1. PICK row \in [Slots -> PlaceRecords] : row = places[r]
      BY <1>0 DEF RingTypeOK
    <2>2. PICK x : x = [row[i] EXCEPT !.epoch = e]
      OBVIOUS
    <2>3. x \in PlaceRecords /\ x.epoch = e /\ x.count = row[i].count
      BY <2>2 DEF PlaceRecords
    <2>4. places' = [places EXCEPT ![r] = [row EXCEPT ![i] = x]]
      BY <1>2, <2>1, <2>2 DEF Claim, Held
    <2> QED
      BY <1>0, <2>1, <2>3, <2>4 DEF RingTypeOK
  <1>7. /\ places[r][i].epoch < e
        /\ \A f \in Counters : added[r][e][f] = 0 /\ early[r][e][f] = 0
        /\ \A v \in Writers : writer[v].pc \in {"zero", "add"} => ~At(v, r, i)
    BY <1>1, <1>2, ClaimFresh
  <1>8. places[r][i].epoch \in Nat
    BY <1>0 DEF RingTypeOK, PlaceRecords, Epochs
  <1>9. RingTypeOK'
    BY <1>0, <1>1, <1>4, <1>6 DEF RingTypeOK, OthersStay
  <1>10. WritersNear'
    BY <1>0, <1>1, <1>4 DEF WritersNear, OthersStay, Stays
  <1>11. SlotsFit'
    BY <1>0, <1>1, <1>3, <1>6 DEF SlotsFit
  <1>12. NothingBefore'
    <2> SUFFICES ASSUME NEW q \in Rings, NEW d \in Epochs, NEW f \in Counters, added[q][d][f] > 0
                 PROVE  places'[q][PlaceOf(q, d)].epoch >= d
      BY <1>0, <1>1 DEF NothingBefore
    <2>1. places[q][PlaceOf(q, d)].epoch >= d
      BY <1>0 DEF NothingBefore
    <2>2. d \in Nat /\ PlaceOf(q, d) \in Slots
      BY PlaceSays DEF Epochs
    <2>3. CASE q = r /\ PlaceOf(q, d) = i
      BY <1>3, <1>6, <1>7, <1>8, <2>1, <2>2, <2>3
    <2>4. CASE ~(q = r /\ PlaceOf(q, d) = i)
      BY <1>6, <2>1, <2>2, <2>4
    <2> QED
      BY <2>3, <2>4
  <1>13. \A v \in Writers : v # w =>
            /\ writer'[v] = writer[v] /\ MyEpoch(v)' = MyEpoch(v) /\ MySlot(v)' = MySlot(v)
            /\ ToZero(v)' = ToZero(v) /\ \A q, j : ZeroesAt(v, q, j)' <=> ZeroesAt(v, q, j)
    BY <1>4, OthersPut DEF OthersStay
  <1>14. \A q \in Rings, j \in Slots : ZeroesAt(w, q, j)' <=> q = r /\ j = i
    BY <1>4, <1>5 DEF ZeroesAt, At
  <1>15. \A v \in Writers : ZeroesAt(v, r, i)' => v = w
    BY <1>7, <1>13 DEF ZeroesAt
  <1>16. SlotsClaimed'
    <2>1. ASSUME NEW v \in Writers
          PROVE  LET d == places'[writer'[v].ring][MySlot(v)'].epoch IN
                 /\ writer'[v].pc \in {"zero", "add"} => d = MyEpoch(v)'
                 /\ writer'[v].pc = "claim" =>
                        writer'[v].seen # MyEpoch(v)' /\ d \in {writer'[v].seen, MyEpoch(v)'}
                 /\ writer'[v].pc = "zero" => writer'[v].zeroed \in {0, 1}
      <3>1. CASE v = w
        BY <1>4, <1>5, <1>6, <3>1
      <3>2. CASE v # w /\ At(v, r, i) /\ writer[v].pc = "claim"
        <4>1. MyEpoch(v) = e
          BY <1>0, <1>1, <1>2, <3>2, SameEpoch DEF At
        <4>2. writer[v].seen # MyEpoch(v)
          BY <1>0, <3>2 DEF SlotsClaimed
        <4>3. writer'[v].ring = r /\ MySlot(v)' = i
          BY <1>13, <3>2 DEF At
        <4> QED
          BY <1>6, <1>13, <3>2, <4>1, <4>2, <4>3
      <3>3. CASE v # w /\ ~At(v, r, i) /\ writer[v].pc \in {"claim", "zero", "add"}
        <4>1. writer[v].ring \in Rings /\ MySlot(v) \in Slots
          BY <1>0, <3>3, AtWork
        <4>2. places'[writer[v].ring][MySlot(v)] = places[writer[v].ring][MySlot(v)]
          BY <1>6, <3>3, <4>1 DEF At
        <4>3. writer'[v] = writer[v] /\ MyEpoch(v)' = MyEpoch(v) /\ MySlot(v)' = MySlot(v)
          BY <1>13, <3>3
        <4> QED
          BY <1>0, <4>2, <4>3 DEF SlotsClaimed
      <3>4. CASE v # w /\ At(v, r, i) /\ writer[v].pc \in {"zero", "add"}
        BY <1>7, <3>4
      <3>5. CASE v # w /\ writer[v].pc \notin {"claim", "zero", "add"}
        BY <1>13, <3>5
      <3> QED
        BY <3>1, <3>2, <3>3, <3>4, <3>5
    <2>2. ASSUME NEW v \in Writers, NEW x \in Writers, NEW q \in Rings, NEW j \in Slots,
                 ZeroesAt(v, q, j)', ZeroesAt(x, q, j)'
          PROVE  v = x
      <3>1. CASE q = r /\ j = i
        BY <1>15, <2>2, <3>1
      <3>2. CASE ~(q = r /\ j = i)
        BY <1>0, <1>13, <1>14, <2>2, <3>2 DEF SlotsClaimed
      <3> QED
        BY <3>1, <3>2
    <2> QED
      BY <2>1, <2>2 DEF SlotsClaimed
  <1>17. SlotsCount'
    <2> SUFFICES ASSUME NEW q \in Rings, NEW j \in Slots, NEW f \in Counters, places'[q][j].epoch # 0
                 PROVE  SlotCounts(q, j, f)'
      BY DEF SlotsCount
    <2>1. CASE q = r /\ j = i
      <3>1. Zeroing(q, j)'
        BY <1>14, <2>1, ZeroingSays
      <3>2. added[q][places'[q][j].epoch][f] = 0 /\ early[q][places'[q][j].epoch][f] = 0
        BY <1>6, <1>7, <2>1
      <3> QED
        BY <1>1, <1>5, <1>15, <2>1, <3>1, <3>2 DEF SlotCounts
    <2>2. CASE ~(q = r /\ j = i)
      <3>1. places'[q][j] = places[q][j]
        BY <1>6, <2>2
      <3>2. \A v \in Writers : ZeroesAt(v, q, j)' => ZeroesAt(v, q, j) /\ ToZero(v)' = ToZero(v)
        BY <1>13, <1>14, <2>2
      <3>3. \A v \in Writers : ZeroesAt(v, q, j) => ZeroesAt(v, q, j)'
        BY <1>1, <1>13, <2>2 DEF ZeroesAt
      <3>4. Zeroing(q, j)' <=> Zeroing(q, j)
        BY <3>2, <3>3, ZeroingSays
      <3>5. SlotCounts(q, j, f)
        BY <1>0, <3>1 DEF SlotsCount
      <3> QED
        BY <1>1, <3>1, <3>2, <3>4, <3>5 DEF SlotCounts, Holds
    <2> QED
      BY <2>1, <2>2
  <1> QED
    BY <1>9, <1>10, <1>11, <1>12, <1>16, <1>17 DEF RingInv

\* A counter of a slot changes, nothing else of the slots.
CounterSet(r, i, g, c) ==
    /\ places' \in [Rings -> [Slots -> PlaceRecords]]
    /\ \A q \in Rings, j \in Slots : places'[q][j].epoch = places[q][j].epoch
    /\ places'[r][i].count[g] = c
    /\ \A f \in Counters : f # g => places'[r][i].count[f] = places[r][i].count[f]
    /\ \A q \in Rings, j \in Slots : ~(q = r /\ j = i) => places'[q][j] = places[q][j]

\* One counter of one slot is written.
LEMMA CounterBecomes ==
    ASSUME RingTypeOK, NEW r \in Rings, NEW i \in Slots, NEW g \in Counters, NEW c \in Nat,
           places' = [places EXCEPT ![r][i].count[g] = c]
    PROVE  CounterSet(r, i, g, c)
  <1>1. PICK row \in [Slots -> PlaceRecords] : row = places[r]
    BY DEF RingTypeOK
  <1>2. PICK y \in PlaceRecords : y = row[i]
    OBVIOUS
  <1>3. PICK t \in [Counters -> Nat] : t = y.count
    BY DEF PlaceRecords
  <1>4. PICK u \in [Counters -> Nat] : u = [t EXCEPT ![g] = c]
    OBVIOUS
  <1>5. PICK x : x = [y EXCEPT !.count = u]
    OBVIOUS
  <1>6. x \in PlaceRecords /\ x.epoch = y.epoch /\ x.count = u
    BY <1>5 DEF PlaceRecords
  <1>7. PICK z : z = [row EXCEPT ![i] = x]
    OBVIOUS
  <1>8. /\ places' \in [Rings -> [Slots -> PlaceRecords]] /\ places'[r][i] = x
        /\ \A q \in Rings, j \in Slots : ~(q = r /\ j = i) => places'[q][j] = places[q][j]
    <2>1. z \in [Slots -> PlaceRecords] /\ z[i] = x /\ \A j \in Slots : j # i => z[j] = row[j]
      BY <1>6, <1>7
    <2>2. places' = [places EXCEPT ![r] = z]
      BY <1>1, <1>2, <1>3, <1>4, <1>5, <1>7
    <2>3. places'[r] = z /\ \A q \in Rings : q # r => places'[q] = places[q]
      BY <2>2 DEF RingTypeOK
    <2>4. places' \in [Rings -> [Slots -> PlaceRecords]]
      BY <2>1, <2>2 DEF RingTypeOK
    <2> QED
      BY <1>1, <2>1, <2>3, <2>4
  <1>9. u[g] = c /\ \A f \in Counters : f # g => u[f] = t[f]
    BY <1>4
  <1>10. places[r][i] = y
    BY <1>1, <1>2
  <1> QED
    BY <1>3, <1>6, <1>8, <1>9, <1>10 DEF CounterSet

\* One more addition in a history.
OneMoreIn(b, a, r, e, g) ==
    /\ b \in Histories /\ b[r][e][g] = a[r][e][g] + 1
    /\ \A q \in Rings, d \in Epochs, f \in Counters :
           ~(q = r /\ d = e /\ f = g) => b[q][d][f] = a[q][d][f]

\* What a history is when one addition is recorded.
LEMMA HistoryAdds ==
    ASSUME NEW a \in Histories, NEW r \in Rings, NEW e \in Epochs, NEW g \in Counters, NEW b,
           b = [a EXCEPT ![r][e][g] = a[r][e][g] + 1]
    PROVE  OneMoreIn(b, a, r, e, g)
  <1>1. PICK row \in [Epochs -> [Counters -> Nat]] : row = a[r]
    BY DEF Histories
  <1>2. PICK t \in [Counters -> Nat] : t = row[e]
    OBVIOUS
  <1>3. PICK u \in [Counters -> Nat] : u = [t EXCEPT ![g] = t[g] + 1]
    <2>1. PICK c \in Nat : c = t[g] + 1
      OBVIOUS
    <2>2. [t EXCEPT ![g] = c] \in [Counters -> Nat]
      OBVIOUS
    <2> QED
      BY <2>1, <2>2
  <1>4. b = [a EXCEPT ![r] = [row EXCEPT ![e] = u]]
    BY <1>1, <1>2, <1>3
  <1>5. b \in Histories /\ b[r][e] = u
        /\ \A q \in Rings, d \in Epochs : ~(q = r /\ d = e) => b[q][d] = a[q][d]
    BY <1>1, <1>4 DEF Histories
  <1>6. a[r][e] = t
    BY <1>1, <1>2
  <1>7. u[g] = t[g] + 1 /\ \A f \in Counters : f # g => u[f] = t[f]
    BY <1>3
  <1> QED
    BY <1>2, <1>5, <1>6, <1>7 DEF OneMoreIn

\* A step of one writer that leaves every slot its epoch, and claims none.
LEMMA WorkKeepsClaims ==
    ASSUME RingInv, NEW w \in Writers, OthersStay(w),
           \A q \in Rings, j \in Slots : places'[q][j].epoch = places[q][j].epoch,
           writer'[w].pc = "zero" => Stays(w) /\ writer[w].pc = "zero" /\ writer'[w].zeroed \in {0, 1},
           writer'[w].pc = "add" => Stays(w) /\ writer[w].pc = "zero",
           writer'[w].pc # "claim"
    PROVE  /\ SlotsClaimed'
           /\ \A v \in Writers, q \in Rings, j \in Slots :
                  /\ ZeroesAt(v, q, j)' => ZeroesAt(v, q, j)
                  /\ v # w => (ZeroesAt(v, q, j) => ZeroesAt(v, q, j)') /\ ToZero(v)' = ToZero(v)
  <1>0. RingTypeOK /\ WritersNear /\ SlotsClaimed
    BY DEF RingInv
  <1>1. \A v \in Writers : v # w =>
            /\ writer'[v] = writer[v] /\ MyEpoch(v)' = MyEpoch(v) /\ MySlot(v)' = MySlot(v)
            /\ ToZero(v)' = ToZero(v) /\ \A q, j : ZeroesAt(v, q, j)' <=> ZeroesAt(v, q, j)
    BY OthersPut DEF OthersStay
  <1>2. ASSUME NEW q \in Rings, NEW j \in Slots, ZeroesAt(w, q, j)' PROVE ZeroesAt(w, q, j)
    <2>1. Stays(w) /\ writer[w].pc = "zero"
      BY <1>2 DEF ZeroesAt
    <2>2. MySlot(w)' = MySlot(w)
      BY <2>1, StaysPut DEF Stays
    <2> QED
      BY <1>2, <2>1, <2>2 DEF ZeroesAt, At, Stays
  <1>3. \A v \in Writers, q \in Rings, j \in Slots : ZeroesAt(v, q, j)' => ZeroesAt(v, q, j)
    BY <1>1, <1>2
  <1>4. ASSUME NEW v \in Writers
        PROVE  LET d == places'[writer'[v].ring][MySlot(v)'].epoch IN
               /\ writer'[v].pc \in {"zero", "add"} => d = MyEpoch(v)'
               /\ writer'[v].pc = "claim" =>
                      writer'[v].seen # MyEpoch(v)' /\ d \in {writer'[v].seen, MyEpoch(v)'}
               /\ writer'[v].pc = "zero" => writer'[v].zeroed \in {0, 1}
    <2>1. CASE v = w /\ writer'[v].pc \in {"zero", "add"}
      <3>1. Stays(w) /\ writer[w].pc = "zero"
        BY <2>1
      <3>2. MyEpoch(w)' = MyEpoch(w) /\ MySlot(w)' = MySlot(w) /\ writer'[w].ring = writer[w].ring
        BY <3>1, StaysPut DEF Stays
      <3>3. writer[w].ring \in Rings /\ MySlot(w) \in Slots
        BY <1>0, <3>1, AtWork
      <3> QED
        BY <1>0, <2>1, <3>1, <3>2, <3>3 DEF SlotsClaimed
    <2>2. CASE v = w /\ writer'[v].pc \notin {"zero", "add"}
      BY <2>2
    <2>3. CASE v # w /\ writer[v].pc \in {"zero", "add", "claim"}
      <3>1. writer[v].ring \in Rings /\ MySlot(v) \in Slots
        BY <1>0, <2>3, AtWork
      <3>2. writer'[v] = writer[v] /\ MyEpoch(v)' = MyEpoch(v) /\ MySlot(v)' = MySlot(v)
        BY <1>1, <2>3
      <3> QED
        BY <1>0, <3>1, <3>2 DEF SlotsClaimed
    <2>4. CASE v # w /\ writer[v].pc \notin {"zero", "add", "claim"}
      BY <1>1, <2>4
    <2> QED
      BY <2>1, <2>2, <2>3, <2>4
  <1>5. \A v, x \in Writers, q \in Rings, j \in Slots : ZeroesAt(v, q, j)' /\ ZeroesAt(x, q, j)' => v = x
    BY <1>0, <1>3 DEF SlotsClaimed
  <1>6. SlotsClaimed'
    BY <1>4, <1>5 DEF SlotsClaimed
  <1> QED
    BY <1>1, <1>3, <1>6

\* The next counter of a slot is zeroed; with the last the slot is swept.
LEMMA ZeroKeeps == ASSUME RingInv, NEW w \in Writers, Zero(w) PROVE RingInv'
  <1>0. RingTypeOK /\ WritersNear /\ SlotsFit /\ SlotsClaimed /\ NothingBefore /\ SlotsCount
    BY DEF RingInv
  <1>1. writer[w].pc = "zero" /\ UNCHANGED <<clock, events, dead, added, early>>
    BY DEF Zero, Held
  <1>2. PICK r \in Rings, i \in Slots, e \in Epochs :
            r = writer[w].ring /\ i = MySlot(w) /\ e = MyEpoch(w)
    BY <1>0, <1>1, AtWork, Zenon
  <1>3. PICK n \in {1, 2} :
            /\ n = writer[w].zeroed + 1 /\ writer[w].zeroed \in {0, 1}
            /\ n = 1 <=> writer[w].zeroed = 0
    BY <1>0, <1>1 DEF SlotsClaimed
  <1>4. PICK g \in Counters : g = Fields[n] /\ (n = 1 => g = "tier") /\ (n = 2 => g = "req")
    BY DEF Counters, Fields
  <1>5. PICK pc \in {"add", "zero"} : pc = IF n = 2 THEN "add" ELSE "zero"
    OBVIOUS
  <1>6. /\ places' = [places EXCEPT ![r][i].count[g] = 0]
        /\ writer' = [writer EXCEPT ![w].zeroed = n, ![w].pc = pc]
        /\ unswept' = IF n = 2 THEN unswept \ {<<r, i>>} ELSE unswept
    <2>1. Len(Fields) = 2 /\ n \in Zeroes
      BY DEF Fields, Zeroes
    <2> QED
      BY <1>2, <1>3, <1>4, <1>5, <2>1 DEF Zero, Held
  <1>7. OthersStay(w) /\ Stays(w) /\ writer'[w].pc = pc /\ writer'[w].zeroed = n
    <2>1. writer' = [writer EXCEPT ![w].pc = pc, ![w].zeroed = n]
      BY <1>6
    <2>2. pc \in {"rest", "look", "claim", "zero", "add"} /\ n \in 0 .. 2
      OBVIOUS
    <2> QED
      BY <1>0, <2>1, <2>2, WriterGoesOn, Zenon
  <1>8. /\ places' \in [Rings -> [Slots -> PlaceRecords]]
        /\ \A q \in Rings, j \in Slots : places'[q][j].epoch = places[q][j].epoch
        /\ places'[r][i].count[g] = 0
        /\ \A f \in Counters : f # g => places'[r][i].count[f] = places[r][i].count[f]
        /\ \A q \in Rings, j \in Slots : ~(q = r /\ j = i) => places'[q][j] = places[q][j]
    <2>1. PICK c \in Nat : c = 0
      OBVIOUS
    <2>2. places' = [places EXCEPT ![r][i].count[g] = c]
      BY <1>6, <2>1
    <2>3. CounterSet(r, i, g, c)
      BY <1>0, <2>2, CounterBecomes, Zenon
    <2> QED
      BY <2>1, <2>3 DEF CounterSet
  <1>9. RingTypeOK'
    BY <1>0, <1>1, <1>6, <1>7, <1>8 DEF RingTypeOK, OthersStay
  <1>10. WritersNear'
    BY <1>0, <1>1, <1>7 DEF WritersNear, OthersStay, Stays
  <1>11. SlotsFit'
    BY <1>0, <1>1, <1>8 DEF SlotsFit
  <1>12. NothingBefore'
    <2>1. \A q \in Rings, d \in Epochs : PlaceOf(q, d) \in Slots
      BY PlaceSays DEF Epochs
    <2> QED
      BY <1>0, <1>1, <1>8, <2>1 DEF NothingBefore
  <1>13. writer'[w].pc = "zero" => writer'[w].zeroed \in {0, 1}
    BY <1>3, <1>5, <1>7
  <1>14. /\ SlotsClaimed'
         /\ \A v \in Writers, q \in Rings, j \in Slots :
                /\ ZeroesAt(v, q, j)' => ZeroesAt(v, q, j)
                /\ v # w => (ZeroesAt(v, q, j) => ZeroesAt(v, q, j)') /\ ToZero(v)' = ToZero(v)
    BY <1>1, <1>5, <1>7, <1>8, <1>13, WorkKeepsClaims
  <1>15. \A v \in Writers : ZeroesAt(v, r, i) => v = w
    <2>1. ZeroesAt(w, r, i)
      BY <1>1, <1>2 DEF ZeroesAt, At
    <2> QED
      BY <1>0, <2>1 DEF SlotsClaimed
  <1>16. SlotsCount'
    <2> SUFFICES ASSUME NEW q \in Rings, NEW j \in Slots, NEW f \in Counters, places'[q][j].epoch # 0
                 PROVE  SlotCounts(q, j, f)'
      BY DEF SlotsCount
    <2>0. SlotCounts(q, j, f)
      BY <1>0, <1>8 DEF SlotsCount
    <2>1. CASE q = r /\ j = i
      <3>1. PICK d \in Epochs, x \in Nat, a \in Nat, b \in Nat, y \in Nat :
                /\ d = places[r][i].epoch /\ x = places[r][i].count[f] /\ y = places'[r][i].count[f]
                /\ a = added[r][d][f] /\ b = early[r][d][f]
        <4>1. places[r][i].epoch \in Epochs /\ places[r][i].count[f] \in Nat
              /\ places'[r][i].count[f] \in Nat
          BY <1>0, <1>8 DEF RingTypeOK, PlaceRecords
        <4>2. added[r][places[r][i].epoch][f] \in Nat /\ early[r][places[r][i].epoch][f] \in Nat
          BY <1>0, <4>1 DEF RingTypeOK, Histories
        <4> QED
          BY <4>1, <4>2, Zenon
      <3>2. IF f \in ToZero(w) THEN a <= b ELSE x <= a /\ a <= x + b
        <4>1. ZeroesAt(w, r, i)
          BY <1>1, <1>2 DEF ZeroesAt, At
        <4> QED
          BY <2>0, <2>1, <3>1, <4>1 DEF SlotCounts, Holds
      <3>3. IF f = g THEN y = 0 ELSE y = x
        BY <1>8, <3>1
      <3>4. ToZero(w) = IF n = 1 THEN Counters ELSE {"req"}
        <4>1. CASE n = 1
          <5>1. writer[w].zeroed = 0
            BY <1>3, <4>1
          <5> QED
            BY <4>1, <5>1 DEF ToZero
        <4>2. CASE n = 2
          <5>1. writer[w].zeroed # 0
            BY <1>3, <4>2
          <5> QED
            BY <4>2, <5>1 DEF ToZero
        <4> QED
          BY <4>1, <4>2
      <3>5. f \in {"tier", "req"}
        BY DEF Counters
      <3>6. n = 2 \/ f = "tier" => y <= a /\ a <= y + b
        <4>1. CASE f = g
          <5>1. f \in ToZero(w)
            BY <1>4, <3>4, <4>1
          <5> QED
            BY <3>2, <3>3, <4>1, <5>1
        <4>2. CASE f # g /\ n = 2
          <5>1. f \notin ToZero(w)
            BY <1>4, <3>4, <3>5, <4>2
          <5> QED
            BY <3>2, <3>3, <4>2, <5>1
        <4>3. CASE f # g /\ n = 1
          BY <1>4, <4>3
        <4> QED
          BY <4>1, <4>2, <4>3
      <3>7. n = 1 => ToZero(w)' = {"req"}
        BY <1>7 DEF ToZero
      <3>8. n = 1 /\ f = "req" => a <= b
        BY <3>2, <3>4 DEF Counters
      <3>9. n = 2 => ~Zeroing(r, i)' /\ \A v \in Writers : ~ZeroesAt(v, r, i)'
        <4>1. n = 2 => ~ZeroesAt(w, r, i)'
          BY <1>5, <1>7 DEF ZeroesAt
        <4> QED
          BY <1>14, <1>15, <4>1, ZeroingSays
      <3>10. n = 1 => Zeroing(r, i)'
        <4>1. n = 1 => ZeroesAt(w, r, i)'
          <5>1. MySlot(w)' = MySlot(w)
            BY <1>7, StaysPut DEF Stays
          <5> QED
            BY <1>2, <1>5, <1>7, <5>1 DEF ZeroesAt, At, Stays
        <4> QED
          BY <4>1, ZeroingSays
      <3>11. /\ places'[r][i].epoch = d /\ places'[r][i].count[f] = y
             /\ added'[r][d][f] = a /\ early'[r][d][f] = b
        BY <1>1, <1>8, <3>1
      <3>12. \A v \in Writers : ZeroesAt(v, r, i)' => v = w
        BY <1>14, <1>15
      <3> QED
        BY <2>1, <3>5, <3>6, <3>7, <3>8, <3>9, <3>10, <3>11, <3>12 DEF SlotCounts, Holds
    <2>2. CASE ~(q = r /\ j = i)
      <3>1. places'[q][j] = places[q][j] /\ (<<q, j>> \notin unswept' => <<q, j>> \notin unswept)
        BY <1>6, <1>8, <2>2
      <3>2. ~ZeroesAt(w, q, j) /\ ~ZeroesAt(w, q, j)'
        BY <1>2, <1>14, <2>2 DEF ZeroesAt, At
      <3>3. Zeroing(q, j)' <=> Zeroing(q, j)
        BY <1>14, <3>2, ZeroingSays
      <3> QED
        BY <1>1, <1>14, <2>0, <3>1, <3>2, <3>3 DEF SlotCounts, Holds
    <2> QED
      BY <2>1, <2>2
  <1> QED
    BY <1>9, <1>10, <1>11, <1>12, <1>14, <1>16 DEF RingInv

\* What is added is added to the slot of its epoch; to a slot that is being
\* zeroed it is added early.
LEMMA AddKeeps == ASSUME RingInv, NEW w \in Writers, Add(w) PROVE RingInv'
  <1>0. RingTypeOK /\ WritersNear /\ SlotsFit /\ SlotsClaimed /\ NothingBefore /\ SlotsCount
    BY DEF RingInv
  <1>1. writer[w].pc = "add" /\ UNCHANGED <<clock, events, dead, unswept>>
    BY DEF Add, Held
  <1>2. PICK r \in Rings, i \in Slots, e \in Epochs :
            r = writer[w].ring /\ i = MySlot(w) /\ e = MyEpoch(w)
    BY <1>0, <1>1, AtWork, Zenon
  <1>3. e \in Nat /\ PlaceOf(r, e) = i /\ places[r][i].epoch = e
    BY <1>0, <1>1, <1>2 DEF MySlot, Held, SlotsClaimed, Epochs
  <1>4. PICK g \in Counters : g = writer[w].field
    BY <1>0 DEF RingTypeOK, WriterRecords
  <1>5. PICK y \in Nat : y = places[r][i].count[g]
    BY <1>0 DEF RingTypeOK, PlaceRecords
  <1>6. CounterSet(r, i, g, y + 1)
    <2>1. PICK c \in Nat : c = y + 1
      OBVIOUS
    <2>2. places' = [places EXCEPT ![r][i].count[g] = c]
      BY <1>2, <1>4, <1>5, <2>1 DEF Add, Held
    <2>3. CounterSet(r, i, g, c)
      BY <1>0, <2>2, CounterBecomes, Zenon
    <2> QED
      BY <2>1, <2>3
  <1>7. /\ added' \in Histories /\ added'[r][e][g] = added[r][e][g] + 1
        /\ \A q \in Rings, d \in Epochs, f \in Counters :
               ~(q = r /\ d = e /\ f = g) => added'[q][d][f] = added[q][d][f]
    <2>1. added' = [added EXCEPT ![r][e][g] = added[r][e][g] + 1]
      BY <1>2, <1>4 DEF Add, Held
    <2>2. added \in Histories
      BY <1>0 DEF RingTypeOK
    <2>3. OneMoreIn(added', added, r, e, g)
      BY <2>1, <2>2, HistoryAdds, Zenon
    <2> QED
      BY <2>3 DEF OneMoreIn
  <1>8. /\ early' \in Histories
        /\ early'[r][e][g] = IF Zeroing(r, i) THEN early[r][e][g] + 1 ELSE early[r][e][g]
        /\ \A q \in Rings, d \in Epochs, f \in Counters :
               ~(q = r /\ d = e /\ f = g) => early'[q][d][f] = early[q][d][f]
    <2>1. early \in Histories
      BY <1>0 DEF RingTypeOK
    <2>2. CASE Zeroing(r, i)
      <3>1. early' = [early EXCEPT ![r][e][g] = early[r][e][g] + 1]
        BY <1>2, <1>4, <2>2 DEF Add, Held
      <3>2. OneMoreIn(early', early, r, e, g)
        BY <2>1, <3>1, HistoryAdds, Zenon
      <3> QED
        BY <2>2, <3>2 DEF OneMoreIn
    <2>3. CASE ~Zeroing(r, i)
      <3>1. early' = early
        BY <1>2, <2>3 DEF Add, Held
      <3> QED
        BY <2>1, <2>3, <3>1
    <2> QED
      BY <2>2, <2>3
  <1>9. /\ OthersStay(w) /\ writer'[w].pc \in {"rest", "look"}
        /\ writer'[w].pc = "look" => writer'[w].minute = writer[w].minute
    <2>1. PICK x \in WriterRecords : x = writer[w]
      BY <1>0 DEF RingTypeOK
    <2>2. PICK z : z = IF r = "min" THEN [x EXCEPT !.ring = "hour", !.pc = "look"] ELSE Resting
      OBVIOUS
    <2>3. /\ z \in WriterRecords /\ z.pc \in {"rest", "look"}
          /\ z.pc = "look" => z.minute = x.minute
      <3>1. CASE r = "min"
        <4>1. PICK u : u = [x EXCEPT !.ring = "hour"]
          OBVIOUS
        <4>2. u \in WriterRecords /\ u.minute = x.minute
          BY <4>1 DEF WriterRecords, Rings
        <4>3. z = [u EXCEPT !.pc = "look"]
          BY <2>2, <3>1, <4>1
        <4> QED
          BY <4>2, <4>3 DEF WriterRecords
      <3>2. CASE r # "min"
        <4>1. z = [pc |-> "rest", field |-> "tier", minute |-> 1, ring |-> "min", seen |-> 0, zeroed |-> 0]
          BY <2>2, <3>2 DEF Resting
        <4>2. 1 \in 1 .. LastRingMinute /\ 0 \in Epochs /\ "min" \in Rings /\ "tier" \in Counters
          BY RingAssumption DEF Rings, Epochs, Counters
        <4> QED
          BY <4>1, <4>2 DEF WriterRecords
      <3> QED
        BY <3>1, <3>2
    <2>4. writer' = [writer EXCEPT ![w] = z]
      BY <1>2, <2>1, <2>2 DEF Add, Held
    <2> QED
      BY <1>0, <2>1, <2>3, <2>4 DEF RingTypeOK, OthersStay
  <1>10. RingTypeOK'
    BY <1>0, <1>1, <1>6, <1>7, <1>8, <1>9 DEF RingTypeOK, OthersStay, CounterSet
  <1>11. WritersNear'
    BY <1>0, <1>1, <1>9 DEF WritersNear, OthersStay
  <1>12. SlotsFit'
    BY <1>0, <1>1, <1>6 DEF SlotsFit, CounterSet
  <1>13. /\ SlotsClaimed'
         /\ \A v \in Writers, q \in Rings, j \in Slots :
                /\ ZeroesAt(v, q, j)' => ZeroesAt(v, q, j)
                /\ v # w => (ZeroesAt(v, q, j) => ZeroesAt(v, q, j)') /\ ToZero(v)' = ToZero(v)
    <2>1. \A q \in Rings, j \in Slots : places'[q][j].epoch = places[q][j].epoch
      BY <1>6 DEF CounterSet
    <2> QED
      BY <1>9, <2>1, WorkKeepsClaims
  <1>14. \A q \in Rings, j \in Slots :
             /\ ~ZeroesAt(w, q, j) /\ ~ZeroesAt(w, q, j)'
             /\ Zeroing(q, j)' <=> Zeroing(q, j)
    <2>1. \A q \in Rings, j \in Slots : ~ZeroesAt(w, q, j) /\ ~ZeroesAt(w, q, j)'
      BY <1>1, <1>9 DEF ZeroesAt
    <2> QED
      BY <1>13, <2>1, ZeroingSays
  <1>15. NothingBefore'
    <2> SUFFICES ASSUME NEW q \in Rings, NEW d \in Epochs, NEW f \in Counters
                 PROVE  /\ early'[q][d][f] <= added'[q][d][f]
                        /\ added'[q][d][f] > 0 => places'[q][PlaceOf(q, d)].epoch >= d
      BY DEF NothingBefore
    <2>1. d \in Nat /\ PlaceOf(q, d) \in Slots
      BY PlaceSays DEF Epochs
    <2>2. places'[q][PlaceOf(q, d)].epoch = places[q][PlaceOf(q, d)].epoch
      BY <1>6, <2>1 DEF CounterSet
    <2>3. /\ early[q][d][f] <= added[q][d][f]
          /\ added[q][d][f] > 0 => places[q][PlaceOf(q, d)].epoch >= d
      BY <1>0 DEF NothingBefore
    <2>4. added[q][d][f] \in Nat /\ early[q][d][f] \in Nat
      BY <1>0 DEF RingTypeOK, Histories
    <2>5. CASE q = r /\ d = e /\ f = g
      <3>1. places'[q][PlaceOf(q, d)].epoch = d
        BY <1>3, <2>2, <2>5
      <3>2. early'[q][d][f] <= added'[q][d][f]
        BY <1>7, <1>8, <2>3, <2>4, <2>5
      <3> QED
        BY <2>1, <3>1, <3>2
    <2>6. CASE ~(q = r /\ d = e /\ f = g)
      BY <1>7, <1>8, <2>2, <2>3, <2>6
    <2> QED
      BY <2>5, <2>6
  <1>16. SlotsCount'
    <2> SUFFICES ASSUME NEW q \in Rings, NEW j \in Slots, NEW f \in Counters, places'[q][j].epoch # 0
                 PROVE  SlotCounts(q, j, f)'
      BY DEF SlotsCount
    <2>0. SlotCounts(q, j, f)
      BY <1>0, <1>6 DEF SlotsCount, CounterSet
    <2>1. CASE q = r /\ j = i /\ f = g
      <3>1. PICK a \in Nat, b \in Nat : a = added[r][e][g] /\ b = early[r][e][g]
        BY <1>0 DEF RingTypeOK, Histories
      <3>2. PICK b2 \in Nat : b2 = IF Zeroing(r, i) THEN b + 1 ELSE b
        OBVIOUS
      <3>3. /\ places'[r][i].epoch = e /\ places'[r][i].count[g] = y + 1
            /\ added'[r][e][g] = a + 1 /\ early'[r][e][g] = b2
        BY <1>3, <1>6, <1>7, <1>8, <3>1, <3>2 DEF CounterSet
      <3>4. ASSUME NEW v \in Writers, ZeroesAt(v, r, i)'
            PROVE  IF g \in ToZero(v)' THEN a + 1 <= b2 ELSE y + 1 <= a + 1 /\ a + 1 <= y + 1 + b2
        <4>1. v # w /\ ZeroesAt(v, r, i) /\ ToZero(v)' = ToZero(v)
          BY <1>13, <1>14, <3>4
        <4>2. Zeroing(r, i)
          BY <4>1, ZeroingSays
        <4>3. IF g \in ToZero(v) THEN a <= b ELSE y <= a /\ a <= y + b
          BY <1>3, <1>5, <2>0, <2>1, <3>1, <4>1 DEF SlotCounts, Holds
        <4>4. b2 = b + 1
          BY <3>2, <4>2
        <4> QED
          BY <4>1, <4>3, <4>4
      <3>5. ~Zeroing(r, i)' /\ <<r, i>> \notin unswept' => y + 1 <= a + 1 /\ a + 1 <= y + 1 + b2
        <4>1. ~Zeroing(r, i)' /\ <<r, i>> \notin unswept' => y <= a /\ a <= y + b
          BY <1>1, <1>3, <1>5, <1>14, <2>0, <2>1, <3>1 DEF SlotCounts, Holds
        <4> QED
          BY <3>2, <4>1
      <3> QED
        BY <2>1, <3>3, <3>4, <3>5 DEF SlotCounts, Holds
    <2>2. CASE ~(q = r /\ j = i /\ f = g)
      <3>1. places[q][j].epoch \in Epochs
        BY <1>0 DEF RingTypeOK, PlaceRecords
      <3>2. ~(q = r /\ places[q][j].epoch = e /\ f = g)
        <4>1. places[q][j].epoch # 0
          BY <1>6 DEF CounterSet
        <4>2. PlaceOf(q, places[q][j].epoch) = j
          BY <1>0, <4>1 DEF SlotsFit
        <4> QED
          BY <1>3, <2>2, <4>2
      <3>3. /\ added'[q][places[q][j].epoch][f] = added[q][places[q][j].epoch][f]
            /\ early'[q][places[q][j].epoch][f] = early[q][places[q][j].epoch][f]
        BY <1>7, <1>8, <3>1, <3>2
      <3>4. places'[q][j].epoch = places[q][j].epoch /\ places'[q][j].count[f] = places[q][j].count[f]
        BY <1>6, <2>2 DEF CounterSet
      <3>5. \A v \in Writers : ZeroesAt(v, q, j)' => ZeroesAt(v, q, j) /\ ToZero(v)' = ToZero(v)
        BY <1>13, <1>14
      <3>6. Zeroing(q, j)' <=> Zeroing(q, j)
        BY <1>14
      <3> QED
        BY <1>1, <2>0, <3>3, <3>4, <3>5, <3>6 DEF SlotCounts, Holds
    <2> QED
      BY <2>1, <2>2
  <1> QED
    BY <1>10, <1>11, <1>12, <1>13, <1>15, <1>16 DEF RingInv

\* A slot whose claimer dies is not swept.
LEMMA RingDieKeeps == ASSUME RingInv, NEW w \in Writers, Die(w) PROVE RingInv'
  <1>0. RingTypeOK /\ WritersNear /\ SlotsFit /\ SlotsClaimed /\ NothingBefore /\ SlotsCount
    BY DEF RingInv
  <1>1. writer[w].pc = "zero" /\ UNCHANGED <<clock, places, events, added, early>>
    BY DEF Die, Held
  <1>2. PICK r \in Rings, i \in Slots : r = writer[w].ring /\ i = MySlot(w)
    BY <1>0, <1>1, AtWork, Zenon
  <1>3. unswept' = unswept \cup {<<r, i>>} /\ dead' \in Nat
    BY <1>0, <1>2 DEF Die, Held, RingTypeOK
  <1>4. OthersStay(w) /\ writer'[w].pc = "rest"
    <2>1. PICK z : z = [pc |-> "rest", field |-> "tier", minute |-> 1, ring |-> "min", seen |-> 0, zeroed |-> 0]
      OBVIOUS
    <2>2. 1 \in 1 .. LastRingMinute /\ 0 \in Epochs /\ "min" \in Rings /\ "tier" \in Counters
      BY RingAssumption DEF Rings, Epochs, Counters
    <2>3. z \in WriterRecords /\ z.pc = "rest"
      BY <2>1, <2>2 DEF WriterRecords
    <2>4. writer' = [writer EXCEPT ![w] = z]
      BY <2>1 DEF Die, Resting
    <2> QED
      BY <1>0, <2>3, <2>4 DEF RingTypeOK, OthersStay
  <1>5. RingTypeOK'
    BY <1>0, <1>1, <1>2, <1>3, <1>4 DEF RingTypeOK, OthersStay
  <1>6. WritersNear'
    BY <1>0, <1>1, <1>4 DEF WritersNear, OthersStay
  <1>7. SlotsFit' /\ NothingBefore'
    BY <1>0, <1>1 DEF SlotsFit, NothingBefore
  <1>8. /\ SlotsClaimed'
        /\ \A v \in Writers, q \in Rings, j \in Slots :
               /\ ZeroesAt(v, q, j)' => ZeroesAt(v, q, j)
               /\ v # w => (ZeroesAt(v, q, j) => ZeroesAt(v, q, j)') /\ ToZero(v)' = ToZero(v)
    <2>1. \A q \in Rings, j \in Slots : places'[q][j].epoch = places[q][j].epoch
      BY <1>1
    <2> QED
      BY <1>4, <2>1, WorkKeepsClaims
  <1>9. SlotsCount'
    <2> SUFFICES ASSUME NEW q \in Rings, NEW j \in Slots, NEW f \in Counters, places[q][j].epoch # 0
                 PROVE  SlotCounts(q, j, f)'
      BY <1>1 DEF SlotsCount
    <2>1. SlotCounts(q, j, f)
      BY <1>0 DEF SlotsCount
    <2>2. \A v \in Writers : ZeroesAt(v, q, j)' => v # w /\ ZeroesAt(v, q, j) /\ ToZero(v)' = ToZero(v)
      BY <1>4, <1>8 DEF ZeroesAt
    <2>3. ~Zeroing(q, j)' /\ <<q, j>> \notin unswept' => ~Zeroing(q, j) /\ <<q, j>> \notin unswept
      <3>1. <<q, j>> \notin unswept' => ~ZeroesAt(w, q, j) /\ <<q, j>> \notin unswept
        BY <1>2, <1>3 DEF ZeroesAt, At
      <3> QED
        BY <1>8, <3>1, ZeroingSays
    <2> QED
      BY <1>1, <2>1, <2>2, <2>3 DEF SlotCounts, Holds
  <1> QED
    BY <1>5, <1>6, <1>7, <1>8, <1>9 DEF RingInv

\* The next minute comes when no writer is a turn of the ring behind.
LEMMA PassMinuteKeeps == ASSUME RingInv, PassMinute PROVE RingInv'
  <1>0. RingTypeOK /\ WritersNear /\ SlotsFit /\ SlotsClaimed /\ NothingBefore /\ SlotsCount
    BY DEF RingInv
  <1>1. UNCHANGED <<places, writer, events, dead, added, early, unswept>>
    BY DEF PassMinute
  <1>2. clock \in 1 .. LastRingMinute /\ clock' = clock + 1 /\ clock' \in 1 .. LastRingMinute
    BY <1>0, RingAssumption DEF PassMinute, RingTypeOK
  <1>3. RingTypeOK'
    BY <1>0, <1>1, <1>2 DEF RingTypeOK
  <1>4. WritersNear'
    <2> SUFFICES ASSUME NEW w \in Writers, writer[w].pc # "rest"
                 PROVE  writer[w].minute <= clock' /\ clock' < writer[w].minute + RingSize
      BY <1>1 DEF WritersNear
    <2>1. writer[w].minute \in 1 .. LastRingMinute
      BY <1>0 DEF RingTypeOK, WriterRecords
    <2>2. writer[w].minute <= clock /\ clock + 1 < writer[w].minute + RingSize
      BY <1>0 DEF WritersNear, PassMinute, Held
    <2> QED
      BY <1>2, <2>1, <2>2
  <1>5. SlotsFit'
    <2> SUFFICES ASSUME NEW r \in Rings, NEW i \in Slots, places[r][i].epoch # 0
                 PROVE  /\ places[r][i].epoch <= Epoch(r, clock')
                        /\ PlaceOf(r, places[r][i].epoch) = i
      BY <1>1 DEF SlotsFit
    <2>1. Epoch(r, clock) <= Epoch(r, clock')
      BY <1>2, EpochGrows
    <2>2. Epoch(r, clock) \in Nat /\ Epoch(r, clock') \in Nat /\ places[r][i].epoch \in Nat
      BY <1>0, <1>2, EpochSays DEF RingTypeOK, PlaceRecords, Epochs
    <2> QED
      BY <1>0, <2>1, <2>2 DEF SlotsFit
  <1>6. \A w : MyEpoch(w)' = MyEpoch(w) /\ MySlot(w)' = MySlot(w) /\ ToZero(w)' = ToZero(w)
               /\ \A r, i : ZeroesAt(w, r, i)' <=> ZeroesAt(w, r, i)
    BY <1>1 DEF MyEpoch, MySlot, Held, ToZero, ZeroesAt, At
  <1>7. SlotsClaimed' /\ NothingBefore'
    BY <1>0, <1>1, <1>6 DEF SlotsClaimed, NothingBefore
  <1>8. SlotsCount'
    <2>1. \A r, i : Zeroing(r, i)' <=> Zeroing(r, i)
      BY <1>6, ZeroingSays
    <2> QED
      BY SMTT(30), <1>0, <1>1, <1>6, <2>1 DEF SlotsCount, SlotCounts, Holds
  <1> QED
    BY <1>3, <1>4, <1>5, <1>7, <1>8 DEF RingInv

\* The invariant of the rings, from its beginnings.
THEOREM RingInvariant == RingSpec => []RingInv
  <1>1. ASSUME RingInit PROVE RingInv
    <2>2. \A w \in Writers : writer[w].pc = "rest"
      BY <1>1 DEF RingInit, Resting
    <2>3. RingTypeOK
      <3>1. 1 \in 1 .. LastRingMinute /\ 0 \in Epochs /\ "min" \in Rings /\ "tier" \in Counters
        BY RingAssumption DEF Rings, Epochs, Counters
      <3>2. writer \in [Writers -> WriterRecords]
        BY <1>1, <3>1 DEF RingInit, Resting, WriterRecords
      <3>3. places \in [Rings -> [Slots -> PlaceRecords]]
        BY <1>1, <3>1 DEF RingInit, Slots, PlaceRecords
      <3>4. added \in Histories /\ early \in Histories
        BY <1>1 DEF RingInit, Histories
      <3> QED
        BY <1>1, <3>1, <3>2, <3>3, <3>4 DEF RingInit, RingTypeOK
    <2>4. WritersNear /\ SlotsFit /\ SlotsClaimed /\ SlotsCount
      <3>1. WritersNear /\ SlotsClaimed
        BY <2>2 DEF WritersNear, SlotsClaimed, ZeroesAt
      <3>2. \A r \in Rings, i \in Slots : places[r][i].epoch = 0
        BY <1>1 DEF RingInit, Slots
      <3>3. SlotsFit
        BY <3>2 DEF SlotsFit
      <3>4. SlotsCount
        BY <3>2 DEF SlotsCount
      <3> QED
        BY <3>1, <3>3, <3>4
    <2>5. NothingBefore
      <3>1. \A r \in Rings, e \in Epochs, f \in Counters : added[r][e][f] = 0 /\ early[r][e][f] = 0
        BY <1>1 DEF RingInit
      <3> QED
        BY <3>1 DEF NothingBefore
    <2> QED
      BY <2>3, <2>4, <2>5 DEF RingInv
  <1>2. ASSUME RingInv, [RingNext]_ringVars PROVE RingInv'
    <2>1. CASE UNCHANGED ringVars
      BY SMTT(30), <1>2, <2>1 DEF ringVars, RingInv, RingTypeOK, WritersNear, SlotsFit, SlotsClaimed,
             NothingBefore, SlotsCount, SlotCounts, Holds, ZeroesAt, At, ToZero, Zeroing, MyEpoch, MySlot, Held
    <2>2. CASE RingNext
      <3>1. ASSUME NEW w \in Writers, Claim(w) PROVE RingInv'
        BY <1>2, <3>1, ClaimLostKeeps, ClaimWonKeeps
      <3> QED
        BY <1>2, <2>2, <3>1, CountKeeps, LookKeeps, ZeroKeeps, AddKeeps, RingDieKeeps, PassMinuteKeeps
           DEF RingNext
    <2> QED
      BY <1>2, <2>1, <2>2
  <1> QED
    BY <1>1, <1>2, PTL DEF RingSpec
-----------------------------------------------------------------------------
(* The sum of a sequence of numbers. *)

\* The running sums exist: they are the recursive function of a sum.
LEMMA RunningSums ==
    ASSUME NEW n \in Nat, NEW term \in [1 .. n -> Nat]
    PROVE  \E g \in [0 .. n -> Nat] :
               /\ g[0] = 0 /\ SumTo(n, term) = g[n]
               /\ \A i \in 1 .. n : g[i] = g[i - 1] + term[i]
  <1> DEFINE Runs(g, m) == /\ g \in [0 .. m -> Nat] /\ g[0] = 0
                           /\ \A i \in 1 .. m : g[i] = g[i - 1] + term[i]
             S == {m \in 0 .. n : \E g : Runs(g, m)}
  <1>1. 0 \in S
    <2>1. Runs([i \in 0 .. 0 |-> 0], 0)
      OBVIOUS
    <2>2. 0 \in 0 .. n
      OBVIOUS
    <2> HIDE DEF Runs
    <2> QED
      BY <2>1, <2>2
  <1>2. ASSUME NEW m \in 0 .. n, m + 1 \in 0 .. n, m \in S PROVE m + 1 \in S
    <2>1. PICK g : Runs(g, m)
      BY <1>2
    <2> DEFINE h == [i \in 0 .. m + 1 |-> IF i = m + 1 THEN g[m] + term[m + 1] ELSE g[i]]
    <2>2. m \in Nat /\ m + 1 \in 1 .. n
      BY <1>2
    <2>3. h \in [0 .. m + 1 -> Nat] /\ h[0] = 0
      BY <2>1, <2>2
    <2>4. ASSUME NEW i \in 1 .. m + 1 PROVE h[i] = h[i - 1] + term[i]
      <3>1. CASE i = m + 1
        BY <2>2, <3>1
      <3>2. CASE i # m + 1
        <4>1. i \in 1 .. m /\ i - 1 \in 0 .. m + 1 /\ i - 1 # m + 1 /\ i \in 0 .. m + 1
          BY <2>2, <3>2
        <4>2. h[i] = g[i] /\ h[i - 1] = g[i - 1]
          BY <3>2, <4>1
        <4> QED
          BY <2>1, <4>1, <4>2
      <3> QED
        BY <3>1, <3>2
    <2>5. Runs(h, m + 1)
      BY <2>3, <2>4
    <2> QED
      BY <1>2, <2>5
  <1>3. n \in S
    <2> HIDE DEF S
    <2>1. 0 .. n \subseteq S
      BY <1>1, <1>2, RangeInduction
    <2> QED
      BY <2>1
  <1>4. PICK g : Runs(g, n)
    BY <1>3
  <1> DEFINE Rec(s) == s = [i \in 0 .. n |-> IF i = 0 THEN 0 ELSE s[i - 1] + term[i]]
             c == CHOOSE s : Rec(s)
  <1>5. Rec(g)
    <2>1. ASSUME NEW i \in 0 .. n PROVE g[i] = IF i = 0 THEN 0 ELSE g[i - 1] + term[i]
      BY <1>4, <2>1
    <2>2. g = [i \in 0 .. n |-> g[i]]
      BY <1>4
    <2> QED
      BY <2>1, <2>2
  <1>6. Rec(c)
    <2> HIDE DEF Rec
    <2> QED
      BY <1>5
  <1>7. SumTo(n, term) = c[n]
    BY DEF SumTo
  <1>8. c[0] = 0 /\ \A i \in 1 .. n : c[i] = c[i - 1] + term[i]
    <2> HIDE DEF c
    <2> QED
      BY <1>6
  <1>9. c[n] = g[n]
    <2> DEFINE E == {i \in 0 .. n : c[i] = g[i]}
    <2> HIDE DEF c
    <2>1. 0 \in E
      BY <1>4, <1>8
    <2>2. ASSUME NEW i \in 0 .. n, i + 1 \in 0 .. n, i \in E PROVE i + 1 \in E
      <3>1. i + 1 \in 1 .. n /\ (i + 1) - 1 = i
        BY <2>2
      <3>2. c[i + 1] = c[i] + term[i + 1]
        BY <1>8, <3>1
      <3>3. g[i + 1] = g[i] + term[i + 1]
        BY <1>4, <3>1
      <3> QED
        BY <2>2, <3>2, <3>3
    <2>3. 0 .. n \subseteq E
      <3> HIDE DEF E
      <3> QED
        BY <2>1, <2>2, RangeInduction
    <2> QED
      BY <2>3
  <1> HIDE DEF c
  <1> QED
    BY <1>4, <1>7, <1>9

\* Three sequences of n numbers, one of which has the sum of the others.
SumsRelate(n, a, b, c) ==
    /\ SumTo(n, a) \in Nat /\ SumTo(n, b) \in Nat /\ SumTo(n, c) \in Nat
    /\ SumTo(n, c) = SumTo(n, a) + SumTo(n, b)

\* The sum of two sequences, term by term, has the sum of their sums.
LEMMA SumAdds ==
    ASSUME NEW n \in Nat, NEW a \in [1 .. n -> Nat], NEW b \in [1 .. n -> Nat],
           NEW c \in [1 .. n -> Nat], \A i \in 1 .. n : c[i] = a[i] + b[i]
    PROVE  SumsRelate(n, a, b, c)
  <1>1. PICK f \in [0 .. n -> Nat] :
            f[0] = 0 /\ SumTo(n, a) = f[n] /\ \A i \in 1 .. n : f[i] = f[i - 1] + a[i]
    BY RunningSums
  <1>2. PICK g \in [0 .. n -> Nat] :
            g[0] = 0 /\ SumTo(n, b) = g[n] /\ \A i \in 1 .. n : g[i] = g[i - 1] + b[i]
    BY RunningSums
  <1>3. PICK h \in [0 .. n -> Nat] :
            h[0] = 0 /\ SumTo(n, c) = h[n] /\ \A i \in 1 .. n : h[i] = h[i - 1] + c[i]
    BY RunningSums
  <1> DEFINE E == {i \in 0 .. n : h[i] = f[i] + g[i]}
  <1>4. 0 \in E
    BY <1>1, <1>2, <1>3
  <1>5. ASSUME NEW i \in 0 .. n, i + 1 \in 0 .. n, i \in E PROVE i + 1 \in E
    <2>1. i + 1 \in 1 .. n /\ (i + 1) - 1 = i
      BY <1>5
    <2>2. f[i + 1] = f[i] + a[i + 1] /\ g[i + 1] = g[i] + b[i + 1] /\ h[i + 1] = h[i] + c[i + 1]
      BY <1>1, <1>2, <1>3, <2>1
    <2>3. f[i] \in Nat /\ g[i] \in Nat /\ h[i] \in Nat /\ a[i + 1] \in Nat /\ b[i + 1] \in Nat
          /\ c[i + 1] = a[i + 1] + b[i + 1] /\ h[i] = f[i] + g[i]
      BY <1>5, <2>1
    <2> QED
      BY <1>5, <2>2, <2>3
  <1>6. 0 .. n \subseteq E
    <2> HIDE DEF E
    <2> QED
      BY <1>4, <1>5, RangeInduction
  <1>7. n \in 0 .. n
    OBVIOUS
  <1> QED
    BY <1>1, <1>2, <1>3, <1>6, <1>7 DEF SumsRelate

\* A sum grows with its terms.
LEMMA SumGrows ==
    ASSUME NEW n \in Nat, NEW a \in [1 .. n -> Nat], NEW b \in [1 .. n -> Nat],
           \A i \in 1 .. n : a[i] <= b[i]
    PROVE  SumTo(n, a) <= SumTo(n, b) /\ SumTo(n, a) \in Nat /\ SumTo(n, b) \in Nat
  <1>1. PICK d \in [1 .. n -> Nat] : \A i \in 1 .. n : b[i] = a[i] + d[i]
    <2>1. \A i \in 1 .. n : b[i] - a[i] \in Nat /\ b[i] = a[i] + (b[i] - a[i])
      OBVIOUS
    <2>2. [i \in 1 .. n |-> b[i] - a[i]] \in [1 .. n -> Nat]
      BY <2>1
    <2> QED
      BY <2>1, <2>2
  <1>2. SumsRelate(n, a, d, b)
    BY <1>1, SumAdds
  <1> QED
    BY <1>2 DEF SumsRelate

\* A sum with one term at most that is not zero.
LEMMA SumOfOne ==
    ASSUME NEW n \in Nat, NEW k \in 1 .. n, NEW a \in [1 .. n -> Nat],
           \A i \in 1 .. n : i # k => a[i] = 0
    PROVE  SumTo(n, a) = a[k]
  <1>1. PICK g \in [0 .. n -> Nat] :
            g[0] = 0 /\ SumTo(n, a) = g[n] /\ \A i \in 1 .. n : g[i] = g[i - 1] + a[i]
    BY RunningSums
  <1> DEFINE E == {i \in 0 .. n : g[i] = IF i >= k THEN a[k] ELSE 0}
  <1>2. 0 \in E
    BY <1>1
  <1>3. ASSUME NEW i \in 0 .. n, i + 1 \in 0 .. n, i \in E PROVE i + 1 \in E
    <2>1. i + 1 \in 1 .. n /\ (i + 1) - 1 = i
      BY <1>3
    <2>2. g[i + 1] = g[i] + a[i + 1]
      BY <1>1, <2>1
    <2>3. g[i] \in Nat /\ a[k] \in Nat /\ g[i] = IF i >= k THEN a[k] ELSE 0
      BY <1>3
    <2>4. i + 1 # k => a[i + 1] = 0
      BY <2>1
    <2>5. g[i + 1] = IF i + 1 >= k THEN a[k] ELSE 0
      <3>1. CASE i + 1 = k
        BY <2>2, <2>3, <3>1
      <3>2. CASE i + 1 # k
        BY <2>2, <2>3, <2>4, <3>2
      <3> QED
        BY <3>1, <3>2
    <2> QED
      BY <1>3, <2>5
  <1>4. 0 .. n \subseteq E
    <2> HIDE DEF E
    <2> QED
      BY <1>2, <1>3, RangeInduction
  <1>5. n \in 0 .. n /\ n >= k
    OBVIOUS
  <1> QED
    BY <1>1, <1>4, <1>5

\* A sum of nothing.
LEMMA SumOfNothing ==
    ASSUME NEW n \in Nat, NEW a \in [1 .. n -> Nat], \A i \in 1 .. n : a[i] = 0
    PROVE  SumTo(n, a) = 0
  <1>1. SumsRelate(n, a, a, a)
    BY SumAdds
  <1> QED
    BY <1>1 DEF SumsRelate

\* What the slots with epochs ep add to a span of the history h, up to epoch j,
\* and what its epochs add.
SlotTerm(ep, h, span, now, j) ==
    [i \in 1 .. RingSize |->
        IF ep[i] # 0 /\ ep[i] <= now /\ ep[i] + span > now /\ ep[i] <= j THEN h[ep[i]] ELSE 0]
EpochTerm(h, span, now) == [e \in 1 .. now |-> IF e + span > now THEN h[e] ELSE 0]

\* What a slot of epoch x adds when the epochs up to the next one are looked
\* at, where y was counted in x.
TermUpTo(x, y, span, now, j) ==
    IF x # 0 /\ x <= now /\ x + span > now /\ x <= j THEN y ELSE 0

NextTerm(x, y, span, now, j) == IF x = j + 1 /\ x + span > now THEN y ELSE 0

\* The next epoch adds what its slot holds.
LEMMA TermGrows ==
    ASSUME NEW now \in Nat, NEW span \in Nat, NEW j \in Nat, j + 1 <= now, NEW x \in Nat, NEW y \in Nat
    PROVE  TermUpTo(x, y, span, now, j + 1) = TermUpTo(x, y, span, now, j) + NextTerm(x, y, span, now, j)
  BY DEF TermUpTo, NextTerm

SlotGrows(ep, h, span, now, j, i) ==
    SlotTerm(ep, h, span, now, j + 1)[i]
        = SlotTerm(ep, h, span, now, j)[i] + NextTerm(ep[i], h[ep[i]], span, now, j)

\* So it is of every slot of a ring.
LEMMA NextSlotTerm ==
    ASSUME NEW now \in Nat, NEW span \in Nat, NEW ep \in [1 .. RingSize -> Nat],
           NEW h \in [Nat -> Nat], NEW j \in Nat, j + 1 <= now, NEW i \in 1 .. RingSize
    PROVE  SlotGrows(ep, h, span, now, j, i)
  <1>1. /\ ep[i] \in Nat /\ h[ep[i]] \in Nat
        /\ now \in Nat /\ span \in Nat /\ j \in Nat /\ j + 1 <= now
    OBVIOUS
  <1>2. \A k \in Nat : SlotTerm(ep, h, span, now, k)[i] = TermUpTo(ep[i], h[ep[i]], span, now, k)
    BY DEF SlotTerm, TermUpTo
  <1>3. TermUpTo(ep[i], h[ep[i]], span, now, j + 1)
            = TermUpTo(ep[i], h[ep[i]], span, now, j) + NextTerm(ep[i], h[ep[i]], span, now, j)
    BY <1>1, TermGrows
  <1>4. j + 1 \in Nat
    OBVIOUS
  <1> QED
    BY <1>2, <1>3, <1>4, Zenon DEF SlotGrows

\* Slots that each hold an epoch of their own or none add up to what was counted
\* in a span, when they hold every epoch of it in which something was.
LEMMA SlotsHoldSpan ==
    ASSUME NEW now \in Nat, NEW span \in Nat, NEW ep \in [1 .. RingSize -> Nat],
           NEW h \in [Nat -> Nat],
           \A i, k \in 1 .. RingSize : ep[i] # 0 /\ ep[i] = ep[k] => i = k,
           \A e \in 1 .. now : e + span > now /\ h[e] > 0 => \E i \in 1 .. RingSize : ep[i] = e
    PROVE  SumTo(RingSize, SlotTerm(ep, h, span, now, now)) = SumTo(now, EpochTerm(h, span, now))
  <1>0. RingSize \in Nat
    BY RingAssumption
  <1>1. EpochTerm(h, span, now) \in [1 .. now -> Nat]
    BY DEF EpochTerm
  <1>2. \A j \in Nat : SlotTerm(ep, h, span, now, j) \in [1 .. RingSize -> Nat]
    BY DEF SlotTerm
  <1>3. PICK g \in [0 .. now -> Nat] :
            /\ g[0] = 0 /\ SumTo(now, EpochTerm(h, span, now)) = g[now]
            /\ \A e \in 1 .. now : g[e] = g[e - 1] + EpochTerm(h, span, now)[e]
    BY <1>1, RunningSums
  <1> DEFINE E == {j \in 0 .. now : SumTo(RingSize, SlotTerm(ep, h, span, now, j)) = g[j]}
  <1>4. 0 \in E
    <2>1. ASSUME NEW i \in 1 .. RingSize PROVE SlotTerm(ep, h, span, now, 0)[i] = 0
      <3>1. ep[i] \in Nat
        OBVIOUS
      <3>2. ~(ep[i] # 0 /\ ep[i] <= 0)
        BY <3>1
      <3> QED
        BY <3>2 DEF SlotTerm
    <2>2. SumTo(RingSize, SlotTerm(ep, h, span, now, 0)) = 0
      BY <1>0, <1>2, <2>1, SumOfNothing
    <2> QED
      BY <1>3, <2>2
  <1>5. ASSUME NEW j \in 0 .. now, j + 1 \in 0 .. now, j \in E PROVE j + 1 \in E
    <2>1. j \in Nat /\ j + 1 \in Nat /\ j + 1 \in 1 .. now /\ (j + 1) - 1 = j
      BY <1>5
    <2>0. j + 1 <= now
      BY <1>5
    <2>2. g[j + 1] = g[j] + IF j + 1 + span > now THEN h[j + 1] ELSE 0
      BY <1>3, <2>1 DEF EpochTerm
    <2> DEFINE a == SlotTerm(ep, h, span, now, j)
               c == SlotTerm(ep, h, span, now, j + 1)
               b == [i \in 1 .. RingSize |->
                        NextTerm(ep[i], h[ep[i]], span, now, j)]
    <2>3. a \in [1 .. RingSize -> Nat] /\ b \in [1 .. RingSize -> Nat] /\ c \in [1 .. RingSize -> Nat]
      <3>1. a \in [1 .. RingSize -> Nat] /\ c \in [1 .. RingSize -> Nat]
        BY <1>2, <2>1
      <3>2. b \in [1 .. RingSize -> Nat]
        BY DEF NextTerm
      <3> QED
        BY <3>1, <3>2
    <2>4. ASSUME NEW i \in 1 .. RingSize PROVE c[i] = a[i] + b[i]
      <3>1. b[i] = NextTerm(ep[i], h[ep[i]], span, now, j)
        OBVIOUS
      <3>2. ep \in [1 .. RingSize -> Nat] /\ h \in [Nat -> Nat] /\ i \in 1 .. RingSize
        OBVIOUS
      <3>3. now \in Nat /\ span \in Nat
        OBVIOUS
      <3>4. c[i] = SlotTerm(ep, h, span, now, j + 1)[i] /\ a[i] = SlotTerm(ep, h, span, now, j)[i]
        OBVIOUS
      <3> HIDE DEF a, b, c
      <3>5. SlotGrows(ep, h, span, now, j, i)
        <4> HIDE DEF E
        <4>1. j \in Nat
          BY <2>1
        <4> QED
          BY <2>0, <3>2, <3>3, <4>1, NextSlotTerm, Zenon
      <3> QED
        BY <3>1, <3>4, <3>5, Zenon DEF SlotGrows
    <2>5. SumTo(RingSize, b) = IF j + 1 + span > now THEN h[j + 1] ELSE 0
      <3>1. CASE \E k \in 1 .. RingSize : ep[k] = j + 1
        <4>1. PICK k \in 1 .. RingSize : ep[k] = j + 1
          BY <3>1
        <4>2. \A i \in 1 .. RingSize : i # k => b[i] = 0
          BY <2>1, <4>1 DEF NextTerm
        <4>3. b[k] = IF j + 1 + span > now THEN h[j + 1] ELSE 0
          BY <4>1 DEF NextTerm
        <4> HIDE DEF b
        <4>4. SumTo(RingSize, b) = b[k]
          BY ZenonT(30), <1>0, <2>3, <4>2, SumOfOne
        <4> QED
          BY <4>3, <4>4
      <3>2. CASE ~\E k \in 1 .. RingSize : ep[k] = j + 1
        <4>1. \A i \in 1 .. RingSize : b[i] = 0
          BY <3>2 DEF NextTerm
        <4>2. j + 1 + span > now => h[j + 1] = 0
          <5>1. h[j + 1] \in Nat
            BY <2>1
          <5>2. ~(j + 1 + span > now /\ h[j + 1] > 0)
            BY <2>1, <3>2
          <5> QED
            BY <5>1, <5>2
        <4> HIDE DEF b
        <4>3. SumTo(RingSize, b) = 0
          BY <1>0, <2>3, <4>1, SumOfNothing
        <4> QED
          BY <4>2, <4>3
      <3> QED
        BY <3>1, <3>2
    <2>6. SumsRelate(RingSize, a, b, c)
      <3> HIDE DEF a, b, c
      <3> QED
        BY <1>0, <2>3, <2>4, SumAdds
    <2>7. SumTo(RingSize, c) = SumTo(RingSize, a) + SumTo(RingSize, b)
      BY <2>6 DEF SumsRelate
    <2>8. SumTo(RingSize, a) = g[j]
      BY <1>5
    <2>9. SumTo(RingSize, c) = g[j + 1]
      <3> HIDE DEF a, b, c
      <3> QED
        BY <2>2, <2>5, <2>7, <2>8
    <2> QED
      BY <1>5, <2>9
  <1>6. 0 .. now \subseteq E
    <2> HIDE DEF E
    <2> QED
      BY <1>4, <1>5, RangeInduction
  <1> QED
    BY <1>3, <1>6

\* What the slots of a ring hold, and what was counted in its epochs.
EpochsOf(r) == [i \in 1 .. RingSize |-> places[r][i - 1].epoch]
CountedIn(h, r, f) == [e \in Nat |-> IF e \in Epochs THEN h[r][e][f] ELSE 0]

\* The slots of a ring hold all that was counted in a span.
LEMMA SpanCounted ==
    ASSUME RingInv, NEW r \in Rings, NEW f \in Counters, NEW span \in 1 .. RingSize,
           NEW h \in Histories, \A e \in Epochs : h[r][e][f] <= added[r][e][f]
    PROVE  SumTo(RingSize, SlotTerm(EpochsOf(r), CountedIn(h, r, f), span, Epoch(r, clock), Epoch(r, clock)))
               = MadeIn(h, r, f, span)
  <1>0. RingTypeOK /\ SlotsFit /\ NothingBefore
    BY DEF RingInv
  <1>1. PICK now \in Nat : now = Epoch(r, clock) /\ now \in Epochs
    BY <1>0, EpochSays DEF RingTypeOK
  <1>2. RingSize \in Nat /\ span \in Nat /\ span <= RingSize
    BY RingAssumption
  <1>3. PICK ep : ep = EpochsOf(r)
    OBVIOUS
  <1>4. ASSUME NEW i \in 1 .. RingSize
        PROVE  /\ i - 1 \in Slots /\ ep[i] = places[r][i - 1].epoch /\ ep[i] \in Nat
               /\ ep[i] # 0 => ep[i] <= now /\ PlaceOf(r, ep[i]) = i - 1
    <2>1. i - 1 \in Slots
      BY <1>2 DEF Slots
    <2>2. places[r][i - 1].epoch \in Nat
      BY <1>0, <2>1 DEF RingTypeOK, PlaceRecords, Epochs
    <2>3. ep[i] = places[r][i - 1].epoch
      BY <1>3 DEF EpochsOf
    <2> QED
      BY <1>0, <1>1, <2>1, <2>2, <2>3 DEF SlotsFit
  <1>5. ep \in [1 .. RingSize -> Nat]
    BY <1>3, <1>4 DEF EpochsOf
  <1>6. PICK c : c = CountedIn(h, r, f)
    OBVIOUS
  <1>7. c \in [Nat -> Nat] /\ \A e \in Epochs : c[e] = h[r][e][f]
    <2>1. \A e \in Epochs : e \in Nat
      BY DEF Epochs
    <2>2. \A e \in Epochs : h[r][e][f] \in Nat
      BY DEF Histories
    <2> QED
      BY <1>6, <2>1, <2>2 DEF CountedIn
  <1>8. ASSUME NEW i \in 1 .. RingSize, NEW k \in 1 .. RingSize, ep[i] # 0, ep[i] = ep[k] PROVE i = k
    <2>1. i - 1 = k - 1
      BY <1>4, <1>8
    <2> QED
      BY <2>1
  <1>9. \A e \in 1 .. now : e \in Nat /\ e \in Epochs
    BY <1>1, RingAssumption DEF Epochs
  <1>10. ASSUME NEW e \in 1 .. now, e + span > now, c[e] > 0 PROVE \E i \in 1 .. RingSize : ep[i] = e
    <2>1. PICK j \in Slots : j = PlaceOf(r, e)
      BY <1>9, PlaceSays
    <2>2. j + 1 \in 1 .. RingSize /\ (j + 1) - 1 = j
      BY <1>2 DEF Slots
    <2>3. PICK d \in Nat : d = ep[j + 1] /\ d = places[r][j].epoch /\ (d # 0 => d <= now /\ PlaceOf(r, d) = j)
      BY <1>4, <2>2
    <2>4. added[r][e][f] > 0
      <3>1. h[r][e][f] > 0 /\ h[r][e][f] <= added[r][e][f]
        BY <1>7, <1>9, <1>10
      <3>2. h[r][e][f] \in Nat /\ added[r][e][f] \in Nat
        BY <1>0, <1>9 DEF RingTypeOK, Histories
      <3> QED
        BY <3>1, <3>2
    <2>5. d >= e
      BY <1>0, <1>9, <2>1, <2>3, <2>4 DEF NothingBefore
    <2>6. ~(e < d)
      <3> SUFFICES ASSUME e < d PROVE FALSE
        OBVIOUS
      <3>1. d <= now /\ PlaceOf(r, d) = PlaceOf(r, e)
        BY <1>9, <2>1, <2>3
      <3>2. e + RingSize <= d
        BY <1>9, <2>3, <3>1, TurnApart
      <3> QED
        BY <1>2, <1>9, <1>10, <3>1, <3>2
    <2>7. d = e
      BY <1>9, <2>5, <2>6
    <2> QED
      BY <2>2, <2>3, <2>7
  <1>11. SumTo(RingSize, SlotTerm(ep, c, span, now, now)) = SumTo(now, EpochTerm(c, span, now))
    BY <1>2, <1>5, <1>7, <1>8, <1>10, SlotsHoldSpan
  <1>12. EpochTerm(c, span, now) = [e \in 1 .. now |-> IF e + span > now THEN h[r][e][f] ELSE 0]
    BY <1>7, <1>9 DEF EpochTerm
  <1>13. SumTo(now, EpochTerm(c, span, now)) = MadeIn(h, r, f, span)
    BY <1>1, <1>12 DEF MadeIn
  <1> QED
    BY <1>1, <1>3, <1>6, <1>11, <1>13

\* In a ring in which no slot is half zeroed, every slot shows what was added
\* in its epoch, but for what was added early.
LEMMA WindowFollows == ASSUME RingInv PROVE WindowCounts
  <1>0. RingTypeOK /\ NothingBefore /\ SlotsCount
    BY DEF RingInv
  <1> SUFFICES ASSUME NEW r \in Rings, SettledRing(r), NEW f \in Counters, NEW span \in 1 .. RingSize
               PROVE  /\ WindowSum(r, f, span) <= MadeIn(added, r, f, span)
                      /\ MadeIn(added, r, f, span)
                            <= WindowSum(r, f, span) + MadeIn(early, r, f, span)
    BY DEF WindowCounts
  <1>1. PICK now \in Nat : now = Epoch(r, clock)
    BY <1>0, EpochSays DEF RingTypeOK
  <1>2. RingSize \in Nat /\ span \in Nat
    BY RingAssumption
  <1>3. PICK a, b, w :
            /\ a = SlotTerm(EpochsOf(r), CountedIn(added, r, f), span, now, now)
            /\ b = SlotTerm(EpochsOf(r), CountedIn(early, r, f), span, now, now)
            /\ w = [i \in 1 .. RingSize |-> IF InSpan(r, i - 1, span) THEN places[r][i - 1].count[f] ELSE 0]
    OBVIOUS
  <1>4. ASSUME NEW i \in 1 .. RingSize
        PROVE  a[i] \in Nat /\ b[i] \in Nat /\ w[i] \in Nat /\ w[i] <= a[i] /\ a[i] <= w[i] + b[i]
    <2>1. i - 1 \in Slots
      BY <1>2 DEF Slots
    <2>2. PICK e \in Epochs : e = places[r][i - 1].epoch
      BY <1>0, <2>1 DEF RingTypeOK, PlaceRecords
    <2>3. PICK x \in Nat, y \in Nat, z \in Nat :
              x = added[r][e][f] /\ y = early[r][e][f] /\ z = places[r][i - 1].count[f]
      <3>1. places[r][i - 1].count[f] \in Nat
        BY <1>0, <2>1 DEF RingTypeOK, PlaceRecords
      <3>2. added[r][e][f] \in Nat /\ early[r][e][f] \in Nat
        BY <1>0 DEF RingTypeOK, Histories
      <3> QED
        BY <3>1, <3>2, Zenon
    <2>4. e \in Nat
      BY DEF Epochs
    <2>5. EpochsOf(r)[i] = e /\ CountedIn(added, r, f)[e] = x /\ CountedIn(early, r, f)[e] = y
      BY <2>2, <2>3, <2>4 DEF EpochsOf, CountedIn
    <2>6. PICK in \in BOOLEAN : in <=> e # 0 /\ e <= now /\ e + span > now
      OBVIOUS
    <2>7. /\ a[i] = IF in THEN x ELSE 0
          /\ b[i] = IF in THEN y ELSE 0
      BY <1>3, <2>5, <2>6 DEF SlotTerm
    <2>8. w[i] = IF in THEN z ELSE 0
      <3>1. InSpan(r, i - 1, span) <=> in
        BY <1>1, <2>2, <2>6 DEF InSpan
      <3> QED
        BY <1>3, <2>3, <3>1
    <2>9. e # 0 => z <= x /\ x <= z + y
      <3>1. ~Zeroing(r, i - 1) /\ <<r, i - 1>> \notin unswept
        BY <2>1 DEF SettledRing, Slots
      <3>2. e # 0 => Holds(places[r][i - 1], added[r], early[r], f)
        BY <1>0, <2>1, <2>2, <3>1 DEF SlotsCount, SlotCounts
      <3> QED
        BY <2>2, <2>3, <3>2 DEF Holds
    <2>10. CASE in
      BY <2>3, <2>6, <2>7, <2>8, <2>9, <2>10
    <2>11. CASE ~in
      BY <2>7, <2>8, <2>11
    <2> QED
      BY <2>6, <2>10, <2>11
  <1>5. /\ a \in [1 .. RingSize -> Nat] /\ b \in [1 .. RingSize -> Nat] /\ w \in [1 .. RingSize -> Nat]
    <2>1. /\ a = [i \in 1 .. RingSize |-> a[i]] /\ b = [i \in 1 .. RingSize |-> b[i]]
          /\ w = [i \in 1 .. RingSize |-> w[i]]
      BY <1>3 DEF SlotTerm
    <2> QED
      BY <1>4, <2>1
  <1>6. WindowSum(r, f, span) = SumTo(RingSize, w)
    BY <1>3 DEF WindowSum
  <1>7. SumTo(RingSize, a) = MadeIn(added, r, f, span)
    <2>1. added \in Histories /\ \A e \in Epochs : added[r][e][f] <= added[r][e][f]
      BY <1>0 DEF RingTypeOK, Histories
    <2> QED
      BY <1>1, <1>3, <2>1, SpanCounted
  <1>8. SumTo(RingSize, b) = MadeIn(early, r, f, span)
    <2>1. early \in Histories /\ \A e \in Epochs : early[r][e][f] <= added[r][e][f]
      BY <1>0 DEF RingTypeOK, NothingBefore
    <2> QED
      BY <1>1, <1>3, <2>1, SpanCounted
  <1>9. SumTo(RingSize, w) <= SumTo(RingSize, a)
    BY <1>2, <1>4, <1>5, SumGrows
  <1>10. PICK s \in [1 .. RingSize -> Nat] : \A i \in 1 .. RingSize : s[i] = w[i] + b[i]
    <2>1. [i \in 1 .. RingSize |-> w[i] + b[i]] \in [1 .. RingSize -> Nat]
      BY <1>5
    <2> QED
      BY <2>1
  <1>11. SumsRelate(RingSize, w, b, s)
    BY <1>2, <1>5, <1>10, SumAdds
  <1>12. SumTo(RingSize, a) <= SumTo(RingSize, s)
    <2>1. \A i \in 1 .. RingSize : a[i] <= s[i]
      BY <1>4, <1>10
    <2> QED
      BY <1>2, <1>5, <2>1, SumGrows
  <1> QED
    BY <1>6, <1>7, <1>8, <1>9, <1>11, <1>12 DEF SumsRelate

\* A window shows its own time and nothing else, whatever is counted.
THEOREM WindowsCount == RingSpec => []WindowCounts
  BY RingInvariant, WindowFollows, PTL
-----------------------------------------------------------------------------
(* The policy walk. *)

\* What the server holds, of rules over the places d.
FlatWorld(w, d) ==
    /\ w = [flags |-> w.flags, held |-> w.held, spent |-> w.spent, strikes |-> w.strikes]
    /\ w.spent \in [d -> Int] /\ w.strikes \in [d -> Int]

\* A request that came in, now or before.
FlatRequest(q) ==
    /\ q = [at |-> q.at, kind |-> q.kind, logOnly |-> q.logOnly, robots |-> q.robots,
            overBotRate |-> q.overBotRate, score |-> q.score, floor |-> q.floor,
            session |-> q.session, would |-> q.would, outcome |-> q.outcome, pass |-> q.pass]
    /\ q.at \in Nat /\ q.floor \in Nat /\ q.would \in Nat /\ q.outcome \in Nat
    /\ q.logOnly \in BOOLEAN /\ q.overBotRate \in BOOLEAN /\ q.pass \in BOOLEAN

FlatState(s, d) ==
    /\ s = [world |-> s.world, rq |-> s.rq]
    /\ FlatWorld(s.world, d) /\ FlatRequest(s.rq)

\* The fields of a world and of a request, one by one.
WorldIs(w, flags, held, spent, strikes) ==
    w.flags = flags /\ w.held = held /\ w.spent = spent /\ w.strikes = strikes

SameInput(q, p) ==
    /\ q.kind = p.kind /\ q.logOnly = p.logOnly
    /\ q.robots = p.robots /\ q.overBotRate = p.overBotRate

Found(q, at, score, floor, session, would, outcome, pass) ==
    /\ q.at = at /\ q.score = score /\ q.floor = floor /\ q.session = session
    /\ q.would = would /\ q.outcome = outcome /\ q.pass = pass

\* Two worlds that differ in what rules that only observe have spent.
SameWorld(v, w) ==
    /\ v.flags = w.flags /\ v.held = w.held /\ v.strikes = w.strikes
    /\ \A i \in DOMAIN rules : ~rules[i].observe => v.spent[i] = w.spent[i]

\* Two walks of one request that differ in what they report.
SameRequest(q, p) == SameInput(q, p) /\ Found(q, p.at, p.score, p.floor, p.session, q.would,
                                              p.outcome, p.pass)

Alike(s, t) == SameWorld(s.world, t.world) /\ SameRequest(s.rq, t.rq)

\* What a rule adds to the session, and the tier it demands.
InSession(fs, s) == [s EXCEPT !.rq.session = @ \cup fs]
Demanding(f, s)  == [s EXCEPT !.rq.floor = IF f > @ THEN f ELSE @]
StrikesAfter(rule, i, s) ==
    [s.world.strikes EXCEPT
        ![i] = IF rule.escalate THEN s.world.strikes[i] + 1 ELSE s.world.strikes[i]]
Struck(rule, i, s) == [s EXCEPT !.world.strikes[i] = IF rule.escalate THEN @ + 1 ELSE @]

\* What each operation makes of a state: its shape stays, and the fields come
\* to what the operation says of them.
LEMMA DownIs ==
    ASSUME NEW d, NEW s, FlatState(s, d)
    PROVE  /\ FlatState(Down(s), d) /\ SameInput(Down(s).rq, s.rq)
           /\ Found(Down(s).rq, s.rq.at + 1, s.rq.score, s.rq.floor, s.rq.session,
                    s.rq.would, s.rq.outcome, s.rq.pass)
           /\ WorldIs(Down(s).world, s.world.flags, s.world.held, s.world.spent,
                      s.world.strikes)
  <1> DEFINE v0 == s.rq.at + 1
  <1>1. Down(s) = [s EXCEPT !.rq.at = v0]
    BY DEF FlatState, FlatRequest, FlatWorld, Down
  <1>2. v0 \in Nat
    BY DEF FlatState, FlatRequest, FlatWorld, Behind
  <1> HIDE DEF v0
  <1>3. FlatState(Down(s), d)
    BY <1>1, <1>2 DEF FlatState, FlatRequest, FlatWorld
  <1>4. /\ SameInput(Down(s).rq, s.rq)
        /\ Found(Down(s).rq, v0, s.rq.score, s.rq.floor, s.rq.session, s.rq.would,
                 s.rq.outcome, s.rq.pass)
        /\ WorldIs(Down(s).world, s.world.flags, s.world.held, s.world.spent,
                   s.world.strikes)
    BY <1>1, <1>2 DEF FlatState, FlatRequest, FlatWorld, SameInput, Found, WorldIs
  <1> QED  BY <1>3, <1>4 DEF v0

LEMMA ReportedIs ==
    ASSUME NEW d, NEW s, FlatState(s, d), NEW o \in Nat
    PROVE  /\ FlatState(Reported(o, s), d) /\ SameInput(Reported(o, s).rq, s.rq)
           /\ Found(Reported(o, s).rq, s.rq.at, s.rq.score, s.rq.floor, s.rq.session,
                    IF o > s.rq.would THEN o ELSE s.rq.would, s.rq.outcome, s.rq.pass)
           /\ WorldIs(Reported(o, s).world, s.world.flags, s.world.held, s.world.spent,
                      s.world.strikes)
  <1> DEFINE v0 == IF o > s.rq.would THEN o ELSE s.rq.would
  <1>1. Reported(o, s) = [s EXCEPT !.rq.would = v0]
    BY DEF FlatState, FlatRequest, FlatWorld, Reported
  <1>2. v0 \in Nat
    BY DEF FlatState, FlatRequest, FlatWorld, Behind
  <1> HIDE DEF v0
  <1>3. FlatState(Reported(o, s), d)
    BY <1>1, <1>2 DEF FlatState, FlatRequest, FlatWorld
  <1>4. /\ SameInput(Reported(o, s).rq, s.rq)
        /\ Found(Reported(o, s).rq, s.rq.at, s.rq.score, s.rq.floor, s.rq.session, v0,
                 s.rq.outcome, s.rq.pass)
        /\ WorldIs(Reported(o, s).world, s.world.flags, s.world.held, s.world.spent,
                   s.world.strikes)
    BY <1>1, <1>2 DEF FlatState, FlatRequest, FlatWorld, SameInput, Found, WorldIs
  <1> QED  BY <1>3, <1>4 DEF v0

LEMMA FlaggedIs ==
    ASSUME NEW d, NEW s, FlatState(s, d), NEW fs
    PROVE  /\ FlatState(Flagged(fs, s), d) /\ SameInput(Flagged(fs, s).rq, s.rq)
           /\ Found(Flagged(fs, s).rq, s.rq.at, s.rq.score, s.rq.floor, s.rq.session,
                    s.rq.would, s.rq.outcome, s.rq.pass)
           /\ WorldIs(Flagged(fs, s).world, s.world.flags \cup fs, s.world.held,
                      s.world.spent, s.world.strikes)
  <1> DEFINE v0 == s.world.flags \cup fs
  <1>1. Flagged(fs, s) = [s EXCEPT !.world.flags = v0]
    BY DEF FlatState, FlatRequest, FlatWorld, Flagged
  <1> HIDE DEF v0
  <1>3. FlatState(Flagged(fs, s), d)
    BY <1>1 DEF FlatState, FlatRequest, FlatWorld
  <1>4. /\ SameInput(Flagged(fs, s).rq, s.rq)
        /\ Found(Flagged(fs, s).rq, s.rq.at, s.rq.score, s.rq.floor, s.rq.session,
                 s.rq.would, s.rq.outcome, s.rq.pass)
        /\ WorldIs(Flagged(fs, s).world, v0, s.world.held, s.world.spent, s.world.strikes)
    BY <1>1 DEF FlatState, FlatRequest, FlatWorld, SameInput, Found, WorldIs
  <1> QED  BY <1>3, <1>4 DEF v0

LEMMA ScoredIs ==
    ASSUME NEW d, NEW s, FlatState(s, d), NEW rule
    PROVE  /\ FlatState(Scored(rule, s), d) /\ SameInput(Scored(rule, s).rq, s.rq)
           /\ Found(Scored(rule, s).rq, s.rq.at, ScoreAfter(s.rq.score, rule.scores),
                    s.rq.floor, s.rq.session, s.rq.would, s.rq.outcome, s.rq.pass)
           /\ WorldIs(Scored(rule, s).world, s.world.flags, s.world.held, s.world.spent,
                      s.world.strikes)
  <1> DEFINE v0 == ScoreAfter(s.rq.score, rule.scores)
  <1>1. Scored(rule, s) = [s EXCEPT !.rq.score = v0]
    BY DEF FlatState, FlatRequest, FlatWorld, Scored
  <1> HIDE DEF v0
  <1>3. FlatState(Scored(rule, s), d)
    BY <1>1 DEF FlatState, FlatRequest, FlatWorld
  <1>4. /\ SameInput(Scored(rule, s).rq, s.rq)
        /\ Found(Scored(rule, s).rq, s.rq.at, v0, s.rq.floor, s.rq.session, s.rq.would,
                 s.rq.outcome, s.rq.pass)
        /\ WorldIs(Scored(rule, s).world, s.world.flags, s.world.held, s.world.spent,
                   s.world.strikes)
    BY <1>1 DEF FlatState, FlatRequest, FlatWorld, SameInput, Found, WorldIs
  <1> QED  BY <1>3, <1>4 DEF v0

LEMMA InSessionIs ==
    ASSUME NEW d, NEW s, FlatState(s, d), NEW fs
    PROVE  /\ FlatState(InSession(fs, s), d) /\ SameInput(InSession(fs, s).rq, s.rq)
           /\ Found(InSession(fs, s).rq, s.rq.at, s.rq.score, s.rq.floor,
                    s.rq.session \cup fs, s.rq.would, s.rq.outcome, s.rq.pass)
           /\ WorldIs(InSession(fs, s).world, s.world.flags, s.world.held, s.world.spent,
                      s.world.strikes)
  <1> DEFINE v0 == s.rq.session \cup fs
  <1>1. InSession(fs, s) = [s EXCEPT !.rq.session = v0]
    BY DEF FlatState, FlatRequest, FlatWorld, InSession
  <1> HIDE DEF v0
  <1>3. FlatState(InSession(fs, s), d)
    BY <1>1 DEF FlatState, FlatRequest, FlatWorld
  <1>4. /\ SameInput(InSession(fs, s).rq, s.rq)
        /\ Found(InSession(fs, s).rq, s.rq.at, s.rq.score, s.rq.floor, v0, s.rq.would,
                 s.rq.outcome, s.rq.pass)
        /\ WorldIs(InSession(fs, s).world, s.world.flags, s.world.held, s.world.spent,
                   s.world.strikes)
    BY <1>1 DEF FlatState, FlatRequest, FlatWorld, SameInput, Found, WorldIs
  <1> QED  BY <1>3, <1>4 DEF v0

LEMMA DemandingIs ==
    ASSUME NEW d, NEW s, FlatState(s, d), NEW f \in Nat
    PROVE  /\ FlatState(Demanding(f, s), d) /\ SameInput(Demanding(f, s).rq, s.rq)
           /\ Found(Demanding(f, s).rq, s.rq.at, s.rq.score,
                    IF f > s.rq.floor THEN f ELSE s.rq.floor, s.rq.session, s.rq.would, s.rq.outcome, s.rq.pass)
           /\ WorldIs(Demanding(f, s).world, s.world.flags, s.world.held, s.world.spent,
                      s.world.strikes)
  <1> DEFINE v0 == IF f > s.rq.floor THEN f ELSE s.rq.floor
  <1>1. Demanding(f, s) = [s EXCEPT !.rq.floor = v0]
    BY DEF FlatState, FlatRequest, FlatWorld, Demanding
  <1>2. v0 \in Nat
    BY DEF FlatState, FlatRequest, FlatWorld, Behind
  <1> HIDE DEF v0
  <1>3. FlatState(Demanding(f, s), d)
    BY <1>1, <1>2 DEF FlatState, FlatRequest, FlatWorld
  <1>4. /\ SameInput(Demanding(f, s).rq, s.rq)
        /\ Found(Demanding(f, s).rq, s.rq.at, s.rq.score, v0, s.rq.session, s.rq.would,
                 s.rq.outcome, s.rq.pass)
        /\ WorldIs(Demanding(f, s).world, s.world.flags, s.world.held, s.world.spent,
                   s.world.strikes)
    BY <1>1, <1>2 DEF FlatState, FlatRequest, FlatWorld, SameInput, Found, WorldIs
  <1> QED  BY <1>3, <1>4 DEF v0

LEMMA RefusedIs ==
    ASSUME NEW d, NEW s, FlatState(s, d), NEW o \in Nat, rules \in Seq(LadderRule)
    PROVE  /\ FlatState(Refused(o, s), d) /\ SameInput(Refused(o, s).rq, s.rq)
           /\ Found(Refused(o, s).rq, Behind + 1, s.rq.score, s.rq.floor, s.rq.session,
                    s.rq.would, o, s.rq.pass)
           /\ WorldIs(Refused(o, s).world, s.world.flags, s.world.held, s.world.spent,
                      s.world.strikes)
  <1> DEFINE v0 == Behind + 1
  <1> DEFINE v1 == o
  <1>1. Refused(o, s) = [s EXCEPT !.rq = [s.rq EXCEPT !.at = v0, !.outcome = v1]]
    BY DEF FlatState, FlatRequest, FlatWorld, Refused
  <1>2. v0 \in Nat /\ v1 \in Nat
    BY DEF FlatState, FlatRequest, FlatWorld, Behind
  <1> HIDE DEF v0, v1
  <1>3. FlatState(Refused(o, s), d)
    BY ZenonT(30), <1>1, <1>2 DEF FlatState, FlatRequest, FlatWorld
  <1>4. /\ SameInput(Refused(o, s).rq, s.rq)
        /\ Found(Refused(o, s).rq, v0, s.rq.score, s.rq.floor, s.rq.session, s.rq.would, v1,
                 s.rq.pass)
        /\ WorldIs(Refused(o, s).world, s.world.flags, s.world.held, s.world.spent,
                   s.world.strikes)
    BY ZenonT(30), <1>1, <1>2 DEF FlatState, FlatRequest, FlatWorld, SameInput, Found, WorldIs
  <1> QED  BY <1>3, <1>4 DEF v0, v1

LEMMA PassedIs ==
    ASSUME NEW d, NEW s, FlatState(s, d), rules \in Seq(LadderRule)
    PROVE  /\ FlatState(Passed(s), d) /\ SameInput(Passed(s).rq, s.rq)
           /\ Found(Passed(s).rq, Behind, s.rq.score, s.rq.floor, s.rq.session, s.rq.would,
                    s.rq.outcome, TRUE)
           /\ WorldIs(Passed(s).world, s.world.flags, s.world.held, s.world.spent,
                      s.world.strikes)
  <1> DEFINE v0 == Behind
  <1> DEFINE v1 == TRUE
  <1>1. Passed(s) = [s EXCEPT !.rq = [s.rq EXCEPT !.at = v0, !.pass = v1]]
    BY DEF FlatState, FlatRequest, FlatWorld, Passed
  <1>2. v0 \in Nat /\ v1 \in BOOLEAN
    BY DEF FlatState, FlatRequest, FlatWorld, Behind
  <1> HIDE DEF v0, v1
  <1>3. FlatState(Passed(s), d)
    BY ZenonT(30), <1>1, <1>2 DEF FlatState, FlatRequest, FlatWorld
  <1>4. /\ SameInput(Passed(s).rq, s.rq)
        /\ Found(Passed(s).rq, v0, s.rq.score, s.rq.floor, s.rq.session, s.rq.would,
                 s.rq.outcome, v1)
        /\ WorldIs(Passed(s).world, s.world.flags, s.world.held, s.world.spent,
                   s.world.strikes)
    BY ZenonT(30), <1>1, <1>2 DEF FlatState, FlatRequest, FlatWorld, SameInput, Found, WorldIs
  <1> QED  BY <1>3, <1>4 DEF v0, v1

LEMMA SpentIs ==
    ASSUME NEW d, NEW s, FlatState(s, d), NEW i \in d
    PROVE  /\ FlatState(Spent(i, s), d) /\ SameInput(Spent(i, s).rq, s.rq)
           /\ Found(Spent(i, s).rq, s.rq.at, s.rq.score, s.rq.floor, s.rq.session,
                    s.rq.would, s.rq.outcome, s.rq.pass)
           /\ WorldIs(Spent(i, s).world, s.world.flags, s.world.held,
                      [s.world.spent EXCEPT ![i] = s.world.spent[i] + 1], s.world.strikes)
  <1> DEFINE v0 == [s.world.spent EXCEPT ![i] = s.world.spent[i] + 1]
  <1>1. Spent(i, s) = [s EXCEPT !.world.spent = v0]
    BY DEF FlatState, FlatRequest, FlatWorld, Spent
  <1>2. v0 \in [d -> Int]
    BY DEF FlatState, FlatRequest, FlatWorld, Behind
  <1> HIDE DEF v0
  <1>3. FlatState(Spent(i, s), d)
    BY <1>1, <1>2 DEF FlatState, FlatRequest, FlatWorld
  <1>4. /\ SameInput(Spent(i, s).rq, s.rq)
        /\ Found(Spent(i, s).rq, s.rq.at, s.rq.score, s.rq.floor, s.rq.session, s.rq.would,
                 s.rq.outcome, s.rq.pass)
        /\ WorldIs(Spent(i, s).world, s.world.flags, s.world.held, v0, s.world.strikes)
    BY <1>1, <1>2 DEF FlatState, FlatRequest, FlatWorld, SameInput, Found, WorldIs
  <1> QED  BY <1>3, <1>4 DEF v0

LEMMA StruckIs ==
    ASSUME NEW d, NEW s, FlatState(s, d), NEW rule, NEW i \in d
    PROVE  /\ FlatState(Struck(rule, i, s), d) /\ SameInput(Struck(rule, i, s).rq, s.rq)
           /\ Found(Struck(rule, i, s).rq, s.rq.at, s.rq.score, s.rq.floor, s.rq.session,
                    s.rq.would, s.rq.outcome, s.rq.pass)
           /\ WorldIs(Struck(rule, i, s).world, s.world.flags, s.world.held, s.world.spent,
                      StrikesAfter(rule, i, s))
  <1> DEFINE v0 == StrikesAfter(rule, i, s)
  <1>1. Struck(rule, i, s) = [s EXCEPT !.world.strikes = v0]
    BY DEF FlatState, FlatRequest, FlatWorld, Struck, StrikesAfter
  <1>2. v0 \in [d -> Int]
    BY DEF FlatState, FlatRequest, FlatWorld, StrikesAfter
  <1> HIDE DEF v0
  <1>3. FlatState(Struck(rule, i, s), d)
    BY <1>1, <1>2 DEF FlatState, FlatRequest, FlatWorld
  <1>4. /\ SameInput(Struck(rule, i, s).rq, s.rq)
        /\ Found(Struck(rule, i, s).rq, s.rq.at, s.rq.score, s.rq.floor, s.rq.session,
                 s.rq.would, s.rq.outcome, s.rq.pass)
        /\ WorldIs(Struck(rule, i, s).world, s.world.flags, s.world.held, s.world.spent, v0)
    BY <1>1, <1>2 DEF FlatState, FlatRequest, FlatWorld, SameInput, Found, WorldIs
  <1> QED  BY <1>3, <1>4 DEF v0

(* Walks that are alike stay so, whatever is done to both. *)

LEMMA DownAlike ==
    ASSUME NEW d, NEW s, NEW t, FlatState(s, d), FlatState(t, d), Alike(s, t)
    PROVE  Alike(Down(s), Down(t))
  <1>1. /\ SameInput(Down(s).rq, s.rq)
        /\ Found(Down(s).rq, s.rq.at + 1, s.rq.score, s.rq.floor, s.rq.session, s.rq.would,
                 s.rq.outcome, s.rq.pass)
        /\ WorldIs(Down(s).world, s.world.flags, s.world.held, s.world.spent,
                   s.world.strikes)
    BY DownIs
  <1>2. /\ SameInput(Down(t).rq, t.rq)
        /\ Found(Down(t).rq, t.rq.at + 1, t.rq.score, t.rq.floor, t.rq.session, t.rq.would,
                 t.rq.outcome, t.rq.pass)
        /\ WorldIs(Down(t).world, t.world.flags, t.world.held, t.world.spent,
                   t.world.strikes)
    BY DownIs
  <1> QED  BY <1>1, <1>2 DEF Alike, SameWorld, SameRequest, SameInput, Found, WorldIs

LEMMA FlaggedAlike ==
    ASSUME NEW d, NEW s, NEW t, FlatState(s, d), FlatState(t, d), Alike(s, t), NEW fs
    PROVE  Alike(Flagged(fs, s), Flagged(fs, t))
  <1>1. /\ SameInput(Flagged(fs, s).rq, s.rq)
        /\ Found(Flagged(fs, s).rq, s.rq.at, s.rq.score, s.rq.floor, s.rq.session,
                 s.rq.would, s.rq.outcome, s.rq.pass)
        /\ WorldIs(Flagged(fs, s).world, s.world.flags \cup fs, s.world.held, s.world.spent,
                   s.world.strikes)
    BY FlaggedIs
  <1>2. /\ SameInput(Flagged(fs, t).rq, t.rq)
        /\ Found(Flagged(fs, t).rq, t.rq.at, t.rq.score, t.rq.floor, t.rq.session,
                 t.rq.would, t.rq.outcome, t.rq.pass)
        /\ WorldIs(Flagged(fs, t).world, t.world.flags \cup fs, t.world.held, t.world.spent,
                   t.world.strikes)
    BY FlaggedIs
  <1> QED  BY <1>1, <1>2 DEF Alike, SameWorld, SameRequest, SameInput, Found, WorldIs

LEMMA ScoredAlike ==
    ASSUME NEW d, NEW s, NEW t, FlatState(s, d), FlatState(t, d), Alike(s, t), NEW rule
    PROVE  Alike(Scored(rule, s), Scored(rule, t))
  <1>1. /\ SameInput(Scored(rule, s).rq, s.rq)
        /\ Found(Scored(rule, s).rq, s.rq.at, ScoreAfter(s.rq.score, rule.scores),
                 s.rq.floor, s.rq.session, s.rq.would, s.rq.outcome, s.rq.pass)
        /\ WorldIs(Scored(rule, s).world, s.world.flags, s.world.held, s.world.spent,
                   s.world.strikes)
    BY ScoredIs
  <1>2. /\ SameInput(Scored(rule, t).rq, t.rq)
        /\ Found(Scored(rule, t).rq, t.rq.at, ScoreAfter(t.rq.score, rule.scores),
                 t.rq.floor, t.rq.session, t.rq.would, t.rq.outcome, t.rq.pass)
        /\ WorldIs(Scored(rule, t).world, t.world.flags, t.world.held, t.world.spent,
                   t.world.strikes)
    BY ScoredIs
  <1> QED  BY <1>1, <1>2 DEF Alike, SameWorld, SameRequest, SameInput, Found, WorldIs

LEMMA InSessionAlike ==
    ASSUME NEW d, NEW s, NEW t, FlatState(s, d), FlatState(t, d), Alike(s, t), NEW fs
    PROVE  Alike(InSession(fs, s), InSession(fs, t))
  <1>1. /\ SameInput(InSession(fs, s).rq, s.rq)
        /\ Found(InSession(fs, s).rq, s.rq.at, s.rq.score, s.rq.floor, s.rq.session \cup fs,
                 s.rq.would, s.rq.outcome, s.rq.pass)
        /\ WorldIs(InSession(fs, s).world, s.world.flags, s.world.held, s.world.spent,
                   s.world.strikes)
    BY InSessionIs
  <1>2. /\ SameInput(InSession(fs, t).rq, t.rq)
        /\ Found(InSession(fs, t).rq, t.rq.at, t.rq.score, t.rq.floor, t.rq.session \cup fs,
                 t.rq.would, t.rq.outcome, t.rq.pass)
        /\ WorldIs(InSession(fs, t).world, t.world.flags, t.world.held, t.world.spent,
                   t.world.strikes)
    BY InSessionIs
  <1> QED  BY <1>1, <1>2 DEF Alike, SameWorld, SameRequest, SameInput, Found, WorldIs

LEMMA DemandingAlike ==
    ASSUME NEW d, NEW s, NEW t, FlatState(s, d), FlatState(t, d), Alike(s, t), NEW f \in Nat
    PROVE  Alike(Demanding(f, s), Demanding(f, t))
  <1>1. /\ SameInput(Demanding(f, s).rq, s.rq)
        /\ Found(Demanding(f, s).rq, s.rq.at, s.rq.score,
                 IF f > s.rq.floor THEN f ELSE s.rq.floor, s.rq.session, s.rq.would, s.rq.outcome, s.rq.pass)
        /\ WorldIs(Demanding(f, s).world, s.world.flags, s.world.held, s.world.spent,
                   s.world.strikes)
    BY DemandingIs
  <1>2. /\ SameInput(Demanding(f, t).rq, t.rq)
        /\ Found(Demanding(f, t).rq, t.rq.at, t.rq.score,
                 IF f > t.rq.floor THEN f ELSE t.rq.floor, t.rq.session, t.rq.would, t.rq.outcome, t.rq.pass)
        /\ WorldIs(Demanding(f, t).world, t.world.flags, t.world.held, t.world.spent,
                   t.world.strikes)
    BY DemandingIs
  <1> QED  BY <1>1, <1>2 DEF Alike, SameWorld, SameRequest, SameInput, Found, WorldIs

LEMMA RefusedAlike ==
    ASSUME NEW d, NEW s, NEW t, FlatState(s, d), FlatState(t, d), Alike(s, t),
           NEW o \in Nat, rules \in Seq(LadderRule)
    PROVE  Alike(Refused(o, s), Refused(o, t))
  <1>1. /\ SameInput(Refused(o, s).rq, s.rq)
        /\ Found(Refused(o, s).rq, Behind + 1, s.rq.score, s.rq.floor, s.rq.session,
                 s.rq.would, o, s.rq.pass)
        /\ WorldIs(Refused(o, s).world, s.world.flags, s.world.held, s.world.spent,
                   s.world.strikes)
    BY RefusedIs
  <1>2. /\ SameInput(Refused(o, t).rq, t.rq)
        /\ Found(Refused(o, t).rq, Behind + 1, t.rq.score, t.rq.floor, t.rq.session,
                 t.rq.would, o, t.rq.pass)
        /\ WorldIs(Refused(o, t).world, t.world.flags, t.world.held, t.world.spent,
                   t.world.strikes)
    BY RefusedIs
  <1> QED  BY <1>1, <1>2 DEF Alike, SameWorld, SameRequest, SameInput, Found, WorldIs

LEMMA PassedAlike ==
    ASSUME NEW d, NEW s, NEW t, FlatState(s, d), FlatState(t, d), Alike(s, t),
           rules \in Seq(LadderRule)
    PROVE  Alike(Passed(s), Passed(t))
  <1>1. /\ SameInput(Passed(s).rq, s.rq)
        /\ Found(Passed(s).rq, Behind, s.rq.score, s.rq.floor, s.rq.session, s.rq.would,
                 s.rq.outcome, TRUE)
        /\ WorldIs(Passed(s).world, s.world.flags, s.world.held, s.world.spent,
                   s.world.strikes)
    BY PassedIs
  <1>2. /\ SameInput(Passed(t).rq, t.rq)
        /\ Found(Passed(t).rq, Behind, t.rq.score, t.rq.floor, t.rq.session, t.rq.would,
                 t.rq.outcome, TRUE)
        /\ WorldIs(Passed(t).world, t.world.flags, t.world.held, t.world.spent,
                   t.world.strikes)
    BY PassedIs
  <1> QED  BY <1>1, <1>2 DEF Alike, SameWorld, SameRequest, SameInput, Found, WorldIs

LEMMA StruckAlike ==
    ASSUME NEW s, NEW t, FlatState(s, DOMAIN rules), FlatState(t, DOMAIN rules),
           Alike(s, t), NEW rule, NEW i \in DOMAIN rules
    PROVE  Alike(Struck(rule, i, s), Struck(rule, i, t))
  <1>1. /\ SameInput(Struck(rule, i, s).rq, s.rq)
        /\ Found(Struck(rule, i, s).rq, s.rq.at, s.rq.score, s.rq.floor, s.rq.session,
                 s.rq.would, s.rq.outcome, s.rq.pass)
        /\ WorldIs(Struck(rule, i, s).world, s.world.flags, s.world.held, s.world.spent,
                   StrikesAfter(rule, i, s))
    BY StruckIs
  <1>2. /\ SameInput(Struck(rule, i, t).rq, t.rq)
        /\ Found(Struck(rule, i, t).rq, t.rq.at, t.rq.score, t.rq.floor, t.rq.session,
                 t.rq.would, t.rq.outcome, t.rq.pass)
        /\ WorldIs(Struck(rule, i, t).world, t.world.flags, t.world.held, t.world.spent,
                   StrikesAfter(rule, i, t))
    BY StruckIs
  <1> QED  BY <1>1, <1>2 DEF Alike, SameWorld, SameRequest, SameInput, Found, WorldIs,
                              StrikesAfter

LEMMA ReportedAlike ==
    ASSUME NEW d, NEW s, NEW t, FlatState(s, d), Alike(s, t), NEW o \in Nat
    PROVE  Alike(Reported(o, s), t)
  BY ReportedIs DEF Alike, SameWorld, SameRequest, SameInput, Found, WorldIs

\* A rule that does not observe finds as much spent in both; what an observed
\* rule spends does not tell them apart.
LEMMA SpentAlike ==
    ASSUME NEW s, NEW t, FlatState(s, DOMAIN rules), FlatState(t, DOMAIN rules),
           Alike(s, t), NEW i \in DOMAIN rules
    PROVE  /\ ~rules[i].observe => Alike(Spent(i, s), Spent(i, t))
           /\ rules[i].observe => Alike(Spent(i, s), t)
  <1>1. \A u : FlatState(u, DOMAIN rules) => u.world.spent \in [DOMAIN rules -> Int]
    BY DEF FlatState, FlatWorld
  <1>2. \A u : FlatState(u, DOMAIN rules) =>
           /\ SameInput(Spent(i, u).rq, u.rq)
           /\ Found(Spent(i, u).rq, u.rq.at, u.rq.score, u.rq.floor, u.rq.session,
                    u.rq.would, u.rq.outcome, u.rq.pass)
    BY SpentIs
  <1>3. \A u : FlatState(u, DOMAIN rules) =>
           WorldIs(Spent(i, u).world, u.world.flags, u.world.held,
                 [u.world.spent EXCEPT ![i] = u.world.spent[i] + 1], u.world.strikes)
    BY SpentIs
  <1>4. /\ SameRequest(Spent(i, s).rq, Spent(i, t).rq)
        /\ SameRequest(Spent(i, s).rq, t.rq)
    BY <1>2 DEF Alike, SameRequest, SameInput, Found
  <1>5. ~rules[i].observe => SameWorld(Spent(i, s).world, Spent(i, t).world)
    <2> DEFINE a == [s.world.spent EXCEPT ![i] = s.world.spent[i] + 1]
               b == [t.world.spent EXCEPT ![i] = t.world.spent[i] + 1]
    <2> SUFFICES ASSUME ~rules[i].observe
                 PROVE  SameWorld(Spent(i, s).world, Spent(i, t).world)
      OBVIOUS
    <2>1. \A j \in DOMAIN rules : ~rules[j].observe => a[j] = b[j]
      BY <1>1 DEF Alike, SameWorld
    <2> HIDE DEF a, b
    <2>2. /\ WorldIs(Spent(i, s).world, s.world.flags, s.world.held, a, s.world.strikes)
          /\ WorldIs(Spent(i, t).world, t.world.flags, t.world.held, b, t.world.strikes)
      BY <1>3 DEF a, b
    <2> QED  BY <2>1, <2>2 DEF Alike, SameWorld, WorldIs
  <1>6. rules[i].observe => SameWorld(Spent(i, s).world, t.world)
    BY <1>1, <1>3 DEF Alike, SameWorld, WorldIs
  <1> QED  BY <1>4, <1>5, <1>6 DEF Alike

\* What a rule does to what it marks and scores, step by step.
Marked(rule, s) == Scored(rule, Flagged(rule.flagIp, InSession(rule.flagSession, s)))

\* A rule's marks and scores move before it decides.
LEMMA MarkedIs ==
    ASSUME NEW d, NEW s, FlatState(s, d), NEW rule \in LadderRule
    PROVE  /\ FlatState(Marked(rule, s), d) /\ SameInput(Marked(rule, s).rq, s.rq)
           /\ Found(Marked(rule, s).rq, s.rq.at, ScoreAfter(s.rq.score, rule.scores),
                    s.rq.floor,
                    s.rq.session \cup rule.flagSession, s.rq.would, s.rq.outcome, s.rq.pass)
           /\ WorldIs(Marked(rule, s).world, s.world.flags \cup rule.flagIp, s.world.held,
                    s.world.spent, s.world.strikes)
  <1> DEFINE a == InSession(rule.flagSession, s)
             b == Flagged(rule.flagIp, a)
  <1>1. /\ FlatState(a, d) /\ SameInput(a.rq, s.rq)
        /\ Found(a.rq, s.rq.at, s.rq.score, s.rq.floor, s.rq.session \cup rule.flagSession,
                 s.rq.would, s.rq.outcome, s.rq.pass)
        /\ WorldIs(a.world, s.world.flags, s.world.held, s.world.spent, s.world.strikes)
    BY InSessionIs
  <1> HIDE DEF a
  <1>2. /\ FlatState(b, d) /\ SameInput(b.rq, a.rq)
        /\ Found(b.rq, a.rq.at, a.rq.score, a.rq.floor, a.rq.session,
                 a.rq.would, a.rq.outcome, a.rq.pass)
        /\ WorldIs(b.world, a.world.flags \cup rule.flagIp, a.world.held, a.world.spent,
                   a.world.strikes)
    BY <1>1, FlaggedIs
  <1> HIDE DEF b
  <1>3. Marked(rule, s) = Scored(rule, b)
    BY DEF Marked, a, b
  <1>4. /\ FlatState(Scored(rule, b), d) /\ SameInput(Scored(rule, b).rq, b.rq)
        /\ Found(Scored(rule, b).rq, b.rq.at, ScoreAfter(b.rq.score, rule.scores),
                 b.rq.floor, b.rq.session,
                 b.rq.would, b.rq.outcome, b.rq.pass)
        /\ WorldIs(Scored(rule, b).world, b.world.flags, b.world.held, b.world.spent,
                   b.world.strikes)
    BY <1>2, ScoredIs
  <1> QED  BY <1>1, <1>2, <1>3, <1>4 DEF SameInput, Found, WorldIs

\* Marks and scores keep two walks alike.
LEMMA MarkedAlike ==
    ASSUME NEW d, NEW s, NEW t, FlatState(s, d), FlatState(t, d), Alike(s, t),
           NEW rule \in LadderRule
    PROVE  Alike(Marked(rule, s), Marked(rule, t))
  <1>1. \A u : FlatState(u, d) => FlatState(InSession(rule.flagSession, u), d)
    BY InSessionIs
  <1>2. \A u : FlatState(u, d) => FlatState(Flagged(rule.flagIp, u), d)
    BY FlaggedIs
  <1>3. Alike(InSession(rule.flagSession, s), InSession(rule.flagSession, t))
    BY InSessionAlike
  <1>4. Alike(Flagged(rule.flagIp, InSession(rule.flagSession, s)),
              Flagged(rule.flagIp, InSession(rule.flagSession, t)))
    BY <1>1, <1>3, FlaggedAlike
  <1> QED  BY <1>1, <1>2, <1>4, ScoredAlike DEF Marked

\* The action of a rule: a refusal, a pass or the next rule.
LEMMA ActedIs ==
    ASSUME NEW rule, NEW s
    PROVE  Acted(rule, s) =
             IF rule.respond # Served THEN Refused(rule.respond, Marked(rule, s))
             ELSE IF rule.floor = 0 /\ rule.scores = <<>> THEN Passed(Marked(rule, s))
             ELSE Down(Demanding(rule.floor, Marked(rule, s)))
  BY DEF Acted, Marked, InSession, Demanding

\* The types of a rule that decide what it does.
LEMMA RuleFields ==
    ASSUME NEW rule \in LadderRule
    PROVE  /\ rule.budget \in Nat /\ rule.floor \in Nat /\ rule.respond \in Nat
           /\ rule.observe \in BOOLEAN /\ rule.escalate \in BOOLEAN
  BY DEF LadderRule, Served, Limited, Blocked

\* An action keeps the shape of a state.
LEMMA ActedFlat ==
    ASSUME NEW d, NEW s, FlatState(s, d), NEW rule \in LadderRule, rules \in Seq(LadderRule)
    PROVE  FlatState(Acted(rule, s), d)
  <1>1. FlatState(Marked(rule, s), d)
    BY MarkedIs
  <1>2. FlatState(Refused(rule.respond, Marked(rule, s)), d)
    BY <1>1, RefusedIs, RuleFields
  <1>3. FlatState(Passed(Marked(rule, s)), d)
    BY <1>1, PassedIs
  <1>4. FlatState(Demanding(rule.floor, Marked(rule, s)), d)
    BY <1>1, DemandingIs, RuleFields
  <1>5. FlatState(Down(Demanding(rule.floor, Marked(rule, s))), d)
    BY <1>4, DownIs
  <1> QED  BY <1>2, <1>3, <1>5, ActedIs

\* An action keeps two walks alike.
LEMMA ActedAlike ==
    ASSUME NEW d, NEW s, NEW t, FlatState(s, d), FlatState(t, d), Alike(s, t),
           NEW rule \in LadderRule, rules \in Seq(LadderRule)
    PROVE  Alike(Acted(rule, s), Acted(rule, t))
  <1>1. \A u : FlatState(u, d) => FlatState(Marked(rule, u), d)
    BY MarkedIs
  <1>2. Alike(Marked(rule, s), Marked(rule, t))
    BY MarkedAlike
  <1>3. Alike(Refused(rule.respond, Marked(rule, s)), Refused(rule.respond,
                                                              Marked(rule, t)))
    BY <1>1, <1>2, RefusedAlike, RuleFields
  <1>4. Alike(Passed(Marked(rule, s)), Passed(Marked(rule, t)))
    BY <1>1, <1>2, PassedAlike
  <1>5. Alike(Demanding(rule.floor, Marked(rule, s)), Demanding(rule.floor,
                                                                Marked(rule, t)))
    BY <1>1, <1>2, DemandingAlike, RuleFields
  <1>6. \A u : FlatState(u, d) => FlatState(Demanding(rule.floor, Marked(rule, u)), d)
    BY <1>1, DemandingIs, RuleFields
  <1>7. Alike(Down(Demanding(rule.floor, Marked(rule, s))), Down(Demanding(rule.floor,
                                                                           Marked(rule, t))))
    BY <1>5, <1>6, DownAlike
  <1> QED  BY <1>3, <1>4, <1>7, ActedIs

\* The cases of an enforced rule: without a budget, escalated, admitted, over
\* the budget with an action and without one.
LEMMA EnforcedIs ==
    ASSUME NEW rule \in LadderRule, NEW i, NEW s
    PROVE  Enforced(rule, i, s) =
             IF rule.budget = 0 THEN Acted(rule, s)
             ELSE IF rule.escalate /\ s.world.strikes[i] >= StrikesMax
                  THEN Refused(Blocked, Flagged({"rate_abuse"}, s))
             ELSE IF Admits(rule, i, s) THEN Down(Spent(i, s))
             ELSE IF SaysMore(rule) THEN Acted(rule, Struck(rule, i, Flagged({"rate_abuse"},
                                                                             s)))
             ELSE Refused(Limited, Struck(rule, i, Flagged({"rate_abuse"}, s)))
  <1>1. Struck(rule, i, Flagged({"rate_abuse"}, s)) =
          [Flagged({"rate_abuse"}, s) EXCEPT
              !.world.strikes[i] = IF rule.escalate THEN @ + 1 ELSE @]
    BY DEF Struck
  <1> HIDE DEF Struck, Flagged, Acted, Refused, Down, Spent, Admits, SaysMore
  <1> DEFINE struck == Struck(rule, i, Flagged({"rate_abuse"}, s))
             beyond == rule.escalate /\ s.world.strikes[i] >= StrikesMax
  <1>2. Enforced(rule, i, s) =
          CASE rule.budget = 0 -> Acted(rule, s)
            [] rule.budget > 0 /\ beyond -> Refused(Blocked, Flagged({"rate_abuse"}, s))
            [] rule.budget > 0 /\ ~beyond ->
                 IF Admits(rule, i, s) THEN Down(Spent(i, s))
                 ELSE IF SaysMore(rule) THEN Acted(rule, struck)
                 ELSE Refused(Limited, struck)
    BY <1>1 DEF Enforced
  <1> HIDE DEF struck, beyond
  <1>3. rule.budget = 0 \/ (rule.budget > 0 /\ beyond) \/ (rule.budget > 0 /\ ~beyond)
    BY RuleFields
  <1>4. Enforced(rule, i, s) =
          IF rule.budget = 0 THEN Acted(rule, s)
          ELSE IF beyond THEN Refused(Blocked, Flagged({"rate_abuse"}, s))
          ELSE IF Admits(rule, i, s) THEN Down(Spent(i, s))
          ELSE IF SaysMore(rule) THEN Acted(rule, struck) ELSE Refused(Limited, struck)
    BY <1>2, <1>3
  <1> QED  BY <1>4 DEF struck, beyond

\* An enforced rule keeps the shape of a state.
LEMMA EnforcedFlat ==
    ASSUME NEW d, NEW s, FlatState(s, d), NEW rule \in LadderRule, NEW i \in d,
           rules \in Seq(LadderRule)
    PROVE  FlatState(Enforced(rule, i, s), d)
  <1> DEFINE f == Flagged({"rate_abuse"}, s)
             g == Struck(rule, i, f)
  <1>1. FlatState(f, d)
    BY FlaggedIs
  <1> HIDE DEF f
  <1>2. FlatState(g, d)
    BY <1>1, StruckIs
  <1> HIDE DEF g
  <1>3. FlatState(Down(Spent(i, s)), d)
    BY SpentIs, DownIs
  <1>4. FlatState(Acted(rule, s), d) /\ FlatState(Acted(rule, g), d)
    BY <1>2, ActedFlat
  <1>5. FlatState(Refused(Blocked, f), d) /\ FlatState(Refused(Limited, g), d)
    BY <1>1, <1>2, RefusedIs DEF Blocked, Limited
  <1> QED  BY <1>3, <1>4, <1>5, EnforcedIs DEF f, g

\* A rule that does not observe does the same to walks that are alike.
LEMMA EnforcedAlike ==
    ASSUME NEW s, NEW t, FlatState(s, DOMAIN rules), FlatState(t, DOMAIN rules),
           Alike(s, t),
           NEW i \in DOMAIN rules, ~rules[i].observe, rules \in Seq(LadderRule)
    PROVE  Alike(Enforced(rules[i], i, s), Enforced(rules[i], i, t))
  <1> DEFINE rule == rules[i]
             f(u) == Flagged({"rate_abuse"}, u)
             g(u) == Struck(rule, i, f(u))
             flat(u) == FlatState(u, DOMAIN rules)
             beyond(u) == rule.escalate /\ u.world.strikes[i] >= StrikesMax
  <1>0. rule \in LadderRule
    OBVIOUS
  <1>a. (Admits(rule, i, s) <=> Admits(rule, i, t)) /\ (beyond(s) <=> beyond(t))
    BY DEF Admits, Alike, SameWorld
  <1>b. \A u : Enforced(rule, i, u) =
             IF rule.budget = 0 THEN Acted(rule, u)
             ELSE IF beyond(u) THEN Refused(Blocked, f(u))
             ELSE IF Admits(rule, i, u) THEN Down(Spent(i, u))
             ELSE IF SaysMore(rule) THEN Acted(rule, g(u))
             ELSE Refused(Limited, g(u))
    BY <1>0, EnforcedIs
  <1>1. flat(f(s)) /\ flat(f(t)) /\ Alike(f(s), f(t))
    BY FlaggedIs, FlaggedAlike
  <1>2. flat(g(s)) /\ flat(g(t))
    BY <1>1, StruckIs
  <1>3. Alike(g(s), g(t))
    BY <1>1, StruckAlike
  <1>4. Alike(Acted(rule, s), Acted(rule, t)) /\ Alike(Acted(rule, g(s)), Acted(rule, g(t)))
    BY <1>0, <1>2, <1>3, ActedAlike
  <1>5. Alike(Refused(Blocked, f(s)), Refused(Blocked, f(t)))
    BY <1>1, RefusedAlike DEF Blocked
  <1>6. Alike(Refused(Limited, g(s)), Refused(Limited, g(t)))
    BY <1>2, <1>3, RefusedAlike DEF Limited
  <1>7. flat(Spent(i, s)) /\ flat(Spent(i, t)) /\ Alike(Spent(i, s), Spent(i, t))
    BY SpentIs, SpentAlike
  <1>8. Alike(Down(Spent(i, s)), Down(Spent(i, t)))
    BY <1>7, DownAlike
  <1> HIDE DEF f, g, flat, beyond, rule
  <1>9. Alike(Enforced(rule, i, s), Enforced(rule, i, t))
    BY <1>a, <1>b, <1>4, <1>5, <1>6, <1>8
  <1> QED  BY <1>9 DEF rule

\* An observed rule keeps the shape of a state.
LEMMA ObservedFlat ==
    ASSUME NEW d, NEW s, FlatState(s, d), NEW rule \in LadderRule, NEW i \in d
    PROVE  FlatState(Observed(rule, i, s), d)
  <1>1. FlatState(Down(Spent(i, s)), d)
    BY SpentIs, DownIs
  <1>2. FlatState(Down(Reported(Limited, s)), d)
    BY ReportedIs, DownIs DEF Limited
  <1>3. FlatState(Scored(rule, s), d)
    BY ScoredIs
  <1>4. \A u : FlatState(u, d) => FlatState(Down(Reported(rule.respond, u)), d)
    BY ReportedIs, DownIs, RuleFields
  <1> QED  BY <1>1, <1>2, <1>3, <1>4 DEF Observed

\* A rule that observes leaves a walk alike to one that goes past it.
LEMMA ObservedAlike ==
    ASSUME NEW s, NEW t, FlatState(s, DOMAIN rules), FlatState(t, DOMAIN rules),
           Alike(s, t),
           NEW i \in DOMAIN rules, rules[i].observe, rules \in Seq(LadderRule)
    PROVE  Alike(Observed(rules[i], i, s), Down(t))
  <1> DEFINE flat(u) == FlatState(u, DOMAIN rules)
  <1>0. rules[i] \in LadderRule /\ rules[i].respond \in Nat
    BY RuleFields
  <1>1. flat(Spent(i, s)) /\ Alike(Spent(i, s), t)
    BY SpentIs, SpentAlike
  <1>2. flat(Reported(Limited, s)) /\ Alike(Reported(Limited, s), t)
    BY ReportedIs, ReportedAlike DEF Limited
  <1>3. flat(Reported(rules[i].respond, s)) /\ Alike(Reported(rules[i].respond, s), t)
    BY <1>0, ReportedIs, ReportedAlike
  <1>4. /\ Alike(Down(Spent(i, s)), Down(t)) /\ Alike(Down(Reported(Limited, s)), Down(t))
        /\ Alike(Down(Reported(rules[i].respond, s)), Down(t))
    BY <1>1, <1>2, <1>3, DownAlike
  <1> QED  BY <1>4 DEF Observed

\* One rule, for real and for the twin, of a request in no LogOnly scope.
LEMMA RuleStepAlike ==
    ASSUME NEW s, NEW t, FlatState(s, DOMAIN rules), FlatState(t, DOMAIN rules),
           Alike(s, t),
           NEW i \in DOMAIN rules, ~s.rq.logOnly, rules \in Seq(LadderRule)
    PROVE  Alike(RuleStep(rules[i], i, s), TwinStep(rules[i], i, t))
  <1>1. Matches(rules[i], s) <=> Matches(rules[i], t)
    BY DEF Matches, Alike, SameWorld, SameRequest, SameInput, Found
  <1>2. CASE ~Matches(rules[i], s)
    BY <1>1, <1>2, DownAlike DEF RuleStep, TwinStep
  <1>3. CASE Matches(rules[i], s) /\ rules[i].observe
    BY <1>3, ObservedAlike DEF RuleStep, TwinStep
  <1>4. CASE Matches(rules[i], s) /\ ~rules[i].observe
    BY <1>1, <1>4, EnforcedAlike DEF RuleStep, TwinStep
  <1> QED  BY <1>2, <1>3, <1>4

\* A rule keeps the shape of either walk.
LEMMA RuleStepFlat ==
    ASSUME NEW s, FlatState(s, DOMAIN rules), NEW i \in DOMAIN rules,
           rules \in Seq(LadderRule)
    PROVE  /\ FlatState(RuleStep(rules[i], i, s), DOMAIN rules)
           /\ FlatState(TwinStep(rules[i], i, s), DOMAIN rules)
  <1>1. rules[i] \in LadderRule
    OBVIOUS
  <1>2. FlatState(Down(s), DOMAIN rules)
    BY DownIs
  <1>3. FlatState(Enforced(rules[i], i, s), DOMAIN rules)
    BY <1>1, EnforcedFlat
  <1>4. FlatState(Observed(rules[i], i, s), DOMAIN rules)
    BY <1>1, ObservedFlat
  <1> QED  BY <1>2, <1>3, <1>4 DEF RuleStep, TwinStep

(* The stages after the walk. *)

\* The stages, without the cases that exclude each other.
LEMMA StagesAre ==
    ASSUME NEW s, NEW lo \in BOOLEAN
    PROVE  /\ RobotsStage(s, lo) =
                IF s.rq.at # Behind \/ s.rq.robots = "allow" THEN s
                ELSE IF s.rq.robots = "deny" /\ ~lo
                     THEN Refused(Blocked, Flagged({"robots_ignored"}, s))
                ELSE Reported(Blocked, s)
           /\ BotRateStage(s, lo) =
                IF s.rq.at # Behind \/ ~s.rq.overBotRate THEN s
                ELSE IF ~lo THEN Refused(Limited, Flagged({"rate_abuse"}, s))
                ELSE Reported(Limited, s)
           /\ TierStage(s, lo) =
                IF s.rq.at # Behind \/ s.rq.pass \/ ~(s.rq.floor > 0 \/ s.rq.score >= ladder.row) THEN s
                ELSE IF ~lo THEN Refused(Challenged, s)
                ELSE Reported(Challenged, s)
  <1> HIDE DEF Refused, Reported, Flagged, Behind
  <1>1. RobotsStage(s, lo) =
                IF s.rq.at # Behind \/ s.rq.robots = "allow" THEN s
                ELSE IF s.rq.robots = "deny" /\ ~lo
                     THEN Refused(Blocked, Flagged({"robots_ignored"}, s))
                ELSE Reported(Blocked, s)
    BY DEF RobotsStage
  <1>2. BotRateStage(s, lo) =
                IF s.rq.at # Behind \/ ~s.rq.overBotRate THEN s
                ELSE IF ~lo THEN Refused(Limited, Flagged({"rate_abuse"}, s))
                ELSE Reported(Limited, s)
    BY DEF BotRateStage
  <1>3. TierStage(s, lo) =
                IF s.rq.at # Behind \/ s.rq.pass \/ ~(s.rq.floor > 0 \/ s.rq.score >= ladder.row) THEN s
                ELSE IF ~lo THEN Refused(Challenged, s)
                ELSE Reported(Challenged, s)
    BY DEF TierStage
  <1> QED  BY <1>1, <1>2, <1>3

\* The stages keep the shape of a state.
LEMMA StagesFlat ==
    ASSUME NEW d, NEW s, FlatState(s, d), NEW lo \in BOOLEAN, rules \in Seq(LadderRule)
    PROVE  /\ FlatState(RobotsStage(s, lo), d) /\ FlatState(BotRateStage(s, lo), d)
           /\ FlatState(TierStage(s, lo), d)
  <1>1. FlatState(Reported(Blocked, s), d) /\ FlatState(Reported(Limited, s), d)
        /\ FlatState(Reported(Challenged, s), d)
    BY ReportedIs DEF Blocked, Limited, Challenged
  <1>2. FlatState(Flagged({"robots_ignored"}, s), d) /\ FlatState(Flagged({"rate_abuse"},
                                                                          s), d)
    BY FlaggedIs
  <1>3. /\ FlatState(Refused(Blocked, Flagged({"robots_ignored"}, s)), d)
        /\ FlatState(Refused(Limited, Flagged({"rate_abuse"}, s)), d)
        /\ FlatState(Refused(Challenged, s), d)
    BY <1>2, RefusedIs DEF Blocked, Limited, Challenged
  <1> QED  BY <1>1, <1>3, StagesAre

\* So do all of them together.
LEMMA DecidedFlat ==
    ASSUME NEW d, NEW s, FlatState(s, d), NEW lo \in BOOLEAN, rules \in Seq(LadderRule)
    PROVE  FlatState(Decided(s, lo), d)
  BY StagesFlat DEF Decided

\* The stages keep two walks alike.
LEMMA StagesAlike ==
    ASSUME NEW d, NEW s, NEW t, FlatState(s, d), FlatState(t, d), Alike(s, t),
           rules \in Seq(LadderRule)
    PROVE  /\ Alike(RobotsStage(s, FALSE), RobotsStage(t, FALSE))
           /\ Alike(BotRateStage(s, FALSE), BotRateStage(t, FALSE))
           /\ Alike(TierStage(s, FALSE), TierStage(t, FALSE))
  <1>1. /\ Alike(Reported(Blocked, s), Reported(Blocked, t))
    <2>1. Alike(Reported(Blocked, s), t)
      BY ReportedAlike DEF Blocked
    <2>2. /\ SameInput(Reported(Blocked, t).rq, t.rq)
          /\ Found(Reported(Blocked, t).rq, t.rq.at, t.rq.score, t.rq.floor, t.rq.session,
                   IF Blocked > t.rq.would THEN Blocked ELSE t.rq.would, t.rq.outcome, t.rq.pass)
          /\ WorldIs(Reported(Blocked, t).world, t.world.flags, t.world.held, t.world.spent,
                     t.world.strikes)
      BY ReportedIs DEF Blocked
    <2> QED  BY <2>1, <2>2 DEF Alike, SameRequest, SameWorld, SameInput, Found, WorldIs
  <1>2. /\ FlatState(Flagged({"robots_ignored"}, s),
                     d) /\ FlatState(Flagged({"robots_ignored"}, t), d)
        /\ Alike(Flagged({"robots_ignored"}, s), Flagged({"robots_ignored"}, t))
    BY FlaggedIs, FlaggedAlike
  <1>3. /\ FlatState(Flagged({"rate_abuse"}, s), d) /\ FlatState(Flagged({"rate_abuse"}, t),
                                                                 d)
        /\ Alike(Flagged({"rate_abuse"}, s), Flagged({"rate_abuse"}, t))
    BY FlaggedIs, FlaggedAlike
  <1>4. /\ Alike(Refused(Blocked, Flagged({"robots_ignored"}, s)), Refused(Blocked,
                                                                           Flagged({"robots_ignored"}, t)))
        /\ Alike(Refused(Limited, Flagged({"rate_abuse"}, s)), Refused(Limited,
                                                                       Flagged({"rate_abuse"}, t)))
        /\ Alike(Refused(Challenged, s), Refused(Challenged, t))
    BY <1>2, <1>3, RefusedAlike DEF Blocked, Limited, Challenged
  <1>5. /\ s.rq.at = t.rq.at /\ s.rq.robots = t.rq.robots /\ s.rq.overBotRate = t.rq.overBotRate
        /\ s.rq.pass = t.rq.pass /\ s.rq.floor = t.rq.floor /\ s.rq.score = t.rq.score
    BY DEF Alike, SameRequest, SameInput, Found
  <1>6. Alike(RobotsStage(s, FALSE), RobotsStage(t, FALSE))
    BY <1>1, <1>4, <1>5, StagesAre
  <1>7. Alike(BotRateStage(s, FALSE), BotRateStage(t, FALSE))
    BY <1>4, <1>5, StagesAre
  <1>8. Alike(TierStage(s, FALSE), TierStage(t, FALSE))
    BY <1>4, <1>5, StagesAre
  <1> QED  BY <1>6, <1>7, <1>8

\* So do all of them together.
LEMMA DecidedAlike ==
    ASSUME NEW d, NEW s, NEW t, FlatState(s, d), FlatState(t, d), Alike(s, t),
           rules \in Seq(LadderRule)
    PROVE  Alike(Decided(s, FALSE), Decided(t, FALSE))
  <1> DEFINE s1 == RobotsStage(s, FALSE)
             t1 == RobotsStage(t, FALSE)
             s2 == BotRateStage(s1, FALSE)
             t2 == BotRateStage(t1, FALSE)
  <1>1. FlatState(s1, d) /\ FlatState(t1, d) /\ Alike(s1, t1)
    BY StagesFlat, StagesAlike
  <1> HIDE DEF s1, t1
  <1>2. FlatState(s2, d) /\ FlatState(t2, d) /\ Alike(s2, t2)
    BY <1>1, StagesFlat, StagesAlike
  <1> HIDE DEF s2, t2
  <1>3. Alike(TierStage(s2, FALSE), TierStage(t2, FALSE))
    BY <1>2, StagesAlike
  <1> QED  BY <1>3 DEF Decided, s1, s2, t1, t2

(* The response. *)

\* What is left of a request once the response is out.
HeldAfter(s, e, lo) ==
    LET held == s.world.held \cup s.rq.session
    IN  IF e.observe \/ lo THEN held ELSE SessionAfter(held, e.flagSession)
FlagsAfter(s, e, lo) ==
    IF e.observe \/ lo THEN s.world.flags ELSE AddressAfter(s.world.flags, e.flagIp)

\* A response ends the request and turns its session marks into flags held.
LEMMA RespondedIs ==
    ASSUME NEW d, NEW s, FlatState(s, d), NEW e, NEW lo
    PROVE  /\ FlatState(Responded(s, e, lo), d)
           /\ SameInput(Responded(s, e, lo).rq, s.rq)
           /\ Found(Responded(s, e, lo).rq, 0, s.rq.score, s.rq.floor, s.rq.session,
                    s.rq.would, s.rq.outcome, s.rq.pass)
           /\ WorldIs(Responded(s, e, lo).world, FlagsAfter(s, e, lo), HeldAfter(s, e, lo),
                    s.world.spent, s.world.strikes)
  <1> DEFINE f == FlagsAfter(s, e, lo)
             h == HeldAfter(s, e, lo)
  <1>1. Responded(s, e, lo) =
          [world |-> [flags |-> f, held |-> h, spent |-> s.world.spent, strikes |-> s.world.strikes],
           rq |-> [s.rq EXCEPT !.at = 0]]
    <2> DEFINE a == AddressAfter(s.world.flags, e.flagIp)
               held == s.world.held \cup s.rq.session
               b == SessionAfter(held, e.flagSession)
    <2>1. Responded(s, e, lo) =
            [world |-> IF e.observe \/ lo THEN [s.world EXCEPT !.held = held]
                       ELSE [s.world EXCEPT !.flags = a, !.held = b],
             rq |-> [s.rq EXCEPT !.at = 0]]
      BY DEF Responded
    <2>2. /\ f = IF e.observe \/ lo THEN s.world.flags ELSE a
          /\ h = IF e.observe \/ lo THEN held ELSE b
      BY DEF FlagsAfter, HeldAfter
    <2> HIDE DEF a, b, f, h, held
    <2>3. /\ [s.world EXCEPT !.held = held] =
               [flags |-> s.world.flags, held |-> held, spent |-> s.world.spent, strikes |-> s.world.strikes]
          /\ [s.world EXCEPT !.flags = a, !.held = b] =
               [flags |-> a, held |-> b, spent |-> s.world.spent, strikes |-> s.world.strikes]
      <3> DEFINE fl == s.world.flags
                 hl == s.world.held
                 sp == s.world.spent
                 st == s.world.strikes
                 w  == s.world
      <3>1. w = [flags |-> fl, held |-> hl, spent |-> sp, strikes |-> st]
        BY DEF FlatState, FlatWorld
      <3> HIDE DEF fl, hl, sp, st, w
      <3>2. [w EXCEPT !.held = held] = [flags |-> fl, held |-> held, spent |-> sp, strikes |-> st]
        BY <3>1
      <3>3. [w EXCEPT !.flags = a, !.held = b] = [flags |-> a, held |-> b, spent |-> sp, strikes |-> st]
        <4> DEFINE v == [w EXCEPT !.flags = a]
        <4>1. v = [flags |-> a, held |-> hl, spent |-> sp, strikes |-> st]
          BY <3>1
        <4>2. [w EXCEPT !.flags = a, !.held = b] = [v EXCEPT !.held = b]
          BY Zenon
        <4> HIDE DEF v
        <4>3. [v EXCEPT !.held = b] = [flags |-> a, held |-> b, spent |-> sp, strikes |-> st]
          BY <4>1
        <4> QED  BY <4>2, <4>3, Zenon
      <3> QED  BY <3>2, <3>3 DEF fl, hl, sp, st, w
    <2> QED  BY <2>1, <2>2, <2>3
  <1> HIDE DEF f, h
  <1>2. FlatState(Responded(s, e, lo), d)
    BY <1>1 DEF FlatState, FlatWorld, FlatRequest
  <1>3. /\ SameInput(Responded(s, e, lo).rq, s.rq)
        /\ Found(Responded(s, e, lo).rq, 0, s.rq.score, s.rq.floor, s.rq.session,
                 s.rq.would, s.rq.outcome, s.rq.pass)
        /\ WorldIs(Responded(s, e, lo).world, f, h, s.world.spent, s.world.strikes)
    BY <1>1 DEF FlatState, FlatWorld, FlatRequest, SameInput, Found, WorldIs
  <1> QED  BY <1>2, <1>3 DEF f, h

\* A response keeps two requests alike.
LEMMA RespondedAlike ==
    ASSUME NEW d, NEW s, NEW t, FlatState(s, d), FlatState(t, d), Alike(s, t), NEW e
    PROVE  Alike(Responded(s, e, FALSE), Responded(t, e, FALSE))
  <1>1. \A u : FlatState(u, d) =>
           /\ SameInput(Responded(u, e, FALSE).rq, u.rq)
           /\ Found(Responded(u, e, FALSE).rq, 0, u.rq.score, u.rq.floor, u.rq.session,
                    u.rq.would, u.rq.outcome, u.rq.pass)
           /\ WorldIs(Responded(u, e, FALSE).world, FlagsAfter(u, e, FALSE),
                      HeldAfter(u, e, FALSE),
                    u.world.spent, u.world.strikes)
    BY RespondedIs
  <1>2. FlagsAfter(s, e, FALSE) = FlagsAfter(t, e, FALSE) /\ HeldAfter(s, e, FALSE) = HeldAfter(t, e, FALSE)
    BY DEF FlagsAfter, HeldAfter, Alike, SameWorld, SameRequest, Found
  <1>3. SameRequest(Responded(s, e, FALSE).rq, Responded(t, e, FALSE).rq)
    BY ZenonT(30), <1>1 DEF Alike, SameRequest, SameInput, Found
  <1>4. SameWorld(Responded(s, e, FALSE).world, Responded(t, e, FALSE).world)
    BY ZenonT(30), <1>1, <1>2 DEF Alike, SameWorld, WorldIs
  <1> QED  BY <1>3, <1>4 DEF Alike

(* A request in a LogOnly scope. *)

\* A step that only reports, and may spend and score.
Unmoved(s, t) ==
    /\ s.world.flags = t.world.flags /\ s.world.held = t.world.held
    /\ s.world.strikes = t.world.strikes
    /\ SameInput(s.rq, t.rq) /\ s.rq.session = t.rq.session /\ s.rq.floor = t.rq.floor
    /\ s.rq.outcome = t.rq.outcome /\ s.rq.pass = t.rq.pass /\ s.rq.would >= t.rq.would

\* Two steps that only report are one.
LEMMA UnmovedTwice ==
    ASSUME NEW d, NEW s, NEW t, NEW u, FlatState(s, d), FlatState(t, d), FlatState(u, d),
           Unmoved(s, t), Unmoved(t, u)
    PROVE  Unmoved(s, u)
  BY DEF Unmoved, SameInput, FlatState, FlatRequest

\* The operations of an observed rule only report.
LEMMA OnlyReports ==
    ASSUME NEW d, NEW s, FlatState(s, d), NEW o \in Nat, NEW rule, NEW i \in d
    PROVE  /\ Unmoved(s, s) /\ Unmoved(Down(s), s) /\ Unmoved(Reported(o, s), s)
           /\ Unmoved(Spent(i, s), s) /\ Unmoved(Scored(rule, s), s)
  <1>0. s.rq.would \in Nat
    BY DEF FlatState, FlatRequest
  <1>1. Unmoved(s, s)
    BY <1>0 DEF Unmoved, SameInput
  <1>2. Unmoved(Down(s), s)
    BY <1>0, DownIs DEF Unmoved, Found, WorldIs
  <1>3. Unmoved(Reported(o, s), s)
    BY <1>0, ReportedIs DEF Unmoved, Found, WorldIs
  <1>4. Unmoved(Spent(i, s), s)
    <2>1. /\ SameInput(Spent(i, s).rq, s.rq)
          /\ Found(Spent(i, s).rq, s.rq.at, s.rq.score, s.rq.floor, s.rq.session,
                   s.rq.would, s.rq.outcome, s.rq.pass)
          /\ WorldIs(Spent(i, s).world, s.world.flags, s.world.held,
                   [s.world.spent EXCEPT ![i] = s.world.spent[i] + 1], s.world.strikes)
      BY SpentIs
    <2> QED  BY <1>0, <2>1 DEF Unmoved, Found, WorldIs
  <1>5. Unmoved(Scored(rule, s), s)
    <2>1. /\ SameInput(Scored(rule, s).rq, s.rq)
          /\ Found(Scored(rule, s).rq, s.rq.at, ScoreAfter(s.rq.score, rule.scores),
                   s.rq.floor, s.rq.session,
                   s.rq.would, s.rq.outcome, s.rq.pass)
          /\ WorldIs(Scored(rule, s).world, s.world.flags, s.world.held, s.world.spent,
                     s.world.strikes)
      BY ScoredIs
    <2> QED  BY <1>0, <2>1 DEF Unmoved, Found, WorldIs
  <1> QED  BY <1>1, <1>2, <1>3, <1>4, <1>5

\* What an observed rule leaves: the next place, a score that only a scope's
\* observing moves, a budget only spent as the enforced rule would spend it,
\* and a report of what the rule would have answered.
ReportsOnly(rule, i, s, o) ==
    /\ Unmoved(o, s) /\ o.rq.at = s.rq.at + 1
    /\ o.rq.score = IF rule.budget > 0 \/ rule.observe THEN s.rq.score
                    ELSE ScoreAfter(s.rq.score, rule.scores)
    /\ o.world.spent = IF rule.budget > 0 /\ Admits(rule, i, s)
                       THEN [s.world.spent EXCEPT ![i] = s.world.spent[i] + 1]
                       ELSE s.world.spent
    /\ rule.budget > 0 /\ ~Admits(rule, i, s) => o.rq.would >= Limited
    /\ ~(rule.budget > 0) => o.rq.would >= rule.respond

LEMMA ObservedIs ==
    ASSUME NEW d, NEW s, FlatState(s, d), NEW rule \in LadderRule, NEW i \in d
    PROVE  ReportsOnly(rule, i, s, Observed(rule, i, s))
  <1> DEFINE a == Spent(i, s)
             b == Reported(Limited, s)
             c == IF rule.observe THEN s ELSE Scored(rule, s)
             e == Reported(rule.respond, c)
             N == rule.respond
             o == Observed(rule, i, s)
  <1>0. N \in Nat /\ Limited \in Nat /\ s.rq.would \in Nat
    BY RuleFields DEF Limited, FlatState, FlatRequest
  <1>1. /\ FlatState(a, d) /\ Unmoved(a, s) /\ a.rq.at = s.rq.at /\ a.rq.score = s.rq.score
        /\ a.world.spent = [s.world.spent EXCEPT ![i] = s.world.spent[i] + 1]
    <2>1. FlatState(a, d) /\ Unmoved(a, s)
      BY <1>0, SpentIs, OnlyReports
    <2>2. /\ Found(a.rq, s.rq.at, s.rq.score, s.rq.floor, s.rq.session, s.rq.would,
                   s.rq.outcome, s.rq.pass)
          /\ WorldIs(a.world, s.world.flags, s.world.held,
                   [s.world.spent EXCEPT ![i] = s.world.spent[i] + 1], s.world.strikes)
      BY SpentIs
    <2> HIDE DEF a
    <2> QED  BY <2>1, <2>2 DEF Found, WorldIs
  <1>2. /\ FlatState(b, d) /\ Unmoved(b, s) /\ b.rq.at = s.rq.at /\ b.rq.score = s.rq.score
        /\ b.world.spent = s.world.spent /\ b.rq.would >= Limited
    <2>1. /\ FlatState(b, d) /\ Unmoved(b, s)
      BY <1>0, ReportedIs, OnlyReports
    <2>2. /\ Found(b.rq, s.rq.at, s.rq.score, s.rq.floor, s.rq.session,
                   IF Limited > s.rq.would THEN Limited ELSE s.rq.would, s.rq.outcome, s.rq.pass)
          /\ WorldIs(b.world, s.world.flags, s.world.held, s.world.spent, s.world.strikes)
      BY <1>0, ReportedIs
    <2> QED  BY <1>0, <2>1, <2>2 DEF Found, WorldIs
  <1>3. /\ FlatState(c, d) /\ Unmoved(c, s) /\ c.rq.at = s.rq.at /\ c.world.spent = s.world.spent
        /\ c.rq.score = IF rule.observe THEN s.rq.score ELSE ScoreAfter(s.rq.score,
                                                                        rule.scores)
    <2>1. /\ FlatState(Scored(rule, s), d) /\ Unmoved(Scored(rule, s), s) /\ Unmoved(s, s)
      BY <1>0, ScoredIs, OnlyReports
    <2>2. /\ Found(Scored(rule, s).rq, s.rq.at, ScoreAfter(s.rq.score, rule.scores),
                   s.rq.floor, s.rq.session,
                   s.rq.would, s.rq.outcome, s.rq.pass)
          /\ WorldIs(Scored(rule, s).world, s.world.flags, s.world.held, s.world.spent,
                     s.world.strikes)
      BY ScoredIs
    <2> QED  BY <2>1, <2>2 DEF Found, WorldIs
  <1> HIDE DEF c
  <1>4. /\ FlatState(e, d) /\ Unmoved(e, c) /\ e.rq.at = c.rq.at /\ e.rq.score = c.rq.score
        /\ e.world.spent = c.world.spent /\ e.rq.would >= rule.respond
    <2>1. /\ FlatState(e, d) /\ Unmoved(e, c)
      BY <1>0, <1>3, ReportedIs, OnlyReports
    <2>2. /\ Found(e.rq, c.rq.at, c.rq.score, c.rq.floor, c.rq.session,
                   IF N > c.rq.would THEN N ELSE c.rq.would, c.rq.outcome, c.rq.pass)
          /\ WorldIs(e.world, c.world.flags, c.world.held, c.world.spent, c.world.strikes)
      BY <1>0, <1>3, ReportedIs
    <2>3. c.rq.would \in Nat
      BY <1>3 DEF FlatState, FlatRequest
    <2> QED  BY <1>0, <2>1, <2>2, <2>3 DEF Found, WorldIs
  <1>5. Unmoved(e, s)
    BY <1>3, <1>4, UnmovedTwice
  <1>6. \A u : FlatState(u, d) /\ Unmoved(u, s) =>
           /\ Unmoved(Down(u),
                      s) /\ Down(u).rq.at = u.rq.at + 1 /\ Down(u).rq.score = u.rq.score
           /\ Down(u).world.spent = u.world.spent /\ Down(u).rq.would = u.rq.would
    <2> TAKE u
    <2> HAVE FlatState(u, d) /\ Unmoved(u, s)
    <2>1. FlatState(Down(u), d) /\ Unmoved(Down(u), u)
      BY <1>0, DownIs, OnlyReports
    <2>2. /\ Found(Down(u).rq, u.rq.at + 1, u.rq.score, u.rq.floor, u.rq.session,
                   u.rq.would, u.rq.outcome, u.rq.pass)
          /\ WorldIs(Down(u).world, u.world.flags, u.world.held, u.world.spent,
                     u.world.strikes)
      BY DownIs
    <2>3. Unmoved(Down(u), s)
      BY <2>1, UnmovedTwice
    <2> QED  BY <2>2, <2>3 DEF Found, WorldIs
  <1>7. o = IF rule.budget > 0 THEN IF Admits(rule, i, s) THEN Down(a) ELSE Down(b)
            ELSE Down(e)
    BY DEF Observed, c
  <1> HIDE DEF a, b, e, o, N
  <1>8. CASE rule.budget > 0 /\ Admits(rule, i, s)
    BY <1>1, <1>6, <1>7, <1>8 DEF o, ReportsOnly
  <1>9. CASE rule.budget > 0 /\ ~Admits(rule, i, s)
    BY <1>2, <1>6, <1>7, <1>9 DEF o, ReportsOnly
  <1>10. CASE ~(rule.budget > 0)
    BY <1>3, <1>4, <1>5, <1>6, <1>7, <1>10 DEF o, ReportsOnly
  <1> QED  BY <1>8, <1>9, <1>10

\* The twin of a request in a LogOnly scope, at the same rule.
ReadsFlags(j, w) == rules[j].flagged \cap (w.flags \cup w.held) # {}

Lockstep(s, t) ==
    /\ t.rq.at = s.rq.at /\ SameInput(t.rq, s.rq) /\ t.rq.score = s.rq.score
    /\ t.rq.floor = 0 /\ t.rq.outcome = Served /\ ~t.rq.pass
    /\ t.world.held = s.world.held
    /\ \A i \in DOMAIN rules : ~rules[i].observe => t.world.spent[i] = s.world.spent[i]
    /\ \A j \in DOMAIN rules : j >= s.rq.at => (ReadsFlags(j, t.world) <=> ReadsFlags(j, s.world))

\* Or it has been refused or passed, which the dry run has noted.
Ended(s, t) ==
    \/ t.rq.at = Behind + 1 /\ t.rq.outcome <= s.rq.would
    \/ t.rq.at = Behind /\ t.rq.pass /\ t.rq.outcome = Served /\ SameInput(t.rq, s.rq)

DryRun(s, t) == Lockstep(s, t) \/ Ended(s, t)

\* One more rule of both, which flags fs to the twin alone.
OneOn(s, t, a, b, fs) ==
    /\ Unmoved(a, s) /\ a.rq.at = s.rq.at + 1 /\ b.rq.at = t.rq.at + 1
    /\ SameInput(b.rq, t.rq) /\ b.rq.score = a.rq.score /\ b.rq.floor = 0
    /\ b.rq.outcome = t.rq.outcome /\ b.rq.pass = t.rq.pass /\ b.world.held = t.world.held
    /\ \A i \in DOMAIN rules : ~rules[i].observe => b.world.spent[i] = a.world.spent[i]
    /\ b.world.flags = t.world.flags \cup fs
    /\ \A j \in DOMAIN rules : j >= s.rq.at + 1 => rules[j].flagged \cap fs = {}

\* After such a rule the two are still at the same place.
LEMMA LockstepGoesOn ==
    ASSUME NEW s, NEW t, NEW a, NEW b, Lockstep(s, t), s.rq.at \in Nat,
           rules \in Seq(LadderRule), NEW fs, OneOn(s, t, a, b, fs)
    PROVE  Lockstep(a, b)
  <1>0. /\ Unmoved(a, s) /\ a.rq.at = s.rq.at + 1 /\ b.rq.at = t.rq.at + 1
        /\ SameInput(b.rq, t.rq) /\ b.rq.score = a.rq.score /\ b.rq.floor = 0
        /\ b.rq.outcome = t.rq.outcome /\ b.rq.pass = t.rq.pass /\ b.world.held = t.world.held
        /\ \A i \in DOMAIN rules : ~rules[i].observe => b.world.spent[i] = a.world.spent[i]
        /\ b.world.flags = t.world.flags \cup fs
        /\ \A j \in DOMAIN rules : j >= s.rq.at + 1 => rules[j].flagged \cap fs = {}
    BY DEF OneOn
  <1>1. ASSUME NEW j \in DOMAIN rules, j >= a.rq.at
        PROVE  ReadsFlags(j, b.world) <=> ReadsFlags(j, a.world)
    <2>1. j \in Nat /\ j >= s.rq.at /\ j >= s.rq.at + 1
      BY <1>0, <1>1
    <2>2. ReadsFlags(j, t.world) <=> ReadsFlags(j, s.world)
      BY <2>1 DEF Lockstep
    <2>3. ReadsFlags(j, a.world) <=> ReadsFlags(j, s.world)
      BY <1>0 DEF ReadsFlags, Unmoved
    <2>4. rules[j].flagged \cap fs = {}
      BY <1>0, <2>1
    <2>5. ReadsFlags(j, b.world) <=> ReadsFlags(j, t.world)
      BY <1>0, <2>4 DEF ReadsFlags
    <2> QED  BY <2>2, <2>3, <2>5
  <1>2. SameInput(b.rq, a.rq)
    BY <1>0 DEF SameInput, Unmoved, Lockstep
  <1>3. b.world.held = a.world.held
    BY <1>0 DEF Unmoved, Lockstep
  <1> QED  BY <1>0, <1>1, <1>2, <1>3 DEF Lockstep

\* Past a rule that only observes, or that does not match.
LEMMA LockstepPasses ==
    ASSUME NEW s, NEW t, NEW a, FlatState(s, DOMAIN rules), FlatState(t, DOMAIN rules),
           Lockstep(s, t), rules \in Seq(LadderRule), Unmoved(a, s), a.rq.at = s.rq.at + 1,
           a.rq.score = s.rq.score,
           \A i \in DOMAIN rules : ~rules[i].observe => a.world.spent[i] = s.world.spent[i]
    PROVE  Lockstep(a, Down(t))
  <1> DEFINE b == Down(t)
  <1>1. /\ SameInput(b.rq, t.rq)
        /\ Found(b.rq, t.rq.at + 1, t.rq.score, t.rq.floor, t.rq.session, t.rq.would,
                 t.rq.outcome, t.rq.pass)
        /\ WorldIs(b.world, t.world.flags, t.world.held, t.world.spent, t.world.strikes)
    BY DownIs
  <1> HIDE DEF b
  <1>2. s.rq.at \in Nat
    BY DEF FlatState, FlatRequest
  <1>3. /\ b.rq.at = t.rq.at + 1 /\ b.rq.score = a.rq.score /\ b.rq.floor = 0
        /\ b.rq.outcome = t.rq.outcome /\ b.rq.pass = t.rq.pass /\ b.world.held = t.world.held
    BY <1>1 DEF Found, WorldIs, Lockstep
  <1>4. \A i \in DOMAIN rules : ~rules[i].observe => b.world.spent[i] = a.world.spent[i]
    BY <1>1 DEF WorldIs, Lockstep
  <1>5. b.world.flags = t.world.flags \cup {}
    BY <1>1 DEF WorldIs
  <1>6. OneOn(s, t, a, b, {})
    BY <1>1, <1>3, <1>4, <1>5 DEF OneOn
  <1>7. Lockstep(a, b)
    BY <1>2, <1>6, LockstepGoesOn
  <1> QED  BY <1>7 DEF b

\* What a reproducible ladder says of its enforced rules.
LEMMA EnforcedRule ==
    ASSUME Reproducible, NEW i \in DOMAIN rules, ~rules[i].observe,
           rules \in Seq(LadderRule)
    PROVE  /\ rules[i].floor = 0
           /\ rules[i].budget > 0 => ~SaysMore(rules[i]) /\ ~rules[i].escalate
           /\ \A j \in DOMAIN rules : j >= i + 1 => rules[j].flagged \cap rules[i].flagIp = {}
  <1>1. /\ rules[i].floor = 0
        /\ rules[i].budget > 0 => ~SaysMore(rules[i]) /\ ~rules[i].escalate
        /\ \A j \in i + 1 .. Len(rules) :
              rules[j].flagged \cap (rules[i].flagIp \cup {"rate_abuse"}) = {}
    BY DEF Reproducible
  <1>2. ASSUME NEW j \in DOMAIN rules, j >= i + 1
        PROVE  rules[j].flagged \cap rules[i].flagIp = {}
    <2>1. j \in i + 1 .. Len(rules)
      BY <1>2
    <2> QED  BY <1>1, <2>1
  <1> QED  BY <1>1, <1>2

\* A rule that has an action and no budget.
LEMMA DryActed ==
    ASSUME NEW s, NEW t, FlatState(s, DOMAIN rules), FlatState(t, DOMAIN rules),
           Lockstep(s, t), rules \in Seq(LadderRule), Reproducible,
           NEW i \in DOMAIN rules, s.rq.at = i, ~rules[i].observe, rules[i].budget = 0
    PROVE  DryRun(Observed(rules[i], i, s), Acted(rules[i], t))
  <1> DEFINE rule == rules[i]
             o == Observed(rule, i, s)
             m == Marked(rule, t)
             f == Demanding(0, m)
  <1>0. /\ rule \in LadderRule /\ rule.respond \in Nat /\ s.rq.at \in Nat
        /\ rule.floor = 0
    BY RuleFields, EnforcedRule DEF FlatState, FlatRequest
  <1>1. /\ Unmoved(o, s) /\ o.rq.at = s.rq.at + 1
        /\ o.rq.score = ScoreAfter(s.rq.score, rule.scores)
        /\ o.world.spent = s.world.spent /\ o.rq.would >= rule.respond
    <2>1. ~(rule.budget > 0)
      OBVIOUS
    <2>2. ReportsOnly(rule, i, s, o)
      BY <1>0, ObservedIs
    <2> HIDE DEF o
    <2> QED  BY <2>1, <2>2 DEF ReportsOnly
  <1>2. /\ FlatState(m, DOMAIN rules) /\ SameInput(m.rq, t.rq)
        /\ Found(m.rq, t.rq.at, ScoreAfter(t.rq.score, rule.scores), t.rq.floor,
                 t.rq.session \cup rule.flagSession, t.rq.would, t.rq.outcome, t.rq.pass)
        /\ WorldIs(m.world, t.world.flags \cup rule.flagIp, t.world.held, t.world.spent,
                   t.world.strikes)
    BY <1>0, MarkedIs
  <1>3. Acted(rule, t) = IF rule.respond # Served THEN Refused(rule.respond, m)
                         ELSE IF rule.scores = <<>> THEN Passed(m) ELSE Down(f)
    BY <1>0, ActedIs
  <1> HIDE DEF rule, o, m
  <1>4. CASE rule.respond # Served
    <2>1. Found(Refused(rule.respond, m).rq, Behind + 1, m.rq.score, m.rq.floor,
                m.rq.session,
                m.rq.would, rule.respond, m.rq.pass)
      BY <1>0, <1>2, RefusedIs
    <2>2. Ended(o, Refused(rule.respond, m))
      BY <1>0, <1>1, <2>1 DEF Ended, Found, Unmoved
    <2> QED  BY <1>3, <1>4, <2>2 DEF DryRun, rule, o
  <1>5. CASE rule.respond = Served /\ rule.scores = <<>>
    <2>1. /\ SameInput(Passed(m).rq, m.rq)
          /\ Found(Passed(m).rq, Behind, m.rq.score, m.rq.floor, m.rq.session,
                   m.rq.would, m.rq.outcome, TRUE)
      BY <1>2, PassedIs
    <2>2. Ended(o, Passed(m))
      BY <1>1, <1>2, <2>1 DEF Ended, Found, SameInput, Unmoved, Lockstep
    <2> QED  BY <1>3, <1>5, <2>2 DEF DryRun, rule, o
  <1>6. CASE rule.respond = Served /\ rule.scores # <<>>
    <2>1. /\ FlatState(f, DOMAIN rules) /\ SameInput(f.rq, m.rq)
          /\ Found(f.rq, m.rq.at, m.rq.score, IF 0 > m.rq.floor THEN 0 ELSE m.rq.floor,
                   m.rq.session,
                   m.rq.would, m.rq.outcome, m.rq.pass)
          /\ WorldIs(f.world, m.world.flags, m.world.held, m.world.spent, m.world.strikes)
      BY SMTT(30), <1>2, DemandingIs
    <2> HIDE DEF f
    <2>2. /\ SameInput(Down(f).rq, f.rq)
          /\ Found(Down(f).rq, f.rq.at + 1, f.rq.score, f.rq.floor, f.rq.session,
                   f.rq.would, f.rq.outcome, f.rq.pass)
          /\ WorldIs(Down(f).world, f.world.flags, f.world.held, f.world.spent,
                     f.world.strikes)
      BY <2>1, DownIs
    <2> DEFINE b == Down(f)
    <2>3. /\ b.rq.at = t.rq.at + 1 /\ SameInput(b.rq, t.rq) /\ b.rq.score = o.rq.score
          /\ b.rq.floor = 0 /\ b.rq.outcome = t.rq.outcome /\ b.rq.pass = t.rq.pass
      BY <1>1, <1>2, <2>1, <2>2 DEF Found, SameInput, Lockstep
    <2>4. b.world.held = t.world.held /\ b.world.flags = t.world.flags \cup rule.flagIp
          /\ b.world.spent = t.world.spent
      BY <1>2, <2>1, <2>2 DEF WorldIs
    <2> HIDE DEF b
    <2>5. \A k \in DOMAIN rules : ~rules[k].observe => b.world.spent[k] = o.world.spent[k]
      BY <1>1, <2>4 DEF Lockstep
    <2>6. \A j \in DOMAIN rules : j >= s.rq.at + 1 => rules[j].flagged \cap rule.flagIp = {}
      BY EnforcedRule DEF rule
    <2>7. OneOn(s, t, o, b, rule.flagIp)
      BY <1>1, <2>3, <2>4, <2>5, <2>6 DEF OneOn
    <2>8. Lockstep(o, b)
      BY <1>0, <2>7, LockstepGoesOn
    <2> QED  BY <1>3, <1>6, <2>8 DEF DryRun, rule, o, b
  <1> QED  BY <1>4, <1>5, <1>6

\* A rule that has a budget and no more: both spend it, or the twin is refused.
LEMMA DryBudget ==
    ASSUME NEW s, NEW t, FlatState(s, DOMAIN rules), FlatState(t, DOMAIN rules),
           Lockstep(s, t), rules \in Seq(LadderRule), Reproducible,
           NEW i \in DOMAIN rules, s.rq.at = i, ~rules[i].observe, rules[i].budget > 0
    PROVE  DryRun(Observed(rules[i], i, s), Enforced(rules[i], i, t))
  <1> DEFINE rule == rules[i]
             o == Observed(rule, i, s)
             f == Flagged({"rate_abuse"}, t)
             g == Struck(rule, i, f)
  <1>0. /\ rule \in LadderRule /\ s.rq.at \in Nat /\ rule.budget # 0
        /\ ~SaysMore(rule) /\ ~rule.escalate
    BY EnforcedRule DEF FlatState, FlatRequest
  <1>1. ReportsOnly(rule, i, s, o)
    BY <1>0, ObservedIs
  <1>2. Enforced(rule, i, t) = IF Admits(rule, i,
                                         t) THEN Down(Spent(i, t)) ELSE Refused(Limited, g)
    BY <1>0, EnforcedIs
  <1>3. s.world.spent[i] = t.world.spent[i] /\ (Admits(rule, i, s) <=> Admits(rule, i, t))
    BY DEF Lockstep, Admits
  <1>4. s.world.spent \in [DOMAIN rules -> Int] /\ t.world.spent \in [DOMAIN rules -> Int]
    BY DEF FlatState, FlatWorld
  <1> HIDE DEF o
  <1>5. CASE Admits(rule, i, s)
    <2> DEFINE p == Spent(i, t)
               b == Down(p)
    <2>1. /\ FlatState(p, DOMAIN rules) /\ SameInput(p.rq, t.rq)
          /\ Found(p.rq, t.rq.at, t.rq.score, t.rq.floor, t.rq.session, t.rq.would,
                   t.rq.outcome, t.rq.pass)
          /\ WorldIs(p.world, t.world.flags, t.world.held,
                   [t.world.spent EXCEPT ![i] = t.world.spent[i] + 1], t.world.strikes)
      BY SpentIs
    <2> HIDE DEF p
    <2>2. /\ SameInput(b.rq, p.rq)
          /\ Found(b.rq, p.rq.at + 1, p.rq.score, p.rq.floor, p.rq.session, p.rq.would,
                   p.rq.outcome, p.rq.pass)
          /\ WorldIs(b.world, p.world.flags, p.world.held, p.world.spent, p.world.strikes)
      BY <2>1, DownIs
    <2> HIDE DEF b
    <2>3. /\ b.rq.at = t.rq.at + 1 /\ SameInput(b.rq, t.rq)
          /\ b.rq.score = t.rq.score /\ b.rq.floor = 0
          /\ b.rq.outcome = t.rq.outcome /\ b.rq.pass = t.rq.pass
      BY <2>1, <2>2 DEF Found, SameInput, Lockstep
    <2>4. /\ b.world.held = t.world.held /\ b.world.flags = t.world.flags \cup {}
          /\ b.world.spent = [t.world.spent EXCEPT ![i] = t.world.spent[i] + 1]
      BY <2>1, <2>2 DEF WorldIs
    <2>5. /\ Unmoved(o, s) /\ o.rq.at = s.rq.at + 1 /\ o.rq.score = s.rq.score
          /\ o.world.spent = [s.world.spent EXCEPT ![i] = s.world.spent[i] + 1]
      BY <1>1, <1>5 DEF ReportsOnly
    <2>6. ASSUME NEW k \in DOMAIN rules, ~rules[k].observe
          PROVE  b.world.spent[k] = o.world.spent[k]
      <3>1. t.world.spent[k] = s.world.spent[k]
        BY <2>6 DEF Lockstep
      <3> QED  BY <1>3, <1>4, <2>4, <2>5, <3>1
    <2>7. OneOn(s, t, o, b, {})
      BY <2>3, <2>4, <2>5, <2>6 DEF OneOn, Lockstep
    <2>8. Lockstep(o, b)
      BY <1>0, <2>7, LockstepGoesOn
    <2> QED  BY <1>2, <1>3, <1>5, <2>8 DEF DryRun, o, b, p
  <1>6. CASE ~Admits(rule, i, s)
    <2>1. FlatState(f, DOMAIN rules)
      BY FlaggedIs
    <2> HIDE DEF f
    <2>2. FlatState(g, DOMAIN rules)
      BY <2>1, StruckIs
    <2> HIDE DEF g
    <2>3. Found(Refused(Limited, g).rq, Behind + 1, g.rq.score, g.rq.floor, g.rq.session,
                g.rq.would, Limited, g.rq.pass)
      BY <2>2, RefusedIs DEF Limited
    <2>4. o.rq.would >= Limited
      BY <1>1, <1>6 DEF ReportsOnly
    <2>5. Ended(o, Refused(Limited, g))
      BY <2>3, <2>4 DEF Ended, Found, Limited
    <2> QED  BY <1>2, <1>3, <1>6, <2>5 DEF DryRun, o
  <1> QED  BY <1>5, <1>6

\* A rule, reported for real and taken by the twin.
LEMMA DryStep ==
    ASSUME NEW s, NEW t, FlatState(s, DOMAIN rules), FlatState(t, DOMAIN rules),
           Lockstep(s, t), rules \in Seq(LadderRule), Reproducible,
           NEW i \in DOMAIN rules, s.rq.at = i, s.rq.logOnly
    PROVE  DryRun(RuleStep(rules[i], i, s), TwinStep(rules[i], i, t))
  <1> DEFINE rule == rules[i]
  <1>0. rule \in LadderRule /\ s.rq.at \in Nat /\ rule.budget \in Nat
    BY RuleFields DEF FlatState, FlatRequest
  <1>1. Matches(rule, s) <=> Matches(rule, t)
    <2>1. ReadsFlags(i, t.world) <=> ReadsFlags(i, s.world)
      BY <1>0 DEF Lockstep
    <2>2. s.rq.kind = t.rq.kind /\ s.rq.score = t.rq.score
      BY DEF Lockstep, SameInput
    <2> QED  BY <2>1, <2>2 DEF Matches, ReadsFlags
  <1>2. CASE ~Matches(rule, s)
    <2>1. /\ Unmoved(Down(s), s)
          /\ Found(Down(s).rq, s.rq.at + 1, s.rq.score, s.rq.floor, s.rq.session,
                   s.rq.would, s.rq.outcome, s.rq.pass)
          /\ WorldIs(Down(s).world, s.world.flags, s.world.held, s.world.spent,
                     s.world.strikes)
      BY <1>0, DownIs, OnlyReports DEF Served
    <2>2. Lockstep(Down(s), Down(t))
      BY <2>1, LockstepPasses DEF Found, WorldIs
    <2> QED  BY <1>1, <1>2, <2>2 DEF DryRun, RuleStep, TwinStep
  <1>3. CASE Matches(rule, s) /\ rule.observe
    <2> DEFINE o == Observed(rule, i, s)
    <2>1. ReportsOnly(rule, i, s, o)
      BY <1>0, ObservedIs
    <2> HIDE DEF o
    <2>2. /\ Unmoved(o, s) /\ o.rq.at = s.rq.at + 1 /\ o.rq.score = s.rq.score
          /\ \/ o.world.spent = [s.world.spent EXCEPT ![i] = s.world.spent[i] + 1]
             \/ o.world.spent = s.world.spent
      BY <1>3, <2>1 DEF ReportsOnly
    <2>3. \A k \in DOMAIN rules : ~rules[k].observe => o.world.spent[k] = s.world.spent[k]
      BY <1>3, <2>2 DEF FlatState, FlatWorld
    <2>4. Lockstep(o, Down(t))
      BY <2>2, <2>3, LockstepPasses
    <2> QED  BY <1>3, <2>4 DEF DryRun, RuleStep, TwinStep, o
  <1>4. CASE Matches(rule, s) /\ ~rule.observe
    <2>1. RuleStep(rule, i, s) = Observed(rule, i, s) /\ TwinStep(rule, i,
                                                                  t) = Enforced(rule, i, t)
      BY <1>1, <1>4 DEF RuleStep, TwinStep
    <2>2. CASE rule.budget = 0
      <3>1. Enforced(rule, i, t) = Acted(rule, t)
        BY <1>0, <2>2, EnforcedIs
      <3> QED  BY <1>4, <2>1, <2>2, <3>1, DryActed
    <2>3. CASE rule.budget > 0
      BY <1>4, <2>1, <2>3, DryBudget
    <2> QED  BY <1>0, <2>2, <2>3
  <1> QED  BY <1>2, <1>3, <1>4

\* What only reports does not touch the answer the twin has.
LEMMA EndedStays ==
    ASSUME NEW d, NEW s, NEW t, NEW a, FlatState(s, d), FlatState(t, d), FlatState(a, d),
           Ended(s, t), Unmoved(a, s)
    PROVE  Ended(a, t)
  BY DEF Ended, Unmoved, SameInput, FlatState, FlatRequest

\* In a LogOnly scope a rule only reports, and the walk goes on.
LEMMA RuleStepReports ==
    ASSUME NEW s, FlatState(s, DOMAIN rules), NEW i \in DOMAIN rules, s.rq.logOnly,
           rules \in Seq(LadderRule)
    PROVE  Unmoved(RuleStep(rules[i], i, s), s) /\ RuleStep(rules[i], i,
                                                            s).rq.at = s.rq.at + 1
  <1>0. rules[i] \in LadderRule /\ 0 \in Nat
    OBVIOUS
  <1>1. Unmoved(Observed(rules[i], i, s), s) /\ Observed(rules[i], i, s).rq.at = s.rq.at + 1
    <2>1. ReportsOnly(rules[i], i, s, Observed(rules[i], i, s))
      BY <1>0, ObservedIs
    <2> QED  BY <2>1 DEF ReportsOnly
  <1>2. Unmoved(Down(s), s) /\ Down(s).rq.at = s.rq.at + 1
    <2>1. Found(Down(s).rq, s.rq.at + 1, s.rq.score, s.rq.floor, s.rq.session, s.rq.would,
                s.rq.outcome, s.rq.pass)
      BY DownIs
    <2> QED  BY <1>0, <2>1, OnlyReports DEF Found
  <1> QED  BY <1>1, <1>2 DEF RuleStep

\* A stage that only reports.
Notes(s, r) ==
    /\ Unmoved(r, s) /\ r.rq.at = s.rq.at /\ r.rq.score = s.rq.score
    /\ r.world.spent = s.world.spent

\* A report is such a stage.
LEMMA NotesReported ==
    ASSUME NEW d, NEW s, FlatState(s, d), NEW o \in Nat
    PROVE  /\ FlatState(Reported(o, s), d) /\ Notes(s, Reported(o, s)) /\ Notes(s, s)
           /\ Reported(o, s).rq.would >= o
  <1>0. s.rq.would \in Nat
    BY DEF FlatState, FlatRequest
  <1>1. /\ FlatState(Reported(o, s), d) /\ SameInput(Reported(o, s).rq, s.rq)
        /\ Found(Reported(o, s).rq, s.rq.at, s.rq.score, s.rq.floor, s.rq.session,
                 IF o > s.rq.would THEN o ELSE s.rq.would, s.rq.outcome, s.rq.pass)
        /\ WorldIs(Reported(o, s).world, s.world.flags, s.world.held, s.world.spent,
                   s.world.strikes)
    BY ReportedIs
  <1>2. Notes(s, Reported(o, s)) /\ Reported(o, s).rq.would >= o
    BY <1>0, <1>1 DEF Notes, Unmoved, Found, WorldIs
  <1>3. Notes(s, s)
    BY <1>0 DEF Notes, Unmoved, SameInput
  <1> QED  BY <1>1, <1>2, <1>3

\* In a LogOnly scope every stage is, and reports what it would have refused.
LEMMA StagesNote ==
    ASSUME NEW d, NEW s, FlatState(s, d), s.rq.at = Behind
    PROVE  /\ Notes(s, RobotsStage(s, TRUE)) /\ Notes(s, BotRateStage(s, TRUE))
           /\ Notes(s, TierStage(s, TRUE))
           /\ s.rq.robots # "allow" => RobotsStage(s, TRUE).rq.would >= Blocked
           /\ s.rq.overBotRate => BotRateStage(s, TRUE).rq.would >= Limited
           /\ ~s.rq.pass /\ s.rq.score >= ladder.row => TierStage(s, TRUE).rq.would >= Challenged
  <1>1. /\ Notes(s, s) /\ Notes(s, Reported(Blocked, s)) /\ Notes(s, Reported(Limited, s))
        /\ Notes(s, Reported(Challenged, s))
        /\ Reported(Blocked, s).rq.would >= Blocked /\ Reported(Limited,
                                                                s).rq.would >= Limited
        /\ Reported(Challenged, s).rq.would >= Challenged
    BY NotesReported DEF Blocked, Limited, Challenged
  <1>2. RobotsStage(s, TRUE) = IF s.rq.robots = "allow" THEN s ELSE Reported(Blocked, s)
    BY StagesAre
  <1>3. BotRateStage(s, TRUE) = IF ~s.rq.overBotRate THEN s ELSE Reported(Limited, s)
    BY StagesAre
  <1>4. TierStage(s, TRUE) = IF s.rq.pass \/ ~(s.rq.floor > 0 \/ s.rq.score >= ladder.row) THEN s
                             ELSE Reported(Challenged, s)
    BY StagesAre
  <1> QED  BY <1>1, <1>2, <1>3, <1>4

\* Two of them are one.
LEMMA NotesTwice ==
    ASSUME NEW d, NEW s, NEW t, NEW u, FlatState(s, d), FlatState(t, d), FlatState(u, d),
           Notes(s, t), Notes(t, u)
    PROVE  Notes(s, u)
  BY UnmovedTwice DEF Notes

\* The twin behind the walk, and one that a stage has refused.
StillOpen(s, t) ==
    /\ t.rq.at = Behind /\ SameInput(t.rq, s.rq) /\ t.rq.outcome = Served
    /\ ~t.rq.pass => t.rq.score = s.rq.score /\ t.rq.floor = 0

Shut(s, t) == t.rq.at = Behind + 1 /\ t.rq.outcome <= s.rq.would

\* What was refused stays so.
LEMMA StayShut ==
    ASSUME NEW s, NEW t, NEW r, Shut(s, t), Notes(s, r), rules \in Seq(LadderRule),
           s.rq.would \in Nat, t.rq.outcome \in Nat, r.rq.would \in Nat
    PROVE  /\ Shut(r, RobotsStage(t, FALSE)) /\ Shut(r, BotRateStage(t, FALSE))
           /\ Shut(r, TierStage(t, FALSE))
  <1>1. t.rq.at # Behind
    BY DEF Shut, Behind
  <1>2. RobotsStage(t, FALSE) = t /\ BotRateStage(t, FALSE) = t /\ TierStage(t, FALSE) = t
    BY <1>1, StagesAre
  <1>3. t.rq.outcome <= r.rq.would
    BY DEF Shut, Notes, Unmoved
  <1>4. Shut(r, t)
    BY <1>3 DEF Shut
  <1> QED  BY <1>2, <1>4

\* A refusal that the dry run has reported.
LEMMA StageRefuses ==
    ASSUME NEW d, NEW t, FlatState(t, d), NEW r, NEW o \in Nat, NEW fs, r.rq.would \in Nat,
           r.rq.would >= o, rules \in Seq(LadderRule)
    PROVE  Shut(r, Refused(o, t)) /\ Shut(r, Refused(o, Flagged(fs, t)))
  <1>1. FlatState(Flagged(fs, t), d)
    BY FlaggedIs
  <1>2. \A u : FlatState(u, d) => Refused(o, u).rq.at = Behind + 1 /\ Refused(o, u).rq.outcome = o
    BY RefusedIs DEF Found
  <1> QED  BY <1>1, <1>2 DEF Shut

\* robots.txt, reported for real and enforced on the twin.
LEMMA DryRobots ==
    ASSUME NEW d, NEW s, NEW t, FlatState(s, d), FlatState(t, d), rules \in Seq(LadderRule),
           s.rq.at = Behind, StillOpen(s, t) \/ Shut(s, t)
    PROVE  LET r == RobotsStage(s, TRUE)
               u == RobotsStage(t, FALSE)
           IN  StillOpen(r, u) \/ Shut(r, u)
  <1> DEFINE r == RobotsStage(s, TRUE)
             u == RobotsStage(t, FALSE)
  <1>0. FlatState(r, d)
    BY StagesFlat
  <1>1. s.rq.would \in Nat /\ t.rq.outcome \in Nat /\ r.rq.would \in Nat /\ Blocked \in Nat
    BY <1>0 DEF FlatState, FlatRequest, Blocked
  <1>2. Notes(s, r) /\ (s.rq.robots # "allow" => r.rq.would >= Blocked)
    BY StagesNote
  <1> HIDE DEF r
  <1>3. CASE Shut(s, t)
    BY <1>1, <1>2, <1>3, StayShut DEF r
  <1>4. CASE StillOpen(s, t)
    <2>1. t.rq.at = Behind /\ t.rq.robots = s.rq.robots
      BY <1>4 DEF StillOpen, SameInput
    <2>2. u = IF t.rq.robots = "allow" THEN t
              ELSE IF t.rq.robots = "deny" THEN Refused(Blocked, Flagged({"robots_ignored"},
                                                                         t))
              ELSE Reported(Blocked, t)
      BY <2>1, StagesAre
    <2>3. \A v : Notes(t, v) => StillOpen(r, v)
      BY <1>2, <1>4 DEF StillOpen, Notes, Unmoved, SameInput
    <2>4. Notes(t, t) /\ Notes(t, Reported(Blocked, t))
      BY <1>1, NotesReported
    <2>5. s.rq.robots # "allow" => Shut(r, Refused(Blocked, Flagged({"robots_ignored"}, t)))
      BY <1>1, <1>2, StageRefuses
    <2> QED  BY <2>1, <2>2, <2>3, <2>4, <2>5 DEF r
  <1> QED  BY <1>3, <1>4

\* The bot rate likewise.
LEMMA DryBotRate ==
    ASSUME NEW d, NEW s, NEW t, FlatState(s, d), FlatState(t, d), rules \in Seq(LadderRule),
           s.rq.at = Behind, StillOpen(s, t) \/ Shut(s, t)
    PROVE  LET r == BotRateStage(s, TRUE)
               u == BotRateStage(t, FALSE)
           IN  StillOpen(r, u) \/ Shut(r, u)
  <1> DEFINE r == BotRateStage(s, TRUE)
             u == BotRateStage(t, FALSE)
  <1>0. FlatState(r, d)
    BY StagesFlat
  <1>1. s.rq.would \in Nat /\ t.rq.outcome \in Nat /\ r.rq.would \in Nat /\ Limited \in Nat
    BY <1>0 DEF FlatState, FlatRequest, Limited
  <1>2. Notes(s, r) /\ (s.rq.overBotRate => r.rq.would >= Limited)
    BY StagesNote
  <1> HIDE DEF r
  <1>3. CASE Shut(s, t)
    BY <1>1, <1>2, <1>3, StayShut DEF r
  <1>4. CASE StillOpen(s, t)
    <2>1. t.rq.at = Behind /\ t.rq.overBotRate = s.rq.overBotRate
      BY <1>4 DEF StillOpen, SameInput
    <2>2. u = IF ~t.rq.overBotRate THEN t ELSE Refused(Limited, Flagged({"rate_abuse"}, t))
      BY <2>1, StagesAre
    <2>3. \A v : Notes(t, v) => StillOpen(r, v)
      BY <1>2, <1>4 DEF StillOpen, Notes, Unmoved, SameInput
    <2>4. Notes(t, t)
      BY <1>1, NotesReported
    <2>5. s.rq.overBotRate => Shut(r, Refused(Limited, Flagged({"rate_abuse"}, t)))
      BY <1>1, <1>2, StageRefuses
    <2> QED  BY <2>1, <2>2, <2>3, <2>4, <2>5 DEF r
  <1> QED  BY <1>3, <1>4

\* And the tier: it is asked by the score, which both have in common.
LEMMA DryTier ==
    ASSUME NEW d, NEW s, NEW t, FlatState(s, d), FlatState(t, d), rules \in Seq(LadderRule),
           s.rq.at = Behind, ~s.rq.pass, StillOpen(s, t) \/ Shut(s, t)
    PROVE  TierStage(s, TRUE).rq.would >= TierStage(t, FALSE).rq.outcome
  <1> DEFINE r == TierStage(s, TRUE)
             u == TierStage(t, FALSE)
  <1>0. FlatState(r, d)
    BY StagesFlat
  <1>1. s.rq.would \in Nat /\ t.rq.outcome \in Nat /\ r.rq.would \in Nat /\ Challenged \in Nat
    BY <1>0 DEF FlatState, FlatRequest, Challenged
  <1>2. Notes(s, r) /\ (s.rq.score >= ladder.row => r.rq.would >= Challenged)
    BY StagesNote
  <1> HIDE DEF r
  <1>3. CASE Shut(s, t)
    BY <1>1, <1>2, <1>3, StayShut DEF r, Shut
  <1>4. CASE StillOpen(s, t)
    <2>1. t.rq.at = Behind /\ t.rq.outcome = Served
      BY <1>4 DEF StillOpen
    <2>2. u = IF t.rq.pass \/ ~(t.rq.floor > 0 \/ t.rq.score >= ladder.row) THEN t
              ELSE Refused(Challenged, t)
      BY <2>1, StagesAre
    <2>3. CASE t.rq.pass \/ ~(t.rq.floor > 0 \/ t.rq.score >= ladder.row)
      <3>1. r.rq.would >= t.rq.outcome
        BY <1>1, <2>1 DEF Served
      <3>2. u = t
        BY <2>2, <2>3
      <3> QED  BY <3>1, <3>2 DEF r
    <2>4. CASE ~(t.rq.pass \/ ~(t.rq.floor > 0 \/ t.rq.score >= ladder.row))
      <3>1. t.rq.score = s.rq.score /\ t.rq.floor = 0
        BY <1>4, <2>4 DEF StillOpen
      <3>2. r.rq.would >= Challenged
        BY <1>2, <2>4, <3>1
      <3>3. Shut(r, Refused(Challenged, t))
        BY <1>1, <3>2, StageRefuses
      <3> QED  BY <2>2, <2>4, <3>3 DEF Shut, r
    <2> QED  BY <2>3, <2>4
  <1> QED  BY <1>3, <1>4

\* After all stages the dry run has reported the twin's outcome.
LEMMA DryDecided ==
    ASSUME NEW d, NEW s, NEW t, FlatState(s, d), FlatState(t, d), rules \in Seq(LadderRule),
           s.rq.at = Behind, ~s.rq.pass
    PROVE  /\ Notes(s, Decided(s, TRUE))
           /\ StillOpen(s, t) \/ Shut(s, t) =>
                 Decided(s, TRUE).rq.would >= Decided(t, FALSE).rq.outcome
  <1> DEFINE s1 == RobotsStage(s, TRUE)
             t1 == RobotsStage(t, FALSE)
             s2 == BotRateStage(s1, TRUE)
             t2 == BotRateStage(t1, FALSE)
             s3 == TierStage(s2, TRUE)
             t3 == TierStage(t2, FALSE)
  <1>1. /\ FlatState(s1, d) /\ FlatState(t1, d) /\ Notes(s, s1)
        /\ StillOpen(s, t) \/ Shut(s, t) => StillOpen(s1, t1) \/ Shut(s1, t1)
    BY StagesFlat, StagesNote, DryRobots
  <1>2. s1.rq.at = Behind /\ ~s1.rq.pass
    BY <1>1 DEF Notes, Unmoved
  <1> HIDE DEF s1, t1
  <1>3. /\ FlatState(s2, d) /\ FlatState(t2, d) /\ Notes(s1, s2)
        /\ StillOpen(s1, t1) \/ Shut(s1, t1) => StillOpen(s2, t2) \/ Shut(s2, t2)
    BY <1>1, <1>2, StagesFlat, StagesNote, DryBotRate
  <1>4. s2.rq.at = Behind /\ ~s2.rq.pass
    BY <1>2, <1>3 DEF Notes, Unmoved
  <1> HIDE DEF s2, t2
  <1>5. /\ FlatState(s3, d) /\ Notes(s2, s3)
        /\ StillOpen(s2, t2) \/ Shut(s2, t2) => s3.rq.would >= t3.rq.outcome
    BY <1>3, <1>4, StagesFlat, StagesNote, DryTier
  <1> HIDE DEF s3, t3
  <1>6. Notes(s, s3)
    <2>1. Notes(s, s2)
      BY <1>1, <1>3, NotesTwice
    <2> QED  BY <1>3, <1>5, <2>1, NotesTwice
  <1> QED  BY <1>1, <1>3, <1>5, <1>6 DEF Decided, s1, s2, s3, t1, t2, t3

(* What a request is stays, and it stays under way. *)

GoesOnWith(s, u) == SameInput(u.rq, s.rq) /\ u.rq.at # 0

\* An action does not end the request.
LEMMA ActedGoesOn ==
    ASSUME NEW d, NEW s, FlatState(s, d), NEW rule \in LadderRule, rules \in Seq(LadderRule)
    PROVE  GoesOnWith(s, Acted(rule, s))
  <1> DEFINE m == Marked(rule, s)
             f == Demanding(rule.floor, m)
  <1>0. Behind \in Nat /\ Behind + 1 # 0 /\ Behind # 0 /\ rule.floor \in Nat /\ rule.respond \in Nat
    BY RuleFields DEF Behind
  <1>1. FlatState(m, d) /\ SameInput(m.rq, s.rq)
    BY MarkedIs
  <1> HIDE DEF m
  <1>2. GoesOnWith(s, Refused(rule.respond, m))
    <2>1. SameInput(Refused(rule.respond, m).rq, m.rq) /\ Refused(rule.respond,
                                                                  m).rq.at = Behind + 1
      BY ZenonT(30), <1>0, <1>1, RefusedIs DEF Found
    <2> QED  BY <1>0, <1>1, <2>1 DEF GoesOnWith, SameInput
  <1>3. GoesOnWith(s, Passed(m))
    BY ZenonT(30), <1>0, <1>1, PassedIs DEF GoesOnWith, SameInput, Found
  <1>4. FlatState(f, d) /\ SameInput(f.rq, m.rq) /\ f.rq.at \in Nat
    <2>1. FlatState(f, d) /\ SameInput(f.rq, m.rq)
      BY <1>0, <1>1, DemandingIs
    <2> QED  BY <2>1 DEF FlatState, FlatRequest
  <1> HIDE DEF f
  <1>5. SameInput(Down(f).rq, f.rq) /\ Down(f).rq.at = f.rq.at + 1
    BY <1>4, DownIs DEF Found
  <1>6. GoesOnWith(s, Down(f))
    BY <1>1, <1>4, <1>5 DEF GoesOnWith, SameInput
  <1> QED  BY <1>2, <1>3, <1>6, ActedIs DEF m, f

\* Nor does a rule.
LEMMA TwinStepGoesOn ==
    ASSUME NEW s, FlatState(s, DOMAIN rules), NEW i \in DOMAIN rules,
           rules \in Seq(LadderRule)
    PROVE  /\ GoesOnWith(s, Enforced(rules[i], i, s)) /\ GoesOnWith(s, Down(s))
           /\ GoesOnWith(s, Observed(rules[i], i, s)) /\ GoesOnWith(s, RuleStep(rules[i], i,
                                                                                s))
  <1> DEFINE rule == rules[i]
             f == Flagged({"rate_abuse"}, s)
             g == Struck(rule, i, f)
             p == Spent(i, s)
  <1>0. /\ rule \in LadderRule /\ Behind + 1 # 0 /\ s.rq.at \in Nat
    BY DEF Behind, FlatState, FlatRequest
  <1>1. FlatState(f, DOMAIN rules) /\ SameInput(f.rq, s.rq)
    BY FlaggedIs
  <1> HIDE DEF f
  <1>2. FlatState(g, DOMAIN rules) /\ SameInput(g.rq, f.rq)
    BY <1>1, StruckIs
  <1> HIDE DEF g
  <1>3. FlatState(p, DOMAIN rules) /\ SameInput(p.rq, s.rq) /\ p.rq.at = s.rq.at
    <2> HIDE DEF rule
    <2>1. /\ FlatState(Spent(i, s), DOMAIN rules) /\ SameInput(Spent(i, s).rq, s.rq)
          /\ Found(Spent(i, s).rq, s.rq.at, s.rq.score, s.rq.floor, s.rq.session,
                   s.rq.would, s.rq.outcome, s.rq.pass)
      BY SpentIs
    <2> QED
      BY <2>1 DEF Found
  <1> HIDE DEF p
  <1>4. GoesOnWith(s, Acted(rule, s))
    BY <1>0, ActedGoesOn
  <1>5. GoesOnWith(s, Acted(rule, g))
    BY <1>0, <1>1, <1>2, ActedGoesOn DEF GoesOnWith, SameInput
  <1>6. GoesOnWith(s, Refused(Limited, g)) /\ GoesOnWith(s, Refused(Blocked, f))
    <2>1. \A u : FlatState(u, DOMAIN rules) =>
             /\ SameInput(Refused(Limited, u).rq, u.rq) /\ Refused(Limited,
                                                                   u).rq.at = Behind + 1
             /\ SameInput(Refused(Blocked, u).rq, u.rq) /\ Refused(Blocked,
                                                                   u).rq.at = Behind + 1
      BY RefusedIs DEF Found, Limited, Blocked
    <2> QED  BY <1>0, <1>1, <1>2, <2>1 DEF GoesOnWith, SameInput
  <1>7. GoesOnWith(s, Down(p))
    BY <1>0, <1>3, DownIs DEF GoesOnWith, SameInput, Found
  <1>8. GoesOnWith(s, Down(s))
    BY SMTT(30), <1>0, DownIs DEF GoesOnWith, SameInput, Found
  <1>9. GoesOnWith(s, Enforced(rule, i, s))
    BY <1>0, <1>4, <1>5, <1>6, <1>7, EnforcedIs DEF f, g, p
  <1>10. GoesOnWith(s, Observed(rule, i, s))
    <2>1. ReportsOnly(rule, i, s, Observed(rule, i, s))
      BY <1>0, ObservedIs
    <2> QED  BY <1>0, <2>1 DEF ReportsOnly, GoesOnWith, Unmoved
  <1>11. GoesOnWith(s, RuleStep(rule, i, s))
    BY <1>8, <1>9, <1>10 DEF RuleStep
  <1> QED  BY <1>8, <1>9, <1>10, <1>11

\* Nor does a stage.
LEMMA StagesGoOn ==
    ASSUME NEW d, NEW s, FlatState(s, d), rules \in Seq(LadderRule), NEW lo \in BOOLEAN
    PROVE  /\ SameInput(RobotsStage(s, lo).rq, s.rq) /\ SameInput(BotRateStage(s, lo).rq,
                                                                  s.rq)
           /\ SameInput(TierStage(s, lo).rq, s.rq)
  <1>1. /\ SameInput(s.rq, s.rq) /\ SameInput(Reported(Blocked, s).rq, s.rq)
        /\ SameInput(Reported(Limited, s).rq, s.rq) /\ SameInput(Reported(Challenged, s).rq,
                                                                 s.rq)
    BY ReportedIs DEF SameInput, Blocked, Limited, Challenged
  <1>2. \A fs : FlatState(Flagged(fs, s), d) /\ SameInput(Flagged(fs, s).rq, s.rq)
    BY FlaggedIs
  <1>3. \A u : FlatState(u, d) => /\ SameInput(Refused(Blocked, u).rq, u.rq)
                                  /\ SameInput(Refused(Limited, u).rq, u.rq)
                                  /\ SameInput(Refused(Challenged, u).rq, u.rq)
    BY RefusedIs DEF Blocked, Limited, Challenged
  <1>4. /\ SameInput(Refused(Blocked, Flagged({"robots_ignored"}, s)).rq, s.rq)
        /\ SameInput(Refused(Limited, Flagged({"rate_abuse"}, s)).rq, s.rq)
        /\ SameInput(Refused(Challenged, s).rq, s.rq)
    BY <1>2, <1>3 DEF SameInput
  <1> QED  BY <1>1, <1>4, StagesAre

\* Nor do all of them.
LEMMA DecidedGoesOn ==
    ASSUME NEW d, NEW s, FlatState(s, d), rules \in Seq(LadderRule), NEW lo \in BOOLEAN
    PROVE  SameInput(Decided(s, lo).rq, s.rq)
  <1> DEFINE s1 == RobotsStage(s, lo)
             s2 == BotRateStage(s1, lo)
  <1>1. FlatState(s1, d) /\ SameInput(s1.rq, s.rq)
    BY StagesFlat, StagesGoOn
  <1> HIDE DEF s1
  <1>2. FlatState(s2, d) /\ SameInput(s2.rq, s1.rq)
    BY <1>1, StagesFlat, StagesGoOn
  <1> HIDE DEF s2
  <1>3. SameInput(TierStage(s2, lo).rq, s2.rq)
    BY <1>2, StagesGoOn
  <1> QED  BY <1>1, <1>2, <1>3 DEF SameInput, Decided, s1, s2

(* The invariant. *)

\* The shapes of what is held for real (r), by the twin (t) and beside (k),
\* after n requests and events.
PolicyShape(r, t, k, n) ==
    /\ FlatWorld(k, DOMAIN rules)
    /\ IF n = 0
       THEN r = [world |-> NewWorld(rules), rq |-> NoRequest] /\ t = r /\ k = r.world
       ELSE FlatState(r, DOMAIN rules) /\ FlatState(t, DOMAIN rules)

\* Between requests.
AtPeace(r, t, n) ==
    /\ SameWorld(r.world, t.world) /\ t.rq.at = 0
    /\ n # 0 => IF r.rq.logOnly THEN r.rq.outcome = Served /\ ~r.rq.pass
                ELSE SameRequest(r.rq, t.rq)
    /\ n # 0 /\ Reproducible /\ r.rq.logOnly => r.rq.would >= t.rq.outcome

\* A request in a LogOnly scope has touched nothing that the twin held.
Aside(r, k) ==
    /\ r.world.flags = k.flags /\ r.world.held = k.held /\ r.world.strikes = k.strikes
    /\ r.rq.session = {} /\ r.rq.floor = 0 /\ r.rq.outcome = Served /\ ~r.rq.pass
    /\ r.rq.at \in 1 .. Behind

UnderWay(r, t, k) ==
    IF r.rq.logOnly THEN Aside(r, k) /\ (Reproducible => DryRun(r, t)) ELSE Alike(r, t)

PolicyFits(r, t, k, n) ==
    /\ PolicyShape(r, t, k, n)
    /\ r.rq.at = 0 => AtPeace(r, t, n)
    /\ r.rq.at # 0 => n # 0 /\ UnderWay(r, t, k)

PolicyInv ==
    /\ ladder \in Ladders /\ requests \in Nat
    /\ PolicyFits(real, twin, kept, requests)

\* The rules of a configuration.
LEMMA LadderRules ==
    ASSUME ladder \in Ladders
    PROVE  /\ rules \in Seq(LadderRule) /\ Len(rules) \in Nat /\ DOMAIN rules = 1 .. Len(rules)
           /\ Behind = Len(rules) + 1 /\ Behind \in Nat
  BY LadderAssumption DEF Behind, rules

\* The server starts with nothing flagged and nothing spent.
LEMMA PolicyStarts ==
    PolicyInit => PolicyInv
  <1> SUFFICES ASSUME PolicyInit PROVE PolicyInv
    OBVIOUS
  <1> DEFINE w == NewWorld(rules)
             q == NoRequest
             r == [world |-> w, rq |-> q]
  <1>1. /\ ladder \in Ladders /\ real = r /\ twin = r /\ kept = w /\ requests = 0
    BY DEF PolicyInit, rules
  <1>2. w = [flags |-> {}, held |-> {}, spent |-> [i \in DOMAIN rules |-> 0],
             strikes |-> [i \in DOMAIN rules |-> 0]]
    BY DEF NewWorld
  <1>3. FlatWorld(w, DOMAIN rules)
    BY <1>2 DEF FlatWorld
  <1>4. r.rq.at = 0 /\ r.world = w
    BY DEF NoRequest
  <1> HIDE DEF w, q
  <1>5. SameWorld(r.world, r.world)
    BY DEF SameWorld
  <1>6. PolicyShape(r, r, w, 0)
    BY <1>3, <1>4 DEF PolicyShape, w, q
  <1>7. AtPeace(r, r, 0)
    BY <1>4, <1>5 DEF AtPeace
  <1>8. PolicyFits(r, r, w, 0)
    BY <1>4, <1>6, <1>7 DEF PolicyFits
  <1> QED  BY <1>1, <1>8 DEF PolicyInv

\* What is held has its shape before the first request as well.
LEMMA ShapeFlat ==
    ASSUME NEW r, NEW t, NEW k, NEW n, PolicyShape(r, t, k, n)
    PROVE  /\ r = [world |-> r.world, rq |-> r.rq] /\ t = [world |-> t.world, rq |-> t.rq]
           /\ FlatWorld(r.world, DOMAIN rules) /\ FlatWorld(t.world, DOMAIN rules)
           /\ FlatWorld(k, DOMAIN rules)
  <1>1. CASE n = 0
    <2>1. r = [world |-> NewWorld(rules), rq |-> NoRequest] /\ t = r /\ k = r.world
      BY <1>1 DEF PolicyShape
    <2> QED  BY <2>1 DEF PolicyShape
  <1>2. CASE n # 0
    BY <1>2 DEF PolicyShape, FlatState
  <1> QED  BY <1>1, <1>2

\* A request comes in.
LEMMA ReceiveFits ==
    ASSUME ladder \in Ladders, NEW n \in Nat, NEW r, NEW t, NEW k, PolicyFits(r, t, k, n),
           r.rq.at = 0, NEW kind, NEW lo \in BOOLEAN, NEW robots, NEW over \in BOOLEAN
    PROVE  PolicyFits([r EXCEPT !.rq = Request(kind, lo, robots, over)],
                      [world |-> IF lo THEN r.world ELSE t.world,
                       rq |-> Request(kind, lo, robots, over)], t.world, n + 1)
  <1> DEFINE q == Request(kind, lo, robots, over)
             a == [world |-> r.world, rq |-> q]
             b == [world |-> IF lo THEN r.world ELSE t.world, rq |-> q]
  <1>1. /\ r = [world |-> r.world, rq |-> r.rq]
        /\ FlatWorld(r.world, DOMAIN rules) /\ FlatWorld(t.world, DOMAIN rules)
    BY ShapeFlat DEF PolicyFits
  <1>2. [r EXCEPT !.rq = q] = a
    BY <1>1
  <1>3. /\ FlatRequest(q) /\ q.at = 1 /\ q.logOnly = lo /\ q.session = {} /\ q.floor = 0
        /\ q.outcome = Served /\ ~q.pass
    BY DEF FlatRequest, Request, Served
  <1> HIDE DEF q
  <1>4. a.world = r.world /\ a.rq = q /\ b.rq = q /\ b.world = IF lo THEN r.world ELSE t.world
    OBVIOUS
  <1>5. FlatState(a, DOMAIN rules) /\ FlatState(b, DOMAIN rules)
    BY <1>1, <1>3 DEF FlatState
  <1> HIDE DEF a, b
  <1>6. SameWorld(r.world, t.world)
    BY DEF PolicyFits, AtPeace
  <1>9. UnderWay(a, b, t.world)
    <2>1. CASE lo
      <3>1. Aside(a, t.world)
        BY <1>3, <1>4, <1>6, LadderRules DEF Aside, SameWorld
      <3>2. Lockstep(a, b)
        BY <1>3, <1>4, <2>1 DEF Lockstep, SameInput, Served
      <3> QED  BY <1>3, <1>4, <2>1, <3>1, <3>2 DEF UnderWay, DryRun
    <2>2. CASE ~lo
      <3>1. Alike(a, b)
        BY <1>4, <1>6, <2>2 DEF Alike, SameRequest, SameInput, Found
      <3> QED  BY <1>3, <1>4, <2>2, <3>1 DEF UnderWay
    <2> QED  BY <2>1, <2>2
  <1>10. PolicyShape(a, b, t.world, n + 1)
    BY <1>1, <1>5 DEF PolicyShape
  <1>11. PolicyFits(a, b, t.world, n + 1)
    BY <1>3, <1>4, <1>9, <1>10 DEF PolicyFits
  <1> QED  BY <1>2, <1>11 DEF q, b

\* The next rule.
LEMMA WalkFits ==
    ASSUME ladder \in Ladders, NEW n \in Nat, NEW r, NEW t, NEW k, PolicyFits(r, t, k, n),
           Walking(r) \/ Walking(t), r.rq.at # 0,
           NEW i, i = IF Walking(r) THEN r.rq.at ELSE t.rq.at
    PROVE  PolicyFits(IF Walking(r) THEN RuleStep(rules[i], i, r) ELSE r,
                      IF Walking(t) THEN TwinStep(rules[i], i, t) ELSE t, k, n)
  <1> DEFINE a == IF Walking(r) THEN RuleStep(rules[i], i, r) ELSE r
             b == IF Walking(t) THEN TwinStep(rules[i], i, t) ELSE t
  <1>1. /\ n # 0 /\ FlatWorld(k, DOMAIN rules) /\ UnderWay(r, t, k)
        /\ FlatState(r, DOMAIN rules) /\ FlatState(t, DOMAIN rules)
    BY DEF PolicyFits, PolicyShape
  <1>2. rules \in Seq(LadderRule) /\ i \in DOMAIN rules /\ DOMAIN rules = 1 .. Len(rules)
    BY LadderRules DEF Walking
  <1>3. /\ FlatState(RuleStep(rules[i], i, r), DOMAIN rules)
        /\ FlatState(TwinStep(rules[i], i, t), DOMAIN rules)
        /\ GoesOnWith(r, RuleStep(rules[i], i, r))
    BY <1>1, <1>2, RuleStepFlat, TwinStepGoesOn
  <1>4. FlatState(a, DOMAIN rules) /\ FlatState(b, DOMAIN rules)
    BY <1>1, <1>3
  <1>5. a.rq.logOnly = r.rq.logOnly /\ a.rq.at # 0
    BY <1>3 DEF GoesOnWith, SameInput
  <1>6. UnderWay(a, b, k)
    <2>1. CASE ~r.rq.logOnly
      <3>1. Alike(r, t)
        BY <1>1, <2>1 DEF UnderWay
      <3>2. Walking(r) /\ Walking(t)
        BY <3>1 DEF Alike, SameRequest, Found, Walking
      <3>3. Alike(RuleStep(rules[i], i, r), TwinStep(rules[i], i, t))
        BY <1>1, <1>2, <2>1, <3>1, RuleStepAlike
      <3> QED  BY <1>5, <2>1, <3>2, <3>3 DEF UnderWay
    <2>2. CASE r.rq.logOnly
      <3>1. Aside(r, k) /\ (Reproducible => DryRun(r, t))
        BY <1>1, <2>2 DEF UnderWay
      <3>2. /\ Unmoved(a, r)
            /\ Walking(r) => a.rq.at = r.rq.at + 1
            /\ ~Walking(r) => a.rq.at = r.rq.at
        <4>1. CASE Walking(r)
          BY <1>1, <1>2, <2>2, <4>1, RuleStepReports
        <4>2. CASE ~Walking(r)
          BY <1>1, <4>2 DEF Unmoved, SameInput, FlatState, FlatRequest
        <4> QED  BY <4>1, <4>2
      <3>3. Aside(a, k)
        <4>1. r.rq.at \in 1 .. Behind
          BY <3>1 DEF Aside
        <4>2. Behind = Len(rules) + 1 /\ Len(rules) \in Nat
          BY LadderRules
        <4>3. Walking(r) => r.rq.at <= Len(rules)
          BY DEF Walking
        <4> HIDE DEF a
        <4>4. a.rq.at \in 1 .. Behind
          BY <3>2, <4>1, <4>2, <4>3
        <4> QED  BY <3>1, <3>2, <4>4 DEF Aside, Unmoved
      <3>4. ASSUME Reproducible PROVE DryRun(a, b)
        <4>1. CASE Lockstep(r, t)
          <5>1. Walking(r) /\ Walking(t) /\ r.rq.at = i
            BY <4>1 DEF Lockstep, Walking
          <5> QED  BY <1>1, <1>2, <2>2, <3>4, <4>1, <5>1, DryStep
        <4>2. CASE Ended(r, t)
          <5>1. ~Walking(t)
            BY <4>2, LadderRules DEF Ended, Walking
          <5>2. b = t
            BY <5>1
          <5> HIDE DEF a, b
          <5>3. Ended(a, t)
            BY <1>1, <1>4, <3>2, <4>2, EndedStays
          <5> QED  BY <5>2, <5>3 DEF DryRun
        <4> QED  BY <3>1, <3>4, <4>1, <4>2 DEF DryRun
      <3> HIDE DEF a, b
      <3> QED  BY <1>5, <2>2, <3>3, <3>4 DEF UnderWay
    <2> QED  BY <2>1, <2>2
  <1> HIDE DEF a, b
  <1>7. PolicyShape(a, b, k, n)
    BY <1>1, <1>4 DEF PolicyShape
  <1>8. PolicyFits(a, b, k, n)
    BY <1>1, <1>5, <1>6, <1>7 DEF PolicyFits
  <1> QED  BY <1>8 DEF a, b

\* The answer to a request that no LogOnly scope observes.
LEMMA AnswerFits ==
    ASSUME ladder \in Ladders, NEW n \in Nat, NEW r, NEW t, NEW k, PolicyFits(r, t, k, n),
           r.rq.at # 0, ~r.rq.logOnly, NEW e
    PROVE  PolicyFits(Responded(Decided(r, FALSE), e, FALSE), Responded(Decided(t, FALSE),
                                                                        e, FALSE), k, n)
  <1> DEFINE u == Decided(r, FALSE)
             v == Decided(t, FALSE)
             a == Responded(u, e, FALSE)
             b == Responded(v, e, FALSE)
  <1>1. /\ n # 0 /\ FlatWorld(k, DOMAIN rules) /\ Alike(r, t)
        /\ FlatState(r, DOMAIN rules) /\ FlatState(t, DOMAIN rules)
    BY DEF PolicyFits, PolicyShape, UnderWay
  <1>2. rules \in Seq(LadderRule)
    BY LadderRules
  <1>3. FlatState(u, DOMAIN rules) /\ FlatState(v, DOMAIN rules) /\ Alike(u, v) /\ SameInput(u.rq, r.rq)
    BY <1>1, <1>2, DecidedFlat, DecidedAlike, DecidedGoesOn
  <1> HIDE DEF u, v
  <1>4. FlatState(a, DOMAIN rules) /\ FlatState(b, DOMAIN rules) /\ Alike(a, b)
    BY <1>3, RespondedIs, RespondedAlike
  <1>5. SameInput(a.rq, u.rq) /\ a.rq.at = 0
    <2>1. /\ SameInput(a.rq, u.rq)
          /\ Found(a.rq, 0, u.rq.score, u.rq.floor, u.rq.session, u.rq.would, u.rq.outcome,
                   u.rq.pass)
      BY <1>3, RespondedIs
    <2> HIDE DEF a
    <2> QED  BY <2>1 DEF Found
  <1> HIDE DEF a, b
  <1>6. ~a.rq.logOnly
    BY <1>3, <1>5 DEF SameInput
  <1>7. AtPeace(a, b, n)
    <2>1. b.rq.at = 0
      BY <1>4, <1>5 DEF Alike, SameRequest, Found
    <2> QED  BY <1>1, <1>4, <1>6, <2>1 DEF AtPeace, Alike
  <1>8. PolicyShape(a, b, k, n)
    BY <1>1, <1>4 DEF PolicyShape
  <1>9. PolicyFits(a, b, k, n)
    BY <1>5, <1>7, <1>8 DEF PolicyFits
  <1> QED  BY <1>9 DEF a, b, u, v

\* The answer to one in a LogOnly scope.
LEMMA LogOnlyFits ==
    ASSUME ladder \in Ladders, NEW n \in Nat, NEW r, NEW t, NEW k, PolicyFits(r, t, k, n),
           r.rq.at # 0, ~Walking(r), ~Walking(t), r.rq.logOnly, NEW e
    PROVE  PolicyFits(Responded(Decided(r, TRUE), e, TRUE),
                      [world |-> [k EXCEPT !.spent = r.world.spent],
                       rq |-> [Decided(t, FALSE).rq EXCEPT !.at = 0]], k, n)
  <1> DEFINE u == Decided(r, TRUE)
             v == Decided(t, FALSE)
             a == Responded(u, e, TRUE)
             w == [k EXCEPT !.spent = r.world.spent]
             q == [v.rq EXCEPT !.at = 0]
             b == [world |-> w, rq |-> q]
  <1>1. /\ n # 0 /\ FlatWorld(k, DOMAIN rules) /\ Aside(r, k)
        /\ (Reproducible => DryRun(r, t))
        /\ FlatState(r, DOMAIN rules) /\ FlatState(t, DOMAIN rules)
    BY DEF PolicyFits, PolicyShape, UnderWay
  <1>2. rules \in Seq(LadderRule) /\ r.rq.at = Behind /\ ~r.rq.pass
    BY <1>1, LadderRules DEF Aside, Walking
  <1>3. FlatState(u, DOMAIN rules) /\ FlatState(v, DOMAIN rules) /\ Notes(r, u)
    BY <1>1, <1>2, DecidedFlat, DryDecided
  <1>4. ASSUME Reproducible PROVE u.rq.would >= v.rq.outcome
    <2>1. StillOpen(r, t) \/ Shut(r, t)
      <3>1. CASE Lockstep(r, t)
        BY <1>2, <3>1 DEF Lockstep, StillOpen, SameInput
      <3>2. CASE Ended(r, t)
        BY <3>2 DEF Ended, StillOpen, Shut
      <3> QED  BY <1>1, <1>4, <3>1, <3>2 DEF DryRun
    <2> QED  BY <1>1, <1>2, <2>1, DryDecided
  <1> HIDE DEF u, v
  <1>5. /\ FlatState(a, DOMAIN rules) /\ SameInput(a.rq, u.rq)
        /\ Found(a.rq, 0, u.rq.score, u.rq.floor, u.rq.session, u.rq.would, u.rq.outcome,
                 u.rq.pass)
        /\ WorldIs(a.world, u.world.flags, u.world.held \cup u.rq.session, u.world.spent,
                   u.world.strikes)
    BY <1>3, RespondedIs DEF FlagsAfter, HeldAfter
  <1> HIDE DEF a
  <1>6. /\ FlatWorld(w, DOMAIN rules) /\ w.flags = k.flags /\ w.held = k.held
        /\ w.strikes = k.strikes /\ w.spent = r.world.spent
    BY <1>1 DEF FlatState, FlatWorld
  <1>7. FlatRequest(q) /\ q.outcome = v.rq.outcome /\ q.at = 0
    BY <1>3 DEF FlatState, FlatRequest
  <1> HIDE DEF w, q
  <1>8. b.world = w /\ b.rq = q /\ FlatState(b, DOMAIN rules)
    BY <1>6, <1>7 DEF FlatState
  <1> HIDE DEF b
  <1>9. /\ a.rq.logOnly /\ a.rq.outcome = Served /\ ~a.rq.pass /\ a.rq.at = 0
        /\ a.rq.would = u.rq.would
    BY <1>1, <1>3, <1>5 DEF Aside, Notes, Unmoved, SameInput, Found
  <1>10. SameWorld(a.world, b.world)
    <2>1. u.world.held \cup u.rq.session = k.held
      BY <1>1, <1>3 DEF Aside, Notes, Unmoved
    <2> QED  BY <1>1, <1>3, <1>5, <1>6, <1>8, <2>1 DEF Aside, Notes, Unmoved, WorldIs, SameWorld
  <1>11. AtPeace(a, b, n)
    BY <1>4, <1>7, <1>8, <1>9, <1>10 DEF AtPeace
  <1>12. PolicyShape(a, b, k, n)
    BY <1>1, <1>5, <1>8 DEF PolicyShape
  <1>13. PolicyFits(a, b, k, n)
    BY <1>9, <1>11, <1>12 DEF PolicyFits
  <1> QED  BY <1>13 DEF a, b, q, u, v, w

\* A step leaves the ladder, so that what fits before it fits after it.
LEMMA FitsPrimed ==
    ASSUME UNCHANGED ladder, PolicyFits(real', twin', kept', requests')
    PROVE  PolicyFits(real, twin, kept, requests)'
  <1> DEFINE a == real'
             b == twin'
             c == kept'
             n == requests'
  <1>0. rules' = rules
    BY DEF rules
  <1>1. PolicyShape(real, twin, kept, requests)' <=> PolicyShape(a, b, c, n)
    BY <1>0 DEF PolicyShape
  <1>2. AtPeace(real, twin, requests)' <=> AtPeace(a, b, n)
    BY <1>0 DEF AtPeace, SameWorld, Reproducible
  <1>3. UnderWay(real, twin, kept)' <=> UnderWay(a, b, c)
    <2>1. Behind' = Behind
      BY <1>0 DEF Behind
    <2>2. Lockstep(real, twin)' <=> Lockstep(a, b)
      BY <1>0 DEF Lockstep, ReadsFlags
    <2>3. Ended(real, twin)' <=> Ended(a, b)
      BY <2>1 DEF Ended
    <2>4. Aside(real, kept)' <=> Aside(a, c)
      BY <2>1 DEF Aside
    <2>5. Alike(real, twin)' <=> Alike(a, b)
      BY <1>0 DEF Alike, SameWorld
    <2>6. Reproducible' <=> Reproducible
      BY <1>0 DEF Reproducible
    <2> QED  BY <2>2, <2>3, <2>4, <2>5, <2>6 DEF UnderWay, DryRun
  <1> QED  BY <1>1, <1>2, <1>3 DEF PolicyFits

\* Every step keeps the invariant.
LEMMA PolicyStep ==
    PolicyInv /\ [PolicyNext]_policyVars => PolicyInv'
  <1> SUFFICES ASSUME PolicyInv, [PolicyNext]_policyVars
               PROVE  PolicyInv'
    OBVIOUS
  <1>0. ladder \in Ladders /\ requests \in Nat /\ PolicyFits(real, twin, kept, requests)
    BY DEF PolicyInv
  <1>1. CASE Receive
    <2>1. /\ real.rq.at = 0 /\ requests' = requests + 1 /\ kept' = twin.world /\ UNCHANGED ladder
      BY <1>1 DEF Receive
    <2>2. PICK kind \in Kinds, lo \in BOOLEAN, robots \in {"allow", "deny",
                                                           "observe"}, over \in BOOLEAN :
             /\ real' = [real EXCEPT !.rq = Request(kind, lo, robots, over)]
             /\ twin' = [world |-> IF lo THEN real.world ELSE twin.world,
                         rq |-> Request(kind, lo, robots, over)]
      BY <1>1 DEF Receive
    <2>3. PolicyFits(real', twin', kept', requests')
      BY <1>0, <2>1, <2>2, ReceiveFits
    <2> QED  BY <1>0, <2>1, <2>3, FitsPrimed DEF PolicyInv
  <1>2. CASE WalkRule
    <2> DEFINE i == IF Walking(real) THEN real.rq.at ELSE twin.rq.at
    <2>1. /\ Walking(real) \/ Walking(twin)
          /\ real' = IF Walking(real) THEN RuleStep(rules[i], i, real) ELSE real
          /\ twin' = IF Walking(twin) THEN TwinStep(rules[i], i, twin) ELSE twin
          /\ UNCHANGED <<ladder, kept, requests>>
      BY <1>2 DEF WalkRule
    <2>2. real.rq.at # 0
      <3> SUFFICES ASSUME real.rq.at = 0 PROVE FALSE
        OBVIOUS
      <3>1. twin.rq.at = 0
        BY <1>0 DEF PolicyFits, AtPeace
      <3> QED  BY <2>1, <3>1 DEF Walking
    <2> HIDE DEF i
    <2>3. PolicyFits(real', twin', kept', requests')
      BY <1>0, <2>1, <2>2, WalkFits DEF i
    <2> QED  BY <1>0, <2>1, <2>3, FitsPrimed DEF PolicyInv
  <1>3. CASE Answer
    <2> DEFINE r == Decided(real, real.rq.logOnly)
               t == Decided(twin, FALSE)
    <2>1. /\ real.rq.at # 0 /\ ~Walking(real) /\ ~Walking(twin)
          /\ UNCHANGED <<ladder, kept, requests>>
      BY <1>3 DEF Answer
    <2>2. PICK e \in Events \cup {NoEvent} :
             /\ real' = Responded(r, e, real.rq.logOnly)
             /\ twin' = IF real.rq.logOnly
                        THEN [world |-> [kept EXCEPT !.spent = real.world.spent],
                              rq |-> [t.rq EXCEPT !.at = 0]]
                        ELSE Responded(t, e, FALSE)
      BY <1>3 DEF Answer
    <2>3. real.rq.logOnly \in BOOLEAN
      BY <1>0, <2>1 DEF PolicyFits, PolicyShape, FlatState, FlatRequest
    <2>4. CASE real.rq.logOnly
      <3>1. real.rq.logOnly = TRUE
        BY <2>3, <2>4
      <3>2. /\ real' = Responded(Decided(real, TRUE), e, TRUE)
            /\ twin' = [world |-> [kept EXCEPT !.spent = real.world.spent],
                        rq |-> [Decided(twin, FALSE).rq EXCEPT !.at = 0]]
        BY <2>2, <3>1
      <3>3. PolicyFits(real', twin', kept', requests')
        BY <1>0, <2>1, <2>4, <3>2, LogOnlyFits
      <3> QED  BY <1>0, <2>1, <3>3, FitsPrimed DEF PolicyInv
    <2>5. CASE ~real.rq.logOnly
      <3>1. real.rq.logOnly = FALSE
        BY <2>3, <2>5
      <3>2. /\ real' = Responded(Decided(real, FALSE), e, FALSE)
            /\ twin' = Responded(Decided(twin, FALSE), e, FALSE)
        BY <2>2, <3>1
      <3>3. PolicyFits(real', twin', kept', requests')
        BY <1>0, <2>1, <2>5, <3>2, AnswerFits
      <3> QED  BY <1>0, <2>1, <3>3, FitsPrimed DEF PolicyInv
    <2> QED  BY <2>4, <2>5
  <1>4. CASE UNCHANGED policyVars
    <2>1. /\ UNCHANGED ladder /\ real' = real /\ twin' = twin /\ kept' = kept
          /\ requests' = requests
      BY <1>4 DEF policyVars
    <2>2. PolicyFits(real', twin', kept', requests')
      BY <1>0, <2>1
    <2> QED  BY <1>0, <2>1, <2>2, FitsPrimed DEF PolicyInv
  <1> QED  BY <1>1, <1>2, <1>3, <1>4 DEF PolicyNext

\* The invariant of the policy walk holds.
THEOREM PolicyInvariant == PolicySpec => []PolicyInv
  BY PolicyStarts, PolicyStep, PTL DEF PolicySpec

\* Observing is faithful: on every ladder an observed rule or a LogOnly scope
\* changes nothing for anyone but budgets it spends, and on every ladder that
\* a dry run can reproduce it reports at least the outcome there would be.
THEOREM ObservingIsFaithful == PolicySpec => []ObserveFaithful
  <1>1. PolicyInv => ObserveFaithful
    <2> SUFFICES ASSUME PolicyInv, AtRest
                 PROVE  ObservedIsAbsent /\ (Reproducible => DryRunTells)
      BY DEF ObserveFaithful
    <2>1. real.rq.at = 0 /\ requests # 0 /\ AtPeace(real, twin, requests)
      BY DEF PolicyInv, PolicyFits, AtRest
    <2>2. SameWorld(real.world, twin.world)
      BY <2>1 DEF AtPeace
    <2>3. ObservedIsAbsent
      <3>1. \A f \in {"flags", "held", "strikes"} : real.world[f] = twin.world[f]
        BY <2>2 DEF SameWorld
      <3>2. \A i \in DOMAIN rules : ~rules[i].observe => real.world.spent[i] = twin.world.spent[i]
        BY <2>2 DEF SameWorld
      <3>3. IF real.rq.logOnly
            THEN real.rq.outcome = Served /\ ~real.rq.pass
            ELSE \A f \in {"outcome", "pass", "score", "floor"} : real.rq[f] = twin.rq[f]
        BY <2>1 DEF AtPeace, SameRequest, Found
      <3> QED  BY <3>1, <3>2, <3>3 DEF ObservedIsAbsent
    <2>4. Reproducible => DryRunTells
      BY <2>1 DEF AtPeace, DryRunTells
    <2> QED  BY <2>3, <2>4
  <1> QED  BY <1>1, PolicyInvariant, PTL
=============================================================================
