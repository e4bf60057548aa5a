# A verification project for mod_botshield

mod_botshield is an Apache module that scores requests, challenges clients that
look automated and refuses those that overspend. All children of a server share
one memory segment; what a request is answered depends on tables in it that other
processes read, change and abandon half-way at any moment, on files that other
programs replace under it, on a configuration merged from many scopes, and on what
a client brings back in a sealed cookie. This directory holds TLA+ models of that
behaviour, TLC configurations that check them on small instances, and TLAPS proofs
of the main properties of the shared state for every value of the constants.

Sources are named relative to `src/src/`. `PROJECT.json` maps every definition to
the lines it stands for and lists the components, runs, hazards and theorems.

## 1. The system

A request goes through `bs_access_checker` (`botshield.c`): module endpoints are
routed away, the cookie is verified, the policy rules are walked (`policy.c`,
`triggers.c`), flags and heuristics add up to a score, a tier is chosen and the
request is let through, challenged, redirected or refused. The endpoints that take
a solved challenge (`non_interactive.c`, `captcha.c`, `formcaptcha.c`) redeem it and
mint a better cookie. Watchdog callbacks run in the children: they save the state,
sweep tables, sample the load and reload directories. A restart makes a new segment
in the parent, filled from a file that the old one was saved to.

### Components

| component | state | operations | correct when |
|---|---|---|---|
| flagged-IP table (`shm.c` 196–508) | slots with a version, address, namespace, flags, expiry | add, clear, replace, clear a range; lookup without lock | a lookup returns one committed entry of its address; an address is entered once; live flags are found |
| nonce table (`shm.c` 1015–1113) | fingerprints and expiries | claim a nonce | a challenge is redeemed once; one that was not redeemed is not refused as a replay |
| strike table (`shm.c` 510–709) | strike window, count and escalation end per address and rule | strike, look an escalation up | escalations are earned and kept; other rules do not count |
| rate counters (`policy.c` 110–175) | one word of count and window start per rule | admit by compare-and-swap | nobody is refused below budget; nothing admitted goes uncounted |
| Bloom pair (`shm.c` 1116–1243) | two bit arrays, the active one, the due time | add, query, rotate | what was added is found for half a window; what is old is forgotten |
| state file (`shm.c` 1245–1740, `config.c` 985–1015) | `<path>`, `<path>.tmp`, the segment | save by a child, hand-off save, load | the file can always be loaded, is as new as the last durable save, and a restart loses nothing that was saved |
| safeguard table (`shm.c` 711–1013) | presentations in a window and a grant per address | present, redirect?, clear on a solve, sweep | a client that is shown a challenge again and again is let out in the end; nobody is let out unearned |
| captcha limits (`captcha.c` 833–1062) | per-minute words, in-flight count | admit, acquire, release | at most the configured number of requests wait for the provider |
| bot rate tiers (`bot_rate.c`) | counters of slug, group and total | hand counters out at start; charge all three | the right rule governs each crawler; the total is a ceiling; a group refusal never marks the client |
| load hysteresis (`load.c` 476–535) | state, two streaks | one sample per tick | no step without enough samples in a row, one level at a time |
| hot-swapped directories (`robots.c`, `bot_directory.c`, `browser_classifier.c`) | published pointer, displaced bundle | reload and publish; read | no reader uses a bundle after its pool is destroyed; every child gets the new file |
| verified bots (`allowlist.c`) | ranges of addresses, from a file and a sidecar | load, reload, judge | nobody is called a fake because of half a file |
| user-agent classification (`ua_class.c`, `bot_directory.c`, `browser_classifier.c`) | an automaton, a trie, templates | build, search, refresh | the matchers agree with a search in order; a refresh with the same data changes nothing |
| policy walk (`policy.c`, `triggers.c`, `bridge.c`) | the request's notes | match rules in order, first answer wins | observing changes nothing and reports what would have happened |
| blocks and rules (`triggers.c`, `config.c`) | the token list of a block, the lists of entries | set expansion, setters, upsert, counters | a rule does what its block says, whatever the order of its lines |
| configuration scopes (`config.c`) | directory and server configuration per scope | directives, merges, the managed secret | the order of the merges does not show |
| robots.txt (`robots.c`) | groups of agents, rules and delays | parse, add inline groups, match | a crawler is held to the rules written for it |
| challenge, cookie, reputation (`botshield.c`, `cookie.c`, `challenge.c`, `non_interactive.c`) | the sealed block a client brings back | mint, verify, carry over | a standing ends with its lifetime; nobody is asked for what they have proved |
| form captcha (`formcaptcha.c`, `captcha.c`) | the body of a POST, the provider's answer | read, extract, verify, replay | nothing opens without a yes to this very token |
| metrics rings (`metrics.c`) | a slot of counters per minute and hour | claim, zero, add, sum | a window shows its own time only |
| shared memory generations (`config.c`) | one segment per configuration load | create, destroy, hand over | the old children finish on the old segment |
| cryptography, templates, generated tables, tools | parsed values | — | see section 8 |

### How they interact

- **Shared segment.** All tables live in it. Changes to the flagged, strike,
  safeguard and nonce tables are made under one global mutex. Request paths only
  *try* it and drop the operation when it is busy (add, clear, strike, present);
  the nonce claim refuses when it is busy; the range clear waits for it; the save
  waits up to two seconds. Reads take no lock: a per-slot version, odd while the
  slot is written, tells a copy from a mixture.
- **Words without lock.** Rate counters, captcha words, Bloom bits, metric slots and
  the load state are atomic words with compare-and-swap or plain stores.
- **Memory of a child.** The directories (robots.txt, bots, browser templates,
  verified bots) are pointers in the memory of each child; a watchdog that is
  registered as a singleton changes them in one child only.
- **Processes die.** A child may be killed anywhere. The kernel gives its mutex
  back; a slot stays odd, a permit stays taken, a rotation stays half done.
- **Calls.** A refusal of a rate rule flags the client (flagged table) and adds a
  strike (strike table); an escalated client is refused before its counter is
  looked at. A solve clears the safeguard entry. Every request that is not
  refused adds its address to the Bloom pair, after asking about it.
- **The client carries state.** Flags of a session, the challenges passed and the
  time they count are in the cookie; answers of two tabs overwrite each other's.
- **Restart.** The parent saves the old segment, makes a new one, loads the file
  into it, and only then replaces children; a child of the old generation keeps
  its segment until it exits.

### What is hard

Interleavings of single loads and stores; clock readings used after others have
acted on later ones; writers that die between two stores; operations dropped under
contention; probe windows with holes, expired and torn entries; two savers of one
temporary file; power loss between calls of a save; files replaced between a read
and a stat; rotation against adds that picked a buffer before it; counters zeroed
while others add; lost and late answers; merges that are not associative; rules
whose meaning depends on the order of lines. Every place of this kind is in
`hazards` of `PROJECT.json`, at its line, with the properties that cover it or the
reason why none does.

## 2. Modules

| module | models | state and actions in terms of the code |
|---|---|---|
| `FlaggedTable` | flagged-IP table | `ver`, `word`: a slot's version and its words, stored and loaded one by one. `Add`, `Clear`, `ClearRange`/`RangeStep` take the mutex and choose a slot (what a mutex holder reads is stable, so the scan is in the locking step); `Announce`, `Store`, `Commit`, `Unuse`, `Forget`, `Unlock` are the stores. `LookupStart`, `ReadVersion`, `CopyWord`, `CheckVersion`, `Return` are `bs_flagged_ip_lookup`. `Crash` kills a writer between any two stores. `Hoist` lets payload stores overtake the odd version. |
| `FlagStore` | what the table promises | a lossy store: an entry holds only flags that were raised for its key |
| `NonceTable` | nonce table and its use by `/embedded-verify` | `Issue` (a signed expiry), `Present` (the cookie check passes), `ReadClock`, `Busy` (mutex not free), `Scan` (mutex, duplicate test, choice of a slot or refusal), `Announce`, `Commit`, `Forget`, `Answer`, `ClaimantDies` |
| `NonceRegister` | what the table promises | a set of redeemed nonces, forgotten only when they expire |
| `StrikeTable` | strike table, as operators | `StrikeSlot` (own entry, free or reclaimable slot, else the first), `Recorded` (roll, count, escalate), `Escalated` |
| `RateRule` | a rule with a budget: counter, flag, strike | `Arrive`, `CheckStrikes` (escalated?), `ReadMillis`, `LoadWord`, `CompareAndSwap` (`Win`/`Lose`, admission after the last lost attempt), `DropStrike`, `BeginStrike`, `EndStrike`, `HandlerDies` |
| `BloomPair` | rotating Bloom filter | `Ask`, `Query` (two loads per bit, buffer 0 and 1), `Add` (clock), `Check` (due?), `Swap` (CAS of the due time), `Turn`, `Clear` (word by word), `Flip`, `Pick` (active buffer), `Set` (bit by bit), `Crash` |
| `StateFile` | save, restart and load | `Snapshot`/`SkipSave`, `Open`, `Write`, `Sync`, `Rename`, `SyncDir`, `Fail` (any call), `Kill`, `Restart`, `Load`, `WriteBack` (the kernel), `PowerLoss` |
| `CaptchaLimits` | guards in front of a provider | `Call` and the steps of a call (`CallStep`): the rate, log and in-flight words are read and swapped in loops with a last attempt; `MinutePasses` under them; `CallerDies`, also with a permit |
| `HotSwap` | three directories that are re-read | a tick of each child, `Stat`, `Parse`/`ParseFails`, `Store`, `Destroy`; requests that `Take` a generation and are `Done` with it; `Edit` of the file, also while it is parsed; `Fork`; singleton watchdogs (`PerChild = FALSE`) |
| `LoadHysteresis` | load state | `LoadTick`: one sample of the four signals, the candidate, the streaks; `MonitorWrites`, also between the stat and the read of a tick; `LoadRestart` |
| `UaMatch` | classification of User-Agents | the automaton with its failure links, the trie, the masking of templates and the class as operators; `ReloadTables` for the tables of a refresh |
| `AllowRanges` | verified bots | a build that reads the list (`StartBuild`, `ReadFile`, `StatFile`, `StatSide`, `ReadSide`), `Rewrite` of either file in between, and `Judge` |
| `FormCaptcha` | three doors for a provider's token | `Gate`, `ReadBucket`, `Inspect` (the token), `Refused`, `NoSocket`, `Ask`, `Receive`, `Breaks`, `AnswerEnds`, `JudgeAnswer`, `ReadBack` (the replay) |
| `Safeguard` | safeguard table with the request handler's calls | `ChallengeSent` and `Solved` (check without lock), `Record`, `Clear` under a tried lock, `RecordDropped`, `ClearDropped`, `Sweep` |
| `Visitor` | cookie, challenge and request handler for one visitor | `Open`, `ServePage`, `ServeBootstrap`, `RedeemPuzzle`, `RedeemToken`, `Rejected`, `Respond` in each tab; `Arrive` or `Lose` for its answer; `HourPasses` |
| `BotRate` | crawler budgets | the passes of the start in `BotInit`; `Ask`, `Charge` tier after tier, `Serve`, `Refuse` by concurrent workers |
| `Robots` | robots.txt | `ReadLine`, `EndFile`, `AddInline` on the parser's state; path matching and the query as operators |
| `PolicyWalk` | policy of a request | `Receive`, `WalkRule`, `Answer` for the request and for its twin without observation; events of the application with the answer |
| `ConfigMerge` | scopes | `Read` of a directive in a scope; `Startup` with the merges of server and virtual host; the merges of a request as operators |
| `RuleBlocks` | blocks to rules | `ReadSet`, `ReadServerRule`, `ReadScopedRule`, `ReadFeedback`, or `RefuseBlock`; then `WireCounters` |
| `MetricsRing` | minute and hour rings | `Count`, `Look`, `Claim`, `Zero` field by field, `Add`, `Die`, `PassMinute`; the sum of a span as an operator |
| `MCFlaggedTable` | an instance | hash functions that collide |
| `MCSharedMemory`, `MCShmTables`, `MCBackground`, `MCRequests` | instances of several modules | `subject` names the component a behaviour is about; the others stand still |
| `FlaggedTableProofs`, `NonceTableProofs`, `RateRuleProofs` | theorems | one component each |
| `BotRateProofs` | theorems | what the administrator writes: `BotRate`, `ConfigMerge` and `Robots` |
| `SharedMemoryProofs`, `BackgroundProofs`, `RequestsProofs` | theorems | `BloomPair` and `StateFile`; `CaptchaLimits`, `HotSwap`, `LoadHysteresis`, `FormCaptcha`, `AllowRanges` and `UaMatch`; `Visitor`, `Safeguard`, `MetricsRing` and `PolicyWalk` |
| `LeastIndex` | theorems about numbers | a nonempty set of them has a least one (`LeastExists`); induction over an interval as a statement about sets (`RangeInduction`); what a recursive function over an interval computes (`RangeRecursion`), and one that goes from an element to a smaller one (`ChainRecursion`); a set of numbers up to a bound has a greatest one (`GreatestExists`) |

`RateRule` extends `StrikeTable`: a request goes through both and the mutex of the
table. `AllowRanges` extends `UaMatch`: a client is judged by the ranges of the bot
that its User-Agent was taken for. `NonceTable` and `FlaggedTable` are shown to
implement `NonceRegister` and `FlagStore` under a refinement mapping (`Spent`,
`entry`). The four `MC…` modules with a `subject` put components side by side that
share no state, so that what each does is checked apart and once; they are unions of
behaviours, not products. A definition whose comment begins "Mutant of" is a
plausible bug used to confirm that a property can fail; no specification uses it.

### Abstractions that matter

- *FlaggedTable*, *NonceTable*: address and namespace, or fingerprint and
  namespace, are one word; the hash is a constant function. Two nonces do not share
  a fingerprint. The nonce table is one generation: it is not saved.
- *StrikeTable*, *Safeguard*: a copy made under an even version is one step. That this
  is sound is what `SeqlockCorrect` and `HitsLinearize` prove of the same protocol in
  `FlaggedTable`.
- *RateRule*: seconds and milliseconds are one unit; a rule's counter and its
  strike slot are the same rule; the clock stays short of the wrap of its 32 bits
  (`RateAssumption`), so the wrap that matters is that of a reading *older* than a
  window start. `shm.h:430` says that each fresh strike during an escalation slides
  its end; an escalated request is refused before it can strike again, so in the code
  and in the model only requests that overtook each other do so.
- *BloomPair*: memory is sequentially consistent, although the code's bit
  operations are relaxed. A word is one bit. The mutex that a rotation tries is left
  out: nobody waits for it and no other step of the filter takes it. `bs_bloom_add` is
  the only caller of the rotation: the comment at `shm.c:1123` mentions mod_watchdog,
  but no callback rotates, so without adds nothing is forgotten; `OnlyRecent`
  therefore counts rotations and not seconds.
- *StateFile*: a snapshot is the number of the last update it holds, a file is
  empty, cut short or whole. The configuration is unchanged by a restart and the
  file is not past its age limit. In httpd the hand-off save and the pool cleanup's
  save both come before the load; the model's `Parent` makes one. `Exclusive = TRUE`
  assumes that no save of the child overlaps a restart. Children of an
  old generation that save after the load are not modelled.
- *CaptchaLimits*: addresses are the slots they hash to; the provider answers or times
  out. *FormCaptcha* has the body and the answer, and there a guard admits or not.
- *LoadHysteresis*: the counters behind the latency are seen by what a sample of them
  gives; the telemetry files and the history rings of the dashboard are left out.
- *UaMatch*: a User-Agent is a sequence of tokens, case is folded. *AllowRanges*: a
  line is the set of addresses it covers.
- *Visitor*: the visitor presents only cookies it was given (sealed blocks cannot be
  forged). A standing ends within the longer of the lifetimes of a cookie and of a
  bootstrap challenge.
- *BotRate*: a counter is seen within one window. A pass is a sequence of orders, for a
  counter shared by some slugs, one for each of some slugs, or one under a name, which
  are carried out one by one. A total of 0 is unlimited and no ceiling.
  `ConfigsAssumption` is what the directives and robots.txt parse to.
- *Robots*: groups of the file enforce (the observe mode of a file's groups is one flag
  of the directive and not of a line). A part of a pattern is shorter than the 256 bytes
  of the buffer it is looked for with (`robots.c:182`); an empty User-agent line is none.
- *PolicyWalk*: one visitor who has proved nothing, one window of the rules.
- *ConfigMerge*: one knob of the directory and one of the server stand for all that are
  inherited whole; the server's is one that a virtual host may set (as
  `BotShieldShareScope`), so the directives that `bs_require_server_scope` refuses
  there (`config.c:3140`) are left out. `AsWritten` says of the rows what holds when at most
  one of the two Locations speaks of them (`OneLocationOnRows`); with both, finding 6.
- *RuleBlocks*: limits on the lengths of values, misspelled names of flags and
  providers, the `reset` of feedback, `<` and `>` before a number and unnamed sets are
  left out.

## 3. Runs

On two workers of a small machine every run ends within four minutes.

| run | instance | shows |
|---|---|---|
| `flagged_table` | 2 colliding keys in 2 slots, 1 writer, 1 reader, 3 operations, 1 crash | `OneEntryPerKey`, `MissJustified`, refinement of `FlagStore` |
| `flagged_lookup` | same, 2 operations, 2 spins, fair | `NoFalseFlag`, `HitLinearizes`, and `LookupEnds`: every lookup ends, also on a slot that is odd for good |
| `shm_tables` | nonces: 3 nonces in 2 slots, 2 requests, 4 presentations, 1 crash. Rates: 2 rules, 1 address, 1 strike slot, 2 processes, 4 requests, observed or enforced, 1 crash | `RedeemedOnceWhileFresh`, `DuplicateJustified`, refinement of `NonceRegister`; `CountIsSpent`, `RefusedWhenSpent`, `EscalatedJustified`, `EscalationKept` |
| `shared_memory` | Bloom pair: 2 addresses that share a bit, 2 bits, window 4, patience 1, 2 processes, 3 operations, 1 crash. State file: 2 savers, 3 inodes, 3 updates, 2 faults, `Exclusive` | `OnlyRecent`, `SeenWhileKept`; `DiskUsable`, `DurableOnDisk`, `SurvivesRestart`, `NeverBack` |
| `background` | one subject per behaviour, see below | `InflightExact`, `RateKept`, `CallsEnd`; `NoUseAfterFree`, `RefreshReachesAll`; `HysteresisKept`, `LoadSettles`; `MatchersAgree`; `JudgedByWholeFiles`; `VouchedFor` |
| `requests` | one subject per behaviour, see below | `WindowCounts`; `RightRule`, `CeilingHolds`; `ValveEarned`, `LoopBroken`; `StandingLapses`, `SolvedNotAsked`; `ReadsAsWritten`; `ObserveFaithful`; `AsWritten`; `RulesSayTheirBlocks` |
| `state_overlap` | state file, no faults, not exclusive | *violation* of `SurvivesRestart` (finding 1) |
| `robots_refresh` | hot swap with a singleton watchdog | *violation* of `RefreshReachesAll` (finding 2) |
| `refresh_class` | the classes before and after a refresh | *violation* of `RefreshKeepsClass` (finding 3) |
| `solve_loop` | the visitor | *violation* of `SolveEndsTheLoop` (finding 4) |
| `first_request` | the blocks and rules | *violation* of `BudgetsSpareTheFirst` (finding 5) |
| `rows_return` | the configuration | *violation* of `SilencedRowsStaySilent` (finding 6) |

Subjects of `background`: *limits*: 3 callers, 1 slot, limits of 1, 2 attempts,
2 minutes, 3 calls, 1 dead child; *swap*: 2 children, 1 reader, 2 edits, 1 fork;
*load*: every row of samples of three busy shares and one latency, thresholds of
2, 1 and 2, the monitor's file with four modification times, 1 restart; *match*: all
pairs of patterns of up to 3 letters and all triples of five that overlap, against
all texts of up to 4 letters; *reload*: a refresh of the tables; *ranges*: files of
one line, of two and with garbage, a sidecar, 2 rewrites; *form*: five scopes, eight
bodies, eight answers, four pending cookies, three doors.

Subjects of `requests`: *ring*: 2 writers, 2 slots, 2 minutes to the hour, 3 minutes,
3 events, 1 dead writer; *bots*: every combination of three lists of robots.txt
groups, four lists of rules, a wildcard, a total and tiers off or on, 2 workers,
2 requests; *safeguard*: 3 addresses of which 2 share a bucket, in 2 slots,
threshold and window 2, 2 requests at a time, 4 in all, stale clocks, dropped
locks; *visitor*: 2 tabs, 2 pages, 1 lost answer, 3 hours, with a provider and without;
*robots*: every file of up to 5 of eight lines, and an inline group; *policy*: six
ladders, 2 kinds of requests, 3 requests, three events; *config*: every row of
3 directives in four scopes; *rules*: every body of one or two of 47 lines in a
container, and several hundred files of sets, redefinitions, unnamed blocks and
feedback.

### Bounds and why they are enough

- Two keys and two slots make every case of the probe: own entry behind a hole,
  behind a foreign entry, behind a torn slot, and a full window. One reader
  suffices because readers do not affect each other or anyone else. One writer
  is enough in TLC because writers exclude each other by the mutex; the proofs take any
  number. Three operations are an insert, a removal in front of an entry, and
  the insert that must not take the hole.
- Three nonces in a window of two force saturation and eviction; four
  presentations are two replays with both clocks stale.
- Four requests of a budget of one with two strikes reach an escalation, its roll
  and a lost swap; `Wrap = 16` is past every reading but small enough for a
  difference of an older reading to wrap.
- Bloom: seven seconds from time 1 hold a rotation, the one after it and an add
  delayed across both; two bits are the least for which a clear can be half done.
- Three inodes are one per name and one that was renamed over and may still be
  found after a power loss; two faults make a failure followed by a crash.
- Captcha: three callers are one with a permit, one that lost it and one that is
  refused; the second minute makes a word stale in the middle of a swap.
- Hot swap: two edits are the two refreshes after which a displaced pool is
  destroyed. Load: the smallest thresholds at which a broken streak differs from
  a completed one. Patterns over two letters up to length 3 hold every
  overlap of a failure link with a match inside another pattern.
- Safeguard: two slots for three addresses let a slot change hands while its old
  key is being redirected. Visitor: two tabs and a lost answer are the least in which
  a weaker cookie overwrites a stronger one.
- Two lines of a block hold every pair of keys, and pairs are what the setters tell
  apart (given twice, negated, in conflict).

`flagged_table` and `flagged_lookup` check for deadlock. The others bound the
number of requests, presentations, edits or updates, and stop when it is used up; they
say `CHECK_DEADLOCK FALSE`.

### Fairness

- `flagged_lookup`: `WF` of each reader's steps and of each writer's. A lookup is
  straight-line code with bounded spins that never blocks, and a writer inside
  the mutex never waits for anything; the scheduler runs both.
- `CallsEnd`: `WF` of each caller's steps. The loops have a last attempt and the
  call to the provider a timeout (`CURLOPT_TIMEOUT_MS`, `captcha.c:337`).
- `RefreshReachesAll`: `SF` of the ticks of each child that has the watchdog (a tick
  is enabled again and again, every interval, and runs in a thread of its own) and
  `WF` of the end of a request.
- `LoadSettles`: `WF` of the tick; `SF` of a tick that finds the monitor's file changed
  and of the read that follows, because a file that is there is read in the end although
  a read may fail.

Crashes, forks, edits and new operations are never fair: nothing makes them happen.

## 4. Findings

### With a run

`PROJECT.json` quotes the lines.

1. `state_overlap` — the child's periodic save and the parent's hand-off save use one
   temporary name (`shm.c:1651`); the parent can rename what the child has just
   truncated, and the restart starts fresh.
2. `robots_refresh` — the watchdog of robots.txt is a singleton (`config.c:1776`) but
   stores into the memory of its child: the other children serve the file of the start.
3. `refresh_class` — the tables that botshield-refresh.py writes lack the botgroups
   (`bot_directory.c:505`) and the collapsing of a phone's device: rules about
   botgroups stop matching, phones stop being browsers.
4. `solve_loop` — an interactive challenge solved at `/embedded-verify`
   (`non_interactive.c:957`) sets `passes_non_interactive` only: the same demand is
   made again.
5. `first_request` — a rule with `BotShieldRate` or `BotShieldDelay` in a container, or
   past `BS_E21_RATE_SLOTS`, has no counter; `check_policy` passes over its budget and
   answers every match with the action, from the first on (`config.c:1520`,
   `policy.c:549`; `config.c:1482` says such entries are skipped).
6. `rows_return` — rows of scores that a Location silences come back in a Location inside
   it that declares one of its own: Apache merges the two first, the merge forgets the
   silence (`config.c:605`), and the virtual host's rows are appended (the comment at 602
   says they do not return).

### Met while modelling

The models follow the code in all of these; no property says otherwise.

Shared memory and its words:
- The odd version is stored with release order (`shm.c:227`; the comment at 218 claims
  more), which does not hold the payload stores behind it. With `Hoist = TRUE` TLC
  and two flags (`Flags = {f, g}`) TLC finds `NoFalseFlag` violated; no run has it. With
  stores in program order, as on x86 (`Hoist = FALSE`), it holds, and it is proved.
- The cookie check accepts a challenge in the second of its expiry (`cookie.c:558`),
  the duplicate test (`shm.c:1067`) no longer sees it then: two redemptions. Hence
  `RedeemedOnceWhileFresh` ends with the expiry.
- Whether a foreign strike entry is dead is judged by the window of the rule that
  inserts (`shm.c:643`, comment at 632): a rule with a short window erases the running
  strikes of one with a long one.
- The clock of a counter is read before its loop (`policy.c:129`); a reading older than
  the window start wraps and rolls it back: two requests pass together under a budget
  of one (`docs/directives.md:2164`, `2200`). The same at a minute's edge in
  `captcha.c:875`, which `RateKept` excludes, and in the safeguard (`shm.c:958`).
- The sweep frees safeguard slots, and the embedded fallback is judged, by the
  compiled-in default window and not by the configured one (`shm.c:1940`, `822`).
- An expired flag still in its slot is merged into the next one (`shm.c:412`).

Rules, scopes and feedback:
- A LogOnly rule over its budget leaves out its named scores (`policy.c:642`); a rule
  over its budget with only `BotShieldFlagIP` answers 429 and never writes the flag
  (`policy.c:690`, against the comment at 674).
- A LogOnly rule that would challenge reports that nothing would have happened
  (`triggers.c:752` and `904`; `docs/directives.md:57`). `ObserveFaithful` covers the
  ladders without it.
- `BotShieldFlagIP +a,-b` in a feedback block loses the add; `=a` on an address without
  flags flags nothing (`bridge.c:328`, `shm.c:255`; `docs/directives.md:1665`).
- A rule of the main server whose name repeats loses its second entry once the virtual
  host has a rule (`config.c:125`). `BotShieldForgetIPAfter` has no effect
  in a virtual host (`config.c:352`, `triggers.c:812`).
- A rule with several User-Agents becomes several entries: counted and scored twice,
  escalated by the first one's strikes only, not replaced by a redefinition
  (`triggers.c:1860`; the comment at 1852 says "exactly equivalent to one entry with
  an OR"). The warning about a tier without a solve is skipped for it (1884).
- `!` is silently dropped before path, query, solved, acceptlanguage, scoreatleast,
  firstsight, delay and rate (`triggers.c:1296`, `1665`; `docs/directives.md:1332`).
- The test for a key given twice runs before sets are expanded (`triggers.c:2076`);
  `BotShieldScore` is accepted in a `<BotShieldMatch>` (2117).
- `BotShieldNoChallenge` in an unnamed rule becomes the rule's name: the rule answers
  403 (`triggers.c:2187`). `BotShieldIPSpec *` beside a network never matches.

Crawlers:
- A slug tier in observe mode that trips first lets a request pass although an
  enforced group or total has tripped (`bot_rate.c:932`). A slug from robots.txt
  blocks an explicit `@botgroup` directive, and the total needs a wildcard
  (`bot_rate.h:132`). What the resolver calls guaranteed is not so after slugs
  are merged.
- `/*a$` does not match `/aba` (`robots.c:137`): the last star is not tried again. An invalid or zero
  Crawl-delay does not close the list of agents. An observed group with a crawler's
  token suppresses the enforcing `*` group (`robots.c:593`; `docs/directives.md:845`).
  A Crawl-delay that is edited after the start never takes effect.
- The automaton returns the pattern that ends first, not the longest
  (`ua_class.c:61`). The malformed record of a list is given mtime 0 and is rebuilt
  every tick; the list is read before its mtime is taken, so a replacement in between
  stays unread (`allowlist.c:315`).

Challenges and captchas:
- A flag of the application amended onto a cookie of a solved proof of work is sealed
  with a counter that the next verification refuses (`docs/directives.md:1658`).
- A late answer may overwrite a solved cookie; the presence cookie's challenge carries
  `passes_interactive`; the cookie of an embedded bootstrap expires with its 120 s
  challenge.
- Form captcha and embedded-verify-provider answer 403 when no provider can be heard
  (`formcaptcha.c:357`, `non_interactive.c:1123`), although `docs/captcha.md:61` ("On
  timeout the verify path fails open"), `docs/directives.md:433`, `docs/faq.md:455` and
  the comment at `captcha.h:190` (a mint at all three sites "or a fail-open on
  TIMEOUT/ERROR") say that they let the request through. `FormCaptcha` answers as the code does;
  `VouchedFor` takes no side and lets what is unheard open every door.
- `BotShieldFormCaptcha on` in a scope without provider, key or secret answers 503
  (`formcaptcha.c:187`), although `docs/captcha.md:174` says that it "logs a misconfig and
  no-ops". `AtTheGate` answers 503.
- The form door does not bound a token's length as `captcha.h` asks. A
  missing v3 score is logged as verified (`captcha.c:1705`).

Companion programs:
- `botshield-refresh.py`: a payload that is no object, a user agent that is no string
  and a `RuntimeError` of one provider stop the others; an unwritable parent exits 0; a
  failure between the two renames leaves no active file (29–30, 110–112); one fixed
  temporary name.
- The database monitor discards its previous sample on a failure, so the next good one
  counts as a failure too.

## 5. What is proved

All theorems hold for every value of the constants under the assumptions of their
modules (`TableAssumption`, `NonceAssumption`, `StrikeAssumption`, `RateAssumption`,
`BloomAssumption`, `StateAssumption`, `LimitsAssumption`, `SwapAssumption`,
`NoChildAssumption`, `LoadAssumption`, `FormAssumption`, `RangesAssumption`,
`VisitorAssumption`, `NoCookieAssumption`, `SafeguardAssumption`, `NoKeyAssumption`,
`RingAssumption`, `PolicyAssumption`, `LadderAssumption`, `BotRateAssumption`,
`ConfigsAssumption`, `MatchAssumption`, `ConfigAssumption`, `RobotsAssumption`), which TLC evaluates in the
runs. They say that sizes, limits and times are numbers, of which those the code
divides by or indexes with are positive, that what is bounded in the code is finite, and
that the value for "none" is not one of the others; `LoadAssumption` has
enough modification times for one to differ from every one the code remembers;
`RangesAssumption` has the name of the bot outside of the retired names;
`LadderAssumption` says that a ladder is a sequence of rules, whose budgets and tiers are
natural numbers and whose answers are those the walk has; `ConfigAssumption` that no line
says what stands for "not said"; `RobotsAssumption` what a line of a file can be, and that
the text of a token is not empty. The type invariant of each of these components is
proved, alone or as a part of its inductive invariant, and therefore not among the runs'
invariants.

**FlaggedTable** (`FlaggedTableProofs`). `TypeCorrect`. The rest is for `Hoist = FALSE`.
- `SeqlockCorrect`: `SeqlockInv` is inductive with `TypeOK`. It says that the
  mutex excludes writers, that a slot is odd while its words and its plan differ,
  and that what a reader has copied is what the slot holds *as long as the version it
  started from is still there*. The last is what makes the second load of the version
  enough: a version only grows, so if it is unchanged the copy is the slot
  (`HitsLinearize`). The exception in `CopyInv` for `used` is real:
  `bs_flagged_ip_clear` commits an entry without flags that expires at 0 and sets
  `used` to 0 after that (`shm.c:287`), outside the version.
- `NoFalseFlags` adds `FlagInv`: what is committed or planned was raised for that key.
- `OneEntry` adds `PlaceInv`: a committed entry, and one that a writer has planned, lies
  at the `Place` of its key: in its probe window, where no other slot has the key. The
  insertion needs the whole scan here: the first free slot is taken only when no slot
  of the window matched, and `LEMMA Plans` says that nothing else is ever planned.
- `MissesJustified` rests on `SteadyInv`: while the key of a lookup has had a live,
  untouched entry, that entry is still *ahead* of the reader in the window, and a copy
  of it that has begun started from its present version. A reader passes a slot only
  when it is empty, foreign, stale, changed under it or odd; none is so of that entry.
- `TableIsFlagStore`: with the three invariants together, every step takes the flags of one
  key away, changes them to flags that were raised for it, or changes no key's flags.
  `Place` is what makes it one key at a time.

**NonceTable** (`NonceTableProofs`, `LeastIndex`). `NonceTypeCorrect`,
`NonceInvariant` (`EntryInv`, `ClaimInv`, `FreshInv`): an entry carries the signed expiry of its nonce, a
request that is about to write found its nonce unspent and gives up nothing that
could still be presented, and a nonce redeemed in time is in the table until it
expires. `RedeemedOnceInTime` follows, and `RefusalsAreReplays` (`DuplicateJustified`).
`TableImplementsRegister` maps every step to a step of `NonceRegister` or a stutter.

**RateRule** (`RateRuleProofs`). `RateTypeCorrect`; `SpentCounted`: the word counts
what it admitted, because the compare-and-swap succeeds only on the word that was
loaded; `RefusalsJustified`: an action property, from the invariant that every
reading counted in a word is less than a window past its start;
`EscalationsEarned`: an entry's count never exceeds the strikes of that
key within one window of its start, so an escalation was earned.
`EscalationsKept` rests on `KeptInv`: a key has one entry, in its window; the slot of a
writer is odd and its key has no other; and an escalation that is owed is in the entry
of its key, or on its way there. The hard step is `BeginStrike` (`TargetChoice`,
`BeginKeeps`): the strike of another key takes this slot only from a full window, and
then the escalation is no longer owed; that of the same key carries the end over.

**BloomPair** (`SharedMemoryProofs`). `BloomTypeCorrect`. `AddedIsSeen`
(`SeenWhileKept`) rests on `Life(b)`, a time before which no clear of buffer `b`
begins: half a window past the due time for the active buffer, the due time for
the passive one; during a rotation the due time for the active buffer and 0 for
the one that is cleared. `LifeStep` shows that no step shortens a life that is
not over or takes a bit from its buffer. Then `AddInv` (the bits an add has set
are in a buffer that lives long enough), `KeptInv` (an added address is whole in
such a buffer) and `AskInv` (a query has not missed a bit of it there) are
inductive with `TimeInv` (clock readings and the due time) and `OneTurns` (one
rotation at a time). The one timing assumption is the patience of `Tick`, with
`Patience < Half`: a call of `bs_bloom_rotate_if_due` is over before the next
rotation is due; half a window is at least 1800 s. A rotator that slept longer
would clear the buffer that is active by then. Adds and queries outside that call
may stall for any time. `FilterForgets` (`OnlyRecent`) needs `ClearInv`: what a
rotation has cleared so far holds only bits set since the last one. Three
rotations, not two, is the bound for the passive buffer: an add that picked its
buffer before a clear may set its bits after it.

**StateFile** (`SharedMemoryProofs`). For `Exclusive = TRUE`. `StateInvariant`: `StateInv`
says that one process saves at a time (`OneSaves`), that the temporary name never
leads to a file that `<path>` leads to, in memory or on the disk (`Apart`), that the files
`<path>` may lead to are whole and synced (`WholeFiles`), and that from the disk to the
file to the snapshot in memory each is as new as the one before (`Newer`). `DiskUsable`,
`DurableOnDisk`, `SurvivesRestart` and `NeverBack` follow. `Apart` is what finding 1
breaks.

**CaptchaLimits** (`BackgroundProofs`). `LimitTypes`. `LimitInflightExact`: `CapInv` is
`InflightExact` with `BelowCap`, a swap of the count is tried only from below the cap;
a holder is counted by its step, so every interleaving of swaps keeps the sum.
`LimitRateKept`: `WordInv` says for each slot and minute that is not excepted that its
count is what was let through, and that no later minute has begun before its time.

**HotSwap** (`BackgroundProofs`). `SwapTypes`, `SwapNoUseAfterFree`: `SwapInv` puts the
generations of a child in order (`GenerationsOrdered`: destroyed before pending before displaced
before active) and bounds from below what a request may hold (`HeldBy`), given that
no request outlives an interval of the watchdog, which is what the code's delayed
destruction counts on. A request that does, as a slow download may, is excluded; what
is shown is that no pool is destroyed a refresh too early.

**LoadHysteresis** (`BackgroundProofs`). `LoadInvariant`: `LoadInv` says what a streak stands
for: `up` is the length of the row of samples over the threshold of the present state
at the end of the trail, and is short of what a step up needs; `down` the same for the
samples beneath it. `LoadHysteresisKept` follows: at a step the row is complete. The
work is in how a row grows when one sample is appended.

**FormCaptcha** (`BackgroundProofs`). `FormInvariant`: `FormInv` relates the pieces of the body
that have been read, the token found in them, the call that was made with it and the
outcome: what the provider is asked is the token of this body, and a POST is
replayed or a cookie minted only after a yes to that token, under observation, or, at
the endpoint, when no provider can be heard. `TokenVouchedFor` follows, for any body and any
way it is cut into buckets.

**AllowRanges** (`BackgroundProofs`). `RangesInvariant`: what is on the disk has been on it as a
whole file (`OnDisk`), a build that has read the file holds such a list
(`BuildReads`), and a table is a list of the file with one of the sidecar
(`WholeTable`). `BotJudgedByWholeFiles` follows.

**Safeguard** (`RequestsProofs`). `SafeguardInvariant`: `ValveInv` says that a key owns one
slot of its probe at most, that the slot has counted only presentations of its key
that were recorded since its window began, and that a grant in it was earned by
enough of them. `ValveIsEarned` is an action property from it. The other direction,
`LoopIsBroken`, rests on `LoopInv`: what was recorded for a key since its window began
is in its slot, but for the requests that passed the check and have not recorded
yet. Both need facts about the number of recordings in a span of
seconds (`Total…` lemmas), by induction over the span. A key whose slot was swept or
taken over while one of its requests was about to record is excused.

**Visitor** (`RequestsProofs`). `VisitorInvariant`: `VisitorInv` says of every cookie, wherever it
is (in the jar, sent, in an answer, in the envelope of a challenge), that it ends within a
lifetime, that its passes and its mark go back to a proof of the visitor no longer ago
than that, and that whoever solved something holds a pass. `StandingsLapse` and
`SolvedIsNotAsked` follow, for any number of tabs, lost and late answers.

**MetricsRing** (`RequestsProofs`). `RingInvariant`: a writer is within one turn of the clock
(`WritersNear`), a slot holds an epoch of its own (`SlotsFit`), one writer zeroes it
(`SlotsClaimed`), nothing was added to an epoch before its slot was claimed
(`NothingBefore`), and a counter is what was added in its epoch but for the additions
that raced its zeroing (`SlotsCount`). `WindowsCount`: the sum over slots is then a sum over
epochs, which is shown by induction over the span.

**PolicyWalk** (`RequestsProofs`). `ObservingIsFaithful` (`ObserveFaithful`) is a simulation
between the walk and its twin, for ladders of any length. Outside of LogOnly scopes the two
are `Alike`: every operation of a rule, of the stages and of the response, applied to walks
that differ only in the budgets of observed rules and in what is reported, leaves two such
walks (the `...Alike` lemmas), and an observed rule applied to one is no more than going on in
the other (`ObservedAlike`). Under LogOnly the walk is `Aside`, it has touched nothing but
budgets and scores (`Unmoved`); and if the ladder is `Reproducible` the twin is either in
`Lockstep` with it, at the same rule with the same score and reading the same flags from there
on, or has `Ended` with an outcome that was reported. `Reproducible` is needed for the
second part only: what a rule flags is then read by no rule further down, which keeps the
twin, whose flags run ahead, in lockstep (`LockstepGoesOn`). `PolicyInvariant` says which of
these holds when.

**BotRate** (`BotRateProofs`). Three things are shown of the passes. A layout only grows
(`CarryOutGrows`, `PassGrows`), so what the wildcard and the total promise stays true
to the end unless the pool was drained (`FullLayoutHolds`). The walk over the robots.txt
tokens keeps the best claim of those it has passed (`ClaimsBest`), which is the
group that the directive means (`ClaimsGovern`). And of the rules that speak of a
slug in a pass, the last decides where a counter is shared and the first where each slug
gets its own (`LastForAll`, `FirstForEach`). `RulesAreRight` (`RightRule`) puts the six passes
together: the recursive passes do what the declarative `Governs` says.
`BotInvariant`: `BotInv` says that every counter led to is in the pool (`TablesFit`), that
under a promised ceiling no crawler is without one (`TablesCover`), that the last tier of
every request under way is then the total (`AsksKept`), and that those served and those
about to be were admitted by it (`ChargesKept`). `CeilingIsKept` follows.

**UaMatch** (`BackgroundProofs`, `LeastIndex`). `MatchersAlwaysAgree` (`MatchersAgree`), for any
list of patterns and any User-Agent. The functions of the model are recursive: the
links over the lengths of the nodes, the way back along them from node to node, the walk
over the letters. `RangeRecursion` and `ChainRecursion` say what such functions are, and
`RangeInduction` carries three facts along them: a link leads to the longest end of a
node's text that is a node and shorter (`MatcherLinks`, the links of one length from
those of the shorter ones); therefore the walk is after every letter at the longest end of
what was read that is a node (`WalkIsLongest`); and a node names, by its own pattern or
by those its links lead to, the patterns that end where it does (`PatternAnswers`). The
automaton then stops at the first end of a pattern with the longest that ends there
(`AutomatonAnswers`); the search in order finds the first pattern that occurs
(`InOrderFinds`), and the trie the longest (`TrieIsBest`).

**ConfigMerge** (`BotRateProofs`). `ConfigIsAsWritten` (`AsWritten`): while the configuration is
read, each scope holds exactly what its lines say, in their order, and the history is in the
order of the scopes (`ReadKeeps`), so the line written last is the innermost one. At startup
the merges are compared with the lines field by field (`Served...` lemmas): scalars, the
secret with the keys derived of it and the module's own where none was written,
providers, rows since the innermost reset (under `OneLocationOnRows`), and the rules, where the fold over
the names of the main server keeps those the virtual host does not have
(`LadderMerged`).

**Robots** (`BotRateProofs`). `RobotsReadAsWritten` (`ReadsAsWritten`) has three parts. *The
matcher*: in an unanchored pattern each part at its leftmost place leaves most room for the
next, so no way of placing the parts is ahead of the greedy one (`GreedyIsFirst`) and the
matcher says what the pattern means (`MatchIsMeaning`); for an anchored one it
does not (section 4), and there the property has the matcher on both sides. *The query*: the best rule
so far is one of the greatest length among the rules that matched, and an Allow if
there is one of that length (`BestOf`, `VerdictBest`), over any number of groups; the groups it walks are the ones
that carry a longest token of the crawler (`RelevantObeyed`). *The parser*: `RobotsInv` says that while the
file is read (`Parsing`, `Building`) the group in hand holds the tokens, the rules and the delay that the
lines of its group say, up to the caps (`Matches`), that its lists are as long as the
lines of their kind, or full, that the list of tokens is open exactly when no line has closed
it (`Shut`), and that the finished groups are the first ones of the file. The group a line
belongs to is a count over the lines before it; `BeginsStays`, `GroupsStay` and
`TallyOneMore` say how such counts go on with one more line.

## 6. What is only model-checked

- Liveness: `LookupEnds`, `CallsEnd`, `RefreshReachesAll`, `LoadSettles`. Liveness under
  fairness, and ENABLED, are beyond the prover.
- `RulesSayTheirBlocks`: what the blocks of a configuration become is the composition of
  folds, flattened sequences and sorted sets over both the keys of a block and the blocks of a
  file, with their errors; it is compared with a reference on every pair of lines. The
  operators of the community modules that it is made of (`FoldLeft`, `FlattenSeq`,
  `SetToSortSeq`) are recursive through higher-order ones, for which there are no theorems in
  the library, and induction over data cannot be cited.

## 7. Plan

What remains worth doing, in this order:

1. `FlaggedReload`: `FlaggedTable` under the snapshot of `StateFile`, saved while
   requests write and loaded with versions reset to even (`shm.c:1383`), and late saves by
   a child of the old generation (`shm.c:1717`).
2. An abstract grant register for `Safeguard` and a bounded semaphore for the
   permits of `CaptchaLimits`, with refinements.
3. `RuleBlocks` with recursive functions in place of the folds, and a proof of
   `RulesSayTheirBlocks` by `RangeInduction` over the keys of a block.

## 8. Not modelled, and why

- *Cryptography and encoding* (`crypto.c`): used as ideal; a sealed block can be opened
  by its key only, and proofs of work are solved or not.
- *Page templates, generated tables, tools*: text, data and programs outside the server.
- *Metrics* besides the rings: the rendering of the dashboard, its JSON, histories and the
  cumulative counters decide nothing. *Headroom counts* only warn. *Logging*, notes,
  headers and the choice of a page are left out everywhere.
- *Heuristics*: which features of a request are suspicious is a function of one
  request; how their scores add up is in `PolicyWalk`.
- *Application feedback*: the signature of the header and the flag operations on
  ranges.
- *Monitor services*: separate programs, seen as files that change; what
  botshield-refresh.py writes is in `UaMatch`.
- *Generations*: segments of two generations at once (plan, item 1).
