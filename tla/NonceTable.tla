----------------------------- MODULE NonceTable -----------------------------
(***************************************************************************)
(* One-time redemption of proof-of-work challenges: the bootstrap endpoint *)
(* and the challenge pages issue signed nonces with an expiry, and         *)
(* /embedded-verify checks that one has not expired and claims it in the   *)
(* nonce table of shm.c, under the global mutex, before it mints a cookie. *)
(*                                                                         *)
(* One generation of the shared segment: the table is not saved, so a      *)
(* restart begins again from Init.  The fingerprint of a nonce and its     *)
(* namespace is one word; two nonces never share it.                       *)
(***************************************************************************)
EXTENDS Integers

CONSTANTS
    Capacity,          \* bs_shm.nonce_capacity
    ProbeLimit,        \* BS_NONCE_PROBE_LIMIT
    Nonce,             \* fingerprints of a nonce and its namespace
    NoNonce,           \* an unused slot
    Bucket,            \* fingerprint modulo the capacity
    TTLs,              \* lifetimes of challenges: 120 s from the bootstrap endpoint,
                       \* the configured one on a challenge page
    Procs,             \* requests to /embedded-verify
    NoProc,            \* the mutex is free
    LastNonceTime,     \* bound on the clock
    MaxAttempts,       \* bound on the presentations that pass the cookie check
    MaxClaimantDeaths  \* bound on the processes that die in the handler

Slots == 0 .. Capacity - 1
ProbeIndices == 0 .. ProbeLimit - 1

ASSUME NonceAssumption ==
    /\ Capacity \in Nat \ {0}
    /\ ProbeLimit \in Nat \ {0}
    /\ Bucket \in [Nonce -> Slots]
    /\ NoNonce \notin Nonce
    /\ NoProc \notin Procs
    /\ TTLs \subseteq Nat \ {0}
    /\ LastNonceTime \in Nat /\ MaxAttempts \in Nat /\ MaxClaimantDeaths \in Nat

VARIABLES
    now,            \* apr_time_sec(apr_time_now())
    exp,            \* the signed expiry of each nonce, 0 before it is issued
    odd,            \* the slots whose version is odd; nobody compares versions here
    table,          \* the slots
    mutex,          \* the holder of bs_shm.mutex
    pc,             \* where each request is
    pnonce,         \* the nonce it presents
    pnow,           \* the clock it read in bs_embedded_nonce_consume
    ptarget,        \* the slot it claims
    why,            \* why it was refused
    redeemed,       \* history: redemptions of each nonce
    fresh,          \* history: those that committed before the nonce expired
    attempts,
    claimantDeaths

nonceVars == <<now, exp, odd, table, mutex, pc, pnonce, pnow, ptarget, why,
               redeemed, fresh, attempts, claimantDeaths>>

Entry == [nonce : Nonce \cup {NoNonce}, expires : Nat]
Unused == [nonce |-> NoNonce, expires |-> 0]

ProbeAt(n, i) == (Bucket[n] + i) % Capacity

IsFirst(S, i) == i \in S /\ \A j \in S : i <= j

\* The slot is quiescent and in use.
Live(s) == s \notin odd /\ table[s].nonce # NoNonce

NonceInit ==
    /\ now = 1
    /\ exp = [n \in Nonce |-> 0]
    /\ odd = {}
    /\ table = [s \in Slots |-> Unused]
    /\ mutex = NoProc
    /\ pc = [p \in Procs |-> "idle"]
    /\ pnonce = [p \in Procs |-> NoNonce]
    /\ pnow = [p \in Procs |-> 0]
    /\ ptarget = [p \in Procs |-> 0]
    /\ why = [p \in Procs |-> "none"]
    /\ redeemed = [n \in Nonce |-> 0]
    /\ fresh = [n \in Nonce |-> 0]
    /\ attempts = 0
    /\ claimantDeaths = 0

----------------------------------------------------------------------------
\* bs_issue_challenge with the lifetime of the page or of the bootstrap
Issue(n, ttl) ==
    /\ exp[n] = 0
    /\ exp' = [exp EXCEPT ![n] = now + ttl]
    /\ UNCHANGED <<now, odd, table, mutex, pc, pnonce, pnow, ptarget, why,
                   redeemed, fresh, attempts, claimantDeaths>>

\* bs_verify_cookie_gcm lets the challenge through on its own clock reading;
\* the signature and address checks that follow depend on no shared state.
Present(p, n) ==
    /\ pc[p] = "idle"
    /\ attempts < MaxAttempts
    /\ exp[n] # 0 /\ now <= exp[n]
    /\ pc' = [pc EXCEPT ![p] = "verified"]
    /\ pnonce' = [pnonce EXCEPT ![p] = n]
    /\ attempts' = attempts + 1
    /\ UNCHANGED <<now, exp, odd, table, mutex, pnow, ptarget, why, redeemed,
                   fresh, claimantDeaths>>

\* bs_embedded_nonce_consume reads the clock before it tries the mutex.
ReadClock(p) ==
    /\ pc[p] = "verified"
    /\ pnow' = [pnow EXCEPT ![p] = now]
    /\ pc' = [pc EXCEPT ![p] = "timed"]
    /\ UNCHANGED <<now, exp, odd, table, mutex, pnonce, ptarget, why,
                   redeemed, fresh, attempts, claimantDeaths>>

Refuse(p, reason) ==
    /\ pc' = [pc EXCEPT ![p] = "refused"]
    /\ why' = [why EXCEPT ![p] = reason]
    /\ UNCHANGED <<mutex, ptarget>>

\* A busy mutex refuses the request.
Busy(p) ==
    /\ pc[p] = "timed"
    /\ mutex # NoProc
    /\ Refuse(p, "busy")
    /\ UNCHANGED <<now, exp, odd, table, pnonce, pnow, redeemed, fresh,
                   attempts, claimantDeaths>>

\* Mutant of Matches: an empty slot ends the search for the nonce.
MatchesBeforeHole(p) ==
    {i \in ProbeIndices :
        /\ \A j \in 0 .. i : Live(ProbeAt(pnonce[p], j))
        /\ table[ProbeAt(pnonce[p], i)].nonce = pnonce[p]}

\* Where the probe of p finds its own nonce.
Matches(p) ==
    {i \in ProbeIndices :
        LET s == ProbeAt(pnonce[p], i)
        IN  Live(s) /\ table[s].nonce = pnonce[p]}

\* A match ends the scan.
Scanned(p) == {i \in ProbeIndices : \A j \in Matches(p) : i <= j}

\* Slots torn by a crash count as empty.
Vacant(p) == {i \in Scanned(p) : ~Live(ProbeAt(pnonce[p], i))}

\* Entries past their expiry, and an entry of the same nonce at its expiry.
Dead(p) ==
    {i \in Scanned(p) :
        LET s == ProbeAt(pnonce[p], i)
        IN  Live(s) /\ (i \in Matches(p) \/ table[s].expires < pnow[p])}

\* Mutant of Duplicate: the nonce is not compared.
DuplicateAnyNonce(p) ==
    \E i \in ProbeIndices :
        /\ Live(ProbeAt(pnonce[p], i))
        /\ table[ProbeAt(pnonce[p], i)].expires > pnow[p]

\* The first match is still fresh.
Duplicate(p) ==
    \E i \in Matches(p) :
        /\ IsFirst(Matches(p), i)
        /\ table[ProbeAt(pnonce[p], i)].expires > pnow[p]

\* Mutant of Target: a full window is overwritten, as in the other tables.
TargetOverwrite(p, i) ==
    \/ IsFirst(Vacant(p), i)
    \/ Vacant(p) = {} /\ i \in Dead(p) \cap Matches(p)
    \/ Vacant(p) = {} /\ Matches(p) = {} /\ IsFirst(Dead(p), i)
    \/ Vacant(p) \cup Dead(p) = {} /\ i = 0

\* The slot to claim: the first empty one, else the nonce's own expired slot,
\* else the first dead one.
Target(p, i) ==
    \/ IsFirst(Vacant(p), i)
    \/ Vacant(p) = {} /\ i \in Dead(p) \cap Matches(p)
    \/ Vacant(p) = {} /\ Matches(p) = {} /\ IsFirst(Dead(p), i)

\* With the mutex free: the scan, and the refusals that release it again.
Scan(p) ==
    /\ pc[p] = "timed"
    /\ mutex = NoProc
    /\ \/ /\ Duplicate(p)
          /\ Refuse(p, "duplicate")
       \/ /\ ~Duplicate(p)
          /\ Vacant(p) \cup Dead(p) = {}
          /\ Refuse(p, "saturated")
       \/ /\ ~Duplicate(p)
          /\ \E i \in ProbeIndices :
                /\ Target(p, i)
                /\ ptarget' = [ptarget EXCEPT ![p] = ProbeAt(pnonce[p], i)]
          /\ mutex' = p
          /\ pc' = [pc EXCEPT ![p] = "announce"]
          /\ UNCHANGED why
    /\ UNCHANGED <<now, exp, odd, table, pnonce, pnow, redeemed, fresh,
                   attempts, claimantDeaths>>

\* version | 1
Announce(p) ==
    /\ pc[p] = "announce"
    /\ odd' = odd \cup {ptarget[p]}
    /\ pc' = [pc EXCEPT ![p] = "commit"]
    /\ UNCHANGED <<now, exp, table, mutex, pnonce, pnow, ptarget, why,
                   redeemed, fresh, attempts, claimantDeaths>>

\* The payload and the even version; nobody reads the payload of an odd slot.
Commit(p) ==
    /\ pc[p] = "commit"
    /\ odd' = odd \ {ptarget[p]}
    /\ table' = [table EXCEPT ![ptarget[p]] =
                    [nonce |-> pnonce[p], expires |-> exp[pnonce[p]]]]
    /\ redeemed' = [redeemed EXCEPT ![pnonce[p]] = @ + 1]
    /\ fresh' = [fresh EXCEPT ![pnonce[p]] =
                    IF now < exp[pnonce[p]] THEN @ + 1 ELSE @]
    /\ pc' = [pc EXCEPT ![p] = "unlock"]
    /\ UNCHANGED <<now, exp, mutex, pnonce, pnow, ptarget, why, attempts,
                   claimantDeaths>>

\* The request is over, whatever became of it.
Forget(p) ==
    /\ pc' = [pc EXCEPT ![p] = "idle"]
    /\ pnonce' = [pnonce EXCEPT ![p] = NoNonce]
    /\ pnow' = [pnow EXCEPT ![p] = 0]
    /\ ptarget' = [ptarget EXCEPT ![p] = 0]
    /\ why' = [why EXCEPT ![p] = "none"]
    /\ mutex' = IF mutex = p THEN NoProc ELSE mutex

\* The mutex is released and the handler answers.
Answer(p) ==
    /\ pc[p] \in {"unlock", "refused"}
    /\ Forget(p)
    /\ UNCHANGED <<now, exp, odd, table, redeemed, fresh, attempts, claimantDeaths>>

\* The process dies; its mutex is recovered, its slot stays as it is.
ClaimantDies(p) ==
    /\ pc[p] \notin {"idle", "refused"}
    /\ claimantDeaths < MaxClaimantDeaths
    /\ claimantDeaths' = claimantDeaths + 1
    /\ Forget(p)
    /\ UNCHANGED <<now, exp, odd, table, redeemed, fresh, attempts>>

SecondPasses ==
    /\ now < LastNonceTime
    /\ now' = now + 1
    /\ UNCHANGED <<exp, odd, table, mutex, pc, pnonce, pnow, ptarget, why,
                   redeemed, fresh, attempts, claimantDeaths>>

Step(p) ==
    \/ ReadClock(p)
    \/ Busy(p)
    \/ Scan(p)
    \/ Announce(p)
    \/ Commit(p)
    \/ Answer(p)

NonceNext ==
    \/ \E n \in Nonce, ttl \in TTLs : Issue(n, ttl)
    \/ \E p \in Procs : (\E n \in Nonce : Present(p, n)) \/ Step(p) \/ ClaimantDies(p)
    \/ SecondPasses

NonceSpec == NonceInit /\ [][NonceNext]_nonceVars

----------------------------------------------------------------------------
(* Properties *)

Critical == {"announce", "commit", "unlock"}

\* Every variable stays in its range; the mutex belongs to the one request
\* that is changing the table, and is free when there is none.
NonceTypeOK ==
    /\ now \in Nat
    /\ exp \in [Nonce -> Nat]
    /\ odd \subseteq Slots
    /\ table \in [Slots -> Entry]
    /\ mutex \in Procs \cup {NoProc}
    /\ pc \in [Procs -> {"idle", "verified", "timed", "refused"} \cup Critical]
    /\ \A p \in Procs : pc[p] \in Critical <=> mutex = p
    /\ pnonce \in [Procs -> Nonce \cup {NoNonce}]
    /\ \A p \in Procs : pc[p] # "idle" => pnonce[p] \in Nonce
    /\ pnow \in [Procs -> Nat]
    /\ ptarget \in [Procs -> Slots]
    /\ why \in [Procs -> {"none", "busy", "duplicate", "saturated"}]
    /\ redeemed \in [Nonce -> Nat]
    /\ fresh \in [Nonce -> Nat]
    /\ attempts \in Nat
    /\ claimantDeaths \in Nat

\* The nonces whose redemption the table remembers and that could still be
\* presented in time.
Spent ==
    {n \in Nonce : \E i \in ProbeIndices :
        LET s == ProbeAt(n, i)
        IN  Live(s) /\ table[s].nonce = n /\ table[s].expires > now}

\* Until a challenge expires it buys one redemption: concurrent presentations,
\* collisions, evictions and crashes in the handler do not make it two.
RedeemedOnceWhileFresh == \A n \in Nonce : fresh[n] <= 1

\* Only a nonce that was redeemed is refused as a duplicate: neither a
\* neighbour in its probe window nor a slot torn by a crash uses it up.
DuplicateJustified ==
    \A p \in Procs : why[p] = "duplicate" => redeemed[pnonce[p]] > 0

\* An entry carries the signed expiry of its nonce, which was issued.
EntryInv ==
    \A s \in Slots : Live(s) =>
        /\ table[s].expires = exp[table[s].nonce]
        /\ exp[table[s].nonce] # 0

\* A request works on an issued nonce with a clock that is not ahead; one that
\* is about to claim a slot found its nonce unspent and gives up no entry
\* that could still be presented.
ClaimInv ==
    \A p \in Procs :
        /\ pnow[p] <= now
        /\ pc[p] # "idle" => exp[pnonce[p]] # 0
        /\ pc[p] \in {"announce", "commit"} =>
            /\ \E i \in ProbeIndices : ptarget[p] = ProbeAt(pnonce[p], i)
            /\ pnonce[p] \notin Spent
        /\ pc[p] = "announce" /\ Live(ptarget[p]) =>
            table[ptarget[p]].expires <= now
        /\ pc[p] = "commit" => ptarget[p] \in odd

\* A nonce that was redeemed in time is remembered for as long as it lives.
FreshInv ==
    \A n \in Nonce :
        /\ fresh[n] <= 1
        /\ (n \notin Spent /\ now < exp[n]) \/ exp[n] = 0 => fresh[n] = 0

NonceInv == now >= 1 /\ EntryInv /\ ClaimInv /\ FreshInv

Register == INSTANCE NonceRegister WITH spent <- Spent

\* The table is a register of redeemed nonces that forgets one only when it
\* expires.
ImplementsNonceRegister == Register!Spec
=============================================================================
