----------------------------- MODULE BloomPair -----------------------------
(***************************************************************************)
(* The rotating Bloom filter of shm.c: which addresses were given a chance *)
(* to hold a cookie in the last window.  Adds go to the active one of two  *)
(* buffers; a query looks for an address whole in either.  Half a window   *)
(* after a rotation the next add rotates: it wins a compare-and-swap of    *)
(* the due time, clears the other buffer and makes it the active one.      *)
(*                                                                         *)
(* No lock orders any of this: the mutex that a rotation tries to take is  *)
(* never waited for and no other step of the filter takes it, so it is     *)
(* left out.  A request asks for the first sight of its address at most    *)
(* once (bs_request_first_sight keeps the answer) and later, unless a rule *)
(* refuses it, adds the address; the two share nothing else and are        *)
(* operations of their own here.  Every bit is read, set and cleared in a  *)
(* step of its own; the 64-bit word that a clear stores holds one bit.     *)
(***************************************************************************)
EXTENDS Integers, FiniteSets

CONSTANTS
    Key,          \* client addresses with their namespace
    NoKey,        \* no address
    Bits,         \* bits of a buffer
    K,            \* BS_BLOOM_K
    Index,        \* bs_bloom_indices: the K bits of an address
    Window,       \* BotShieldBloomWindow
    Requests,     \* processes that serve requests, one after the other
    Patience,     \* the longest that a call of bs_bloom_rotate_if_due takes
    StartTime,    \* when the segment is made
    MaxTime,      \* bound on the clock
    MaxRequests,  \* bound on the operations that begin
    MaxCrashes    \* bound on the number of processes that die

Half == Window \div 2

\* A rotation is over long before the next one is due: half a window is at
\* least 1800 seconds, a rotation clears a buffer in memory.
ASSUME BloomAssumption ==
    /\ NoKey \notin Key
    /\ Bits \in Nat \ {0} /\ K \in Nat \ {0}
    /\ Index \in [Key -> [1 .. K -> 0 .. Bits - 1]]
    /\ Window \in Nat
    /\ Patience \in Nat /\ Patience < Half
    /\ StartTime \in Nat
    /\ MaxTime \in Nat /\ MaxRequests \in Nat /\ MaxCrashes \in Nat

Bufs == {0, 1}
BitsOf(k) == {Index[k][i] : i \in 1 .. K}

VARIABLES
    clock,    \* apr_time_sec(apr_time_now())
    served,   \* requests so far
    crashes,  \* processes that died so far
    due,      \* bloom_next_rotate
    active,   \* bloom_active
    buf,      \* the bits that are set in each buffer
    req,      \* what each process is at
    kept,     \* history: until when each address has to be found
    age       \* history: rotations since a bit was last set for each address

history == <<kept, age>>
vars == <<clock, served, crashes, due, active, buf, req, history>>

Rotating == {"check", "swap", "turn", "clear"}
Steps == {"query", "pick", "set"} \cup Rotating

\* i counts bits of the address or of the buffer, at is the buffer that a
\* query reads next, whole the buffers that may still hold all of the address.
Idle == [pc |-> "idle", key |-> NoKey, i |-> 0, at |-> 0, whole |-> {},
         sec |-> 0, due |-> 0, promised |-> 0]

Init ==
    /\ clock = StartTime
    /\ served = 0 /\ crashes = 0
    /\ due = StartTime + Half
    /\ active = 0
    /\ buf = [b \in Bufs |-> {}]
    /\ req = [p \in Requests |-> Idle]
    /\ kept = [k \in Key |-> 0]
    /\ age = [k \in Key |-> 3]

Bit(p) == Index[req[p].key][req[p].i]

----------------------------------------------------------------------------
Free(p) == req[p].pc \in {"idle", "new", "seen"} /\ served < MaxRequests

\* A request asks whether its address is known ...
Ask(p) ==
    /\ Free(p)
    /\ served' = served + 1
    /\ \E k \in Key :
           req' = [req EXCEPT ![p] = [Idle EXCEPT !.pc = "query", !.key = k,
                                                  !.i = 1, !.whole = Bufs,
                                                  !.promised = kept[k]]]
    /\ UNCHANGED <<clock, crashes, due, active, buf, history>>

\* The buffers that still may hold the whole address, after one more load.
Whole(p) ==
    IF Bit(p) \in buf[req[p].at] THEN req[p].whole
                                 ELSE req[p].whole \ {req[p].at}

\* ... bit by bit, first in buffer 0 and then in buffer 1.
Query(p) ==
    /\ req[p].pc = "query"
    /\ \/ /\ req[p].at = 0
          /\ req' = [req EXCEPT ![p].whole = Whole(p), ![p].at = 1]
       \/ /\ req[p].at = 1 /\ Whole(p) # {} /\ req[p].i < K
          /\ req' = [req EXCEPT ![p].whole = Whole(p), ![p].at = 0, ![p].i = @ + 1]
       \/ /\ req[p].at = 1 /\ (Whole(p) = {} \/ req[p].i = K)
          /\ req' = [req EXCEPT ![p] =
                       [Idle EXCEPT !.pc = IF Whole(p) = {} THEN "new" ELSE "seen"]]
    /\ UNCHANGED <<clock, served, crashes, due, active, buf, history>>

\* The policy lets a request through and its address is added: the clock is
\* read ...
Add(p) ==
    /\ Free(p)
    /\ served' = served + 1
    /\ \E k \in Key :
           req' = [req EXCEPT ![p] = [Idle EXCEPT !.pc = "check", !.key = k,
                                                  !.sec = clock]]
    /\ UNCHANGED <<clock, crashes, due, active, buf, history>>

\* ... and compared with the due time.
Check(p) ==
    /\ req[p].pc = "check"
    /\ req' = IF req[p].sec < due
                THEN [req EXCEPT ![p].pc = "pick"]
                ELSE [req EXCEPT ![p].pc = "swap", ![p].due = due]
    /\ UNCHANGED <<clock, served, crashes, due, active, buf, history>>

\* The one that swaps the due time rotates.
Swap(p) ==
    /\ req[p].pc = "swap"
    /\ IF due = req[p].due
         THEN /\ due' = req[p].sec + Half
              /\ req' = [req EXCEPT ![p].pc = "turn", ![p].due = 0]
         ELSE /\ req' = [req EXCEPT ![p].pc = "pick", ![p].due = 0]
              /\ UNCHANGED due
    /\ UNCHANGED <<clock, served, crashes, active, buf, history>>

\* Mutant of Turn: the buffer is made active before it is cleared.
TurnFlip(p) ==
    /\ req[p].pc = "turn"
    /\ req' = [req EXCEPT ![p].pc = "clear", ![p].at = 1 - active,
                          ![p].i = 0]
    /\ active' = 1 - active
    /\ UNCHANGED <<clock, served, crashes, due, buf, history>>

\* It looks which buffer is active, to clear the other ...
Turn(p) ==
    /\ req[p].pc = "turn"
    /\ req' = [req EXCEPT ![p].pc = "clear", ![p].at = 1 - active,
                          ![p].i = 0]
    /\ UNCHANGED <<clock, served, crashes, due, active, buf, history>>

\* ... word by word ...
Clear(p) ==
    /\ req[p].pc = "clear"
    /\ req[p].i < Bits
    /\ buf' = [buf EXCEPT ![req[p].at] = @ \ {req[p].i}]
    /\ req' = [req EXCEPT ![p].i = @ + 1]
    /\ UNCHANGED <<clock, served, crashes, due, active, history>>

\* Mutant of Flip: before the last word is cleared.
FlipEarly(p) ==
    /\ req[p].pc = "clear"
    /\ req[p].i >= Bits - 1
    /\ active' = req[p].at
    /\ req' = [req EXCEPT ![p].pc = "pick", ![p].at = 0, ![p].i = 0]
    /\ age' = [k \in Key |-> IF age[k] < 3 THEN age[k] + 1 ELSE 3]
    /\ UNCHANGED <<clock, served, crashes, due, buf, kept>>

\* ... and makes it the active one.
Flip(p) ==
    /\ req[p].pc = "clear"
    /\ req[p].i = Bits
    /\ active' = req[p].at
    /\ req' = [req EXCEPT ![p].pc = "pick", ![p].at = 0, ![p].i = 0]
    /\ age' = [k \in Key |-> IF age[k] < 3 THEN age[k] + 1 ELSE 3]
    /\ UNCHANGED <<clock, served, crashes, due, buf, kept>>

\* bs_bloom_add looks up the active buffer, whoever rotated ...
Pick(p) ==
    /\ req[p].pc = "pick"
    /\ req' = [req EXCEPT ![p].pc = "set", ![p].at = active, ![p].i = 1]
    /\ UNCHANGED <<clock, served, crashes, due, active, buf, history>>

AtLeast(m, n) == IF m < n THEN n ELSE m

\* ... and sets the bits of the address in it.
Set(p) ==
    LET k == req[p].key
    IN  /\ req[p].pc = "set"
        /\ buf' = [buf EXCEPT ![req[p].at] = @ \cup {Bit(p)}]
        /\ age' = [age EXCEPT ![k] = 0]
        /\ IF req[p].i < K
             THEN /\ req' = [req EXCEPT ![p].i = @ + 1]
                  /\ UNCHANGED kept
             ELSE /\ req' = [req EXCEPT ![p] = Idle]
                  /\ kept' = [kept EXCEPT ![k] =
                                AtLeast(@, req[p].sec + Half - Patience)]
        /\ UNCHANGED <<clock, served, crashes, due, active>>

\* A process dies with a request and leaves the filter as it is.
Crash(p) ==
    /\ req[p].pc \in Steps
    /\ crashes < MaxCrashes
    /\ crashes' = crashes + 1
    /\ req' = [req EXCEPT ![p] = Idle]
    /\ UNCHANGED <<clock, served, due, active, buf, history>>

\* Time passes, though not past the patience of a rotation.
Tick ==
    /\ clock < MaxTime
    /\ \A p \in Requests :
           req[p].pc \in Rotating => clock + 1 <= req[p].sec + Patience
    /\ clock' = clock + 1
    /\ UNCHANGED <<served, crashes, due, active, buf, req, history>>

Serve(p) ==
    \/ Ask(p)
    \/ Query(p)
    \/ Add(p)
    \/ Check(p)
    \/ Swap(p)
    \/ Turn(p)
    \/ Clear(p)
    \/ Flip(p)
    \/ Pick(p)
    \/ Set(p)
    \/ Crash(p)

Next == Tick \/ \E p \in Requests : Serve(p)

Spec == Init /\ [][Next]_vars

----------------------------------------------------------------------------
(* Properties *)

Request == [pc : Steps \cup {"idle", "new", "seen"}, key : Key \cup {NoKey},
            i : Nat, at : Bufs, whole : SUBSET Bufs, sec : Nat, due : Nat,
            promised : Nat]

\* Every variable stays in its range; a request that reads, clears or sets
\* (bs_bloom_seen, bs_bloom_rotate_if_due, bs_bloom_add) has a bit to do.
TypeOK ==
    /\ clock \in Nat /\ served \in Nat /\ crashes \in Nat
    /\ due \in Nat
    /\ active \in Bufs
    /\ buf \in [Bufs -> SUBSET (0 .. Bits - 1)]
    /\ req \in [Requests -> Request]
    /\ \A p \in Requests :
        /\ req[p].pc \in Steps => req[p].key \in Key
        /\ req[p].pc \in {"query", "set"} => req[p].i \in 1 .. K
        /\ req[p].pc = "clear" => req[p].i \in 0 .. Bits
    /\ kept \in [Key -> Nat]
    /\ age \in [Key -> 0 .. 3]

\* A request is told that its address is new only if no add of it was over
\* when it asked, or half a window has passed since that add read the clock,
\* less what a rotation takes: rotations, adds and queries that overlap and
\* processes that die do not lose an address earlier.
SeenWhileKept ==
    [][\A p \in Requests :
           req[p].pc = "query" /\ req'[p].pc = "new"
           => clock >= req[p].promised]_vars

\* The bits of the addresses with a bit set since the last n rotations.
BitsSince(n) == UNION {BitsOf(k) : k \in {j \in Key : age[j] < n}}

\* The filter forgets: what is in the active buffer was added since the last
\* rotation but one, what is in the passive one since the one before that, or
\* shares its bits with such an address.  Only an add that was under way while
\* its buffer was cleared lives through the last of these rotations.
OnlyRecent == \A b \in Bufs : buf[b] \subseteq BitsSince(IF b = active THEN 2 ELSE 3)

----------------------------------------------------------------------------
(* What makes them hold *)

Turns(p) == req[p].pc \in {"turn", "clear"}

\* A rotation is under way.
Turning == \E p \in Requests : Turns(p)

\* No clear of a buffer begins before this time.
Life(b) ==
    IF Turning THEN IF b = active THEN due ELSE 0
               ELSE IF b = active THEN due + Half ELSE due

\* Readings of the clock are not ahead, nor older than the patience until the
\* rotation is over; a due time that is not the one seen was set meanwhile.
TimeInv ==
    \A p \in Requests :
        /\ req[p].pc \in Rotating \cup {"pick", "set"} => req[p].sec <= clock
        /\ req[p].pc \in Rotating => clock <= req[p].sec + Patience
        /\ req[p].pc = "swap" => /\ req[p].due <= req[p].sec
                                 /\ req[p].due <= due
        /\ req[p].pc = "swap" /\ req[p].due # due => req[p].sec <= due + Patience
        /\ req[p].pc = "pick" => req[p].sec <= due + Patience
        /\ Turns(p) => due = req[p].sec + Half
        /\ req[p].pc = "clear" => req[p].at = 1 - active

\* Nobody rotates while another does.
OneTurns == \A p, q \in Requests : Turns(p) /\ Turns(q) => p = q

\* What an add has to keep up, and for how long.
Until(p) == req[p].sec + Half - Patience

\* The bits that an add has set are still there, unless its time is over.
AddInv ==
    \A p \in Requests : req[p].pc = "set" =>
        \/ Until(p) <= clock
        \/ /\ Until(p) <= Life(req[p].at)
           /\ \A j \in 1 .. req[p].i - 1 : Index[req[p].key][j] \in buf[req[p].at]

Holds(k, b) == \A j \in 1 .. K : Index[k][j] \in buf[b]

\* An address is whole in a buffer that lives as long as it has to be found.
KeptInv ==
    \A k \in Key :
        \/ kept[k] <= clock
        \/ \E b \in Bufs : kept[k] <= Life(b) /\ Holds(k, b)

\* The same of the address that a request asks for, and it has not yet missed
\* a bit of it in that buffer.
AskInv ==
    \A p \in Requests : req[p].pc = "query" =>
        \/ req[p].promised <= clock
        \/ \E b \in req[p].whole : req[p].promised <= Life(b) /\ Holds(req[p].key, b)

KeepInv == TimeInv /\ OneTurns /\ AddInv /\ KeptInv /\ AskInv

\* What was cleared so far holds only what was set since the last rotation.
ClearInv ==
    \A p \in Requests : req[p].pc = "clear" =>
        \A n \in buf[req[p].at] : n < req[p].i => n \in BitsSince(1)
=============================================================================
