------------------------- MODULE SharedMemoryProofs -------------------------
(***************************************************************************)
(* Theorems of BloomPair, for every set of addresses, every hash, buffer   *)
(* size, window and patience, and any number of requests and crashes; and  *)
(* of StateFile, for any number of processes that save, of files, of       *)
(* updates and of faults, when no save of a child overlaps a restart.      *)
(***************************************************************************)
EXTENDS BloomPair, StateFile, TLAPS

(***************************************************************************)
(* What each step does to the record of its request.                       *)
(***************************************************************************)

Becomes(p, x) == x \in Request /\ req' = [req EXCEPT ![p] = x]

\* The record of a request that took a step, and those of the others.
LEMMA Replaced ==
    ASSUME req \in [Requests -> Request], NEW p \in Requests, NEW x, Becomes(p, x)
    PROVE  /\ req' \in [Requests -> Request]
           /\ req'[p] = x
           /\ \A q \in Requests : q # p => req'[q] = req[q]
  BY DEF Becomes

\* The hash yields bits of a buffer.
LEMMA IndexType ==
    ASSUME NEW k \in Key, NEW i \in 1 .. K
    PROVE  Index[k][i] \in 0 .. Bits - 1
  BY BloomAssumption

\* Half a window is a number, and longer than the patience.
LEMMA HalfType == Half \in Nat /\ Patience \in Nat /\ Patience < Half
  BY BloomAssumption DEF Half

\* An idle request.
LEMMA IdleType == Idle \in Request /\ Idle.pc = "idle"
  BY DEF Idle, Request, Bufs

\* A question begins.
LEMMA AskStep ==
    ASSUME TypeOK, NEW p \in Requests, Ask(p)
    PROVE  \E x : /\ Becomes(p, x) /\ x.pc = "query" /\ x.key \in Key /\ x.i = 1
                  /\ x.whole = Bufs /\ x.promised = kept[x.key]
  <1>1. PICK k \in Key :
           req' = [req EXCEPT ![p] = [Idle EXCEPT !.pc = "query", !.key = k,
                                                  !.i = 1, !.whole = Bufs,
                                                  !.promised = kept[k]]]
    BY DEF Ask
  <1>2. PICK x : x = [Idle EXCEPT !.pc = "query", !.key = k, !.i = 1,
                                  !.whole = Bufs, !.promised = kept[k]]
    OBVIOUS
  <1>3. kept[k] \in Nat
    BY DEF TypeOK
  <1>4. x \in Request /\ x.pc = "query" /\ x.key = k /\ x.i = 1
        /\ x.whole = Bufs /\ x.promised = kept[k]
    BY <1>2, <1>3 DEF Idle, Request, Bufs, Steps
  <1> QED
    BY <1>1, <1>2, <1>4 DEF Becomes

\* What is left of the buffers is some of them.
LEMMA WholeType ==
    ASSUME TypeOK, NEW p \in Requests
    PROVE  Whole(p) \in SUBSET Bufs /\ Whole(p) \subseteq req[p].whole
  BY DEF TypeOK, Whole, Request

\* One more bit of a question is loaded.
LEMMA QueryStep ==
    ASSUME TypeOK, NEW p \in Requests, Query(p)
    PROVE  \E x : /\ Becomes(p, x)
                  /\ \/ /\ x.pc = "query" /\ x.key = req[p].key
                        /\ x.i \in 1 .. K
                        /\ x.whole = Whole(p) /\ x.promised = req[p].promised
                     \/ x.pc = "new" /\ Whole(p) = {}
                     \/ x.pc = "seen"
  <1>0. /\ req[p] \in Request /\ req[p].pc = "query" /\ req[p].i \in 1 .. K
        /\ K \in Nat /\ Whole(p) \in SUBSET Bufs
    BY WholeType, BloomAssumption DEF TypeOK, Query
  <1>1. CASE req' = [req EXCEPT ![p].whole = Whole(p), ![p].at = 1]
    <2>1. PICK w \in SUBSET Bufs : w = Whole(p)
      BY <1>0
    <2>2. PICK x : x = [req[p] EXCEPT !.whole = w, !.at = 1]
      OBVIOUS
    <2>3. req' = [req EXCEPT ![p] = x]
      BY <1>1, <2>1, <2>2 DEF TypeOK
    <2>4. x \in Request /\ x.pc = "query" /\ x.key = req[p].key /\ x.i = req[p].i
          /\ x.whole = w /\ x.promised = req[p].promised
      BY <1>0, <2>2 DEF Request, Bufs
    <2>5. x.i \in 1 .. K
      BY <1>0, <2>4
    <2> QED
      BY <2>1, <2>3, <2>4, <2>5 DEF Becomes
  <1>2. CASE /\ req[p].i < K
             /\ req' = [req EXCEPT ![p].whole = Whole(p), ![p].at = 0, ![p].i = @ + 1]
    <2>1. PICK w \in SUBSET Bufs : w = Whole(p)
      BY <1>0
    <2>2. PICK n \in 1 .. K : n = req[p].i + 1 /\ n \in Nat
      BY <1>0, <1>2
    <2>3. PICK x : x = [req[p] EXCEPT !.whole = w, !.at = 0, !.i = n]
      OBVIOUS
    <2>4. req' = [req EXCEPT ![p] = x]
      BY <1>2, <2>1, <2>2, <2>3 DEF TypeOK
    <2>5. x \in Request /\ x.pc = "query" /\ x.key = req[p].key /\ x.i = n
          /\ x.whole = w /\ x.promised = req[p].promised
      BY <1>0, <2>2, <2>3 DEF Request, Bufs
    <2> QED
      BY <2>1, <2>4, <2>5 DEF Becomes
  <1>3. CASE req' = [req EXCEPT ![p] =
                       [Idle EXCEPT !.pc = IF Whole(p) = {} THEN "new" ELSE "seen"]]
    <2>1. PICK x : x = [Idle EXCEPT !.pc = IF Whole(p) = {} THEN "new" ELSE "seen"]
      OBVIOUS
    <2>2. CASE Whole(p) = {}
      <3>1. x = [Idle EXCEPT !.pc = "new"]
        BY <2>1, <2>2
      <3>2. x \in Request /\ x.pc = "new"
        BY <3>1 DEF Idle, Request, Bufs
      <3> QED
        BY <1>3, <2>1, <2>2, <3>2 DEF Becomes
    <2>3. CASE Whole(p) # {}
      <3>1. x = [Idle EXCEPT !.pc = "seen"]
        BY <2>1, <2>3
      <3>2. x \in Request /\ x.pc = "seen"
        BY <3>1 DEF Idle, Request, Bufs
      <3> QED
        BY <1>3, <2>1, <3>2 DEF Becomes
    <2> QED
      BY <2>2, <2>3
  <1> QED
    BY <1>1, <1>2, <1>3 DEF Query

\* An add begins.
LEMMA AddStep ==
    ASSUME TypeOK, NEW p \in Requests, Add(p)
    PROVE  \E x : /\ Becomes(p, x) /\ x.pc = "check" /\ x.key \in Key
                  /\ x.sec = clock
  <1>1. PICK k \in Key :
           req' = [req EXCEPT ![p] = [Idle EXCEPT !.pc = "check", !.key = k,
                                                  !.sec = clock]]
    BY DEF Add
  <1>2. PICK x : x = [Idle EXCEPT !.pc = "check", !.key = k, !.sec = clock]
    OBVIOUS
  <1>3. clock \in Nat
    BY DEF TypeOK
  <1>4. x \in Request /\ x.pc = "check" /\ x.key \in Key /\ x.sec = clock
    BY <1>2, <1>3 DEF Idle, Request, Bufs, Steps, Rotating
  <1> QED
    BY <1>1, <1>2, <1>4 DEF Becomes

\* The due time is compared with the clock reading.
LEMMA CheckStep ==
    ASSUME TypeOK, NEW p \in Requests, Check(p)
    PROVE  \E x : /\ Becomes(p, x) /\ x.key = req[p].key /\ x.sec = req[p].sec
                  /\ \/ x.pc = "pick" /\ req[p].sec < due
                     \/ x.pc = "swap" /\ x.due = due /\ ~ req[p].sec < due
  <1>1. req[p] \in Request /\ due \in Nat
    BY DEF TypeOK
  <1>2. CASE req[p].sec < due
    <2>1. PICK x : x = [req[p] EXCEPT !.pc = "pick"]
      OBVIOUS
    <2>2. req' = [req EXCEPT ![p] = x]
      BY <1>2, <2>1 DEF Check, TypeOK
    <2>3. x \in Request /\ x.key = req[p].key /\ x.sec = req[p].sec /\ x.pc = "pick"
      BY <1>1, <2>1 DEF Request, Steps
    <2> QED
      BY <1>2, <2>2, <2>3 DEF Becomes
  <1>3. CASE ~ req[p].sec < due
    <2>1. PICK x : x = [req[p] EXCEPT !.pc = "swap", !.due = due]
      OBVIOUS
    <2>2. req' = [req EXCEPT ![p] = x]
      BY <1>3, <2>1 DEF Check, TypeOK
    <2>3. x \in Request /\ x.key = req[p].key /\ x.sec = req[p].sec /\ x.pc = "swap"
          /\ x.due = due
      BY <1>1, <2>1 DEF Request, Steps, Rotating
    <2> QED
      BY <1>3, <2>2, <2>3 DEF Becomes
  <1> QED
    BY <1>2, <1>3

\* The due time is swapped, or was swapped by another.
LEMMA SwapStep ==
    ASSUME TypeOK, NEW p \in Requests, Swap(p)
    PROVE  \E x : /\ Becomes(p, x) /\ x.key = req[p].key /\ x.sec = req[p].sec
                  /\ \/ x.pc = "turn" /\ due = req[p].due /\ due' = req[p].sec + Half
                     \/ x.pc = "pick" /\ due # req[p].due /\ due' = due
  <1>1. req[p] \in Request
    BY DEF TypeOK
  <1>2. CASE due = req[p].due
    <2>1. PICK x : x = [req[p] EXCEPT !.pc = "turn", !.due = 0]
      OBVIOUS
    <2>2. req' = [req EXCEPT ![p] = x]
      BY <1>2, <2>1 DEF Swap, TypeOK
    <2>3. x \in Request /\ x.key = req[p].key /\ x.sec = req[p].sec /\ x.pc = "turn"
      BY <1>1, <2>1 DEF Request, Steps, Rotating
    <2> QED
      BY <1>2, <2>2, <2>3 DEF Becomes, Swap
  <1>3. CASE due # req[p].due
    <2>1. PICK x : x = [req[p] EXCEPT !.pc = "pick", !.due = 0]
      OBVIOUS
    <2>2. req' = [req EXCEPT ![p] = x]
      BY <1>3, <2>1 DEF Swap, TypeOK
    <2>3. x \in Request /\ x.key = req[p].key /\ x.sec = req[p].sec /\ x.pc = "pick"
      BY <1>1, <2>1 DEF Request, Steps
    <2> QED
      BY <1>3, <2>2, <2>3 DEF Becomes, Swap
  <1> QED
    BY <1>2, <1>3

\* The buffer to clear is chosen.
LEMMA TurnStep ==
    ASSUME TypeOK, NEW p \in Requests, Turn(p)
    PROVE  \E x : /\ Becomes(p, x) /\ x.key = req[p].key /\ x.sec = req[p].sec
                  /\ x.pc = "clear" /\ x.at = 1 - active /\ x.i = 0
  <1>1. req[p] \in Request /\ 1 - active \in Bufs
    BY DEF TypeOK, Bufs
  <1>2. PICK x : x = [req[p] EXCEPT !.pc = "clear", !.at = 1 - active, !.i = 0]
    OBVIOUS
  <1>3. req' = [req EXCEPT ![p] = x]
    BY <1>2 DEF Turn, TypeOK
  <1>4. x \in Request /\ x.key = req[p].key /\ x.sec = req[p].sec
        /\ x.pc = "clear" /\ x.at = 1 - active /\ x.i = 0
    BY <1>1, <1>2 DEF Request, Steps, Rotating
  <1> QED
    BY <1>3, <1>4 DEF Becomes

\* One word is cleared.
LEMMA ClearStep ==
    ASSUME TypeOK, NEW p \in Requests, Clear(p)
    PROVE  \E x : /\ Becomes(p, x) /\ x.key = req[p].key /\ x.sec = req[p].sec
                  /\ x.pc = "clear" /\ x.at = req[p].at /\ x.i = req[p].i + 1
  <1>1. req[p] \in Request /\ req[p].pc = "clear"
    BY DEF TypeOK, Clear
  <1>2. PICK n \in Nat : n = req[p].i + 1
    BY <1>1 DEF Request
  <1>3. PICK x : x = [req[p] EXCEPT !.i = n]
    OBVIOUS
  <1>4. req' = [req EXCEPT ![p] = x]
    BY <1>2, <1>3 DEF Clear, TypeOK
  <1>5. x \in Request /\ x.key = req[p].key /\ x.sec = req[p].sec
        /\ x.pc = "clear" /\ x.at = req[p].at /\ x.i = n
    BY <1>1, <1>3 DEF Request
  <1> QED
    BY <1>2, <1>4, <1>5 DEF Becomes

\* The rotation is over.
LEMMA FlipStep ==
    ASSUME TypeOK, NEW p \in Requests, Flip(p)
    PROVE  \E x : /\ Becomes(p, x) /\ x.key = req[p].key /\ x.sec = req[p].sec
                  /\ x.pc = "pick"
  <1>1. req[p] \in Request
    BY DEF TypeOK
  <1>2. PICK x : x = [req[p] EXCEPT !.pc = "pick", !.at = 0, !.i = 0]
    OBVIOUS
  <1>3. req' = [req EXCEPT ![p] = x]
    BY <1>2 DEF Flip, TypeOK
  <1>4. x \in Request /\ x.key = req[p].key /\ x.sec = req[p].sec /\ x.pc = "pick"
    BY <1>1, <1>2 DEF Request, Steps, Bufs
  <1> QED
    BY <1>3, <1>4 DEF Becomes

\* The buffer to add to is chosen.
LEMMA PickStep ==
    ASSUME TypeOK, NEW p \in Requests, Pick(p)
    PROVE  \E x : /\ Becomes(p, x) /\ x.key = req[p].key /\ x.sec = req[p].sec
                  /\ x.pc = "set" /\ x.at = active /\ x.i = 1
  <1>1. req[p] \in Request /\ active \in Bufs
    BY DEF TypeOK
  <1>2. PICK x : x = [req[p] EXCEPT !.pc = "set", !.at = active, !.i = 1]
    OBVIOUS
  <1>3. req' = [req EXCEPT ![p] = x]
    BY <1>2 DEF Pick, TypeOK
  <1>4. x \in Request /\ x.key = req[p].key /\ x.sec = req[p].sec
        /\ x.pc = "set" /\ x.at = active /\ x.i = 1
    BY <1>1, <1>2 DEF Request, Steps
  <1> QED
    BY <1>3, <1>4 DEF Becomes

\* One bit is set, the last one or not.
LEMMA SetStep ==
    ASSUME TypeOK, NEW p \in Requests, Set(p)
    PROVE  \E x : /\ Becomes(p, x)
                  /\ \/ /\ req[p].i < K /\ kept' = kept
                        /\ x.key = req[p].key /\ x.sec = req[p].sec
                        /\ x.pc = "set" /\ x.at = req[p].at /\ x.i = req[p].i + 1
                     \/ /\ ~ req[p].i < K
                        /\ kept' = [kept EXCEPT ![req[p].key] =
                                      AtLeast(@, req[p].sec + Half - Patience)]
                        /\ x.pc = "idle"
  <1>1. req[p] \in Request /\ req[p].pc = "set"
    BY DEF TypeOK, Set
  <1>2. CASE req[p].i < K
    <2>1. PICK n \in Nat : n = req[p].i + 1
      BY <1>1 DEF Request
    <2>2. PICK x : x = [req[p] EXCEPT !.i = n]
      OBVIOUS
    <2>3. req' = [req EXCEPT ![p] = x]
      BY <1>2, <2>1, <2>2 DEF Set, TypeOK
    <2>4. x \in Request /\ x.key = req[p].key /\ x.sec = req[p].sec
          /\ x.pc = "set" /\ x.at = req[p].at /\ x.i = n
      BY <1>1, <2>2 DEF Request
    <2>5. kept' = kept
      BY <1>2 DEF Set
    <2> QED
      BY <1>2, <2>1, <2>3, <2>4, <2>5 DEF Becomes
  <1>3. CASE ~ req[p].i < K
    <2>1. req' = [req EXCEPT ![p] = Idle]
          /\ kept' = [kept EXCEPT ![req[p].key] =
                        AtLeast(@, req[p].sec + Half - Patience)]
      BY <1>3 DEF Set
    <2> QED
      BY <1>3, <2>1, IdleType DEF Becomes
  <1> QED
    BY <1>2, <1>3

\* A process died.
LEMMA CrashStep ==
    ASSUME TypeOK, NEW p \in Requests, Crash(p)
    PROVE  \E x : Becomes(p, x) /\ x.pc = "idle"
  BY IdleType DEF Crash, Becomes

(***************************************************************************)
(* Types                                                                   *)
(***************************************************************************)

\* What TypeOK says of the record of a request.
Fits(x) ==
    /\ x.pc \in Steps => x.key \in Key
    /\ x.pc \in {"query", "set"} => x.i \in 1 .. K
    /\ x.pc = "clear" => x.i \in 0 .. Bits

\* A fitting record keeps the records in their range.
LEMMA FitsReplaced ==
    ASSUME TypeOK, NEW p \in Requests, NEW x, Becomes(p, x), Fits(x)
    PROVE  /\ req' \in [Requests -> Request]
           /\ \A q \in Requests : Fits(req'[q])
  <1>1. req \in [Requests -> Request] /\ \A q \in Requests : Fits(req[q])
    BY DEF TypeOK, Fits
  <1> QED
    BY <1>1, Replaced

\* The program counters that a step leaves.
LEMMA RecordsFit ==
    ASSUME TypeOK, NEW p \in Requests, Serve(p)
    PROVE  /\ req' \in [Requests -> Request]
           /\ \A q \in Requests : Fits(req'[q])
  <1> DEFINE Goal == /\ req' \in [Requests -> Request]
                     /\ \A q \in Requests : Fits(req'[q])
  <1> SUFFICES Goal
    OBVIOUS
  <1>0. /\ Fits(req[p]) /\ req[p] \in Request
        /\ K \in Nat \ {0} /\ Bits \in Nat \ {0}
    BY BloomAssumption DEF TypeOK, Fits
  <1> HIDE DEF Goal
  <1>1. ASSUME NEW x, Becomes(p, x), Fits(x) PROVE Goal
    BY <1>1, FitsReplaced DEF Goal
  <1>2. CASE Ask(p)
    <2>1. PICK x : Becomes(p, x) /\ x.pc = "query" /\ x.key \in Key /\ x.i = 1
      BY <1>2, AskStep
    <2>2. Fits(x)
      BY <1>0, <2>1 DEF Fits
    <2> QED
      BY <1>1, <2>1, <2>2
  <1>3. CASE Query(p)
    <2>1. req[p].key \in Key
      BY <1>0, <1>3 DEF Query, Fits, Steps
    <2>2. PICK x : Becomes(p, x) /\ \/ x.pc = "query" /\ x.key = req[p].key /\ x.i \in 1 .. K
                                    \/ x.pc = "new"
                                    \/ x.pc = "seen"
      BY <1>3, QueryStep
    <2>3. Fits(x)
      BY <2>1, <2>2 DEF Fits, Steps, Rotating
    <2> QED
      BY <1>1, <2>2, <2>3
  <1>4. CASE Add(p)
    <2>1. PICK x : Becomes(p, x) /\ x.pc = "check" /\ x.key \in Key
      BY <1>4, AddStep
    <2>2. Fits(x)
      BY <2>1 DEF Fits
    <2> QED
      BY <1>1, <2>1, <2>2
  <1>5. CASE Check(p)
    <2>1. PICK x : Becomes(p, x) /\ x.key = req[p].key /\ x.pc \in {"pick", "swap"}
      BY <1>5, CheckStep
    <2>2. req[p].key \in Key
      BY <1>0, <1>5 DEF Check, Fits, Steps, Rotating
    <2>3. Fits(x)
      BY <2>1, <2>2 DEF Fits
    <2> QED
      BY <1>1, <2>1, <2>3
  <1>6. CASE Swap(p)
    <2>1. PICK x : Becomes(p, x) /\ x.key = req[p].key /\ x.pc \in {"pick", "turn"}
      BY <1>6, SwapStep
    <2>2. req[p].key \in Key
      BY <1>0, <1>6 DEF Swap, Fits, Steps, Rotating
    <2>3. Fits(x)
      BY <2>1, <2>2 DEF Fits
    <2> QED
      BY <1>1, <2>1, <2>3
  <1>7. CASE Turn(p)
    <2>1. PICK x : Becomes(p, x) /\ x.key = req[p].key /\ x.pc = "clear" /\ x.i = 0
      BY <1>7, TurnStep
    <2>2. req[p].key \in Key
      BY <1>0, <1>7 DEF Turn, Fits, Steps, Rotating
    <2>3. Fits(x)
      BY <1>0, <2>1, <2>2 DEF Fits
    <2> QED
      BY <1>1, <2>1, <2>3
  <1>8. CASE Clear(p)
    <2>1. PICK x : Becomes(p, x) /\ x.key = req[p].key /\ x.pc = "clear"
                   /\ x.i = req[p].i + 1
      BY <1>8, ClearStep
    <2>2. req[p].key \in Key /\ req[p].i \in 0 .. Bits /\ req[p].i < Bits
      BY <1>0, <1>8 DEF Clear, Fits, Steps, Rotating
    <2>3. Fits(x)
      BY <1>0, <2>1, <2>2 DEF Fits
    <2> QED
      BY <1>1, <2>1, <2>3
  <1>9. CASE Flip(p)
    <2>1. PICK x : Becomes(p, x) /\ x.key = req[p].key /\ x.pc = "pick"
      BY <1>9, FlipStep
    <2>2. req[p].key \in Key
      BY <1>0, <1>9 DEF Flip, Fits, Steps, Rotating
    <2>3. Fits(x)
      BY <2>1, <2>2 DEF Fits
    <2> QED
      BY <1>1, <2>1, <2>3
  <1>10. CASE Pick(p)
    <2>1. PICK x : Becomes(p, x) /\ x.key = req[p].key /\ x.pc = "set" /\ x.i = 1
      BY <1>10, PickStep
    <2>2. req[p].key \in Key
      BY <1>0, <1>10 DEF Pick, Fits, Steps
    <2>3. Fits(x)
      BY <1>0, <2>1, <2>2 DEF Fits
    <2> QED
      BY <1>1, <2>1, <2>3
  <1>11. CASE Set(p)
    <2>1. PICK x : Becomes(p, x) /\ \/ /\ req[p].i < K /\ x.key = req[p].key /\ x.pc = "set"
                                       /\ x.i = req[p].i + 1
                                    \/ x.pc = "idle"
      BY <1>11, SetStep
    <2>2. req[p].key \in Key /\ req[p].i \in 1 .. K
      BY <1>0, <1>11 DEF Set, Fits, Steps
    <2>3. Fits(x)
      BY <1>0, <2>1, <2>2 DEF Fits, Steps, Rotating
    <2> QED
      BY <1>1, <2>1, <2>3
  <1>12. CASE Crash(p)
    <2>1. PICK x : Becomes(p, x) /\ x.pc = "idle"
      BY <1>12, CrashStep
    <2>2. Fits(x)
      BY <2>1 DEF Fits, Steps, Rotating
    <2> QED
      BY <1>1, <2>1, <2>2
  <1> QED
    BY <1>2, <1>3, <1>4, <1>5, <1>6, <1>7, <1>8, <1>9, <1>10, <1>11, <1>12 DEF Serve

\* The later of two times.
LEMMA AtLeastType ==
    ASSUME NEW m \in Nat, NEW n \in Int
    PROVE  /\ AtLeast(m, n) \in Nat
           /\ AtLeast(m, n) = m \/ AtLeast(m, n) = n
  BY DEF AtLeast

\* A step keeps every variable in its range.
LEMMA TypePreserved ==
    ASSUME TypeOK, [Next]_vars
    PROVE  TypeOK'
  <1>0. /\ clock \in Nat /\ served \in Nat /\ crashes \in Nat /\ due \in Nat
        /\ active \in Bufs /\ buf \in [Bufs -> SUBSET (0 .. Bits - 1)]
        /\ req \in [Requests -> Request]
        /\ kept \in [Key -> Nat] /\ age \in [Key -> 0 .. 3]
        /\ \A p \in Requests : Fits(req[p])
    BY DEF TypeOK, Fits
  <1>1. CASE Tick
    BY <1>0, <1>1 DEF Tick, TypeOK, Fits, history
  <1>2. ASSUME NEW p \in Requests, Serve(p) PROVE TypeOK'
    <2>1. req' \in [Requests -> Request] /\ \A q \in Requests : Fits(req'[q])
      BY <1>2, RecordsFit
    <2>2. SUFFICES /\ clock' \in Nat /\ served' \in Nat /\ crashes' \in Nat
                   /\ due' \in Nat /\ active' \in Bufs
                   /\ buf' \in [Bufs -> SUBSET (0 .. Bits - 1)]
                   /\ kept' \in [Key -> Nat] /\ age' \in [Key -> 0 .. 3]
      BY <2>1 DEF TypeOK, Fits
    <2>3. CASE Ask(p) \/ Add(p) \/ Query(p) \/ Check(p) \/ Turn(p) \/ Pick(p)
               \/ Crash(p)
      <3>1. /\ clock' = clock /\ due' = due /\ active' = active /\ buf' = buf
            /\ kept' = kept /\ age' = age
        BY <2>3 DEF Ask, Add, Query, Check, Turn, Pick, Crash, history
      <3>2. CASE Ask(p) \/ Add(p)
        <4>1. served' = served + 1 /\ crashes' = crashes
          BY <3>2 DEF Ask, Add
        <4> QED
          BY <1>0, <3>1, <4>1
      <3>3. CASE Query(p) \/ Check(p) \/ Turn(p) \/ Pick(p)
        <4>1. served' = served /\ crashes' = crashes
          BY <3>3 DEF Query, Check, Turn, Pick
        <4> QED
          BY <1>0, <3>1, <4>1
      <3>4. CASE Crash(p)
        <4>1. served' = served /\ crashes' = crashes + 1
          BY <3>4 DEF Crash
        <4> QED
          BY <1>0, <3>1, <4>1
      <3> QED
        BY <2>3, <3>2, <3>3, <3>4
    <2>4. CASE Swap(p)
      <3>1. req[p].sec + Half \in Nat
        BY <1>0, HalfType DEF Request
      <3> QED
        BY <1>0, <2>4, <3>1 DEF Swap, history
    <2>5. CASE Clear(p)
      BY <1>0, <2>5 DEF Clear, history
    <2>6. CASE Flip(p)
      <3>1. req[p].at \in Bufs
        BY <1>0 DEF Request
      <3> QED
        BY <1>0, <2>6, <3>1 DEF Flip
    <2>7. CASE Set(p)
      <3>1. /\ req[p].key \in Key /\ req[p].i \in 1 .. K /\ req[p].at \in Bufs
            /\ req[p].sec + Half - Patience \in Int
        BY <1>0, <2>7, HalfType DEF Set, Fits, Steps, Request
      <3>2. Bit(p) \in 0 .. Bits - 1
        BY <3>1, IndexType DEF Bit
      <3>3. PICK m : m = AtLeast(kept[req[p].key], req[p].sec + Half - Patience)
        OBVIOUS
      <3>4. m \in Nat
        BY <1>0, <3>1, <3>3, AtLeastType
      <3>5. kept' = kept \/ kept' = [kept EXCEPT ![req[p].key] = m]
        BY <1>0, <2>7, <3>1, <3>3 DEF Set
      <3>6. kept' \in [Key -> Nat]
        BY <1>0, <3>4, <3>5
      <3>7. buf' \in [Bufs -> SUBSET (0 .. Bits - 1)]
        BY <1>0, <2>7, <3>1, <3>2 DEF Set
      <3>8. age' \in [Key -> 0 .. 3]
        BY <1>0, <2>7, <3>1 DEF Set
      <3>9. UNCHANGED <<clock, served, crashes, due, active>>
        BY <2>7 DEF Set
      <3> QED
        BY <1>0, <3>6, <3>7, <3>8, <3>9
    <2> QED
      BY <1>2, <2>3, <2>4, <2>5, <2>6, <2>7 DEF Serve
  <1>3. CASE UNCHANGED vars
    BY <1>0, <1>3 DEF vars, history, TypeOK, Fits
  <1> QED
    BY <1>1, <1>2, <1>3 DEF Next

\* Every variable stays in its range, for any number of requests, addresses
\* and bits.
THEOREM BloomTypeCorrect == Spec => []TypeOK
  <1>1. Init => TypeOK
    BY HalfType, IdleType, BloomAssumption DEF Init, TypeOK, Bufs, Steps, Rotating
  <1>2. TypeOK /\ [Next]_vars => TypeOK'
    BY TypePreserved
  <1> QED
    BY <1>1, <1>2, PTL DEF Spec

(***************************************************************************)
(* One rotation at a time                                                  *)
(***************************************************************************)

\* What TimeInv says of a record x, at time c with due time d and buffer a
\* active.
TimeOf(x, d, a, c) ==
    /\ x.pc \in Rotating \cup {"pick", "set"} => x.sec <= c
    /\ x.pc \in Rotating => c <= x.sec + Patience
    /\ x.pc = "swap" => x.due <= x.sec /\ x.due <= d
    /\ x.pc = "swap" /\ x.due # d => x.sec <= d + Patience
    /\ x.pc = "pick" => x.sec <= d + Patience
    /\ x.pc \in {"turn", "clear"} => d = x.sec + Half
    /\ x.pc = "clear" => x.at = 1 - a

\* A step of one request that changes neither the due time nor the active
\* buffer.
LEMMA QuietTime ==
    ASSUME TypeOK, TimeInv, OneTurns, NEW p \in Requests, NEW x, Becomes(p, x),
           UNCHANGED <<clock, due, active>>,
           TimeOf(x, due, active, clock), x.pc \in {"turn", "clear"} => Turns(p)
    PROVE  TimeInv' /\ OneTurns'
  <1>1. /\ req'[p] = x
        /\ \A q \in Requests : q # p => req'[q] = req[q]
    BY Replaced DEF TypeOK
  <1>2. \A q \in Requests : TimeOf(req[q], due, active, clock)
    BY DEF TimeInv, TimeOf, Turns
  <1>3. \A q \in Requests : TimeOf(req'[q], due, active, clock)
    BY <1>1, <1>2
  <1>4. TimeInv'
    BY <1>3 DEF TimeInv, TimeOf, Turns
  <1>5. \A q \in Requests : Turns(q)' => Turns(q)
    BY <1>1 DEF Turns
  <1> QED
    BY <1>4, <1>5 DEF OneTurns

\* The numbers in the record of a request.
LEMMA RequestNumbers ==
    ASSUME TypeOK, NEW p \in Requests
    PROVE  /\ req[p].sec \in Nat /\ req[p].due \in Nat /\ req[p].promised \in Nat
           /\ req[p].i \in Nat /\ req[p].at \in Bufs /\ req[p].whole \in SUBSET Bufs
           /\ clock \in Nat /\ due \in Nat /\ active \in Bufs
           /\ buf \in [Bufs -> SUBSET (0 .. Bits - 1)] /\ kept \in [Key -> Nat]
  <1>1. req[p] \in Request
    BY DEF TypeOK
  <1> QED
    BY <1>1 DEF TypeOK, Request

\* Who swaps the due time is alone: a rotation under way has set a due time
\* that no clock reading of the patience reaches.
LEMMA SwapAlone ==
    ASSUME TypeOK, TimeInv, NEW p \in Requests, req[p].pc = "swap",
           due = req[p].due
    PROVE  ~ Turning /\ due <= clock
  <1>1. due <= req[p].sec /\ req[p].sec <= clock
    BY DEF TimeInv, Rotating
  <1>2. ASSUME NEW q \in Requests, Turns(q) PROVE FALSE
    <2>1. due = req[q].sec + Half /\ clock <= req[q].sec + Patience
      BY <1>2 DEF TimeInv, Turns, Rotating
    <2> QED
      BY <1>1, <2>1, HalfType, RequestNumbers
  <1> QED
    BY <1>1, <1>2, RequestNumbers DEF Turning

\* Every step keeps rotations apart.
LEMMA TimePreserved ==
    ASSUME TypeOK, TimeInv, OneTurns, [Next]_vars
    PROVE  TimeInv' /\ OneTurns'
  <1>0. \A q \in Requests : TimeOf(req[q], due, active, clock)
    BY DEF TimeInv, TimeOf, Turns
  <1>1. CASE Tick
    <2>1. clock' = clock + 1 /\ due' = due /\ active' = active /\ req' = req
      BY <1>1 DEF Tick
    <2>2. ASSUME NEW q \in Requests PROVE TimeOf(req[q], due, active, clock + 1)
      <3>1. req[q].pc \in Rotating => clock + 1 <= req[q].sec + Patience
        BY <1>1 DEF Tick
      <3> QED
        BY <1>0, <3>1, RequestNumbers DEF TimeOf
    <2>3. TimeInv'
      BY <2>1, <2>2 DEF TimeInv, TimeOf, Turns
    <2> QED
      BY <2>1, <2>3 DEF OneTurns, Turns
  <1>2. ASSUME NEW p \in Requests, Serve(p) PROVE TimeInv' /\ OneTurns'
    <2>0. /\ TimeOf(req[p], due, active, clock)
          /\ req[p].sec \in Nat /\ clock \in Nat /\ due \in Nat /\ active \in Bufs
          /\ Half \in Nat /\ Patience \in Nat /\ Patience < Half
      BY <1>0, RequestNumbers, HalfType
    <2>1. CASE Ask(p)
      <3>1. PICK x : Becomes(p, x) /\ x.pc = "query"
        BY <2>1, AskStep
      <3>2. TimeOf(x, due, active, clock)
        BY <3>1 DEF TimeOf, Rotating
      <3> QED
        BY <2>1, <3>1, <3>2, QuietTime DEF Ask
    <2>2. CASE Query(p)
      <3>1. PICK x : Becomes(p, x) /\ x.pc \in {"query", "new", "seen"}
        BY <2>2, QueryStep
      <3>2. TimeOf(x, due, active, clock)
        BY <3>1 DEF TimeOf, Rotating
      <3> QED
        BY <2>2, <3>1, <3>2, QuietTime DEF Query
    <2>3. CASE Add(p)
      <3>1. PICK x : Becomes(p, x) /\ x.pc = "check" /\ x.sec = clock
        BY <2>3, AddStep
      <3>2. TimeOf(x, due, active, clock)
        BY <2>0, <3>1 DEF TimeOf, Rotating
      <3> QED
        BY <2>3, <3>1, <3>2, QuietTime DEF Add
    <2>4. CASE Check(p)
      <3>1. PICK x : /\ Becomes(p, x) /\ x.sec = req[p].sec
                     /\ \/ x.pc = "pick" /\ req[p].sec < due
                        \/ x.pc = "swap" /\ x.due = due /\ ~ req[p].sec < due
        BY <2>4, CheckStep
      <3>2. TimeOf(x, due, active, clock)
        BY <2>0, <2>4, <3>1 DEF TimeOf, Rotating, Check
      <3> QED
        BY <2>4, <3>1, <3>2, QuietTime DEF Check
    <2>5. CASE Swap(p)
      <3>1. PICK x : /\ Becomes(p, x) /\ x.sec = req[p].sec
                     /\ \/ x.pc = "turn" /\ due = req[p].due /\ due' = req[p].sec + Half
                        \/ x.pc = "pick" /\ due # req[p].due /\ due' = due
        BY <2>5, SwapStep
      <3>2. req[p].pc = "swap" /\ clock' = clock /\ active' = active
        BY <2>5 DEF Swap
      <3>3. CASE due # req[p].due
        <4>1. x.pc = "pick" /\ due' = due
          BY <3>1, <3>3
        <4>2. TimeOf(x, due, active, clock)
          BY <2>0, <3>1, <3>2, <3>3, <4>1 DEF TimeOf, Rotating
        <4> QED
          BY <3>1, <3>2, <4>1, <4>2, QuietTime
      <3>4. CASE due = req[p].due
        <4>1. x.pc = "turn" /\ due' = req[p].sec + Half
          BY <3>1, <3>4
        <4>2. ~ Turning /\ due <= clock
          BY <3>2, <3>4, SwapAlone
        <4>3. /\ req'[p] = x
              /\ \A q \in Requests : q # p => req'[q] = req[q]
          BY <3>1, Replaced DEF TypeOK
        <4>4. TimeOf(x, due', active, clock)
          BY <2>0, <3>1, <3>2, <4>1 DEF TimeOf, Rotating
        <4>5. ASSUME NEW q \in Requests, q # p
              PROVE  TimeOf(req[q], due', active, clock)
          <5>1. TimeOf(req[q], due, active, clock) /\ ~ Turns(q)
            BY <1>0, <4>2 DEF Turning
          <5>2. due <= due' /\ clock <= due' + Patience
            BY <2>0, <3>2, <3>4, <4>1 DEF TimeOf, Rotating
          <5>3. req[q].sec \in Nat /\ req[q].due \in Nat /\ due' \in Nat
            BY <2>0, <4>1, RequestNumbers
          <5>4. clock \in Nat /\ due \in Nat /\ Patience \in Nat
            BY <2>0
          <5>5. req[q].pc # "turn" /\ req[q].pc # "clear"
            BY <5>1 DEF Turns
          <5>6. req[q].pc \in {"check", "swap", "pick", "set"} => req[q].sec <= clock
            BY <5>1 DEF TimeOf, Rotating
          <5>7. req[q].pc \in {"swap", "pick"} => req[q].sec <= due' + Patience
            BY <5>2, <5>3, <5>4, <5>6
          <5>8. req[q].pc = "swap" => req[q].due <= req[q].sec /\ req[q].due <= due'
            BY <5>1, <5>2, <5>3, <5>4 DEF TimeOf
          <5> QED
            BY <5>1, <5>5, <5>6, <5>7, <5>8 DEF TimeOf, Rotating
        <4>6. TimeInv'
          BY <3>2, <4>3, <4>4, <4>5 DEF TimeInv, TimeOf, Turns
        <4>7. \A q \in Requests : Turns(q)' => q = p
          BY <4>2, <4>3 DEF Turning, Turns
        <4> QED
          BY <4>6, <4>7 DEF OneTurns
      <3> QED
        BY <3>3, <3>4
    <2>6. CASE Turn(p)
      <3>1. PICK x : /\ Becomes(p, x) /\ x.sec = req[p].sec /\ x.pc = "clear"
                     /\ x.at = 1 - active
        BY <2>6, TurnStep
      <3>2. TimeOf(x, due, active, clock)
        BY <2>0, <2>6, <3>1 DEF TimeOf, Rotating, Turn
      <3> QED
        BY <2>6, <3>1, <3>2, QuietTime DEF Turn, Turns
    <2>7. CASE Clear(p)
      <3>1. PICK x : /\ Becomes(p, x) /\ x.sec = req[p].sec /\ x.pc = "clear"
                     /\ x.at = req[p].at
        BY <2>7, ClearStep
      <3>2. TimeOf(x, due, active, clock)
        BY <2>0, <2>7, <3>1 DEF TimeOf, Rotating, Clear
      <3> QED
        BY <2>7, <3>1, <3>2, QuietTime DEF Clear, Turns
    <2>8. CASE Flip(p)
      <3>1. PICK x : Becomes(p, x) /\ x.sec = req[p].sec /\ x.pc = "pick"
        BY <2>8, FlipStep
      <3>2. clock' = clock /\ due' = due /\ req[p].pc = "clear"
        BY <2>8 DEF Flip
      <3>3. /\ req'[p] = x
            /\ \A q \in Requests : q # p => req'[q] = req[q]
        BY <3>1, Replaced DEF TypeOK
      <3>4. \A q \in Requests : q # p => ~ Turns(q)
        BY <3>2 DEF OneTurns, Turns
      <3>5. TimeOf(x, due, active', clock)
        BY <2>0, <3>1, <3>2 DEF TimeOf, Rotating
      <3>6. \A q \in Requests : q # p => TimeOf(req[q], due, active', clock)
        BY <1>0, <3>4 DEF TimeOf, Turns
      <3>7. TimeInv'
        BY <3>2, <3>3, <3>5, <3>6 DEF TimeInv, TimeOf, Turns
      <3>8. \A q \in Requests : ~ Turns(q)'
        BY <3>1, <3>3, <3>4 DEF Turns
      <3> QED
        BY <3>7, <3>8 DEF OneTurns
    <2>9. CASE Pick(p)
      <3>1. PICK x : Becomes(p, x) /\ x.sec = req[p].sec /\ x.pc = "set"
        BY <2>9, PickStep
      <3>2. TimeOf(x, due, active, clock)
        BY <2>0, <2>9, <3>1 DEF TimeOf, Rotating, Pick
      <3> QED
        BY <2>9, <3>1, <3>2, QuietTime DEF Pick
    <2>10. CASE Set(p)
      <3>1. PICK x : Becomes(p, x) /\ \/ x.sec = req[p].sec /\ x.pc = "set"
                                      \/ x.pc = "idle"
        BY <2>10, SetStep
      <3>2. TimeOf(x, due, active, clock)
        BY <2>0, <2>10, <3>1 DEF TimeOf, Rotating, Set
      <3> QED
        BY <2>10, <3>1, <3>2, QuietTime DEF Set
    <2>11. CASE Crash(p)
      <3>1. PICK x : Becomes(p, x) /\ x.pc = "idle"
        BY <2>11, CrashStep
      <3>2. TimeOf(x, due, active, clock)
        BY <3>1 DEF TimeOf, Rotating
      <3> QED
        BY <2>11, <3>1, <3>2, QuietTime DEF Crash
    <2> QED
      BY <1>2, <2>1, <2>2, <2>3, <2>4, <2>5, <2>6, <2>7, <2>8, <2>9, <2>10, <2>11
      DEF Serve
  <1>3. CASE UNCHANGED vars
    BY <1>3 DEF vars, history, TimeInv, OneTurns, Turns
  <1> QED
    BY <1>1, <1>2, <1>3 DEF Next

(***************************************************************************)
(* What a buffer holds for as long as it lives                             *)
(***************************************************************************)

\* A step that starts and ends no rotation.
LEMMA TurningKept ==
    ASSUME TypeOK, NEW p \in Requests, NEW x, Becomes(p, x),
           x.pc \in {"turn", "clear"} <=> Turns(p)
    PROVE  Turning' <=> Turning
  <1>1. /\ req'[p] = x
        /\ \A q \in Requests : q # p => req'[q] = req[q]
    BY Replaced DEF TypeOK
  <1>2. \A q \in Requests : Turns(q)' <=> Turns(q)
    BY <1>1 DEF Turns
  <1> QED
    BY <1>2 DEF Turning

\* Until the end of its life a buffer loses no bit, and its life is not cut
\* short.
LEMMA LifeStep ==
    ASSUME TypeOK, TimeInv, OneTurns, [Next]_vars, NEW b \in Bufs, NEW t \in Int,
           t <= Life(b), ~ t <= clock'
    PROVE  t <= Life(b)' /\ buf[b] \subseteq buf'[b] /\ ~ t <= clock
  <1>0. /\ clock \in Nat /\ due \in Nat /\ active \in Bufs
        /\ buf \in [Bufs -> SUBSET (0 .. Bits - 1)]
        /\ Half \in Nat /\ Patience \in Nat /\ Patience < Half
    BY HalfType DEF TypeOK
  <1> DEFINE Goal == t <= Life(b)' /\ buf[b] \subseteq buf'[b] /\ ~ t <= clock
  <1>a. ASSUME Turning' <=> Turning, UNCHANGED <<clock, due, active>>,
               buf[b] \subseteq buf'[b]
        PROVE  Goal
    BY <1>a DEF Life
  <1>1. CASE Tick
    <2>1. clock' = clock + 1 /\ UNCHANGED <<due, active, buf, req>>
      BY <1>1 DEF Tick
    <2>2. Life(b)' = Life(b)
      BY <2>1 DEF Life, Turning, Turns
    <2> QED
      BY <1>0, <2>1, <2>2
  <1>2. ASSUME NEW p \in Requests, Serve(p) PROVE Goal
    <2>1. CASE Ask(p)
      <3>1. PICK x : Becomes(p, x) /\ x.pc = "query"
        BY <2>1, AskStep
      <3>2. ~ Turns(p)
        BY <2>1 DEF Ask, Free, Turns
      <3> QED
        BY <1>a, <2>1, <3>1, <3>2, TurningKept DEF Ask
    <2>2. CASE Query(p)
      <3>1. PICK x : Becomes(p, x) /\ x.pc \in {"query", "new", "seen"}
        BY <2>2, QueryStep
      <3>2. ~ Turns(p)
        BY <2>2 DEF Query, Turns
      <3> QED
        BY <1>a, <2>2, <3>1, <3>2, TurningKept DEF Query
    <2>3. CASE Add(p)
      <3>1. PICK x : Becomes(p, x) /\ x.pc = "check"
        BY <2>3, AddStep
      <3>2. ~ Turns(p)
        BY <2>3 DEF Add, Free, Turns
      <3> QED
        BY <1>a, <2>3, <3>1, <3>2, TurningKept DEF Add
    <2>4. CASE Check(p)
      <3>1. PICK x : Becomes(p, x) /\ x.pc \in {"pick", "swap"}
        BY <2>4, CheckStep
      <3>2. ~ Turns(p)
        BY <2>4 DEF Check, Turns
      <3> QED
        BY <1>a, <2>4, <3>1, <3>2, TurningKept DEF Check
    <2>5. CASE Swap(p)
      <3>1. PICK x : /\ Becomes(p, x)
                     /\ \/ x.pc = "turn" /\ due = req[p].due /\ due' = req[p].sec + Half
                        \/ x.pc = "pick" /\ due # req[p].due /\ due' = due
        BY <2>5, SwapStep
      <3>2. req[p].pc = "swap" /\ UNCHANGED <<clock, active, buf>>
        BY <2>5 DEF Swap
      <3>3. CASE due # req[p].due
        BY <1>a, <3>1, <3>2, <3>3, TurningKept DEF Turns
      <3>4. CASE due = req[p].due
        <4>1. ~ Turning /\ due <= clock
          BY <3>2, <3>4, SwapAlone
        <4>2. Turning'
          BY <3>1, <3>4, Replaced DEF Turning, Turns, TypeOK
        <4>3. due <= req[p].sec /\ req[p].sec \in Nat /\ due' = req[p].sec + Half
          BY <3>1, <3>2, <3>4, RequestNumbers DEF TimeInv
        <4>4. b = active
          BY <1>0, <3>2, <4>1 DEF Life
        <4>5. Life(b) = due + Half /\ Life(b)' = due'
          BY <3>2, <4>1, <4>2, <4>4 DEF Life
        <4> QED
          BY <1>0, <3>2, <4>3, <4>5
      <3> QED
        BY <3>3, <3>4
    <2>6. CASE Turn(p)
      <3>1. PICK x : Becomes(p, x) /\ x.pc = "clear"
        BY <2>6, TurnStep
      <3>2. Turns(p)
        BY <2>6 DEF Turn, Turns
      <3> QED
        BY <1>a, <2>6, <3>1, <3>2, TurningKept DEF Turn
    <2>7. CASE Clear(p)
      <3>1. PICK x : Becomes(p, x) /\ x.pc = "clear"
        BY <2>7, ClearStep
      <3>2. Turns(p) /\ req[p].pc = "clear" /\ UNCHANGED <<clock, due, active>>
        BY <2>7 DEF Clear, Turns
      <3>3. Turning /\ req[p].at = 1 - active
        BY <3>2 DEF Turning, TimeInv
      <3>4. b = active
        BY <1>0, <3>2, <3>3 DEF Life
      <3>5. b # req[p].at
        BY <1>0, <3>3, <3>4 DEF Bufs
      <3>6. buf'[b] = buf[b]
        BY <1>0, <2>7, <3>5 DEF Clear
      <3> QED
        BY <1>a, <3>1, <3>2, <3>6, TurningKept
    <2>8. CASE Flip(p)
      <3>1. PICK x : Becomes(p, x) /\ x.pc = "pick"
        BY <2>8, FlipStep
      <3>2. /\ req[p].pc = "clear" /\ UNCHANGED <<clock, due, buf>>
            /\ active' = req[p].at
        BY <2>8 DEF Flip
      <3>3. Turning /\ active' = 1 - active
        BY <3>2 DEF Turning, Turns, TimeInv
      <3>4. /\ req'[p] = x
            /\ \A q \in Requests : q # p => req'[q] = req[q]
        BY <3>1, Replaced DEF TypeOK
      <3>5. \A q \in Requests : ~ Turns(q)'
        BY <3>1, <3>2, <3>4 DEF OneTurns, Turns
      <3>6. ~ Turning'
        BY <3>5 DEF Turning
      <3>7. b = active
        BY <1>0, <3>2, <3>3 DEF Life
      <3>8. Life(b) = due /\ Life(b)' = due
        BY <1>0, <3>2, <3>3, <3>6, <3>7 DEF Life, Bufs
      <3> QED
        BY <3>2, <3>8
    <2>9. CASE Pick(p)
      <3>1. PICK x : Becomes(p, x) /\ x.pc = "set"
        BY <2>9, PickStep
      <3>2. ~ Turns(p)
        BY <2>9 DEF Pick, Turns
      <3> QED
        BY <1>a, <2>9, <3>1, <3>2, TurningKept DEF Pick
    <2>10. CASE Set(p)
      <3>1. PICK x : Becomes(p, x) /\ x.pc \in {"set", "idle"}
        BY <2>10, SetStep
      <3>2. ~ Turns(p) /\ UNCHANGED <<clock, due, active>>
        BY <2>10 DEF Set, Turns
      <3>3. buf[b] \subseteq buf'[b]
        BY <1>0, <2>10 DEF Set
      <3> QED
        BY <1>a, <3>1, <3>2, <3>3, TurningKept
    <2>11. CASE Crash(p)
      <3>1. PICK x : Becomes(p, x) /\ x.pc = "idle"
        BY <2>11, CrashStep
      <3>2. UNCHANGED <<clock, due, active, buf>>
        BY <2>11 DEF Crash
      <3>3. /\ req'[p] = x
            /\ \A q \in Requests : q # p => req'[q] = req[q]
        BY <3>1, Replaced DEF TypeOK
      <3>4. Turning' => Turning
        BY <3>1, <3>3 DEF Turning, Turns
      <3>5. Life(b) <= Life(b)'
        BY <1>0, <3>2, <3>4 DEF Life
      <3>6. Life(b) \in Nat /\ Life(b)' \in Nat
        BY <1>0, <3>2 DEF Life
      <3> QED
        BY <3>2, <3>5, <3>6
    <2> QED
      BY <1>2, <2>1, <2>2, <2>3, <2>4, <2>5, <2>6, <2>7, <2>8, <2>9, <2>10, <2>11
      DEF Serve
  <1>3. CASE UNCHANGED vars
    BY <1>3, <1>a DEF vars, history, Turning, Turns
  <1> QED
    BY <1>1, <1>2, <1>3 DEF Next

\* The clock never goes back.
LEMMA ClockGrows ==
    ASSUME TypeOK, [Next]_vars
    PROVE  clock \in Nat /\ clock' \in Nat /\ clock <= clock'
  <1>1. clock \in Nat
    BY DEF TypeOK
  <1>2. clock' = clock \/ clock' = clock + 1
    BY DEF Next, Tick, Serve, Ask, Query, Add, Check, Swap, Turn, Clear, Flip,
           Pick, Set, Crash, vars
  <1> QED
    BY <1>1, <1>2

\* Bits that a buffer holds are there in the next state, unless their time is
\* over.
LEMMA BitsStay ==
    ASSUME TypeOK, TimeInv, OneTurns, [Next]_vars, NEW b \in Bufs, NEW t \in Int,
           NEW S, t <= clock \/ (t <= Life(b) /\ S \subseteq buf[b])
    PROVE  t <= clock' \/ (t <= Life(b)' /\ S \subseteq buf'[b])
  <1>1. CASE t <= clock
    BY <1>1, ClockGrows
  <1>2. CASE ~ t <= clock /\ ~ t <= clock'
    BY <1>2, LifeStep
  <1> QED
    BY <1>1, <1>2

(***************************************************************************)
(* What adds, addresses and questions may count on.  The same three        *)
(* invariants for one record, or one address and time.                     *)
(***************************************************************************)

BitsBelow(k, n) == {Index[k][j] : j \in 1 .. n - 1}

AddOf(x) ==
    x.pc = "set" =>
        \/ x.sec + Half - Patience <= clock
        \/ /\ x.sec + Half - Patience <= Life(x.at)
           /\ BitsBelow(x.key, x.i) \subseteq buf[x.at]

KeptOf(k, t) == t <= clock \/ \E b \in Bufs : t <= Life(b) /\ BitsOf(k) \subseteq buf[b]

AskOf(x) ==
    x.pc = "query" =>
        \/ x.promised <= clock
        \/ \E b \in x.whole : x.promised <= Life(b) /\ BitsOf(x.key) \subseteq buf[b]

\* These are the invariants.
LEMMA AddMeans == AddInv <=> \A p \in Requests : AddOf(req[p])
  BY DEF AddInv, AddOf, BitsBelow, Until
\* The invariants said one key and one query at a time.
LEMMA KeptMeans == KeptInv <=> \A k \in Key : KeptOf(k, kept[k])
  BY DEF KeptInv, KeptOf, BitsOf, Holds
\* The same of the queries.
LEMMA AskMeans == AskInv <=> \A p \in Requests : AskOf(req[p])
  BY DEF AskInv, AskOf, BitsOf, Holds

\* No step takes from an add what it counts on.
LEMMA AddOfStays ==
    ASSUME TypeOK, TimeInv, OneTurns, [Next]_vars, NEW x \in Request, AddOf(x)
    PROVE  AddOf(x)'
  <1>1. PICK t \in Int : t = x.sec + Half - Patience
    BY HalfType DEF Request
  <1>2. x.at \in Bufs
    BY DEF Request
  <1> QED
    BY <1>1, <1>2, BitsStay DEF AddOf

\* Nor from an address that is kept.
LEMMA KeptOfStays ==
    ASSUME TypeOK, TimeInv, OneTurns, [Next]_vars, NEW k \in Key, NEW t \in Int,
           KeptOf(k, t)
    PROVE  KeptOf(k, t)'
  <1>1. PICK b \in Bufs : t <= clock \/ (t <= Life(b) /\ BitsOf(k) \subseteq buf[b])
    BY DEF KeptOf, Bufs
  <1>2. t <= clock' \/ (t <= Life(b)' /\ BitsOf(k) \subseteq buf'[b])
    BY <1>1, BitsStay
  <1> QED
    BY <1>2 DEF KeptOf

\* Nor from a question.
LEMMA AskOfStays ==
    ASSUME TypeOK, TimeInv, OneTurns, [Next]_vars, NEW x \in Request, AskOf(x)
    PROVE  AskOf(x)'
  <1>0. x.promised \in Int /\ x.whole \subseteq Bufs
    BY DEF Request
  <1>1. CASE x.pc = "query" /\ x.promised <= clock
    BY <1>0, <1>1, ClockGrows DEF AskOf
  <1>2. CASE x.pc = "query" /\ ~ x.promised <= clock
    <2>1. PICK b \in x.whole : x.promised <= Life(b) /\ BitsOf(x.key) \subseteq buf[b]
      BY <1>2 DEF AskOf
    <2>2. b \in Bufs
      BY <1>0, <2>1
    <2>3. \/ x.promised <= clock'
          \/ x.promised <= Life(b)' /\ BitsOf(x.key) \subseteq buf'[b]
      BY <1>0, <2>1, <2>2, BitsStay
    <2> QED
      BY <2>1, <2>3 DEF AskOf
  <1> QED
    BY <1>1, <1>2 DEF AskOf

\* The bits below the next one.
LEMMA OneMoreBit ==
    ASSUME NEW k, NEW n \in Nat \ {0}
    PROVE  BitsBelow(k, n + 1) = BitsBelow(k, n) \cup {Index[k][n]}
  BY DEF BitsBelow

\* An add that picks the active buffer counts on a life long enough.
LEMMA PickLife ==
    ASSUME TypeOK, TimeInv, NEW p \in Requests, req[p].pc = "pick"
    PROVE  req[p].sec + Half - Patience <= Life(active)
  <1>0. /\ req[p].sec \in Nat /\ clock \in Nat /\ due \in Nat
        /\ Half \in Nat /\ Patience \in Nat /\ Patience < Half
    BY RequestNumbers, HalfType
  <1>1. req[p].sec <= due + Patience /\ req[p].sec <= clock
    BY DEF TimeInv
  <1>2. CASE Turning
    <2>1. PICK q \in Requests : Turns(q)
      BY <1>2 DEF Turning
    <2>2. due = req[q].sec + Half /\ clock <= req[q].sec + Patience
          /\ req[q].sec \in Nat
      BY <2>1, RequestNumbers DEF TimeInv, Turns, Rotating
    <2>3. Life(active) = due
      BY <1>2 DEF Life
    <2> QED
      BY <1>0, <1>1, <2>2, <2>3
  <1>3. CASE ~ Turning
    <2>1. Life(active) = due + Half
      BY <1>3 DEF Life
    <2> QED
      BY <1>0, <1>1, <2>1
  <1> QED
    BY <1>2, <1>3

\* After a bit is set, the add counts on one bit more.
LEMMA OneMoreSet ==
    ASSUME TypeOK, TimeInv, OneTurns, [Next]_vars, NEW p \in Requests, Set(p),
           NEW r, r = req[p], AddOf(r)
    PROVE  \/ r.sec + Half - Patience <= clock'
           \/ /\ r.sec + Half - Patience <= Life(r.at)'
              /\ BitsBelow(r.key, r.i + 1) \subseteq buf'[r.at]
  <1>0. r \in Request /\ r.pc = "set"
    BY DEF TypeOK, Set
  <1>a. r.i \in 1 .. K /\ K \in Nat
    BY <1>0, BloomAssumption DEF TypeOK
  <1>1. r \in Request /\ r.pc = "set" /\ r.i \in Nat \ {0} /\ r.at \in Bufs
    BY <1>0, <1>a DEF Request
  <1>2. AddOf(r)'
    BY <1>1, AddOfStays
  <1>3. Index[r.key][r.i] \in buf'[r.at]
    BY <1>1 DEF Set, Bit, TypeOK
  <1>4. BitsBelow(r.key, r.i + 1) = BitsBelow(r.key, r.i) \cup {Index[r.key][r.i]}
    BY <1>1, OneMoreBit
  <1> QED
    BY <1>1, <1>2, <1>3, <1>4 DEF AddOf

(***************************************************************************)
(* An address that is kept is found                                        *)
(***************************************************************************)

\* A step of one request leaves the others with what they count on.
LEMMA AddReplaced ==
    ASSUME TypeOK, TimeInv, OneTurns, AddInv, [Next]_vars, NEW p \in Requests,
           NEW x, Becomes(p, x), AddOf(x)'
    PROVE  AddInv'
  <1>1. \A q \in Requests : req[q] \in Request /\ AddOf(req[q])
    BY AddMeans DEF TypeOK
  <1>2. ASSUME NEW q \in Requests, q # p, NEW y, y = req[q]
        PROVE  req'[q] = y /\ AddOf(y)'
    <2>1. y \in Request /\ AddOf(y)
      BY <1>1, <1>2
    <2>2. req'[q] = y
      BY <1>2, Replaced DEF TypeOK
    <2> QED
      BY <2>1, <2>2, AddOfStays
  <1>3. req'[p] = x
    BY Replaced DEF TypeOK
  <1>4. ASSUME NEW q \in Requests PROVE AddOf(req[q])'
    <2>1. CASE q = p
      BY <1>3, <2>1 DEF AddOf
    <2>2. CASE q # p
      BY <1>2, <2>2 DEF AddOf
    <2> QED
      BY <2>1, <2>2
  <1> QED
    BY <1>4 DEF AddInv, AddOf, BitsBelow, Until

\* The same of questions.
LEMMA AskReplaced ==
    ASSUME TypeOK, TimeInv, OneTurns, AskInv, [Next]_vars, NEW p \in Requests,
           NEW x, Becomes(p, x), AskOf(x)'
    PROVE  AskInv'
  <1>1. \A q \in Requests : req[q] \in Request /\ AskOf(req[q])
    BY AskMeans DEF TypeOK
  <1>2. ASSUME NEW q \in Requests, q # p, NEW y, y = req[q]
        PROVE  req'[q] = y /\ AskOf(y)'
    <2>1. y \in Request /\ AskOf(y)
      BY <1>1, <1>2
    <2>2. req'[q] = y
      BY <1>2, Replaced DEF TypeOK
    <2> QED
      BY <2>1, <2>2, AskOfStays
  <1>3. req'[p] = x
    BY Replaced DEF TypeOK
  <1>4. ASSUME NEW q \in Requests PROVE AskOf(req[q])'
    <2>1. CASE q = p
      BY <1>3, <2>1 DEF AskOf
    <2>2. CASE q # p
      BY <1>2, <2>2 DEF AskOf
    <2> QED
      BY <2>1, <2>2
  <1> QED
    BY <1>4 DEF AskInv, AskOf, BitsOf, Holds

\* Without a step of a request nothing is counted on that was not before.
LEMMA NothingAsked ==
    ASSUME TypeOK, TimeInv, OneTurns, AddInv, AskInv, [Next]_vars, UNCHANGED req
    PROVE  AddInv' /\ AskInv'
  <1>1. ASSUME NEW q \in Requests, NEW y, y = req[q]
        PROVE  AddOf(y)' /\ AskOf(y)'
    <2>1. y \in Request /\ AddOf(y) /\ AskOf(y)
      BY <1>1, AddMeans, AskMeans DEF TypeOK
    <2> QED
      BY <2>1, AddOfStays, AskOfStays
  <1>2. ASSUME NEW q \in Requests PROVE AddOf(req[q])' /\ AskOf(req[q])'
    BY <1>1 DEF AddOf, AskOf
  <1> QED
    BY <1>2 DEF AddInv, AddOf, BitsBelow, Until, AskInv, AskOf, BitsOf, Holds

\* A record that neither adds nor asks counts on nothing.
LEMMA CountsOnNothing ==
    ASSUME NEW x
    PROVE  /\ x.pc # "set" => AddOf(x)'
           /\ x.pc # "query" => AskOf(x)'
  BY DEF AddOf, AskOf

\* Every step keeps what adds count on.
LEMMA AddPreserved ==
    ASSUME TypeOK, TimeInv, OneTurns, AddInv, AskInv, [Next]_vars
    PROVE  AddInv'
  <1>1. CASE Tick \/ UNCHANGED vars
    <2>1. UNCHANGED req
      BY <1>1 DEF Tick, vars
    <2> QED
      BY <2>1, NothingAsked
  <1>2. ASSUME NEW p \in Requests, Serve(p) PROVE AddInv'
    <2>a. ASSUME NEW x, Becomes(p, x), x.pc # "set" PROVE AddInv'
      BY <2>a, CountsOnNothing, AddReplaced
    <2>1. CASE Pick(p)
      <3>1. PICK x : /\ Becomes(p, x) /\ x.key = req[p].key /\ x.sec = req[p].sec
                     /\ x.pc = "set" /\ x.at = active /\ x.i = 1
        BY <2>1, PickStep
      <3>2. x.sec + Half - Patience <= Life(active)
        BY <2>1, <3>1, PickLife DEF Pick
      <3>3. BitsBelow(x.key, x.i) = {}
        BY <3>1 DEF BitsBelow
      <3>4. AddOf(x)
        BY <3>1, <3>2, <3>3 DEF AddOf
      <3> QED
        BY <3>1, <3>4, AddOfStays, AddReplaced DEF Becomes
    <2>2. CASE Set(p)
      <3>1. PICK r : r = req[p]
        OBVIOUS
      <3>2. AddOf(r)
        BY <3>1, AddMeans
      <3>3. \/ r.sec + Half - Patience <= clock'
            \/ /\ r.sec + Half - Patience <= Life(r.at)'
               /\ BitsBelow(r.key, r.i + 1) \subseteq buf'[r.at]
        BY <2>2, <3>1, <3>2, OneMoreSet
      <3>4. PICK x : /\ Becomes(p, x)
                     /\ \/ /\ x.key = r.key /\ x.sec = r.sec
                           /\ x.pc = "set" /\ x.at = r.at /\ x.i = r.i + 1
                        \/ x.pc = "idle"
        BY <2>2, <3>1, SetStep
      <3>5. CASE x.pc = "set"
        <4>1. AddOf(x)'
          BY <3>3, <3>4, <3>5 DEF AddOf, BitsBelow
        <4> QED
          BY <3>4, <4>1, AddReplaced
      <3> QED
        BY <2>a, <3>4, <3>5
    <2>3. CASE ~ Pick(p) /\ ~ Set(p)
      <3>1. PICK x : Becomes(p, x) /\ x.pc # "set"
        BY <1>2, <2>3, AskStep, QueryStep, AddStep, CheckStep, SwapStep, TurnStep,
           ClearStep, FlipStep, CrashStep DEF Serve
      <3> QED
        BY <2>a, <3>1
    <2> QED
      BY <2>1, <2>2, <2>3
  <1> QED
    BY <1>1, <1>2 DEF Next

\* When its last bit is set, an address is kept for as long as is promised.
LEMMA SetKeeps ==
    ASSUME TypeOK, TimeInv, OneTurns, AddInv, KeptInv, [Next]_vars,
           NEW p \in Requests, Set(p), NEW k \in Key
    PROVE  KeptOf(k, kept[k])'
  <1>1. kept \in [Key -> Nat] /\ KeptOf(k, kept[k])
    BY KeptMeans DEF TypeOK
  <1>2. PICK m \in Nat : m = kept[k]
    BY <1>1
  <1>3. KeptOf(k, m)'
    BY <1>1, <1>2, KeptOfStays
  <1>4. CASE kept'[k] = kept[k]
    BY <1>2, <1>3, <1>4 DEF KeptOf
  <1>5. CASE kept'[k] # kept[k]
    <2>1. PICK r : r = req[p]
      OBVIOUS
    <2>2. /\ ~ r.i < K /\ r.key \in Key /\ r.i \in 1 .. K /\ r.at \in Bufs
          /\ kept' = [kept EXCEPT ![r.key] = AtLeast(@, r.sec + Half - Patience)]
      <3>1. r \in Request /\ r.pc = "set" /\ r.key \in Key /\ r.i \in 1 .. K
        BY <2>1 DEF TypeOK, Set, Steps
      <3>2. \/ r.i < K /\ kept' = kept
            \/ /\ ~ r.i < K
               /\ kept' = [kept EXCEPT ![r.key] = AtLeast(@, r.sec + Half - Patience)]
        BY <2>1, SetStep
      <3> QED
        BY <1>5, <3>1, <3>2 DEF Request
    <2>3. AddOf(r)
      BY <2>1, AddMeans
    <2>4. \/ r.sec + Half - Patience <= clock'
          \/ /\ r.sec + Half - Patience <= Life(r.at)'
             /\ BitsBelow(r.key, r.i + 1) \subseteq buf'[r.at]
      BY <2>1, <2>3, OneMoreSet
    <2>5. k = r.key /\ kept'[k] = r.sec + Half - Patience
      BY <1>1, <1>5, <2>2 DEF AtLeast
    <2>6. BitsOf(k) = BitsBelow(r.key, r.i + 1)
      <3>1. K \in Nat /\ r.i = K
        BY <2>2, BloomAssumption
      <3>2. (r.i + 1) - 1 = K
        BY <3>1
      <3> QED
        BY <2>5, <3>2 DEF BitsOf, BitsBelow
    <2>7. r.at \in Bufs
      BY <2>2
    <2> QED
      BY <2>4, <2>5, <2>6, <2>7 DEF KeptOf
  <1> QED
    BY <1>4, <1>5

\* Every step keeps the addresses that have to be found.
LEMMA KeptPreserved ==
    ASSUME TypeOK, TimeInv, OneTurns, AddInv, KeptInv, [Next]_vars
    PROVE  KeptInv'
  <1>1. CASE \E p \in Requests : Set(p)
    <2>1. \A k \in Key : KeptOf(k, kept[k])'
      BY <1>1, SetKeeps
    <2> QED
      BY <2>1 DEF KeptOf, KeptInv, BitsOf, Holds
  <1>2. CASE ~ \E p \in Requests : Set(p)
    <2>1. UNCHANGED kept
      BY <1>2 DEF Next, Tick, Serve, Ask, Query, Add, Check, Swap, Turn, Clear,
                  Flip, Pick, Crash, vars, history
    <2>2. ASSUME NEW k \in Key PROVE KeptOf(k, kept[k])'
      <3>1. PICK m \in Nat : m = kept[k]
        BY DEF TypeOK
      <3>2. KeptOf(k, m)
        BY <3>1, KeptMeans
      <3> QED
        BY <2>1, <3>1, <3>2, KeptOfStays DEF KeptOf
    <2> QED
      BY <2>2 DEF KeptOf, KeptInv, BitsOf, Holds
  <1> QED
    BY <1>1, <1>2

\* The buffer that a question counts on is still one that may hold it all.
LEMMA QueryCounts ==
    ASSUME TypeOK, AskInv, NEW p \in Requests, Query(p)
    PROVE  \/ req[p].promised <= clock
           \/ \E b \in Whole(p) : /\ req[p].promised <= Life(b)
                                  /\ BitsOf(req[p].key) \subseteq buf[b]
  <1>1. AskOf(req[p]) /\ req[p].pc = "query"
    BY AskMeans DEF Query
  <1>2. CASE ~ req[p].promised <= clock
    <2>1. PICK b \in req[p].whole : /\ req[p].promised <= Life(b)
                                    /\ BitsOf(req[p].key) \subseteq buf[b]
      BY <1>1, <1>2 DEF AskOf
    <2>2. req[p].i \in 1 .. K
      BY <1>1 DEF TypeOK
    <2>3. Bit(p) \in buf[b]
      BY <2>1, <2>2 DEF Bit, BitsOf
    <2>4. b \in Whole(p)
      BY <2>1, <2>3 DEF Whole
    <2> QED
      BY <2>1, <2>4
  <1> QED
    BY <1>2

\* Every step keeps what questions count on.
LEMMA AskPreserved ==
    ASSUME TypeOK, TimeInv, OneTurns, AddInv, KeptInv, AskInv, [Next]_vars
    PROVE  AskInv'
  <1>1. CASE Tick \/ UNCHANGED vars
    <2>1. UNCHANGED req
      BY <1>1 DEF Tick, vars
    <2> QED
      BY <2>1, NothingAsked
  <1>2. ASSUME NEW p \in Requests, Serve(p) PROVE AskInv'
    <2>a. ASSUME NEW x, Becomes(p, x), x.pc # "query" PROVE AskInv'
      BY <2>a, CountsOnNothing, AskReplaced
    <2>b. ASSUME NEW x, Becomes(p, x), AskOf(x) PROVE AskInv'
      BY <2>b, AskOfStays, AskReplaced DEF Becomes
    <2>1. CASE Ask(p)
      <3>1. PICK x : /\ Becomes(p, x) /\ x.pc = "query" /\ x.key \in Key
                     /\ x.whole = Bufs /\ x.promised = kept[x.key]
        BY <2>1, AskStep
      <3>2. KeptOf(x.key, kept[x.key])
        BY <3>1, KeptMeans
      <3>3. AskOf(x)
        BY <3>1, <3>2 DEF KeptOf, AskOf
      <3> QED
        BY <2>b, <3>1, <3>3
    <2>2. CASE Query(p)
      <3>1. PICK x : /\ Becomes(p, x)
                     /\ \/ /\ x.pc = "query" /\ x.key = req[p].key
                           /\ x.whole = Whole(p) /\ x.promised = req[p].promised
                        \/ x.pc = "new"
                        \/ x.pc = "seen"
        BY <2>2, QueryStep
      <3>2. AskOf(x)
        BY <2>2, <3>1, QueryCounts DEF AskOf
      <3> QED
        BY <2>b, <3>1, <3>2
    <2>3. CASE ~ Ask(p) /\ ~ Query(p)
      <3>1. PICK x : Becomes(p, x) /\ x.pc # "query"
        BY <1>2, <2>3, AddStep, CheckStep, SwapStep, TurnStep, ClearStep, FlipStep,
           PickStep, SetStep, CrashStep DEF Serve
      <3> QED
        BY <2>a, <3>1
    <2> QED
      BY <2>1, <2>2, <2>3
  <1> QED
    BY <1>1, <1>2 DEF Next

\* The invariant holds in every state.
LEMMA KeepCorrect == Spec => [](TypeOK /\ KeepInv)
  <1>1. Init => KeepInv
    <2> SUFFICES ASSUME Init PROVE KeepInv
      OBVIOUS
    <2>1. \A p \in Requests : req[p].pc = "idle"
      BY DEF Init, Idle
    <2>2. TimeInv /\ OneTurns /\ AddInv /\ AskInv
      BY <2>1 DEF TimeInv, OneTurns, AddInv, AskInv, Turns, Rotating
    <2>3. KeptInv
      <3>1. \A k \in Key : kept[k] = 0 /\ clock \in Nat
        BY BloomAssumption DEF Init
      <3> QED
        BY <3>1 DEF KeptInv
    <2> QED
      BY <2>2, <2>3 DEF KeepInv
  <1>2. TypeOK /\ KeepInv /\ [Next]_vars => KeepInv'
    BY TimePreserved, AddPreserved, KeptPreserved, AskPreserved DEF KeepInv
  <1> QED
    BY <1>1, <1>2, BloomTypeCorrect, PTL DEF Spec

\* SeenWhileKept: whatever rotations, adds and questions overlap and whoever
\* dies, an address that bs_bloom_add has added is found by bs_bloom_seen for
\* half a window after the add read the clock, less what a rotation takes.
THEOREM AddedIsSeen == Spec => SeenWhileKept
  <1>1. ASSUME TypeOK, KeepInv, [Next]_vars, NEW p \in Requests,
               req[p].pc = "query", req'[p].pc = "new"
        PROVE  clock >= req[p].promised
    <2>1. Query(p)
      <3>1. req'[p] # req[p]
        BY <1>1
      <3>2. PICK q \in Requests : Serve(q)
        BY <1>1, <3>1 DEF Next, Tick, vars
      <3>3. PICK x : Becomes(q, x)
        BY <1>1, <3>2, AskStep, QueryStep, AddStep, CheckStep, SwapStep, TurnStep,
           ClearStep, FlipStep, PickStep, SetStep, CrashStep DEF Serve
      <3>4. q = p
        BY <1>1, <3>1, <3>3, Replaced DEF TypeOK
      <3>5. Query(p) \/ Crash(p)
        BY <1>1, <3>2, <3>4 DEF Serve, Ask, Add, Check, Swap, Turn, Clear, Flip,
                                Pick, Set, Free
      <3>6. ~ Crash(p)
        <4>1. ASSUME Crash(p) PROVE FALSE
          <5>1. PICK y : Becomes(p, y) /\ y.pc = "idle"
            BY <1>1, <4>1, CrashStep
          <5>2. req'[p] = y
            BY <1>1, <5>1, Replaced DEF TypeOK
          <5> QED
            BY <1>1, <5>1, <5>2
        <4> QED
          BY <4>1
      <3> QED
        BY <3>5, <3>6
    <2>2. PICK x : /\ Becomes(p, x)
                   /\ \/ x.pc = "query"
                      \/ x.pc = "new" /\ Whole(p) = {}
                      \/ x.pc = "seen"
      BY <1>1, <2>1, QueryStep
    <2>3. req'[p] = x
      BY <1>1, <2>2, Replaced DEF TypeOK
    <2>4. Whole(p) = {}
      BY <1>1, <2>2, <2>3
    <2>5. req[p].promised <= clock
      BY <1>1, <2>1, <2>4, QueryCounts DEF KeepInv
    <2> QED
      BY <1>1, <2>5, RequestNumbers
  <1>2. TypeOK /\ KeepInv /\ [Next]_vars
        => [\A p \in Requests : req[p].pc = "query" /\ req'[p].pc = "new"
                                => clock >= req[p].promised]_vars
    BY <1>1
  <1> QED
    BY <1>2, KeepCorrect, PTL DEF Spec, SeenWhileKept

(***************************************************************************)
(* The filter forgets                                                      *)
(***************************************************************************)

\* While no bit is set and no rotation ends, the recent bits are the same.
LEMMA SinceSame ==
    ASSUME age' = age, NEW n \in Nat
    PROVE  BitsSince(n)' = BitsSince(n)
  BY DEF BitsSince

\* An address that has a bit set has all its bits counted as recent, and no
\* other address loses its place.
LEMMA SinceSet ==
    ASSUME TypeOK, NEW k \in Key, age' = [age EXCEPT ![k] = 0], NEW n \in 1 .. 3
    PROVE  BitsSince(n) \subseteq BitsSince(n)' /\ BitsOf(k) \subseteq BitsSince(n)'
  <1>1. age \in [Key -> 0 .. 3]
    BY DEF TypeOK
  <1>2. \A j \in Key : age[j] < n => age'[j] < n
    BY <1>1
  <1>3. k \in Key /\ age'[k] < n
    BY <1>1
  <1> QED
    BY <1>2, <1>3 DEF BitsSince

\* The end of a rotation makes every address one rotation older.
LEMMA SinceFlip ==
    ASSUME TypeOK, age' = [k \in Key |-> IF age[k] < 3 THEN age[k] + 1 ELSE 3],
           NEW n \in {1, 2}
    PROVE  BitsSince(n) \subseteq BitsSince(n + 1)'
  <1>1. age \in [Key -> 0 .. 3]
    BY DEF TypeOK
  <1>2. \A j \in Key : age[j] < n => age'[j] < n + 1
    BY <1>1
  <1> QED
    BY <1>2 DEF BitsSince

\* A step that touches no buffer, no age and not the active one.
LEMMA QuietRecent ==
    ASSUME TypeOK, ClearInv, OnlyRecent, NEW p \in Requests, NEW x, Becomes(p, x),
           x.pc # "clear", UNCHANGED <<active, buf, age>>
    PROVE  ClearInv' /\ OnlyRecent'
  <1>1. \A q \in Requests : q # p => req'[q] = req[q]
    BY Replaced DEF TypeOK
  <1>2. req'[p] = x
    BY Replaced DEF TypeOK
  <1>3. BitsSince(1)' = BitsSince(1) /\ BitsSince(2)' = BitsSince(2)
        /\ BitsSince(3)' = BitsSince(3)
    BY SinceSame
  <1>4. OnlyRecent'
    BY <1>3 DEF OnlyRecent
  <1>5. ASSUME NEW q \in Requests, req'[q].pc = "clear", NEW n \in buf'[req'[q].at],
               n < req'[q].i
        PROVE  n \in BitsSince(1)'
    <2>1. q # p /\ req'[q] = req[q]
      BY <1>1, <1>2, <1>5
    <2> QED
      BY <1>3, <1>5, <2>1 DEF ClearInv
  <1> QED
    BY <1>4, <1>5 DEF ClearInv

\* What a rotation has cleared holds only what was set since.
LEMMA TurnRecent ==
    ASSUME TypeOK, TimeInv, OneTurns, ClearInv, OnlyRecent, NEW p \in Requests,
           Turn(p) \/ Clear(p)
    PROVE  ClearInv' /\ OnlyRecent'
  <1>0. /\ buf \in [Bufs -> SUBSET (0 .. Bits - 1)] /\ active \in Bufs
        /\ active' = active /\ age' = age
    BY DEF TypeOK, Turn, Clear, history
  <1>1. /\ BitsSince(1)' = BitsSince(1) /\ BitsSince(2)' = BitsSince(2)
        /\ BitsSince(3)' = BitsSince(3)
    BY <1>0, SinceSame
  <1>2. \A b \in Bufs : buf'[b] \subseteq buf[b]
    BY <1>0 DEF Turn, Clear
  <1>3. OnlyRecent'
    BY <1>0, <1>1, <1>2 DEF OnlyRecent
  <1>4. PICK x : Becomes(p, x) /\ x.pc = "clear"
                 /\ \/ Turn(p) /\ x.i = 0
                    \/ Clear(p) /\ x.at = req[p].at /\ x.i = req[p].i + 1
    BY TurnStep, ClearStep
  <1>5. /\ req'[p] = x
        /\ \A q \in Requests : q # p => req'[q] = req[q]
    BY <1>4, Replaced DEF TypeOK
  <1>6. Turns(p)
    BY DEF Turn, Clear, Turns
  <1>7. ASSUME NEW q \in Requests, req'[q].pc = "clear", NEW n \in buf'[req'[q].at],
               n < req'[q].i
        PROVE  n \in BitsSince(1)
    <2>1. q = p
      BY <1>5, <1>6, <1>7 DEF OneTurns, Turns
    <2>2. x \in Request /\ x.at \in Bufs
      BY <1>4 DEF Becomes, Request
    <2>3. n \in buf[x.at] /\ n \in buf'[x.at] /\ n < x.i /\ n \in 0 .. Bits - 1
      BY <1>0, <1>2, <1>5, <1>7, <2>1, <2>2
    <2>4. Clear(p) /\ x.at = req[p].at /\ x.i = req[p].i + 1 /\ req[p].i \in Nat
      BY <1>4, <2>3, RequestNumbers
    <2>5. n # req[p].i
      BY <1>0, <2>2, <2>3, <2>4 DEF Clear
    <2>6. n < req[p].i
      BY <2>3, <2>4, <2>5
    <2> QED
      BY <2>3, <2>4, <2>6 DEF ClearInv, Clear
  <1> QED
    BY <1>1, <1>3, <1>7 DEF ClearInv

\* The end of a rotation: the cleared buffer is the active one.
LEMMA FlipRecent ==
    ASSUME TypeOK, TimeInv, OneTurns, ClearInv, OnlyRecent, NEW p \in Requests,
           Flip(p)
    PROVE  ClearInv' /\ OnlyRecent'
  <1>1. /\ req[p].pc = "clear" /\ req[p].i = Bits /\ req[p].at = 1 - active
        /\ active \in Bufs /\ active' = 1 - active /\ buf' = buf
        /\ buf \in [Bufs -> SUBSET (0 .. Bits - 1)] /\ Bits \in Nat
    BY BloomAssumption DEF Flip, TimeInv, TypeOK
  <1>2. PICK x : Becomes(p, x) /\ x.pc = "pick"
    BY FlipStep
  <1>3. /\ req'[p] = x
        /\ \A q \in Requests : q # p => req'[q] = req[q]
    BY <1>2, Replaced DEF TypeOK
  <1>4. \A q \in Requests : req'[q].pc # "clear"
    BY <1>1, <1>2, <1>3 DEF OneTurns, Turns
  <1>5. BitsSince(1) \subseteq BitsSince(2)' /\ BitsSince(2) \subseteq BitsSince(3)'
    <2>1. age' = [k \in Key |-> IF age[k] < 3 THEN age[k] + 1 ELSE 3]
      BY DEF Flip
    <2>2. /\ BitsSince(1) \subseteq BitsSince(1 + 1)'
          /\ BitsSince(2) \subseteq BitsSince(2 + 1)'
      BY <2>1, SinceFlip
    <2> QED
      BY <2>2
  <1>6. 1 - active \in Bufs /\ 1 - active # active
    BY <1>1 DEF Bufs
  <1>7. buf[1 - active] \subseteq BitsSince(1)
    <2>1. \A n \in buf[1 - active] : n < Bits
      BY <1>1, <1>6
    <2> QED
      BY <1>1, <2>1 DEF ClearInv
  <1>8. buf[active] \subseteq BitsSince(2)
    BY <1>1 DEF OnlyRecent
  <1>9. \A b \in Bufs : b = active \/ b = 1 - active
    BY <1>1 DEF Bufs
  <1>10. OnlyRecent'
    BY <1>1, <1>5, <1>6, <1>7, <1>8, <1>9 DEF OnlyRecent
  <1> QED
    BY <1>4, <1>10 DEF ClearInv

\* A bit that is set is one of a recent address.
LEMMA SetRecent ==
    ASSUME TypeOK, ClearInv, OnlyRecent, NEW p \in Requests, Set(p)
    PROVE  ClearInv' /\ OnlyRecent'
  <1>0. /\ req[p].pc = "set" /\ req[p].key \in Key /\ req[p].i \in 1 .. K
        /\ active' = active /\ active \in Bufs
        /\ buf \in [Bufs -> SUBSET (0 .. Bits - 1)]
    BY DEF Set, TypeOK, Steps
  <1>1. PICK k \in Key : k = req[p].key
    BY <1>0
  <1>2. age' = [age EXCEPT ![k] = 0]
    BY <1>1 DEF Set
  <1>a. ASSUME NEW n \in 1 .. 3
        PROVE  BitsSince(n) \subseteq BitsSince(n)' /\ BitsOf(k) \subseteq BitsSince(n)'
    BY <1>2, SinceSet
  <1>3. /\ BitsSince(1) \subseteq BitsSince(1)' /\ BitsSince(2) \subseteq BitsSince(2)'
        /\ BitsSince(3) \subseteq BitsSince(3)'
        /\ BitsOf(k) \subseteq BitsSince(1)' /\ BitsOf(k) \subseteq BitsSince(2)'
        /\ BitsOf(k) \subseteq BitsSince(3)'
    BY <1>a
  <1>4. Bit(p) \in BitsOf(k)
    BY <1>0, <1>1 DEF Bit, BitsOf
  <1>5. ASSUME NEW b \in Bufs PROVE buf'[b] \subseteq buf[b] \cup {Bit(p)}
    BY <1>0 DEF Set
  <1>6. OnlyRecent'
    BY <1>0, <1>3, <1>4, <1>5 DEF OnlyRecent
  <1>7. PICK x : Becomes(p, x) /\ x.pc \in {"set", "idle"}
    BY SetStep
  <1>8. /\ req'[p] = x
        /\ \A q \in Requests : q # p => req'[q] = req[q]
    BY <1>7, Replaced DEF TypeOK
  <1>9. ASSUME NEW q \in Requests, req'[q].pc = "clear", NEW n \in buf'[req'[q].at],
               n < req'[q].i
        PROVE  n \in BitsSince(1)'
    <2>1. q # p /\ req'[q] = req[q]
      BY <1>7, <1>8, <1>9
    <2>2. req[q].at \in Bufs
      BY RequestNumbers
    <2>3. n = Bit(p) \/ n \in BitsSince(1)
      BY <1>5, <1>9, <2>1, <2>2 DEF ClearInv
    <2> QED
      BY <1>3, <1>4, <2>3
  <1> QED
    BY <1>6, <1>9 DEF ClearInv

\* OnlyRecent: whatever adds and rotations overlap and whoever dies, after
\* three rotations without an add of it bs_bloom_seen finds an address only if
\* other addresses have its bits.
THEOREM FilterForgets == Spec => []OnlyRecent
  <1>1. Init => ClearInv /\ OnlyRecent
    <2> SUFFICES ASSUME Init PROVE ClearInv /\ OnlyRecent
      OBVIOUS
    <2>1. \A p \in Requests : req[p].pc = "idle"
      BY DEF Init, Idle
    <2>2. \A b \in Bufs : buf[b] = {}
      BY DEF Init
    <2> QED
      BY <2>1, <2>2 DEF ClearInv, OnlyRecent
  <1>2. TypeOK /\ KeepInv /\ ClearInv /\ OnlyRecent /\ [Next]_vars
        => ClearInv' /\ OnlyRecent'
    <2> SUFFICES ASSUME TypeOK, KeepInv, ClearInv, OnlyRecent, [Next]_vars
                 PROVE  ClearInv' /\ OnlyRecent'
      OBVIOUS
    <2>0. TimeInv /\ OneTurns
      BY DEF KeepInv
    <2>1. CASE UNCHANGED <<active, buf, age, req>>
      <3>1. /\ BitsSince(1)' = BitsSince(1) /\ BitsSince(2)' = BitsSince(2)
            /\ BitsSince(3)' = BitsSince(3)
        BY <2>1, SinceSame
      <3> QED
        BY <2>1, <3>1 DEF ClearInv, OnlyRecent
    <2>2. ASSUME NEW p \in Requests, Serve(p) PROVE ClearInv' /\ OnlyRecent'
      <3>1. CASE Turn(p) \/ Clear(p)
        BY <2>0, <3>1, TurnRecent
      <3>2. CASE Flip(p)
        BY <2>0, <3>2, FlipRecent
      <3>3. CASE Set(p)
        BY <3>3, SetRecent
      <3>4. CASE ~ Turn(p) /\ ~ Clear(p) /\ ~ Flip(p) /\ ~ Set(p)
        <4>1. PICK x : Becomes(p, x) /\ x.pc # "clear"
          BY <2>2, <3>4, AskStep, QueryStep, AddStep, CheckStep, SwapStep,
             PickStep, CrashStep DEF Serve
        <4>2. UNCHANGED <<active, buf, age>>
          BY <2>2, <3>4 DEF Serve, Ask, Query, Add, Check, Swap, Pick, Crash, history
        <4> QED
          BY <4>1, <4>2, QuietRecent
      <3> QED
        BY <3>1, <3>2, <3>3, <3>4
    <2>3. CASE Tick \/ UNCHANGED vars
      BY <2>1, <2>3 DEF Tick, vars, history
    <2> QED
      BY <2>2, <2>3 DEF Next
  <1> QED
    BY <1>1, <1>2, KeepCorrect, PTL DEF Spec
-----------------------------------------------------------------------------
(* The state file. *)

\* One process saves at a time, and only the parent while it restarts.
OneSaves ==
    /\ \A s, t \in Savers : spc[s] # "idle" /\ spc[t] # "idle" => s = t
    /\ spc[Parent] # "idle" => boot = "save"
    /\ \A s \in Savers : s # Parent /\ spc[s] # "idle" => boot = "up"

\* The temporary name never leads to a file that <path> leads to, now or after
\* a crash, and the file that is being written is the one it leads to.
Apart ==
    /\ dir["tmp"] # NoInode => dir["tmp"] # dir["path"] /\ dir["tmp"] # sdir["path"]
    /\ sdir["tmp"] # NoInode => sdir["tmp"] # sdir["path"]
    /\ \A s \in Savers : spc[s] \in {"write", "sync", "rename"} =>
           fd[s] # NoInode /\ fd[s] = dir["tmp"]

\* What an inode holds is a snapshot, all of which is on the disk.
OnDisk(i) == synced[i] = cache[i] /\ cache[i] \in Nat

\* The files <path> leads to are on the disk, and so is the file that is
\* about to be renamed.
WholeFiles ==
    /\ dir["path"] # NoInode => OnDisk(dir["path"])
    /\ sdir["path"] # NoInode => OnDisk(sdir["path"])
    /\ \A s \in Savers :
           /\ spc[s] \in {"sync", "rename"} => cache[fd[s]] = snap[s]
           /\ spc[s] = "rename" => synced[fd[s]] = snap[s]
           /\ spc[s] = "syncdir" => dir["path"] # NoInode /\ cache[dir["path"]] = snap[s]

\* From what is on the disk to what is being saved to what is in memory,
\* each is as new as the one before.
Newer ==
    /\ durable <= Loaded(sdir, synced)
    /\ Loaded(sdir, synced) <= Loaded(dir, cache)
    /\ counted <= Loaded(dir, cache)
    /\ Loaded(dir, cache) <= mem
    /\ mem <= last
    /\ \A s \in Savers : spc[s] # "idle" => Loaded(dir, cache) <= snap[s] /\ snap[s] <= mem

StateInv == StateTypeOK /\ OneSaves /\ Apart /\ WholeFiles /\ Newer

\* The invariant at the start.
LEMMA StateInvInit == StateInit => StateInv
  BY StateAssumption DEF StateInit, StateInv, StateTypeOK, OneSaves, Apart, WholeFiles, Newer,
     Loaded, Names, SaveSteps, Empty, OnDisk

\* What is read of a directory is a number.
LEMMA LoadedNat ==
    ASSUME NEW d, NEW c \in [Inode -> Int], d["path"] \in Inode \cup {NoInode}
    PROVE  Loaded(d, c) \in Nat
  BY DEF Loaded

-----------------------------------------------------------------------------
(***************************************************************************)
(* Each step keeps the types.                                              *)
(***************************************************************************)

\* Types are kept.
LEMMA StateTypeStep == StateInv /\ [StateNext]_stateVars => StateTypeOK'
  <1> SUFFICES ASSUME StateInv, [StateNext]_stateVars PROVE StateTypeOK'
    OBVIOUS
  <1> USE StateAssumption DEF StateTypeOK, saved, diskVars, SaveSteps, Names
  <1>0. StateTypeOK
    BY DEF StateInv
  <1>1. CASE Update
    BY <1>0, <1>1 DEF Update
  <1>2. ASSUME NEW s \in Savers, Save(s) PROVE StateTypeOK'
    <2>1. CASE Snapshot(s)
      BY <1>0, <2>1 DEF Snapshot
    <2>2. CASE SkipSave(s)
      BY <1>0, <2>2 DEF SkipSave, Fault, AfterSave
    <2>3. CASE Open(s)
      BY <1>0, <2>3 DEF Open, Empty
    <2>4. CASE Write(s)
      <3>1. snap[s] \in Int
        BY <1>0
      <3>2. cache' \in [Inode -> Int]
        BY <1>0, <2>4, <3>1 DEF Write
      <3>3. spc' \in [Savers -> SaveSteps]
        BY <1>0, <2>4 DEF Write
      <3> QED
        BY <1>0, <2>4, <3>2, <3>3 DEF Write
    <2>5. CASE Sync(s)
      BY <1>0, <2>5 DEF Sync
    <2>6. CASE Rename(s)
      BY <1>0, <2>6 DEF Rename
    <2>7. CASE SyncDir(s)
      BY <1>0, <2>7 DEF SyncDir, Fault, AfterSave, End, AsNewAs
    <2>8. CASE Fail(s)
      BY <1>0, <2>8 DEF Fail, Fault, AfterSave, End, Short
    <2>9. CASE Kill(s)
      BY <1>0, <2>9 DEF Kill, Fault, End
    <2> QED
      BY <1>2, <2>1, <2>2, <2>3, <2>4, <2>5, <2>6, <2>7, <2>8, <2>9 DEF Save
  <1>3. CASE Restart
    BY <1>0, <1>3 DEF Restart
  <1>4. CASE Load
    BY <1>0, <1>4, LoadedNat DEF Load
  <1>5. CASE WriteBack
    BY <1>0, <1>5 DEF WriteBack, Short
  <1>6. CASE PowerLoss(dir, cache)
    BY <1>0, <1>6, LoadedNat DEF PowerLoss, Fault
  <1>7. CASE PowerLoss(sdir, synced)
    BY <1>0, <1>7, LoadedNat DEF PowerLoss, Fault
  <1>8. CASE UNCHANGED stateVars
    BY <1>0, <1>8 DEF stateVars
  <1> QED
    BY <1>1, <1>2, <1>3, <1>4, <1>5, <1>6, <1>7, <1>8 DEF StateNext

-----------------------------------------------------------------------------
(***************************************************************************)
(* Each step keeps the invariant.                                          *)
(***************************************************************************)

\* The invariant is kept when no save of a child overlaps a restart.
LEMMA StateInvStep == Exclusive /\ StateInv /\ [StateNext]_stateVars => StateInv'
  <1> SUFFICES ASSUME Exclusive, StateInv, [StateNext]_stateVars PROVE StateInv'
    OBVIOUS
  <1>0. /\ StateTypeOK /\ StateTypeOK' /\ Exclusive /\ Parent \in Savers /\ NoInode \notin Inode
        /\ OneSaves /\ Apart /\ WholeFiles /\ Newer
    BY StateTypeStep, StateAssumption DEF StateInv
  <1> USE DEF StateTypeOK, saved, diskVars, Names
  <1>1. ASSUME Update PROVE OneSaves' /\ Apart' /\ WholeFiles' /\ Newer'
    <2> USE DEF Update
    <2>1. OneSaves'
      BY <1>0, <1>1 DEF OneSaves, Quiet
    <2>2. Apart'
      BY <1>0, <1>1 DEF Apart, Unlinked
    <2>3. WholeFiles'
      BY <1>0, <1>1 DEF WholeFiles, Apart, OnDisk, OneSaves
    <2>4. Newer'
      BY <1>0, <1>1 DEF Newer, WholeFiles, Apart, OnDisk, OneSaves, Loaded
    <2> QED
      BY <2>1, <2>2, <2>3, <2>4
  <1>2. ASSUME NEW s \in Savers, Snapshot(s) PROVE OneSaves' /\ Apart' /\ WholeFiles' /\ Newer'
    <2> USE DEF Snapshot
    <2>1. OneSaves'
      BY <1>0, <1>2 DEF OneSaves, Quiet
    <2>2. Apart'
      BY <1>0, <1>2 DEF Apart, Unlinked
    <2>3. WholeFiles'
      BY <1>0, <1>2 DEF WholeFiles, Apart, OnDisk, OneSaves
    <2>4. Newer'
      BY <1>0, <1>2 DEF Newer, WholeFiles, Apart, OnDisk, OneSaves, Loaded
    <2> QED
      BY <2>1, <2>2, <2>3, <2>4
  <1>3. ASSUME NEW s \in Savers, SkipSave(s) PROVE OneSaves' /\ Apart' /\ WholeFiles' /\ Newer'
    <2> USE DEF SkipSave, Fault, AfterSave
    <2>1. OneSaves'
      BY <1>0, <1>3 DEF OneSaves, Quiet
    <2>2. Apart'
      BY <1>0, <1>3 DEF Apart, Unlinked
    <2>3. WholeFiles'
      BY <1>0, <1>3 DEF WholeFiles, Apart, OnDisk, OneSaves
    <2>4. Newer'
      BY <1>0, <1>3 DEF Newer, WholeFiles, Apart, OnDisk, OneSaves, Loaded
    <2> QED
      BY <2>1, <2>2, <2>3, <2>4
  <1>4. ASSUME NEW s \in Savers, Open(s) PROVE OneSaves' /\ Apart' /\ WholeFiles' /\ Newer'
    <2> USE DEF Open, Unlinked, Empty
    <2>1. OneSaves'
      BY <1>0, <1>4 DEF OneSaves, Quiet
    <2>2. Apart'
      BY <1>0, <1>4 DEF Apart, Unlinked
    <2>3. WholeFiles'
      BY <1>0, <1>4 DEF WholeFiles, Apart, OnDisk, OneSaves
    <2>4. Newer'
      BY <1>0, <1>4 DEF Newer, WholeFiles, Apart, OnDisk, OneSaves, Loaded
    <2> QED
      BY <2>1, <2>2, <2>3, <2>4
  <1>5. ASSUME NEW s \in Savers, Write(s) PROVE OneSaves' /\ Apart' /\ WholeFiles' /\ Newer'
    <2> USE DEF Write
    <2>1. OneSaves'
      BY <1>0, <1>5 DEF OneSaves, Quiet
    <2>2. Apart'
      BY <1>0, <1>5 DEF Apart, Unlinked
    <2>3. WholeFiles'
      BY <1>0, <1>5 DEF WholeFiles, Apart, OnDisk, OneSaves
    <2>4. Newer'
      BY <1>0, <1>5 DEF Newer, WholeFiles, Apart, OnDisk, OneSaves, Loaded
    <2> QED
      BY <2>1, <2>2, <2>3, <2>4
  <1>6. ASSUME NEW s \in Savers, Sync(s) PROVE OneSaves' /\ Apart' /\ WholeFiles' /\ Newer'
    <2> USE DEF Sync
    <2>1. OneSaves'
      BY <1>0, <1>6 DEF OneSaves, Quiet
    <2>2. Apart'
      BY <1>0, <1>6 DEF Apart, Unlinked
    <2>3. WholeFiles'
      BY <1>0, <1>6 DEF WholeFiles, Apart, OnDisk, OneSaves
    <2>4. Newer'
      BY <1>0, <1>6 DEF Newer, WholeFiles, Apart, OnDisk, OneSaves, Loaded
    <2> QED
      BY <2>1, <2>2, <2>3, <2>4
  <1>7. ASSUME NEW s \in Savers, Rename(s) PROVE OneSaves' /\ Apart' /\ WholeFiles' /\ Newer'
    <2> USE DEF Rename
    <2>1. OneSaves'
      BY <1>0, <1>7 DEF OneSaves, Quiet
    <2>2. Apart'
      BY <1>0, <1>7 DEF Apart, OneSaves
    <2>3. WholeFiles'
      BY <1>0, <1>7 DEF WholeFiles, Apart, OnDisk, OneSaves
    <2>4. Newer'
      BY <1>0, <1>7 DEF Newer, WholeFiles, Apart, OnDisk, OneSaves, Loaded
    <2> QED
      BY <2>1, <2>2, <2>3, <2>4
  <1>8. ASSUME NEW s \in Savers, SyncDir(s) PROVE OneSaves' /\ Apart' /\ WholeFiles' /\ Newer'
    <2> USE DEF SyncDir, Fault, End, AfterSave, AsNewAs
    <2>1. OneSaves'
      BY <1>0, <1>8 DEF OneSaves, Quiet
    <2>2. Apart'
      BY <1>0, <1>8 DEF Apart, Unlinked
    <2>3. WholeFiles'
      BY <1>0, <1>8 DEF WholeFiles, Apart, OnDisk, OneSaves
    <2>4. Newer'
      BY <1>0, <1>8 DEF Newer, WholeFiles, Apart, OnDisk, OneSaves, Loaded
    <2> QED
      BY <2>1, <2>2, <2>3, <2>4
  <1>9. ASSUME NEW s \in Savers, Fail(s) PROVE OneSaves' /\ Apart' /\ WholeFiles' /\ Newer'
    <2> USE DEF Fail, Fault, End, AfterSave, Short
    <2>1. OneSaves'
      BY <1>0, <1>9 DEF OneSaves, Quiet
    <2>2. Apart'
      BY <1>0, <1>9 DEF Apart, OneSaves
    <2>3. WholeFiles'
      BY <1>0, <1>9 DEF WholeFiles, Apart, OnDisk, OneSaves
    <2>4. Newer'
      BY <1>0, <1>9 DEF Newer, WholeFiles, Apart, OnDisk, OneSaves, Loaded
    <2> QED
      BY <2>1, <2>2, <2>3, <2>4
  <1>10. ASSUME NEW s \in Savers, Kill(s) PROVE OneSaves' /\ Apart' /\ WholeFiles' /\ Newer'
    <2> USE DEF Kill, Fault, End
    <2>1. OneSaves'
      BY <1>0, <1>10 DEF OneSaves, Quiet
    <2>2. Apart'
      BY <1>0, <1>10 DEF Apart, Unlinked
    <2>3. WholeFiles'
      BY <1>0, <1>10 DEF WholeFiles, Apart, OnDisk, OneSaves
    <2>4. Newer'
      BY <1>0, <1>10 DEF Newer, WholeFiles, Apart, OnDisk, OneSaves, Loaded
    <2> QED
      BY <2>1, <2>2, <2>3, <2>4
  <1>11. ASSUME Restart PROVE OneSaves' /\ Apart' /\ WholeFiles' /\ Newer'
    <2> USE DEF Restart
    <2>1. OneSaves'
      BY <1>0, <1>11 DEF OneSaves, Quiet
    <2>2. Apart'
      BY <1>0, <1>11 DEF Apart, Unlinked
    <2>3. WholeFiles'
      BY <1>0, <1>11 DEF WholeFiles, Apart, OnDisk, OneSaves
    <2>4. Newer'
      BY <1>0, <1>11 DEF Newer, WholeFiles, Apart, OnDisk, OneSaves, Loaded
    <2> QED
      BY <2>1, <2>2, <2>3, <2>4
  <1>12. ASSUME Load PROVE OneSaves' /\ Apart' /\ WholeFiles' /\ Newer'
    <2> USE DEF Load
    <2>1. OneSaves'
      BY <1>0, <1>12 DEF OneSaves, Quiet
    <2>2. Apart'
      BY <1>0, <1>12 DEF Apart, Unlinked
    <2>3. WholeFiles'
      BY <1>0, <1>12 DEF WholeFiles, Apart, OnDisk, OneSaves
    <2>4. Newer'
      BY <1>0, <1>12 DEF Newer, WholeFiles, Apart, OnDisk, OneSaves, Loaded
    <2> QED
      BY <2>1, <2>2, <2>3, <2>4
  <1>13. ASSUME WriteBack PROVE OneSaves' /\ Apart' /\ WholeFiles' /\ Newer'
    <2> USE DEF WriteBack, Short
    <2>1. OneSaves'
      BY <1>0, <1>13 DEF OneSaves, Quiet
    <2>2. Apart'
      BY <1>0, <1>13 DEF Apart, Unlinked
    <2>3. WholeFiles'
      BY <1>0, <1>13 DEF WholeFiles, Apart, OnDisk, OneSaves
    <2>4. Newer'
      BY <1>0, <1>13 DEF Newer, WholeFiles, Apart, OnDisk, OneSaves, Loaded
    <2> QED
      BY <2>1, <2>2, <2>3, <2>4
  <1>14. ASSUME PowerLoss(dir, cache) PROVE OneSaves' /\ Apart' /\ WholeFiles' /\ Newer'
    <2> USE DEF PowerLoss, Fault
    <2>1. OneSaves'
      BY <1>0, <1>14 DEF OneSaves, Quiet
    <2>2. Apart'
      BY <1>0, <1>14 DEF Apart, Unlinked
    <2>3. WholeFiles'
      BY <1>0, <1>14 DEF WholeFiles, Apart, OnDisk, OneSaves
    <2>4. Newer'
      BY <1>0, <1>14 DEF Newer, WholeFiles, Apart, OnDisk, OneSaves, Loaded
    <2> QED
      BY <2>1, <2>2, <2>3, <2>4
  <1>15. ASSUME PowerLoss(sdir, synced) PROVE OneSaves' /\ Apart' /\ WholeFiles' /\ Newer'
    <2> USE DEF PowerLoss, Fault
    <2>1. OneSaves'
      BY <1>0, <1>15 DEF OneSaves, Quiet
    <2>2. Apart'
      BY <1>0, <1>15 DEF Apart, Unlinked
    <2>3. WholeFiles'
      BY <1>0, <1>15 DEF WholeFiles, Apart, OnDisk, OneSaves
    <2>4. Newer'
      BY <1>0, <1>15 DEF Newer, WholeFiles, Apart, OnDisk, OneSaves, Loaded
    <2> QED
      BY <2>1, <2>2, <2>3, <2>4
  <1>16. ASSUME UNCHANGED stateVars PROVE OneSaves' /\ Apart' /\ WholeFiles' /\ Newer'
    <2> USE DEF stateVars
    <2>1. OneSaves'
      BY <1>0, <1>16 DEF OneSaves, Quiet
    <2>2. Apart'
      BY <1>0, <1>16 DEF Apart, Unlinked
    <2>3. WholeFiles'
      BY <1>0, <1>16 DEF WholeFiles, Apart, OnDisk, OneSaves
    <2>4. Newer'
      BY <1>0, <1>16 DEF Newer, WholeFiles, Apart, OnDisk, OneSaves, Loaded
    <2> QED
      BY <2>1, <2>2, <2>3, <2>4
  <1> QED
    BY <1>0, <1>1, <1>2, <1>3, <1>4, <1>5, <1>6, <1>7, <1>8, <1>9, <1>10, <1>11, <1>12, <1>13, <1>14, <1>15, <1>16 DEF StateInv, StateNext, Save

-----------------------------------------------------------------------------
(***************************************************************************)
(* What follows when no save of a child overlaps a restart.                *)
(***************************************************************************)

\* The invariant holds throughout.
THEOREM StateInvariant == Exclusive => (StateSpec => []StateInv)
  <1> SUFFICES ASSUME Exclusive PROVE StateSpec => []StateInv
    OBVIOUS
  <1>1. StateInv /\ [StateNext]_stateVars => StateInv'
    BY StateInvStep
  <1> QED
    BY StateInvInit, <1>1, PTL DEF StateSpec

\* Whenever the power fails, <path> leads to a whole snapshot or to nothing
\* (bs_state_save: write, sync and only then rename).
THEOREM StateDiskUsable == Exclusive => (StateSpec => []DiskUsable)
  <1>1. StateInv => DiskUsable
    BY DEF StateInv, StateTypeOK, WholeFiles, OnDisk, DiskUsable, Names
  <1> QED
    BY <1>1, StateInvariant, PTL

\* Whenever the power fails, what is found is no older than the last save
\* whose directory was synced (bs_fsync_parent_dir).
THEOREM StateDurable == Exclusive => (StateSpec => []DurableOnDisk)
  <1>1. StateInv => DurableOnDisk
    BY DEF StateInv, Newer, DurableOnDisk
  <1> QED
    BY <1>1, StateInvariant, PTL

\* A restart starts from the newest snapshot counted as saved, or a newer one
\* (bs_state_load after the hand-off save).
THEOREM StateSurvives == Exclusive => (StateSpec => SurvivesRestart)
  <1>1. StateInv /\ [StateNext]_stateVars => [Load => mem' >= counted]_stateVars
    <2> SUFFICES ASSUME StateInv, Load PROVE mem' >= counted
      OBVIOUS
    <2>1. Loaded(dir, cache) \in Nat
      BY LoadedNat DEF StateInv, StateTypeOK, Names
    <2> QED
      BY <2>1 DEF Load, StateInv, StateTypeOK, Newer
  <1> QED
    BY <1>1, StateInvariant, PTL DEF StateSpec, SurvivesRestart

\* Without a crash the state file never goes back (bs_state_save).
THEOREM StateNeverBack == Exclusive => (StateSpec => NeverBack)
  <1> DEFINE Forward == Loaded(dir, cache)' >= Loaded(dir, cache)
  <1>1. ASSUME StateInv, StateNext, ~PowerLoss(dir, cache), ~PowerLoss(sdir, synced) PROVE Forward
    <2>0. StateTypeOK /\ StateTypeOK' /\ OneSaves /\ Apart /\ WholeFiles /\ Newer
      BY <1>1, StateTypeStep DEF StateInv
    <2>1. Loaded(dir, cache) \in Nat
      BY <2>0, LoadedNat DEF StateTypeOK, Names
    <2>2. CASE UNCHANGED <<dir, cache>>
      BY <2>1, <2>2 DEF Loaded
    <2> USE DEF StateTypeOK, Names
    <2>3. ASSUME NEW s \in Savers, Open(s) \/ Write(s) \/ Fail(s) PROVE Forward
      <3>1. dir'["path"] = dir["path"] /\ (dir["path"] # NoInode => cache'[dir["path"]] = cache[dir["path"]])
        BY <2>0, <2>3, StateAssumption DEF Open, Write, Fail, Apart, Unlinked
      <3> QED
        BY <2>1, <3>1 DEF Loaded
    <2>4. ASSUME NEW s \in Savers, Rename(s) PROVE Forward
      <3>1. cache'[dir'["path"]] = snap[s] /\ dir'["path"] # NoInode /\ snap[s] \in Nat
        BY <2>0, <2>4, StateAssumption DEF Rename, Apart, WholeFiles
      <3>2. Loaded(dir, cache) <= snap[s]
        BY <2>0, <2>4 DEF Rename, Newer
      <3> QED
        BY <2>1, <3>1, <3>2 DEF Loaded
    <2>5. ASSUME NEW s \in Savers, Save(s), ~(Open(s) \/ Write(s) \/ Fail(s) \/ Rename(s))
          PROVE UNCHANGED <<dir, cache>>
      BY <2>5 DEF Save, Snapshot, SkipSave, Sync, SyncDir, Kill, diskVars
    <2>6. Update \/ Restart \/ Load \/ WriteBack => UNCHANGED <<dir, cache>>
      BY DEF Update, Restart, Load, WriteBack, diskVars
    <2> QED
      BY <1>1, <2>2, <2>3, <2>4, <2>5, <2>6 DEF StateNext
  <1>2. StateInv /\ [StateNext]_stateVars
        => [~(PowerLoss(dir, cache) \/ PowerLoss(sdir, synced)) => Forward]_stateVars
    BY <1>1
  <1> QED
    BY <1>2, StateInvariant, PTL DEF StateSpec, NeverBack
=============================================================================
