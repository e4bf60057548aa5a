---------------------------- MODULE NonceRegister ----------------------------
(***************************************************************************)
(* What the nonce table promises: a challenge is issued with an expiry,    *)
(* is redeemed at most once before it expires, and is forgotten no sooner  *)
(* than that.  Redemptions at or after the expiry are not recorded.        *)
(***************************************************************************)
EXTENDS Integers

CONSTANTS Nonce, TTLs

VARIABLES now, exp, spent

Init == now = 1 /\ exp = [n \in Nonce |-> 0] /\ spent = {}

Issue(n, ttl) ==
    /\ exp[n] = 0
    /\ exp' = [exp EXCEPT ![n] = now + ttl]
    /\ UNCHANGED <<now, spent>>

Redeem(n) ==
    /\ n \notin spent
    /\ now < exp[n]
    /\ spent' = spent \cup {n}
    /\ UNCHANGED <<now, exp>>

Tick ==
    /\ now' = now + 1
    /\ spent' = {n \in spent : now' < exp[n]}
    /\ UNCHANGED exp

Next ==
    \/ \E n \in Nonce : Redeem(n) \/ \E ttl \in TTLs : Issue(n, ttl)
    \/ Tick

Spec == Init /\ [][Next]_<<now, exp, spent>>
=============================================================================
